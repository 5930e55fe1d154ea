---------------------------- MODULE TypegenProofs ----------------------------
(***************************************************************************)
(* The types generated from a Prisma schema are those the decoder delivers, *)
(* for every set of names, fields and defaults and for schemas of any       *)
(* length, as long as no default has two slashes in it.                     *)
(*                                                                          *)
(* What the loops of the parser push is compared with what is declared,     *)
(* turn by turn (PushedInStep, PaddedPushed).  A line of a block is quiet:  *)
(* the scan is as deep after it as before and never less deep within it,    *)
(* since a brace stands only between quotes.  So a block ends at its own    *)
(* brace (BlockTaken, BlockPassed, BlocksFound), and each of its lines      *)
(* gives the column, the value or the table that was declared (FieldRead,   *)
(* ValueRead, TagRead).                                                     *)
(***************************************************************************)
EXTENDS Typegen, SequenceTheorems, WellFoundedInduction, TLAPS

(* What holds of 0 and of each number after one it holds of, holds up to n. *)
LEMMA UpTo ==
    ASSUME NEW n \in Nat, NEW T, 0 \in T, \A i \in 1..n : i - 1 \in T => i \in T
    PROVE  0..n \subseteq T
  <1> DEFINE Less == {ss \in Nat \X Nat : ss[1] < ss[2]}
             Out == (0..n) \ T
  <1>1. OpToRel(<, Nat) = Less
    BY DEF OpToRel
  <1>2. IsWellFoundedOn(Less, Nat)
    BY <1>1, NatLessThanWellFounded
  <1> SUFFICES ASSUME Out # {} PROVE FALSE
    OBVIOUS
  <1>3. Out \subseteq Nat
    OBVIOUS
  <1>4. PICK x \in Out : \A y \in Out : ~ (<<y, x>> \in Less)
    <2> HIDE DEF Less, Out
    <2> QED BY <1>2, <1>3, WFMin
  <1>5. x \in 1..n
    OBVIOUS
  <1>6. x - 1 \in 0..n /\ x - 1 \in Nat /\ x \in Nat /\ x - 1 < x
    BY <1>5
  <1>7. x - 1 \notin Out
    BY <1>4, <1>6
  <1> QED BY <1>5, <1>6, <1>7

-----------------------------------------------------------------------------
(* What a loop pushes.                                                     *)

\* h[i] is what a loop has after its i-th turn, which makes f[<<x, i>>] of x.
Loop(h, n, X, a, f) ==
    /\ h \in [0..n -> X]
    /\ h[0] = a
    /\ \A i \in 1..n : h[i] = f[<<h[i - 1], i>>]

LEMMA LoopRuns ==
    ASSUME NEW n \in Nat, NEW X, NEW a \in X, NEW f \in [X \X (1..n) -> X]
    PROVE  \E h : Loop(h, n, X, a, f)
  <1> DEFINE Runs(h, k) == Loop(h, k, X, a, f)
             T == {k \in Nat : \E h : Runs(h, k)}
  <1>1. 0 \in T
    <2> DEFINE h == [i \in 0..0 |-> a]
    <2>1. Runs(h, 0)
      BY DEF Loop
    <2> QED BY <2>1
  <1>2. ASSUME NEW k \in 1..n, k - 1 \in T PROVE k \in T
    <2>0. PICK h : Runs(h, k - 1)
      BY <1>2
    <2>1. h \in [0..(k - 1) -> X] /\ h[0] = a /\ \A i \in 1..(k - 1) : h[i] = f[<<h[i - 1], i>>]
      BY <2>0 DEF Loop
    <2> DEFINE v == f[<<h[k - 1], k>>]
               g == [i \in 0..k |-> IF i = k THEN v ELSE h[i]]
    <2>2. k - 1 \in 0..(k - 1) /\ h[k - 1] \in X /\ k \in 1..n /\ k \in Nat
      BY <2>1
    <2>3. v \in X
      BY <2>2
    <2> HIDE DEF v
    <2>4. \A i \in 0..(k - 1) : g[i] = h[i] /\ h[i] \in X /\ i # k /\ i \in 0..k
      BY <2>1, <2>2
    <2>5. g[k] = v /\ g \in [0..k -> X]
      <3>1. g[k] = v
        BY <2>2
      <3>2. ASSUME NEW i \in 0..k PROVE g[i] \in X
        <4>1. CASE i = k
          BY <2>3, <3>1, <4>1
        <4>2. CASE i # k
          <5>1. i \in 0..(k - 1)
            BY <2>2, <4>2
          <5> QED BY <2>4, <5>1
        <4> QED BY <4>1, <4>2
      <3> QED BY <3>1, <3>2
    <2>6. g[0] = a
      BY <2>1, <2>2, <2>4
    <2> HIDE DEF g
    <2>7. ASSUME NEW i \in 1..k PROVE g[i] = f[<<g[i - 1], i>>]
      <3>1. CASE i = k
        BY <2>2, <2>4, <2>5, <3>1 DEF v
      <3>2. CASE i # k
        <4>1. i \in 0..(k - 1) /\ i - 1 \in 0..(k - 1) /\ i \in 1..(k - 1)
          BY <2>2, <3>2
        <4> QED BY <2>1, <2>4, <4>1
      <3> QED BY <3>1, <3>2
    <2> QED BY <2>2, <2>5, <2>6, <2>7 DEF Loop
  <1> HIDE DEF Runs
  <1>3. 0..n \subseteq T
    <2> HIDE DEF T
    <2> QED BY <1>1, <1>2, UpTo
  <1>4. PICK h : Runs(h, n)
    <2>1. n \in 0..n
      OBVIOUS
    <2> QED BY <1>3, <2>1
  <1> QED BY <1>4, Zenon DEF Runs

\* h[i] is the first i sequences of s, one after the other.
Joined(h, s, S) ==
    /\ h[0] = <<>>
    /\ \A i \in 1..Len(s) : h[i] = h[i - 1] \o s[i]
    /\ \A i \in 0..Len(s) : h[i] \in Seq(S)
    /\ FlattenSeq(s) = h[Len(s)]

LEMMA Flattening ==
    ASSUME NEW S, NEW s \in Seq(Seq(S))
    PROVE  \E h : Joined(h, s, S)
  <1> DEFINE n == Len(s)
             X == Seq(S)
             f == [p \in X \X (1..n) |-> p[1] \o s[p[2]]]
  <1>1. n \in Nat /\ <<>> \in X /\ f \in [X \X (1..n) -> X]
    OBVIOUS
  <1>2. PICK h \in [0..n -> X] : h[0] = <<>> /\ \A i \in 1..n : h[i] = f[<<h[i - 1], i>>]
    <2> HIDE DEF X, f, n
    <2>1. PICK h : Loop(h, n, X, <<>>, f)
      BY <1>1, LoopRuns
    <2> QED BY <2>1 DEF Loop
  <1>3. ASSUME NEW i \in 1..n PROVE h[i] = h[i - 1] \o s[i]
    <2>1. i - 1 \in 0..n
      BY <1>1
    <2>2. <<h[i - 1], i>> \in X \X (1..n)
      BY <2>1
    <2> QED BY <1>2, <2>2
  <1> HIDE DEF f
  <1>a. n # 0 => h[1] = s[1]
    <2> SUFFICES ASSUME n # 0 PROVE h[1] = s[1]
      OBVIOUS
    <2>1. 1 \in 1..n /\ s[1] \in Seq(S)
      BY <1>1
    <2>2. h[1] = h[1 - 1] \o s[1]
      BY <1>3, <2>1
    <2>3. h[1] = <<>> \o s[1]
      <3>1. 1 - 1 = 0
        OBVIOUS
      <3> QED BY <1>2, <2>2, <3>1, Zenon
    <2> HIDE DEF X, n
    <2> QED BY <2>1, <2>3, ConcatEmptySeq
  <1>4. FlattenSeq(s) = h[n]
    <2>1. CASE n = 0
      BY <1>2, <2>1 DEF FlattenSeq
    <2>2. CASE n # 0
      <3> DEFINE Turn(v) == [i \in 1..Len(s) |-> IF i = 1 THEN s[i] ELSE v[i - 1] \o s[i]]
                 w == [i \in 1..n |-> h[i]]
                 g == CHOOSE u : u = Turn(u)
      <3>1. FlattenSeq(s) = g[n]
        BY <2>2, Zenon DEF FlattenSeq
      <3>2. w = Turn(w)
        <4>1. ASSUME NEW i \in 1..n PROVE h[i] = IF i = 1 THEN s[i] ELSE w[i - 1] \o s[i]
          <5>1. CASE i = 1
            BY <1>a, <5>1
          <5>2. CASE i # 1
            <6>1. w[i - 1] = h[i - 1]
              BY <5>2
            <6> QED BY <1>3, <5>2, <6>1
          <5> QED BY <5>1, <5>2
        <4> QED BY <4>1
      <3>3. g = Turn(g)
        <4> HIDE DEF Turn, w
        <4> QED BY <3>2, Zenon
      <3> HIDE DEF g
      <3> DEFINE T == {i \in 0..n : i = 0 \/ g[i] = h[i]}
      <3>4. 0 \in T
        BY <1>1
      <3>5. ASSUME NEW i \in 1..n, i - 1 \in T PROVE i \in T
        <4>1. g[i] = IF i = 1 THEN s[i] ELSE g[i - 1] \o s[i]
          <5>1. g[i] = Turn(g)[i]
            <6> HIDE DEF Turn
            <6> QED BY <3>3
          <5> QED BY <5>1
        <4>2. CASE i = 1
          BY <1>a, <4>1, <4>2
        <4>3. CASE i # 1
          <5>1. g[i - 1] = h[i - 1]
            BY <3>5, <4>3
          <5>2. g[i] = h[i - 1] \o s[i]
            BY <4>1, <4>3, <5>1
          <5>3. i \in 0..n
            OBVIOUS
          <5> QED BY <1>3, <5>2, <5>3
        <4> QED BY <4>2, <4>3
      <3>6. 0..n \subseteq T
        <4> HIDE DEF T, Turn
        <4> QED BY <1>1, <3>4, <3>5, UpTo
      <3>7. n \in T
        <4>1. n \in 0..n
          BY <1>1
        <4> QED BY <3>6, <4>1
      <3> QED BY <2>2, <3>1, <3>7
    <2> QED BY <2>1, <2>2
  <1> QED BY <1>2, <1>3, <1>4 DEF Joined

\* What is pushed for those of x that are kept.
Pushed(keep, x) == [k \in DOMAIN x |-> IF keep[k] THEN <<x[k]>> ELSE <<>>]

(* One more at the end: what is pushed when its turn comes.                *)
LEMMA OneMorePushed ==
    ASSUME NEW S, NEW s \in Seq(S), NEW e \in S
    PROVE  /\ s \o <<e>> \in Seq(S)
           /\ Len(s \o <<e>>) = Len(s) + 1
           /\ \A i \in 1..Len(s) : (s \o <<e>>)[i] = s[i]
           /\ (s \o <<e>>)[Len(s) + 1] = e
           /\ s \o <<>> = s
  <1>1. Len(s) \in Nat /\ <<e>> \in Seq(S) /\ Len(<<e>>) = 1 /\ <<e>>[1] = e
    OBVIOUS
  <1> QED BY <1>1

\* F and G are what is pushed of x and of y for those that are kept.
InStep(n, keep, x, y, F, G) ==
    /\ Len(F) \in Nat /\ DOMAIN F = 1..Len(F) /\ DOMAIN G = 1..Len(F)
    /\ F = [i \in 1..Len(F) |-> F[i]] /\ G = [i \in 1..Len(F) |-> G[i]]
    /\ \A i \in 1..Len(F) : \E k \in 1..n : keep[k] /\ F[i] = x[k] /\ G[i] = y[k]
    /\ \A k \in 1..n : keep[k] => \E i \in 1..Len(F) : F[i] = x[k]

(* Of two loops over the same, what is pushed in one stands where what is  *)
(* pushed in the other does.                                               *)
LEMMA PushedInStep ==
    ASSUME NEW n \in Nat, NEW keep \in [1..n -> BOOLEAN],
           NEW x, DOMAIN x = 1..n, NEW y, DOMAIN y = 1..n,
           NEW F, F = FlattenSeq(Pushed(keep, x)), NEW G, G = FlattenSeq(Pushed(keep, y))
    PROVE  InStep(n, keep, x, y, F, G)
  <1> DEFINE X == {x[k] : k \in 1..n}
             Y == {y[k] : k \in 1..n}
             p == Pushed(keep, x)
             q == Pushed(keep, y)
  <1>1. /\ \A k \in 1..n : x[k] \in X /\ y[k] \in Y
        /\ \A k \in 1..n : p[k] = (IF keep[k] THEN <<x[k]>> ELSE <<>>) /\ q[k] = (IF keep[k] THEN <<y[k]>> ELSE <<>>)
    BY DEF Pushed
  <1> HIDE DEF X, Y
  <1>2. p \in Seq(Seq(X)) /\ Len(p) = n
    <2>1. ASSUME NEW k \in 1..n PROVE p[k] \in Seq(X)
      <3>1. p[k] = <<>> \/ p[k] = <<x[k]>>
        BY <1>1
      <3> HIDE DEF p
      <3>2. <<>> \in Seq(X) /\ <<x[k]>> \in Seq(X)
        BY <1>1
      <3> QED BY <3>1, <3>2
    <2>2. p = [k \in 1..n |-> p[k]]
      BY DEF Pushed
    <2> HIDE DEF p
    <2>3. p \in [1..n -> Seq(X)]
      BY <2>1, <2>2
    <2> QED BY <2>3
  <1>3. q \in Seq(Seq(Y)) /\ Len(q) = n
    <2>1. ASSUME NEW k \in 1..n PROVE q[k] \in Seq(Y)
      <3>1. q[k] = <<>> \/ q[k] = <<y[k]>>
        BY <1>1
      <3> HIDE DEF q
      <3>2. <<>> \in Seq(Y) /\ <<y[k]>> \in Seq(Y)
        BY <1>1
      <3> QED BY <3>1, <3>2
    <2>2. q = [k \in 1..n |-> q[k]]
      BY DEF Pushed
    <2> HIDE DEF q
    <2>3. q \in [1..n -> Seq(Y)]
      BY <2>1, <2>2
    <2> QED BY <2>3
  <1> HIDE DEF p, q
  <1>4. PICK h : Joined(h, p, X)
    BY <1>2, Flattening
  <1>5. PICK g : Joined(g, q, Y)
    BY <1>3, Flattening
  <1>6. /\ h[0] = <<>> /\ g[0] = <<>> /\ F = h[n] /\ G = g[n]
        /\ \A k \in 0..n : h[k] \in Seq(X) /\ g[k] \in Seq(Y)
        /\ \A k \in 1..n : h[k] = h[k - 1] \o p[k] /\ g[k] = g[k - 1] \o q[k]
    BY <1>2, <1>3, <1>4, <1>5 DEF Joined, p, q
  <1> DEFINE Stands(k) ==
                /\ Len(g[k]) = Len(h[k])
                /\ \A i \in 1..Len(h[k]) : \E j \in 1..n : keep[j] /\ h[k][i] = x[j] /\ g[k][i] = y[j]
                /\ \A j \in 1..k : keep[j] => \E i \in 1..Len(h[k]) : h[k][i] = x[j]
             T == {k \in 0..n : Stands(k)}
  <1>7. 0 \in T
    BY <1>6
  <1>8. ASSUME NEW k \in 1..n, k - 1 \in T PROVE k \in T
    <2> DEFINE a == h[k - 1]
               b == g[k - 1]
    <2>1. a \in Seq(X) /\ b \in Seq(Y) /\ k - 1 \in 0..n /\ k \in 0..n /\ x[k] \in X /\ y[k] \in Y
      <3>1. k - 1 \in 0..n /\ k \in 0..n
        OBVIOUS
      <3> QED BY <1>1, <1>6, <3>1
    <2>2. /\ Len(b) = Len(a)
          /\ \A i \in 1..Len(a) : \E j \in 1..n : keep[j] /\ a[i] = x[j] /\ b[i] = y[j]
          /\ \A j \in 1..(k - 1) : keep[j] => \E i \in 1..Len(a) : a[i] = x[j]
      BY <1>8
    <2>3. h[k] = a \o p[k] /\ g[k] = b \o q[k]
      BY <1>6
    <2> HIDE DEF a, b
    <2>4. CASE keep[k]
      <3>1. h[k] = a \o <<x[k]>> /\ g[k] = b \o <<y[k]>>
        BY <1>1, <2>3, <2>4
      <3>2. /\ Len(h[k]) = Len(a) + 1 /\ Len(g[k]) = Len(a) + 1 /\ Len(a) \in Nat
            /\ \A i \in 1..Len(a) : h[k][i] = a[i] /\ g[k][i] = b[i]
            /\ h[k][Len(a) + 1] = x[k] /\ g[k][Len(a) + 1] = y[k]
        <4>1. /\ Len(a \o <<x[k]>>) = Len(a) + 1 /\ (a \o <<x[k]>>)[Len(a) + 1] = x[k]
              /\ \A i \in 1..Len(a) : (a \o <<x[k]>>)[i] = a[i]
          BY <2>1, OneMorePushed
        <4>2. /\ Len(b \o <<y[k]>>) = Len(b) + 1 /\ (b \o <<y[k]>>)[Len(b) + 1] = y[k]
              /\ \A i \in 1..Len(b) : (b \o <<y[k]>>)[i] = b[i]
          BY <2>1, OneMorePushed
        <4>3. Len(a) \in Nat
          BY <2>1
        <4> QED BY <2>2, <3>1, <4>1, <4>2, <4>3
      <3>3. ASSUME NEW i \in 1..Len(h[k])
            PROVE  \E j \in 1..n : keep[j] /\ h[k][i] = x[j] /\ g[k][i] = y[j]
        <4>1. CASE i = Len(a) + 1
          BY <2>4, <3>2, <4>1
        <4>2. CASE i # Len(a) + 1
          <5>1. i \in 1..Len(a)
            BY <3>2, <4>2
          <5> QED BY <2>2, <3>2, <5>1
        <4> QED BY <4>1, <4>2
      <3>4. ASSUME NEW j \in 1..k, keep[j]
            PROVE  \E i \in 1..Len(h[k]) : h[k][i] = x[j]
        <4>1. CASE j = k
          <5>1. Len(a) + 1 \in 1..Len(h[k])
            BY <3>2
          <5> QED BY <3>2, <4>1, <5>1
        <4>2. CASE j # k
          <5>1. j \in 1..(k - 1)
            BY <4>2
          <5>2. PICK i \in 1..Len(a) : a[i] = x[j]
            BY <2>2, <3>4, <5>1
          <5>3. i \in 1..Len(h[k]) /\ h[k][i] = x[j]
            BY <3>2, <5>2
          <5> QED BY <5>3
        <4> QED BY <4>1, <4>2
      <3> QED BY <2>1, <3>2, <3>3, <3>4
    <2>5. CASE ~keep[k]
      <3>1. h[k] = a /\ g[k] = b
        BY <1>1, <2>1, <2>3, <2>5, OneMorePushed
      <3>2. \A j \in 1..k : keep[j] => j \in 1..(k - 1)
        BY <2>5
      <3> QED BY <2>1, <2>2, <3>1, <3>2
    <2> QED BY <2>4, <2>5
  <1>9. 0..n \subseteq T
    <2> HIDE DEF T
    <2> QED BY <1>7, <1>8, UpTo
  <1>10. n \in T
    <2>1. n \in 0..n
      OBVIOUS
    <2> QED BY <1>9, <2>1
  <1>11. Stands(n)
    BY <1>10
  <1>12. F \in Seq(X) /\ G \in Seq(Y)
    BY <1>6
  <1> HIDE DEF T
  <1>13. Len(F) \in Nat /\ DOMAIN F = 1..Len(F) /\ F = [i \in 1..Len(F) |-> F[i]]
    BY <1>12
  <1>14. Len(G) = Len(F) /\ DOMAIN G = 1..Len(G) /\ G = [i \in 1..Len(G) |-> G[i]]
    BY <1>6, <1>11, <1>12
  <1> QED BY <1>6, <1>11, <1>13, <1>14 DEF InStep

(* What is pushed for each is all there is.                                *)
LEMMA AllPushed ==
    ASSUME NEW n \in Nat, NEW x, DOMAIN x = 1..n
    PROVE  FlattenSeq([k \in 1..n |-> <<x[k]>>]) = [k \in 1..n |-> x[k]]
  <1> DEFINE X == {x[k] : k \in 1..n}
             p == [k \in 1..n |-> <<x[k]>>]
             z == [k \in 1..n |-> x[k]]
  <1>1. \A k \in 1..n : x[k] \in X
    OBVIOUS
  <1> HIDE DEF X
  <1>2. p \in Seq(Seq(X)) /\ Len(p) = n /\ \A k \in 1..n : p[k] = <<x[k]>>
    <2>1. p \in [1..n -> Seq(X)]
      BY <1>1
    <2> QED BY <2>1
  <1>3. z \in Seq(X) /\ Len(z) = n /\ \A k \in 1..n : z[k] = x[k]
    <2>1. z \in [1..n -> X]
      BY <1>1
    <2> QED BY <2>1
  <1> HIDE DEF p, z
  <1>4. PICK h : Joined(h, p, X)
    BY <1>2, Flattening
  <1>5. /\ h[0] = <<>> /\ FlattenSeq(p) = h[n]
        /\ \A k \in 0..n : h[k] \in Seq(X)
        /\ \A k \in 1..n : h[k] = h[k - 1] \o <<x[k]>>
    BY <1>2, <1>4 DEF Joined
  <1> DEFINE T == {k \in 0..n : Len(h[k]) = k /\ \A i \in 1..k : h[k][i] = x[i]}
  <1>6. 0 \in T
    BY <1>5
  <1>7. ASSUME NEW k \in 1..n, k - 1 \in T PROVE k \in T
    <2> DEFINE a == h[k - 1]
    <2>1. a \in Seq(X) /\ k \in 0..n /\ x[k] \in X /\ h[k] = a \o <<x[k]>>
      <3>1. k - 1 \in 0..n /\ k \in 0..n
        OBVIOUS
      <3> QED BY <1>1, <1>5, <3>1
    <2>2. Len(a) = k - 1 /\ \A i \in 1..(k - 1) : a[i] = x[i]
      BY <1>7
    <2> HIDE DEF a
    <2>3. Len(h[k]) = k /\ h[k][k] = x[k] /\ \A i \in 1..(k - 1) : h[k][i] = x[i]
      <3>1. (k - 1) + 1 = k
        OBVIOUS
      <3> QED BY <2>1, <2>2, <3>1, OneMorePushed
    <2>4. \A i \in 1..k : i = k \/ i \in 1..(k - 1)
      OBVIOUS
    <2> QED BY <2>1, <2>3, <2>4
  <1>8. 0..n \subseteq T
    <2> HIDE DEF T
    <2> QED BY <1>6, <1>7, UpTo
  <1>9. n \in T
    <2>1. n \in 0..n
      OBVIOUS
    <2> QED BY <1>8, <2>1
  <1>10. h[n] = z
    <2>1. h[n] \in Seq(X) /\ Len(h[n]) = n /\ \A i \in 1..n : h[n][i] = z[i]
      <3>1. n \in 0..n
        OBVIOUS
      <3> QED BY <1>3, <1>5, <1>9, <3>1
    <2> HIDE DEF T
    <2> QED BY <1>3, <2>1, SeqEqual
  <1> QED BY <1>5, <1>10 DEF p, z

(* Of lines of which the first and the last two are passed over, the lines *)
(* between are what is pushed.                                             *)
LEMMA PaddedPushed ==
    ASSUME NEW S, NEW s \in Seq(Seq(S)), NEW u, u \in Seq(Seq(S)), Len(u) = Len(s) + 3,
           u[1] = <<>>, u[Len(s) + 2] = <<>>, u[Len(s) + 3] = <<>>,
           \A k \in 1..Len(s) : u[k + 1] = s[k]
    PROVE  FlattenSeq(u) = FlattenSeq(s)
  <1> DEFINE n == Len(s)
  <1>1. n \in Nat
    OBVIOUS
  <1>2. PICK h : Joined(h, s, S)
    BY Flattening
  <1>3. PICK g : Joined(g, u, S)
    BY Flattening
  <1>4. /\ h[0] = <<>> /\ FlattenSeq(s) = h[n] /\ (\A k \in 0..n : h[k] \in Seq(S))
        /\ \A k \in 1..n : h[k] = h[k - 1] \o s[k]
    BY <1>2 DEF Joined
  <1>5. /\ g[0] = <<>> /\ FlattenSeq(u) = g[n + 3] /\ (\A k \in 0..(n + 3) : g[k] \in Seq(S))
        /\ \A k \in 1..(n + 3) : g[k] = g[k - 1] \o u[k]
    BY <1>3 DEF Joined
  <1>6. /\ u[1] = <<>> /\ u[n + 2] = <<>> /\ u[n + 3] = <<>>
        /\ \A k \in 1..n : u[k + 1] = s[k]
    OBVIOUS
  <1> HIDE DEF n
  <1>7. ASSUME NEW k \in 1..(n + 3), u[k] = <<>> PROVE g[k] = g[k - 1]
    <2>1. k - 1 \in 0..(n + 3)
      BY <1>1
    <2>2. g[k - 1] \in Seq(S) /\ g[k] = g[k - 1] \o <<>>
      BY <1>5, <1>7, <2>1
    <2> QED BY <2>2, ConcatEmptySeq
  <1> DEFINE T == {k \in 0..n : g[k + 1] = h[k]}
  <1>8. 0 \in T
    <2>1. 1 \in 1..(n + 3)
      BY <1>1
    <2>2. g[1] = g[1 - 1]
      BY <1>6, <1>7, <2>1
    <2> QED BY <1>1, <1>4, <1>5, <2>2
  <1>9. ASSUME NEW k \in 1..n, k - 1 \in T PROVE k \in T
    <2>1. k + 1 \in 1..(n + 3) /\ (k + 1) - 1 = k /\ (k - 1) + 1 = k /\ k \in 0..n
      BY <1>1
    <2>2. g[k] = h[k - 1]
      BY <1>9, <2>1
    <2>3. g[k + 1] = g[(k + 1) - 1] \o u[k + 1]
      BY <1>5, <2>1
    <2>4. g[k + 1] = h[k - 1] \o s[k]
      BY <1>6, <2>1, <2>2, <2>3
    <2> QED BY <1>4, <2>1, <2>4
  <1>10. 0..n \subseteq T
    <2> HIDE DEF T
    <2> QED BY <1>1, <1>8, <1>9, UpTo
  <1>11. g[n + 1] = h[n]
    <2>1. n \in 0..n
      BY <1>1
    <2> QED BY <1>10, <2>1
  <1>12. g[n + 2] = g[n + 1] /\ g[n + 3] = g[n + 2]
    <2>1. n + 2 \in 1..(n + 3) /\ n + 3 \in 1..(n + 3) /\ (n + 2) - 1 = n + 1 /\ (n + 3) - 1 = n + 2
      BY ONLY <1>1
    <2>2. g[n + 2] = g[(n + 2) - 1] /\ g[n + 3] = g[(n + 3) - 1]
      BY <1>6, <1>7, <2>1
    <2> QED BY <2>1, <2>2
  <1> QED BY <1>4, <1>5, <1>11, <1>12

-----------------------------------------------------------------------------
(* The scan of a line within a block.                                      *)

\* The words of a schema.
Word == STRING \cup Syntax \cup {EscapedQuote, "enum", "model", "mapped"}

ScanStates == [depth : Int, inString : BOOLEAN]
InString == [depth |-> 1, inString |-> TRUE]

Marks == {Quote, "{", "}"}

\* A line that ends as deep as it began and is nowhere less deep.
Quiet(line) ==
    /\ line \in Seq(Word)
    /\ \E m : /\ m[0] = Scanning(1) /\ m[Len(line)] = Scanning(1)
              /\ \A n \in 0..Len(line) : m[n] \in {Scanning(1), InString}
              /\ \A n \in 1..Len(line) : m[n] = Deeper(m[n - 1], line[n])

LEMMA DeeperOK ==
    ASSUME NEW scan \in ScanStates, NEW word
    PROVE  Deeper(scan, word) \in ScanStates
  <1>1. scan.depth \in Int /\ scan.depth + 1 \in Int /\ scan.depth - 1 \in Int
    BY DEF ScanStates
  <1>2. /\ [scan EXCEPT !.inString = ~@] \in ScanStates
        /\ [scan EXCEPT !.depth = @ + 1] \in ScanStates
        /\ [scan EXCEPT !.depth = @ - 1] \in ScanStates
    BY <1>1 DEF ScanStates
  <1> QED BY <1>2, Zenon DEF Deeper

LEMMA FirstScans ==
    /\ Scanning(0) \in ScanStates /\ Scanning(0).depth = 0
    /\ Scanning(1) \in ScanStates /\ Scanning(1).depth = 1 /\ ~Scanning(1).inString
    /\ InString \in ScanStates /\ InString.depth = 1 /\ InString.inString
  BY DEF ScanStates, Scanning, InString

LEMMA Changed ==
    ASSUME NEW o \in ScanStates
    PROVE  /\ [o EXCEPT !.inString = ~@] = [depth |-> o.depth, inString |-> ~o.inString]
           /\ [o EXCEPT !.depth = @ - 1] = [depth |-> o.depth - 1, inString |-> o.inString]
  <1>1. [o EXCEPT !.inString = ~@] = [depth |-> o.depth, inString |-> ~o.inString]
    BY DEF ScanStates
  <1>2. [o EXCEPT !.depth = @ - 1] = [depth |-> o.depth - 1, inString |-> o.inString]
    BY DEF ScanStates
  <1> QED BY <1>1, <1>2

LEMMA OneDeeper ==
    ASSUME NEW word
    PROVE  /\ word \notin Marks => Deeper(Scanning(1), word) = Scanning(1)
           /\ word = Quote => Deeper(Scanning(1), word) = InString /\ Deeper(InString, word) = Scanning(1)
           /\ word # Quote => Deeper(InString, word) = InString
           /\ word = "}" => Deeper(Scanning(1), word) = Scanning(0)
  <1>1. /\ Scanning(0) = [depth |-> 0, inString |-> FALSE]
        /\ Scanning(1) = [depth |-> 1, inString |-> FALSE]
        /\ InString = [depth |-> 1, inString |-> TRUE]
    BY Zenon DEF Scanning, InString
  <1>2. [Scanning(1) EXCEPT !.inString = ~@] = InString
    <2>1. [Scanning(1) EXCEPT !.inString = ~@] = [depth |-> Scanning(1).depth, inString |-> ~Scanning(1).inString]
      BY FirstScans, Changed, Zenon
    <2>2. Scanning(1).depth = 1 /\ Scanning(1).inString = FALSE
      BY <1>1
    <2> QED BY <1>1, <2>1, <2>2, Zenon
  <1>3. [InString EXCEPT !.inString = ~@] = Scanning(1)
    <2>1. [InString EXCEPT !.inString = ~@] = [depth |-> InString.depth, inString |-> ~InString.inString]
      BY FirstScans, Changed, Zenon
    <2>2. InString.depth = 1 /\ InString.inString = TRUE
      BY <1>1
    <2> QED BY <1>1, <2>1, <2>2, Zenon
  <1>4. [Scanning(1) EXCEPT !.depth = @ - 1] = Scanning(0)
    <2>1. [Scanning(1) EXCEPT !.depth = @ - 1] = [depth |-> Scanning(1).depth - 1, inString |-> Scanning(1).inString]
      BY FirstScans, Changed, Zenon
    <2>2. Scanning(1).depth - 1 = 0 /\ Scanning(1).inString = FALSE
      BY <1>1
    <2> QED BY <1>1, <2>1, <2>2, Zenon
  <1>5. Quote # "{" /\ Quote # "}" /\ "}" # "{"
    BY DEF Quote
  <1>6. word \notin Marks => Deeper(Scanning(1), word) = Scanning(1)
    BY Zenon DEF Deeper, Marks
  <1>7. word = Quote => Deeper(Scanning(1), word) = InString /\ Deeper(InString, word) = Scanning(1)
    <2>1. word = Quote => Deeper(Scanning(1), word) = [Scanning(1) EXCEPT !.inString = ~@]
      BY <1>5, Zenon DEF Deeper
    <2>2. word = Quote => Deeper(InString, word) = [InString EXCEPT !.inString = ~@]
      BY <1>5, Zenon DEF Deeper
    <2> QED BY <1>2, <1>3, <2>1, <2>2, Zenon
  <1>8. word # Quote => Deeper(InString, word) = InString
    BY FirstScans, Zenon DEF Deeper
  <1>9. word = "}" => Deeper(Scanning(1), word) = Scanning(0)
    BY <1>4, <1>5, FirstScans, Zenon DEF Deeper
  <1> QED BY <1>6, <1>7, <1>8, <1>9

LEMMA ScanRuns ==
    ASSUME NEW line \in Seq(Word), NEW from \in ScanStates
    PROVE  /\ Scan(line, from)[0] = from
           /\ \A n \in 1..Len(line) : Scan(line, from)[n] = Deeper(Scan(line, from)[n - 1], line[n])
  <1> DEFINE N == Len(line)
             X == ScanStates
             f == [p \in X \X (1..N) |-> Deeper(p[1], line[p[2]])]
             L(g) == [n \in 0..N |-> IF n = 0 THEN from ELSE Deeper(g[n - 1], line[n])]
             g == CHOOSE u : u = L(u)
  <1>1. N \in Nat
    OBVIOUS
  <1>2. f \in [X \X (1..N) -> X]
    BY DeeperOK
  <1>3. PICK h : Loop(h, N, X, from, f)
    <2> HIDE DEF N, f, X
    <2>1. from \in X
      BY DEF X
    <2> QED BY <1>1, <1>2, <2>1, LoopRuns
  <1>4. h \in [0..N -> X] /\ h[0] = from /\ \A n \in 1..N : h[n] = f[<<h[n - 1], n>>]
    BY <1>3 DEF Loop
  <1>5. \A n \in 1..N : h[n] = Deeper(h[n - 1], line[n])
    <2> SUFFICES ASSUME NEW n \in 1..N PROVE h[n] = Deeper(h[n - 1], line[n])
      OBVIOUS
    <2>1. n - 1 \in 0..N
      BY <1>1
    <2>2. <<h[n - 1], n>> \in X \X (1..N)
      BY <1>4, <2>1
    <2> QED BY <1>4, <2>2
  <1> HIDE DEF f, X
  <1>6. h = L(h)
    <2>1. \A n \in 0..N : h[n] = IF n = 0 THEN from ELSE Deeper(h[n - 1], line[n])
      BY <1>4, <1>5
    <2> QED BY <1>4, <2>1
  <1>7. g = L(g)
    <2> HIDE DEF L
    <2> QED BY <1>6, Zenon
  <1>8. Scan(line, from) = g
    BY Zenon DEF Scan
  <1> HIDE DEF g
  <1>9. g[0] = from /\ \A n \in 1..N : g[n] = Deeper(g[n - 1], line[n])
    <2>1. \A n \in 0..N : g[n] = IF n = 0 THEN from ELSE Deeper(g[n - 1], line[n])
      BY <1>7, Zenon
    <2> QED BY <1>1, <2>1
  <1> QED BY <1>8, <1>9

LEMMA QuietPlain ==
    ASSUME NEW line \in Seq(Word), \A n \in 1..Len(line) : line[n] \notin Marks
    PROVE  Quiet(line)
  <1> DEFINE k == Len(line)
             m == [n \in 0..k |-> Scanning(1)]
  <1>1. k \in Nat /\ \A n \in 1..k : line[n] \notin Marks
    OBVIOUS
  <1> HIDE DEF k
  <1>2. \A n \in 0..k : m[n] = Scanning(1)
    OBVIOUS
  <1> HIDE DEF m
  <1>3. ASSUME NEW n \in 1..k PROVE m[n] = Deeper(m[n - 1], line[n])
    <2>1. n - 1 \in 0..k /\ n \in 0..k
      BY <1>1
    <2> QED BY <1>1, <1>2, <2>1, OneDeeper
  <1>4. m[0] = Scanning(1) /\ m[k] = Scanning(1)
    BY <1>1, <1>2
  <1> QED BY <1>2, <1>3, <1>4 DEF Quiet, k

LEMMA QuietEmpty == Quiet(<<>>)
  <1> DEFINE s == <<>>
  <1>1. s \in Seq(Word) /\ Len(s) = 0
    OBVIOUS
  <1> HIDE DEF s
  <1>2. \A n \in 1..Len(s) : s[n] \notin Marks
    BY <1>1
  <1>3. Quiet(s)
    BY <1>1, <1>2, QuietPlain
  <1> QED BY <1>3 DEF s

LEMMA QuotedWords ==
    ASSUME NEW S, NEW words \in Seq(S), {Quote, ")"} \subseteq S
    PROVE  /\ InQuotes(words) \in Seq(S) /\ Len(InQuotes(words)) = Len(words) + 3
           /\ InQuotes(words)[1] = Quote /\ InQuotes(words)[Len(words) + 2] = Quote
           /\ InQuotes(words)[Len(words) + 3] = ")"
           /\ \A i \in 1..Len(words) : InQuotes(words)[i + 1] = words[i]
  <1> DEFINE a == <<Quote>>
             b == a \o words
             c == <<Quote, ")">>
  <1>1. a \in Seq(S) /\ Len(a) = 1 /\ a[1] = Quote /\ c \in Seq(S) /\ Len(c) = 2 /\ c[1] = Quote /\ c[2] = ")"
    <2>1. Quote \in S /\ ")" \in S
      OBVIOUS
    <2>2. a = <<Quote>> /\ c = <<Quote, ")">>
      OBVIOUS
    <2> HIDE DEF a, c
    <2>3. a \in Seq(S) /\ Len(a) = 1 /\ a[1] = Quote
      BY <2>1, <2>2
    <2>4. c \in Seq(S) /\ Len(c) = 2 /\ c[1] = Quote /\ c[2] = ")"
      BY <2>1, <2>2
    <2> QED BY <2>3, <2>4
  <1>2. Len(words) \in Nat
    OBVIOUS
  <1> HIDE DEF a, c
  <1>3. b \in Seq(S) /\ Len(b) = Len(words) + 1 /\ b[1] = Quote /\ \A i \in 1..Len(words) : b[i + 1] = words[i]
    <2>1. /\ b \in Seq(S) /\ Len(b) = Len(a) + Len(words)
          /\ \A i \in 1..(Len(a) + Len(words)) : b[i] = IF i <= Len(a) THEN a[i] ELSE words[i - Len(a)]
      BY <1>1, ConcatProperties
    <2> HIDE DEF b
    <2>2. \A i \in 1..Len(words) : i + 1 \in 1..(1 + Len(words)) /\ ~(i + 1 <= 1) /\ (i + 1) - 1 = i
      BY <1>2
    <2>3. 1 \in 1..(1 + Len(words)) /\ 1 <= 1
      BY <1>2
    <2> QED BY <1>1, <1>2, <2>1, <2>2, <2>3
  <1> HIDE DEF b
  <1>4. /\ b \o c \in Seq(S) /\ Len(b \o c) = Len(words) + 3 /\ (b \o c)[1] = Quote
        /\ (b \o c)[Len(words) + 2] = Quote /\ (b \o c)[Len(words) + 3] = ")"
        /\ \A i \in 1..Len(words) : (b \o c)[i + 1] = words[i]
    <2> DEFINE z == b \o c
               k == Len(words)
    <2>1. /\ z \in Seq(S) /\ Len(z) = Len(b) + Len(c)
          /\ \A i \in 1..(Len(b) + Len(c)) : z[i] = IF i <= Len(b) THEN b[i] ELSE c[i - Len(b)]
      BY <1>1, <1>3, ConcatProperties
    <2> HIDE DEF z
    <2>2. /\ 1 \in 1..(k + 3) /\ 1 <= k + 1 /\ (k + 1) + 2 = k + 3 /\ k + 2 \in 1..(k + 3) /\ k + 3 \in 1..(k + 3)
          /\ ~(k + 2 <= k + 1) /\ ~(k + 3 <= k + 1) /\ (k + 2) - (k + 1) = 1 /\ (k + 3) - (k + 1) = 2
          /\ \A i \in 1..k : i + 1 \in 1..(k + 3) /\ i + 1 <= k + 1
      BY <1>2
    <2>3. Len(b) = k + 1
      BY <1>3
    <2> HIDE DEF k
    <2>4. /\ z \in Seq(S) /\ Len(z) = k + 3 /\ z[1] = Quote /\ z[k + 2] = Quote /\ z[k + 3] = ")"
          /\ \A i \in 1..k : z[i + 1] = b[i + 1]
      BY <1>1, <1>3, <2>1, <2>2, <2>3
    <2> QED BY <1>3, <2>4 DEF z, k
  <1> QED BY <1>4 DEF a, b, c, InQuotes

LEMMA QuietQuoted ==
    ASSUME NEW words \in Seq(Word), \A i \in 1..Len(words) : words[i] # Quote
    PROVE  Quiet(InQuotes(words))
  <1> DEFINE q == InQuotes(words)
             k == Len(words)
             m == [n \in 0..(k + 3) |-> IF n \in 1..(k + 1) THEN InString ELSE Scanning(1)]
  <1>1. {Quote, ")"} \subseteq Word
    BY DEF Word, Syntax
  <1>2. k \in Nat /\ \A i \in 1..k : words[i] # Quote
    OBVIOUS
  <1>3. /\ q \in Seq(Word) /\ Len(q) = k + 3 /\ q[1] = Quote /\ q[k + 2] = Quote /\ q[k + 3] = ")"
        /\ \A i \in 1..k : q[i + 1] = words[i]
    BY <1>1, <1>2, QuotedWords
  <1> HIDE DEF q, k
  <1>4. \A n \in 0..(k + 3) : m[n] = IF n \in 1..(k + 1) THEN InString ELSE Scanning(1)
    OBVIOUS
  <1> HIDE DEF m
  <1>5. ASSUME NEW n \in 1..(k + 3) PROVE m[n] = Deeper(m[n - 1], q[n])
    <2>1. n \in 0..(k + 3) /\ n - 1 \in 0..(k + 3)
      BY <1>2
    <2>2. CASE n = 1
      <3>1. m[n] = InString /\ m[n - 1] = Scanning(1)
        BY <1>2, <1>4, <2>1, <2>2
      <3> QED BY <1>3, <2>2, <3>1, OneDeeper
    <2>3. CASE n \in 2..(k + 1)
      <3>1. m[n] = InString /\ m[n - 1] = InString
        BY <1>2, <1>4, <2>1, <2>3
      <3>2. q[n] # Quote
        <4>1. n - 1 \in 1..k /\ (n - 1) + 1 = n
          BY <1>2, <2>3
        <4>2. q[(n - 1) + 1] = words[n - 1]
          BY <1>3, <4>1
        <4> QED BY <1>2, <4>1, <4>2
      <3> QED BY <3>1, <3>2, OneDeeper
    <2>4. CASE n = k + 2
      <3>1. m[n] = Scanning(1) /\ m[n - 1] = InString
        BY <1>2, <1>4, <2>1, <2>4
      <3> QED BY <1>3, <2>4, <3>1, OneDeeper
    <2>5. CASE n = k + 3
      <3>1. m[n] = Scanning(1) /\ m[n - 1] = Scanning(1)
        BY <1>2, <1>4, <2>1, <2>5
      <3>2. q[n] \notin Marks
        BY <1>3, <2>5 DEF Quote, Marks
      <3> QED BY <3>1, <3>2, OneDeeper
    <2> QED BY <1>2, <2>2, <2>3, <2>4, <2>5
  <1>6. m[0] = Scanning(1) /\ m[Len(q)] = Scanning(1) /\ \A n \in 0..Len(q) : m[n] \in {Scanning(1), InString}
    BY <1>2, <1>3, <1>4
  <1>7. \A n \in 1..Len(q) : m[n] = Deeper(m[n - 1], q[n])
    BY <1>3, <1>5
  <1>8. Quiet(q)
    BY <1>3, <1>6, <1>7 DEF Quiet
  <1> QED BY <1>8 DEF q

LEMMA QuietBoth ==
    ASSUME NEW a, NEW b, Quiet(a), Quiet(b)
    PROVE  Quiet(a \o b)
  <1> DEFINE k == Len(a)
             l == Len(b)
             c == a \o b
  <1>1. /\ k \in Nat /\ l \in Nat /\ c \in Seq(Word) /\ Len(c) = k + l
        /\ \A n \in 1..k : c[n] = a[n]
        /\ \A n \in 1..l : c[k + n] = b[n]
    BY DEF Quiet
  <1> HIDE DEF c
  <1>2. PICK u : /\ u[0] = Scanning(1) /\ u[k] = Scanning(1)
                 /\ \A n \in 0..k : u[n] \in {Scanning(1), InString}
                 /\ \A n \in 1..k : u[n] = Deeper(u[n - 1], a[n])
    BY DEF Quiet
  <1>3. PICK v : /\ v[0] = Scanning(1) /\ v[l] = Scanning(1)
                 /\ \A n \in 0..l : v[n] \in {Scanning(1), InString}
                 /\ \A n \in 1..l : v[n] = Deeper(v[n - 1], b[n])
    BY DEF Quiet
  <1> HIDE DEF k, l
  <1> DEFINE m == [n \in 0..(k + l) |-> IF n <= k THEN u[n] ELSE v[n - k]]
  <1>4. /\ \A n \in 0..k : m[n] = u[n]
        /\ \A n \in 0..l : m[k + n] = v[n]
    <2>1. ASSUME NEW n \in 0..l PROVE m[k + n] = v[n]
      <3>1. k + n \in 0..(k + l) /\ (k + n) - k = n /\ (k + n <= k => n = 0 /\ k + n = k)
        BY <1>1
      <3> QED BY <1>2, <1>3, <3>1
    <2>2. \A n \in 0..k : n \in 0..(k + l)
      BY <1>1
    <2> QED BY <2>1, <2>2
  <1> HIDE DEF m
  <1>5. ASSUME NEW n \in 1..(k + l) PROVE m[n] = Deeper(m[n - 1], c[n])
    <2>1. CASE n <= k
      <3>1. n \in 1..k /\ n \in 0..k /\ n - 1 \in 0..k
        BY <1>1, <2>1
      <3> QED BY <1>1, <1>2, <1>4, <3>1
    <2>2. CASE n > k
      <3>1. PICK i \in 1..l : n = k + i
        <4>1. n - k \in 1..l /\ n = k + (n - k)
          BY <1>1, <2>2
        <4> QED BY <4>1
      <3>2. i - 1 \in 0..l /\ i \in 0..l /\ n - 1 = k + (i - 1)
        BY <1>1, <3>1
      <3>3. m[n] = v[i] /\ m[n - 1] = v[i - 1] /\ c[n] = b[i]
        BY <1>1, <1>4, <3>1, <3>2
      <3> QED BY <1>3, <3>1, <3>3
    <2> QED BY <1>1, <2>1, <2>2
  <1>6. ASSUME NEW n \in 0..(k + l) PROVE m[n] \in {Scanning(1), InString}
    <2>1. CASE n <= k
      <3>1. n \in 0..k
        BY <1>1, <2>1
      <3> QED BY <1>2, <1>4, <3>1
    <2>2. CASE n > k
      <3>1. n - k \in 0..l /\ n = k + (n - k)
        BY <1>1, <2>2
      <3>2. m[n] = v[n - k]
        BY <1>4, <3>1
      <3> QED BY <1>3, <3>1, <3>2
    <2> QED BY <1>1, <2>1, <2>2
  <1>7. m[0] = Scanning(1) /\ m[k + l] = Scanning(1)
    <2>1. 0 \in 0..k /\ l \in 0..l
      BY <1>1
    <2> QED BY <1>2, <1>3, <1>4, <2>1
  <1>8. Quiet(c)
    BY <1>1, <1>5, <1>6, <1>7 DEF Quiet
  <1> QED BY <1>8 DEF c

(* A quiet line becomes a line of the body.                                *)
LEMMA QuietTaken ==
    ASSUME NEW line, Quiet(line), NEW name, NEW body, NEW found
    PROVE  Within(Scanning(1), name, body, found, line)
             = [scan |-> Scanning(1), block |-> [name |-> name, body |-> Append(body, line)], found |-> found]
  <1> DEFINE g == Scan(line, Scanning(1))
             k == Len(line)
  <1>1. PICK m : /\ m[0] = Scanning(1) /\ m[k] = Scanning(1)
                 /\ \A n \in 0..k : m[n] \in {Scanning(1), InString}
                 /\ \A n \in 1..k : m[n] = Deeper(m[n - 1], line[n])
    BY DEF Quiet
  <1>2. line \in Seq(Word) /\ k \in Nat /\ DOMAIN line = 1..k
    BY DEF Quiet
  <1>3. g[0] = Scanning(1) /\ \A n \in 1..k : g[n] = Deeper(g[n - 1], line[n])
    <2>1. Scanning(1) \in ScanStates
      BY DEF ScanStates, Scanning
    <2> QED BY <1>2, <2>1, ScanRuns
  <1> HIDE DEF g, k
  <1> DEFINE T == {n \in 0..k : g[n] = m[n]}
  <1>4. 0 \in T
    BY <1>1, <1>2, <1>3
  <1>5. ASSUME NEW n \in 1..k, n - 1 \in T PROVE n \in T
    BY <1>1, <1>2, <1>3, <1>5
  <1>6. 0..k \subseteq T
    <2> HIDE DEF T
    <2> QED BY <1>2, <1>4, <1>5, UpTo
  <1>7. g[k] = Scanning(1) /\ \A n \in 1..k : g[n].depth # 0
    <2>1. k \in 0..k /\ \A n \in 1..k : n \in 0..k
      BY <1>2
    <2>2. \A n \in 1..k : g[n] \in {Scanning(1), InString}
      BY <1>1, <1>6, <2>1
    <2>3. Scanning(1).depth = 1 /\ InString.depth = 1
      BY DEF Scanning, InString
    <2> QED BY <1>1, <1>6, <2>1, <2>2, <2>3
  <1>8. {n \in DOMAIN line : g[n].depth = 0} = {}
    BY <1>2, <1>7
  <1> QED BY <1>7, <1>8, Zenon DEF Within, g, k

(* The brace that closes a block ends it.                                  *)
LEMMA BlockCloses ==
    ASSUME NEW name, NEW body, NEW found
    PROVE  LET block == [name |-> name, body |-> Append(body, <<>>)]
           IN Within(Scanning(1), name, body, found, <<"}">>)
                = [scan |-> Scanning(0), block |-> block, found |-> Append(found, block)]
  <1> DEFINE line == <<"}">>
             g == Scan(line, Scanning(1))
             closing == {n \in DOMAIN line : g[n].depth = 0}
  <1>1. line \in Seq(Word) /\ Len(line) = 1 /\ DOMAIN line = {1} /\ line[1] = "}"
    <2>1. "}" \in Word
      BY DEF Word, Syntax
    <2>2. ASSUME NEW w \in Word
          PROVE  <<w>> \in Seq(Word) /\ Len(<<w>>) = 1 /\ DOMAIN <<w>> = {1} /\ <<w>>[1] = w
      OBVIOUS
    <2> QED BY <2>1, <2>2, Zenon
  <1>2. g[1] = Scanning(0)
    <2> HIDE DEF line, g
    <2>1. Scanning(1) \in ScanStates
      BY FirstScans
    <2>2. 1 \in 1..Len(line) /\ 1 - 1 = 0
      <3>1. 1 \in 1..1 /\ 1 - 1 = 0
        OBVIOUS
      <3> QED BY <1>1, <3>1, Zenon
    <2>3. g[1] = Deeper(g[1 - 1], line[1]) /\ g[0] = Scanning(1)
      BY <1>1, <2>1, <2>2, ScanRuns DEF g
    <2> QED BY <1>1, <2>2, <2>3, OneDeeper
  <1>3. closing = {1}
    <2> HIDE DEF line, g
    <2>1. Scanning(0).depth = 0
      BY DEF Scanning
    <2> QED BY <1>1, <1>2, <2>1
  <1> HIDE DEF closing
  <1>4. Min(closing) = 1
    <2>1. \A n : n = (CHOOSE x \in {1} : \A y \in {1} : x <= y) => n \in {1}
      OBVIOUS
    <2> QED BY <1>3, <2>1 DEF Min
  <1>5. SubSeq(line, 1, Min(closing) - 1) = <<>>
    <2>1. SubSeq(line, 1, 0) = <<>>
      BY SubSeqEmpty
    <2> HIDE DEF line
    <2>2. Min(closing) - 1 = 0
      BY <1>4
    <2> QED BY <2>1, <2>2
  <1>6. closing # {}
    BY <1>3
  <1> HIDE DEF line
  <1>7. Within(Scanning(1), name, body, found, line)
          = [scan |-> Scanning(0), block |-> [name |-> name, body |-> Append(body, <<>>)],
             found |-> Append(found, [name |-> name, body |-> Append(body, <<>>)])]
    BY <1>5, <1>6, Zenon DEF Within, closing, g
  <1> QED BY <1>7 DEF line

-----------------------------------------------------------------------------
(* The blocks of a text (extractBlocks).                                   *)

\* The table that ExtractBlocks computes, up to line n.
Start == [scan |-> Scanning(0), block |-> <<>>, found |-> <<>>]
IsRead(r, text, keyword, n) ==
    r = [i \in 0..n |-> IF i = 0 THEN Start ELSE LineRead(r[i - 1], text[i], keyword)]

LEMMA ReadExists ==
    ASSUME NEW text, NEW keyword, NEW n \in Nat
    PROVE  \E r : IsRead(r, text, keyword, n)
  <1> DEFINE T == {i \in Nat : \E r : IsRead(r, text, keyword, i)}
  <1>1. 0 \in T
    <2> DEFINE p == [i \in 0..0 |-> Start]
    <2>1. IsRead(p, text, keyword, 0)
      BY DEF IsRead
    <2> QED BY <2>1
  <1>2. ASSUME NEW i \in 1..n, i - 1 \in T PROVE i \in T
    <2>1. PICK p : IsRead(p, text, keyword, i - 1)
      BY <1>2
    <2> DEFINE Step(f, j) == LineRead(f[j - 1], text[j], keyword)
               q == [j \in 0..i |-> IF j = i THEN Step(p, i) ELSE p[j]]
    <2>2. ASSUME NEW j \in 0..i
          PROVE  q[j] = IF j = 0 THEN Start ELSE Step(q, j)
      <3>1. CASE j = i
        <4>1. i - 1 \in 0..i /\ i - 1 # i /\ i # 0
          BY <1>2
        <4>2. q[i - 1] = p[i - 1] /\ q[j] = Step(p, i)
          <5> HIDE DEF Step
          <5> QED BY <3>1, <4>1
        <4> HIDE DEF q
        <4>3. Step(q, j) = Step(p, i)
          BY <3>1, <4>2, Zenon
        <4> HIDE DEF Step
        <4> QED BY <3>1, <4>1, <4>2, <4>3
      <3>2. CASE j # i
        <4>1. j \in 0..(i - 1)
          BY <3>2
        <4>2. p[j] = IF j = 0 THEN Start ELSE Step(p, j)
          BY <2>1, <4>1, Zenon DEF IsRead
        <4>3. j # 0 => j - 1 \in 0..i /\ j - 1 # i
          BY <4>1
        <4>4. q[j] = p[j] /\ (j # 0 => q[j - 1] = p[j - 1])
          <5> HIDE DEF Step
          <5> QED BY <3>2, <4>3
        <4> HIDE DEF q
        <4>5. j # 0 => Step(q, j) = Step(p, j)
          BY <4>4, Zenon
        <4> HIDE DEF Step
        <4> QED BY <4>2, <4>4, <4>5
      <3> QED BY <3>1, <3>2
    <2>3. q = [j \in 0..i |-> q[j]]
      <3> HIDE DEF Step
      <3> QED OBVIOUS
    <2> HIDE DEF q
    <2>4. q = [j \in 0..i |-> IF j = 0 THEN Start ELSE Step(q, j)]
      <3> HIDE DEF Step
      <3> QED BY <2>2, <2>3
    <2>5. IsRead(q, text, keyword, i)
      BY <2>4, Zenon DEF IsRead
    <2> QED BY <1>2, <2>5
  <1>3. 0..n \subseteq T
    <2> HIDE DEF T
    <2> QED BY <1>1, <1>2, UpTo
  <1> QED BY <1>3

\* r[i] is how far the extraction is after line i.
Reads(r, text, keyword) ==
    /\ r[0] = Start
    /\ \A i \in 1..Len(text) : r[i] = LineRead(r[i - 1], text[i], keyword)

LEMMA ReadRuns ==
    ASSUME NEW text, NEW keyword, Len(text) \in Nat
    PROVE  \E r : /\ Reads(r, text, keyword)
                  /\ r[Len(text)].scan.depth = 0 => ExtractBlocks(text, keyword) = r[Len(text)].found
  <1> DEFINE n == Len(text)
             r == CHOOSE f : f = [i \in 0..n |-> IF i = 0 THEN [scan |-> Scanning(0), block |-> <<>>, found |-> <<>>]
                                                 ELSE LineRead(f[i - 1], text[i], keyword)]
  <1>1. ExtractBlocks(text, keyword)
          = IF r[n].scan.depth = 0 THEN r[n].found ELSE Append(r[n].found, r[n].block)
    BY Zenon DEF ExtractBlocks
  <1>2. PICK w : IsRead(w, text, keyword, n)
    BY ReadExists
  <1>3. IsRead(r, text, keyword, n)
    BY <1>2, Zenon DEF IsRead, Start
  <1> HIDE DEF r
  <1>4. r[0] = Start /\ \A i \in 1..n : r[i] = LineRead(r[i - 1], text[i], keyword)
    <2> DEFINE Step(i) == LineRead(r[i - 1], text[i], keyword)
    <2>1. \A i \in 0..n : r[i] = IF i = 0 THEN Start ELSE Step(i)
      BY <1>3, Zenon DEF IsRead
    <2>2. 0 \in 0..n /\ \A i \in 1..n : i \in 0..n /\ i # 0
      OBVIOUS
    <2> HIDE DEF Step
    <2>3. r[0] = Start /\ \A i \in 1..n : r[i] = Step(i)
      BY <2>1, <2>2
    <2> QED BY <2>3, Zenon DEF Step
  <1> QED BY <1>1, <1>4, Zenon DEF Reads

LEMMA ReadWithin ==
    ASSUME NEW name, NEW body, NEW found, NEW line, NEW keyword
    PROVE  LineRead([scan |-> Scanning(1), block |-> [name |-> name, body |-> body], found |-> found], line, keyword)
             = Within(Scanning(1), name, body, found, line)
  BY FirstScans DEF LineRead

LEMMA FieldsOfRead ==
    ASSUME NEW scan, NEW block, NEW found
    PROVE  /\ [scan |-> scan, block |-> block, found |-> found].scan = scan
           /\ [scan |-> scan, block |-> block, found |-> found].found = found
  OBVIOUS

\* The m lines after line c are a block: what opens it, its body without
\* the first and the last line, the brace that closes it.
BlockAt(text, c, m, kind, name, body) ==
    /\ c \in Nat /\ m \in Nat /\ m >= 3 /\ c + m <= Len(text) /\ Len(text) \in Nat
    /\ text[c + 1] = <<kind, name, "{">>
    /\ \A i \in 2..(m - 1) : text[c + i] = body[i] /\ Quiet(body[i])
    /\ text[c + m] = <<"}">>
    /\ body \in Seq(Seq(Word)) /\ Len(body) = m /\ body[1] = <<>> /\ body[m] = <<>>

(* A block of the other kind is passed over, line by line.                 *)
LEMMA BlockPassed ==
    ASSUME NEW text, NEW keyword, NEW r, Reads(r, text, keyword), NEW c, NEW m, NEW kind, NEW name, NEW body,
           BlockAt(text, c, m, kind, name, body), r[c].scan = Scanning(0),
           kind # keyword, \A i \in 2..(m - 1) : ~Opens(body[i], keyword)
    PROVE  r[c + m] = r[c]
  <1>1. c \in Nat /\ m \in Nat /\ m >= 3 /\ c + m <= Len(text) /\ Len(text) \in Nat
    BY DEF BlockAt
  <1>a. ASSUME NEW i \in 1..m PROVE ~Opens(text[c + i], keyword)
    <2>1. i = 1 \/ i \in 2..(m - 1) \/ i = m
      BY <1>1
    <2>2. ASSUME i = 1 PROVE ~Opens(text[c + i], keyword)
      <3>1. text[c + i] = <<kind, name, "{">>
        BY <2>2, Zenon DEF BlockAt
      <3>2. <<kind, name, "{">>[1] = kind
        OBVIOUS
      <3> QED BY <3>1, <3>2, Zenon DEF Opens
    <2>3. ASSUME i \in 2..(m - 1) PROVE ~Opens(text[c + i], keyword)
      BY <2>3, Zenon DEF BlockAt
    <2>4. ASSUME i = m PROVE ~Opens(text[c + i], keyword)
      <3>1. text[c + i] = <<"}">>
        BY <2>4, Zenon DEF BlockAt
      <3>2. Len(<<"}">>) = 1
        OBVIOUS
      <3>3. ~(1 >= 3)
        OBVIOUS
      <3> QED BY <3>1, <3>2, <3>3, Zenon DEF Opens
    <2> QED BY <2>1, <2>2, <2>3, <2>4, Zenon
  <1> DEFINE T == {i \in 0..m : r[c + i] = r[c]}
  <1>3. 0 \in T
    BY <1>1
  <1>4. ASSUME NEW i \in 1..m, i - 1 \in T PROVE i \in T
    <2>1. c + i \in 1..Len(text) /\ (c + i) - 1 = c + (i - 1) /\ i \in 0..m
      BY <1>1
    <2>2. r[c + (i - 1)] = r[c]
      BY <1>4
    <2>3. r[c + i] = LineRead(r[c], text[c + i], keyword)
      <3>1. r[c + i] = LineRead(r[(c + i) - 1], text[c + i], keyword)
        BY <2>1 DEF Reads
      <3> QED BY <2>1, <2>2, <3>1, Zenon
    <2>4. LineRead(r[c], text[c + i], keyword) = r[c]
      BY <1>a, FirstScans, Zenon DEF LineRead
    <2> QED BY <2>1, <2>3, <2>4
  <1>5. 0..m \subseteq T
    <2> HIDE DEF T
    <2> QED BY <1>1, <1>3, <1>4, UpTo
  <1>6. m \in 0..m
    BY <1>1
  <1> QED BY <1>5, <1>6

(* A block of the kind that is looked for is found whole.                  *)
LEMMA BlockTaken ==
    ASSUME NEW text, NEW keyword, NEW r, Reads(r, text, keyword), NEW c, NEW m, NEW kind, NEW name, NEW body,
           BlockAt(text, c, m, kind, name, body), r[c].scan = Scanning(0), kind = keyword
    PROVE  /\ r[c + m].scan = Scanning(0)
           /\ r[c + m].found = Append(r[c].found, [name |-> name, body |-> body])
  <1> DEFINE found == r[c].found
             Upto(i) == [j \in 1..i |-> body[j]]
             Open(i) == [scan |-> Scanning(1), block |-> [name |-> name, body |-> Upto(i)], found |-> found]
  <1>1. c \in Nat /\ m \in Nat /\ m >= 3 /\ c + m <= Len(text) /\ Len(text) \in Nat
    BY DEF BlockAt
  <1>a. /\ text[c + 1] = <<kind, name, "{">> /\ text[c + m] = <<"}">>
        /\ body[1] = <<>> /\ body[m] = <<>>
    BY Zenon DEF BlockAt
  <1>b. /\ \A i \in 2..(m - 1) : text[c + i] = body[i] /\ Quiet(body[i])
        /\ body \in Seq(Seq(Word)) /\ Len(body) = m
    BY Zenon DEF BlockAt
  <1>2. ASSUME NEW i \in 1..m PROVE r[c + i] = LineRead(r[c + (i - 1)], text[c + i], keyword)
    <2>1. c + i \in 1..Len(text) /\ (c + i) - 1 = c + (i - 1)
      BY <1>1
    <2> QED BY <2>1 DEF Reads
  <1>3. ASSUME NEW i \in 1..(m - 1) PROVE Append(Upto(i), body[i + 1]) = Upto(i + 1)
    <2>1. \A j \in 1..m : body[j] \in Seq(Word)
      BY <1>b, ElementOfSeq, Zenon
    <2>2. Upto(i) \in [1..i -> Seq(Word)] /\ i \in Nat /\ body[i + 1] \in Seq(Word)
      BY <1>1, <2>1
    <2>3. Upto(i) \in Seq(Seq(Word)) /\ Len(Upto(i)) = i
      <3> HIDE DEF Upto
      <3> QED BY <2>2
    <2>4. \A j \in 1..i : Upto(i)[j] = body[j]
      OBVIOUS
    <2> DEFINE a == Append(Upto(i), body[i + 1])
    <2>5. a \in [1..(i + 1) -> Seq(Word)] /\ (\A j \in 1..i : a[j] = body[j]) /\ a[i + 1] = body[i + 1]
      <3> HIDE DEF Upto
      <3>1. /\ a \in Seq(Seq(Word)) /\ Len(a) = i + 1
            /\ (\A j \in 1..i : a[j] = Upto(i)[j]) /\ a[i + 1] = body[i + 1]
        BY <2>2, <2>3, AppendProperties
      <3> HIDE DEF a
      <3> QED BY <2>4, <3>1, LenProperties
    <2> HIDE DEF a
    <2>6. \A j \in 1..(i + 1) : a[j] = body[j]
      BY <2>2, <2>5
    <2>7. a = [j \in 1..(i + 1) |-> body[j]]
      BY <2>5, <2>6
    <2> QED BY <2>7 DEF a
  <1>4. Upto(m) = body
    <2>1. body \in [1..m -> Seq(Word)]
      BY <1>b, LenProperties, Zenon
    <2> QED BY <2>1
  <1>5. r[c + 1] = Open(1)
    <2> DEFINE line == <<kind, name, "{">>
    <2>1. Len(line) = 3 /\ line[1] = kind /\ line[2] = name /\ line[3] = "{"
      OBVIOUS
    <2> HIDE DEF line
    <2>2. Opens(line, keyword)
      <3>1. 3 >= 3
        OBVIOUS
      <3> QED BY <2>1, <3>1, Zenon DEF Opens
    <2>3. SubSeq(line, 4, Len(line)) = <<>>
      <3>1. SubSeq(line, 4, 3) = <<>>
        BY SubSeqEmpty
      <3> QED BY <2>1, <3>1, Zenon
    <2>4. Quiet(<<>>)
      BY QuietEmpty
    <2>5. Within(Scanning(1), name, <<>>, found, <<>>)
            = [scan |-> Scanning(1), block |-> [name |-> name, body |-> Append(<<>>, <<>>)], found |-> found]
      <3> DEFINE e == <<>>
      <3>1. Quiet(e)
        BY <2>4
      <3> HIDE DEF e, found, Upto
      <3>2. Within(Scanning(1), name, e, found, e)
              = [scan |-> Scanning(1), block |-> [name |-> name, body |-> Append(e, e)], found |-> found]
        BY <3>1, QuietTaken
      <3> QED BY <3>2 DEF e
    <2>6. Append(<<>>, <<>>) = Upto(1)
      <3>1. Append(<<>>, <<>>) = << <<>> >>
        OBVIOUS
      <3>2. \A j \in 1..1 : body[j] = <<>>
        <4>1. \A j \in 1..1 : j = 1
          OBVIOUS
        <4> QED BY <1>a, <4>1, Zenon
      <3>3. [j \in 1..1 |-> <<>>] = << <<>> >>
        OBVIOUS
      <3> QED BY <3>1, <3>2, <3>3, Zenon
    <2>7. LineRead(r[c], line, keyword) = Within(Scanning(1), line[2], <<>>, found, SubSeq(line, 4, Len(line)))
      BY <2>2, FirstScans, Zenon DEF LineRead
    <2>8. r[c + 1] = LineRead(r[c], line, keyword)
      <3>1. 1 \in 1..m /\ 1 - 1 = 0 /\ c + 0 = c
        BY <1>1
      <3>2. r[c + 1] = LineRead(r[c + (1 - 1)], text[c + 1], keyword)
        BY <1>2, <3>1
      <3> QED BY <1>a, <3>1, <3>2, Zenon DEF line
    <2> HIDE DEF Upto
    <2> QED BY <2>1, <2>3, <2>5, <2>6, <2>7, <2>8, Zenon
  <1> DEFINE T == {i \in 0..(m - 2) : r[c + (i + 1)] = Open(i + 1)}
  <1>6. 0 \in T
    BY <1>1, <1>5
  <1> HIDE DEF found
  <1>7. ASSUME NEW i \in 1..(m - 2), i - 1 \in T PROVE i \in T
    <2>1. /\ i + 1 \in 1..m /\ i + 1 \in 2..(m - 1) /\ (i - 1) + 1 = i /\ (i + 1) - 1 = i
          /\ i \in 1..(m - 1) /\ i \in 0..(m - 2)
      BY <1>1
    <2>2. r[c + i] = Open(i)
      BY <1>7, <2>1
    <2>3. r[c + (i + 1)] = LineRead(r[c + ((i + 1) - 1)], text[c + (i + 1)], keyword)
      BY <1>2, <2>1
    <2>4. text[c + (i + 1)] = body[i + 1] /\ Quiet(body[i + 1])
      BY <1>b, <2>1
    <2>5. Append(Upto(i), body[i + 1]) = Upto(i + 1)
      BY <1>3, <2>1
    <2> HIDE DEF Upto
    <2>6. LineRead(Open(i), body[i + 1], keyword) = Within(Scanning(1), name, Upto(i), found, body[i + 1])
      BY ReadWithin, Zenon
    <2>7. Within(Scanning(1), name, Upto(i), found, body[i + 1])
            = [scan |-> Scanning(1), block |-> [name |-> name, body |-> Append(Upto(i), body[i + 1])], found |-> found]
      BY <2>4, QuietTaken
    <2>8. r[c + (i + 1)] = Open(i + 1)
      BY <2>1, <2>2, <2>3, <2>4, <2>5, <2>6, <2>7
    <2> HIDE DEF Open
    <2> QED BY <2>1, <2>8
  <1>8. 0..(m - 2) \subseteq T
    <2>1. m - 2 \in Nat
      BY <1>1
    <2> HIDE DEF T
    <2> QED BY <1>6, <1>7, <2>1, UpTo
  <1>9. r[c + (m - 1)] = Open(m - 1)
    <2>1. m - 2 \in 0..(m - 2) /\ (m - 2) + 1 = m - 1
      BY <1>1
    <2> HIDE DEF Open
    <2> QED BY <1>8, <2>1
  <1>10. r[c + m] = LineRead(Open(m - 1), <<"}">>, keyword)
    <2>1. m \in 1..m
      BY <1>1
    <2>2. r[c + m] = LineRead(r[c + (m - 1)], text[c + m], keyword)
      BY <1>2, <2>1
    <2> HIDE DEF Open
    <2> QED BY <1>9, <1>a, <2>2, Zenon
  <1>11. Append(Upto(m - 1), <<>>) = body
    <2>1. m - 1 \in 1..(m - 1) /\ (m - 1) + 1 = m
      BY <1>1
    <2>2. Append(Upto(m - 1), body[(m - 1) + 1]) = Upto((m - 1) + 1)
      BY <1>3, <2>1
    <2> HIDE DEF Upto
    <2> QED BY <1>a, <1>4, <2>1, <2>2, Zenon
  <1> HIDE DEF Upto
  <1>12. LineRead(Open(m - 1), <<"}">>, keyword) = Within(Scanning(1), name, Upto(m - 1), found, <<"}">>)
    BY ReadWithin, Zenon
  <1>13. Within(Scanning(1), name, Upto(m - 1), found, <<"}">>)
           = [scan |-> Scanning(0), block |-> [name |-> name, body |-> Append(Upto(m - 1), <<>>)],
              found |-> Append(found, [name |-> name, body |-> Append(Upto(m - 1), <<>>)])]
    BY BlockCloses, Zenon
  <1>14. r[c + m] = [scan |-> Scanning(0), block |-> [name |-> name, body |-> body],
                     found |-> Append(found, [name |-> name, body |-> body])]
    BY <1>10, <1>11, <1>12, <1>13, Zenon
  <1> DEFINE block == [name |-> name, body |-> body]
             all == Append(found, block)
  <1>15. r[c + m] = [scan |-> Scanning(0), block |-> block, found |-> all]
    BY <1>14
  <1> HIDE DEF block, all
  <1>16. r[c + m].scan = Scanning(0) /\ r[c + m].found = all
    BY <1>15
  <1> QED BY <1>16 DEF found, block, all

-----------------------------------------------------------------------------
(* The lines of a block.                                                   *)

\* Word w is not in the line.
Without(line, w) == \A i \in 1..Len(line) : line[i] # w

\* A word that is a name.
Name == (STRING \cup {"mapped"}) \ Syntax

LEMMA NameIsPlain ==
    ASSUME NEW n \in Name
    PROVE  /\ n \in Word /\ n \notin Marks
           /\ n # "//" /\ n # "@map(" /\ n # "@@map(" /\ n # "[]" /\ n # "?" /\ n # "{" /\ n # Quote
  BY Zenon DEF Name, Word, Syntax, Marks

LEMMA WordsOfSyntax ==
    /\ Syntax \subseteq Word /\ {"enum", "model"} \subseteq Word
    /\ \A w \in {"//", "[]", "?", "@map(", "@@map(", "@default(", ")"} : w \in Word /\ w \notin Marks
    /\ Quote \in Word /\ \A w \in {"//", "[]", "?", "@map(", "@@map(", "@default(", ")", "{", "}"} : w # Quote
  BY DEF Word, Syntax, Marks, Quote

LEMMA OneWord ==
    ASSUME NEW w \in Word
    PROVE  /\ <<w>> \in Seq(Word) /\ Len(<<w>>) = 1 /\ <<w>>[1] = w
           /\ w \notin Marks => Quiet(<<w>>)
           /\ \A x : x # w => Without(<<w>>, x)
  <1> DEFINE s == <<w>>
  <1>1. s \in Seq(Word) /\ Len(s) = 1 /\ s[1] = w
    OBVIOUS
  <1> HIDE DEF s
  <1>2. \A n \in 1..Len(s) : s[n] = w
    BY <1>1
  <1>3. w \notin Marks => Quiet(s)
    <2> SUFFICES ASSUME w \notin Marks PROVE Quiet(s)
      OBVIOUS
    <2>1. \A n \in 1..Len(s) : s[n] \notin Marks
      BY <1>2
    <2> QED BY <1>1, <2>1, QuietPlain
  <1>4. \A x : x # w => Without(s, x)
    BY <1>2 DEF Without
  <1> QED BY <1>1, <1>3, <1>4 DEF s

LEMMA NoWord == <<>> \in Seq(Word) /\ Len(<<>>) = 0 /\ \A x : Without(<<>>, x)
  <1> DEFINE s == <<>>
  <1>1. s \in Seq(Word) /\ Len(s) = 0
    OBVIOUS
  <1> HIDE DEF s
  <1>2. \A x : Without(s, x)
    BY <1>1 DEF Without
  <1> QED BY <1>1, <1>2 DEF s

LEMMA WithoutBoth ==
    ASSUME NEW a \in Seq(Word), NEW b \in Seq(Word), NEW w, Without(a, w), Without(b, w)
    PROVE  Without(a \o b, w)
  <1> DEFINE c == a \o b
             k == Len(a)
             l == Len(b)
  <1>1. /\ k \in Nat /\ l \in Nat /\ Len(c) = k + l
        /\ \A i \in 1..(k + l) : c[i] = IF i <= k THEN a[i] ELSE b[i - k]
    BY ConcatProperties, LenProperties
  <1>2. (\A i \in 1..k : a[i] # w) /\ (\A i \in 1..l : b[i] # w)
    BY DEF Without
  <1> HIDE DEF c, k, l
  <1>3. ASSUME NEW i \in 1..(k + l) PROVE c[i] # w
    <2>1. CASE i <= k
      BY <1>1, <1>2, <2>1
    <2>2. CASE ~(i <= k)
      <3>1. i - k \in 1..l
        BY <1>1, <2>2
      <3> QED BY <1>1, <1>2, <2>2, <3>1
    <2> QED BY <2>1, <2>2
  <1>4. Without(c, w)
    BY <1>1, <1>3 DEF Without
  <1> QED BY <1>4 DEF c

(* What stands where in two lines put together.                            *)
LEMMA BothParts ==
    ASSUME NEW a \in Seq(Word), NEW b \in Seq(Word)
    PROVE  /\ a \o b \in Seq(Word) /\ Len(a \o b) = Len(a) + Len(b)
           /\ Len(a) \in Nat /\ Len(b) \in Nat
           /\ \A i \in 1..Len(a) : (a \o b)[i] = a[i]
           /\ \A i \in 1..Len(b) : (a \o b)[Len(a) + i] = b[i]
  <1> DEFINE c == a \o b
             k == Len(a)
             l == Len(b)
  <1>1. /\ k \in Nat /\ l \in Nat /\ Len(c) = k + l /\ c \in Seq(Word)
        /\ \A i \in 1..(k + l) : c[i] = IF i <= k THEN a[i] ELSE b[i - k]
    BY ConcatProperties, LenProperties
  <1> HIDE DEF c, k, l
  <1>2. \A i \in 1..k : i \in 1..(k + l) /\ i <= k
    BY <1>1
  <1>3. \A i \in 1..l : k + i \in 1..(k + l) /\ ~(k + i <= k) /\ (k + i) - k = i
    BY <1>1
  <1>4. (\A i \in 1..k : c[i] = a[i]) /\ \A i \in 1..l : c[k + i] = b[i]
    BY <1>1, <1>2, <1>3
  <1> QED BY <1>1, <1>4 DEF c, k, l

\* A name in quotes after its tag.
IsRenamed(line, tag, column) ==
    /\ line \in Seq(Word) /\ Quiet(line) /\ Len(line) = 5
    /\ line[1] = tag /\ line[2] = Quote /\ line[3] = column
    /\ \A w : w \notin {tag, Quote, column, ")"} => Without(line, w)

LEMMA RenamedLine ==
    ASSUME NEW tag, tag \in {"@map(", "@@map("}, NEW name, NEW column \in Name, name # column,
           NEW line, line = Renamed(tag, name, column)
    PROVE  IsRenamed(line, tag, column)
  <1> DEFINE t == <<tag>>
             s == <<column>>
             q == InQuotes(s)
  <1>1. tag \in Word /\ tag \notin Marks /\ {Quote, ")"} \subseteq Word
    BY WordsOfSyntax
  <1>2. t \in Seq(Word) /\ Len(t) = 1 /\ t[1] = tag /\ Quiet(t)
    BY <1>1, OneWord
  <1>3. column \in Word /\ column # Quote
    BY NameIsPlain
  <1>4. s \in Seq(Word) /\ Len(s) = 1 /\ s[1] = column
    BY <1>3, OneWord
  <1> HIDE DEF s
  <1>5. \A i \in 1..Len(s) : s[i] # Quote
    BY <1>3, <1>4
  <1>6. /\ q \in Seq(Word) /\ Len(q) = Len(s) + 3 /\ q[1] = Quote /\ q[Len(s) + 2] = Quote
        /\ q[Len(s) + 3] = ")" /\ \A i \in 1..Len(s) : q[i + 1] = s[i]
    BY <1>1, <1>4, QuotedWords
  <1>7. Quiet(q)
    BY <1>4, <1>5, QuietQuoted
  <1>8. line = t \o q
    BY Zenon DEF Renamed, s
  <1> HIDE DEF q, t
  <1>9. Len(q) = 4 /\ q[1] = Quote /\ q[2] = column /\ q[3] = Quote /\ q[4] = ")"
    <2>1. 1 + 3 = 4 /\ 1 + 2 = 3 /\ 1 + 1 = 2 /\ 1 \in 1..1
      OBVIOUS
    <2> QED BY <1>4, <1>6, <2>1, Zenon
  <1>10. Quiet(line)
    BY <1>2, <1>7, <1>8, QuietBoth
  <1>11. /\ line \in Seq(Word) /\ Len(line) = Len(t) + Len(q)
         /\ \A i \in 1..Len(t) : line[i] = t[i]
         /\ \A i \in 1..Len(q) : line[Len(t) + i] = q[i]
    <2>1. q \in Seq(Word) /\ t \in Seq(Word)
      BY <1>2, <1>6
    <2>2. /\ t \o q \in Seq(Word) /\ Len(t \o q) = Len(t) + Len(q)
          /\ \A i \in 1..Len(t) : (t \o q)[i] = t[i]
          /\ \A i \in 1..Len(q) : (t \o q)[Len(t) + i] = q[i]
      BY <2>1, BothParts
    <2> QED BY <1>8, <2>2, Zenon
  <1>12. Len(line) = 5 /\ line[1] = tag /\ line[2] = Quote /\ line[3] = column /\ line[4] = Quote /\ line[5] = ")"
    <2>1. /\ 1 + 4 = 5 /\ 1 + 1 = 2 /\ 1 + 2 = 3 /\ 1 + 3 = 4
          /\ 1 \in 1..1 /\ 1 \in 1..4 /\ 2 \in 1..4 /\ 3 \in 1..4 /\ 4 \in 1..4
      OBVIOUS
    <2>2. Len(line) = 1 + 4 /\ (\A i \in 1..1 : line[i] = t[i]) /\ \A i \in 1..4 : line[1 + i] = q[i]
      BY <1>2, <1>9, <1>11, Zenon
    <2>3. line[1 + 1] = q[1] /\ line[1 + 2] = q[2] /\ line[1 + 3] = q[3] /\ line[1 + 4] = q[4] /\ line[1] = t[1]
      BY <2>1, <2>2, Zenon
    <2> QED BY <1>2, <1>9, <2>1, <2>2, <2>3, Zenon
  <1>13. ASSUME NEW w, w \notin {tag, Quote, column, ")"} PROVE Without(line, w)
    <2>1. \A i \in 1..5 : i = 1 \/ i = 2 \/ i = 3 \/ i = 4 \/ i = 5
      OBVIOUS
    <2> QED BY <1>12, <1>13, <2>1, Zenon DEF Without
  <1> QED BY <1>10, <1>11, <1>12, <1>13, Zenon DEF IsRenamed

\* The first such word is the k-th.
FirstAt(line, tag, k) == k \in 1..Len(line) /\ line[k] = tag /\ \A i \in 1..(k - 1) : line[i] # tag

LEMMA MappedAbsent ==
    ASSUME NEW line \in Seq(Word), NEW tag, NEW name, Without(line, tag)
    PROVE  MappedName(line, tag, name) = name
  <1>1. DOMAIN line = 1..Len(line)
    BY LenProperties
  <1>2. {i \in DOMAIN line : line[i] = tag} = {}
    BY <1>1 DEF Without
  <1> QED BY <1>2, Zenon DEF MappedName

LEMMA MappedFound ==
    ASSUME NEW line \in Seq(Word), NEW tag, NEW name, NEW k, FirstAt(line, tag, k)
    PROVE  MappedName(line, tag, name) = line[k + 2]
  <1> DEFINE tags == {i \in DOMAIN line : line[i] = tag}
  <1>1. DOMAIN line = 1..Len(line) /\ Len(line) \in Nat
    BY LenProperties
  <1>2. k \in tags /\ \A i \in tags : i \in Nat /\ k <= i
    BY <1>1 DEF FirstAt
  <1> HIDE DEF tags
  <1>3. Min(tags) = k
    <2> DEFINE x == Min(tags)
    <2>1. \E y \in tags : \A i \in tags : y <= i
      BY <1>2
    <2>2. x \in tags /\ \A i \in tags : x <= i
      BY <2>1, Zenon DEF Min
    <2> HIDE DEF x
    <2>3. x <= k /\ k <= x /\ x \in Nat /\ k \in Nat
      BY <1>2, <2>2
    <2>4. x = k
      BY <2>3
    <2> QED BY <2>4 DEF x
  <1>4. MappedName(line, tag, name) = line[Min(tags) + 2]
    BY <1>2, Zenon DEF MappedName, tags
  <1> QED BY <1>3, <1>4

(* The fields whose default has no slashes in it, which the parser would    *)
(* take for a comment.                                                      *)
Uncut == {f \in Declared : \A i \in DOMAIN f.default : f.default[i] # "//"}

LEMMA FieldDeclared ==
    ASSUME NEW f \in Uncut
    PROVE  /\ f.name \in Name /\ f.type \in Name /\ f.column \in Name
           /\ f.list \in BOOLEAN /\ f.optional \in BOOLEAN /\ f.comment \in BOOLEAN
           /\ f.default \in Seq(Word)
           /\ \A i \in 1..Len(f.default) : f.default[i] \notin Syntax \ {"{", "}"}
  <1>0. f \in Declared /\ \A i \in DOMAIN f.default : f.default[i] # "//"
    BY DEF Uncut
  <1>1. /\ f.name \in STRING /\ f.type \in STRING /\ f.column \in STRING
        /\ f.list \in BOOLEAN /\ f.optional \in BOOLEAN /\ f.comment \in BOOLEAN /\ f.default \in Seq(STRING)
    <2>1. f \in [name : STRING, type : STRING, list : BOOLEAN, optional : BOOLEAN, column : STRING,
                 default : Seq(STRING), comment : BOOLEAN]
      BY <1>0, TypegenAssumption, Zenon
    <2> QED BY <2>1
  <1>2. {f.name, f.type, f.column} \cap Syntax = {} /\ \A i \in DOMAIN f.default : f.default[i] \notin Syntax \ {"{", "}"}
    <2>1. /\ {f.name, f.type, f.column} \cap Syntax = {}
          /\ \A i \in DOMAIN f.default : f.default[i] \notin Syntax \ {"{", "}", "//"}
      BY <1>0, TypegenAssumption, Zenon
    <2> QED BY <1>0, <2>1
  <1>3. f.default \in Seq(Word) /\ DOMAIN f.default = 1..Len(f.default)
    <2>1. STRING \subseteq Word
      BY DEF Word
    <2>2. f.default \in Seq(Word)
      BY <1>1, <2>1, SeqMonotonic
    <2> QED BY <2>2, LenProperties
  <1>4. f.name \in Name /\ f.type \in Name /\ f.column \in Name
    BY <1>1, <1>2, Zenon DEF Name
  <1> QED BY <1>1, <1>2, <1>3, <1>4

\* What is known of a line that begins with o, of a column of that name.
Begun(line, o, name, column) ==
    /\ line \in Seq(Word) /\ Quiet(line) /\ Without(line, "//") /\ Without(line, "@@map(")
    /\ Len(line) \in Nat /\ Len(line) >= Len(o)
    /\ \A i \in 1..Len(o) : line[i] = o[i]
    /\ MappedName(line, "@map(", name) = column
    /\ Len(line) > Len(o) => line[Len(o) + 1] \in {"@map(", "@default("}
    /\ Len(line) > Len(o) + 1 => line[Len(o) + 2] = Quote

\* The words of no attribute or comment, of which a line may be put together.
Bare(o) == o \in Seq(Word) /\ Quiet(o) /\ \A w \in {"//", "@map(", "@@map("} : Without(o, w)

(* A line: what begins it, then the name of a column, then a default.      *)
LEMMA ContentLine ==
    ASSUME NEW o, Bare(o), Len(o) \in Nat \ {0}, NEW name, NEW column \in Name, NEW d, Bare(d),
           d = <<>> \/ (Len(d) >= 2 /\ d[1] = "@default(" /\ d[2] = Quote),
           NEW line, line = o \o Renamed("@map(", name, column) \o d
    PROVE  Begun(line, o, name, column)
  <1>b. /\ o \in Seq(Word) /\ Quiet(o) /\ d \in Seq(Word) /\ Quiet(d)
        /\ \A w \in {"//", "@map(", "@@map("} : Without(o, w) /\ Without(d, w)
    BY Zenon DEF Bare
  <1> DEFINE r == Renamed("@map(", name, column)
             p == o \o r
             k == Len(o)
  <1>1. line = p \o d
    OBVIOUS
  <1>2. name = column => r = <<>>
    BY Zenon DEF Renamed
  <1>3. name # column =>
          /\ r \in Seq(Word) /\ Quiet(r) /\ Len(r) = 5 /\ r[1] = "@map(" /\ r[2] = Quote /\ r[3] = column
          /\ \A w : w \notin {"@map(", Quote, column, ")"} => Without(r, w)
    <2>1. name # column => IsRenamed(r, "@map(", column)
      <3> DEFINE tag == "@map("
      <3>1. tag \in {"@map(", "@@map("} /\ r = Renamed(tag, name, column)
        BY Zenon
      <3> HIDE DEF tag, r
      <3>2. name # column => IsRenamed(r, tag, column)
        BY <3>1, RenamedLine, Zenon
      <3> QED BY <3>2, Zenon DEF tag
    <2> QED BY <2>1, Zenon DEF IsRenamed
  <1> HIDE DEF r
  <1>4. r \in Seq(Word) /\ Quiet(r) /\ Len(r) \in Nat /\ Without(r, "//") /\ Without(r, "@@map(")
    <2>1. CASE name = column
      BY <1>2, <2>1, NoWord, QuietEmpty, Zenon
    <2>2. CASE name # column
      <3>1. "//" \notin {"@map(", Quote, ")"} /\ "@@map(" \notin {"@map(", Quote, ")"}
        BY DEF Quote
      <3>2. "//" # column /\ "@@map(" # column
        BY NameIsPlain, Zenon
      <3>3. Without(r, "//") /\ Without(r, "@@map(")
        BY <1>3, <2>2, <3>1, <3>2, Zenon
      <3> QED BY <1>3, <2>2, <3>3, LenProperties, Zenon
    <2> QED BY <2>1, <2>2
  <1>5. /\ p \in Seq(Word) /\ Len(p) = k + Len(r) /\ k \in Nat \ {0}
        /\ \A i \in 1..k : p[i] = o[i]
        /\ \A i \in 1..Len(r) : p[k + i] = r[i]
    BY <1>4, <1>b, BothParts, Zenon
  <1>6. Quiet(p) /\ Without(p, "//") /\ Without(p, "@@map(")
    <2>1. Without(o, "//") /\ Without(o, "@@map(")
      BY <1>b
    <2> QED BY <1>4, <1>b, <2>1, QuietBoth, WithoutBoth, Zenon
  <1> HIDE DEF p
  <1>7. /\ line \in Seq(Word) /\ Len(line) = Len(p) + Len(d) /\ Len(d) \in Nat
        /\ \A i \in 1..Len(p) : line[i] = p[i]
        /\ \A i \in 1..Len(d) : line[Len(p) + i] = d[i]
    <2>1. /\ p \o d \in Seq(Word) /\ Len(p \o d) = Len(p) + Len(d) /\ Len(d) \in Nat
          /\ \A i \in 1..Len(p) : (p \o d)[i] = p[i]
          /\ \A i \in 1..Len(d) : (p \o d)[Len(p) + i] = d[i]
      BY <1>5, <1>b, BothParts, Zenon
    <2> QED BY <1>1, <2>1, Zenon
  <1>8. Quiet(line) /\ Without(line, "//") /\ Without(line, "@@map(")
    <2>1. Without(d, "//") /\ Without(d, "@@map(")
      BY <1>b
    <2>2. Quiet(p \o d) /\ Without(p \o d, "//") /\ Without(p \o d, "@@map(")
      BY <1>5, <1>6, <1>b, <2>1, QuietBoth, WithoutBoth, Zenon
    <2> QED BY <1>1, <2>2, Zenon
  <1>9. Without(o, "@map(") /\ Without(d, "@map(")
    BY <1>b
  <1>10. d = <<>> \/ (Len(d) >= 2 /\ d[1] = "@default(" /\ d[2] = Quote)
    OBVIOUS
  <1>11. d = <<>> => Len(d) = 0
    BY NoWord, Zenon
  <1> HIDE DEF k
  <1>12. CASE name = column
    <2>1. Len(r) = 0
      BY <1>2, <1>12, NoWord, Zenon
    <2>2. Len(p) = k /\ Without(r, "@map(")
      BY <1>2, <1>5, <1>12, <2>1, NoWord
    <2>3. Without(line, "@map(")
      <3>1. Without(p, "@map(")
        BY <1>4, <1>9, <1>b, <2>2, WithoutBoth, Zenon DEF p
      <3> QED BY <1>1, <1>5, <1>9, <1>b, <3>1, WithoutBoth, Zenon
    <2>4. MappedName(line, "@map(", name) = column
      BY <1>7, <1>12, <2>3, MappedAbsent, Zenon
    <2>5. Len(line) > k => Len(d) >= 2 /\ d[1] = "@default(" /\ d[2] = Quote
      BY <1>5, <1>7, <1>10, <1>11, <2>2
    <2>6. Len(d) >= 2 => line[k + 1] = d[1] /\ line[k + 2] = d[2]
      <3>1. Len(d) >= 2 => 1 \in 1..Len(d) /\ 2 \in 1..Len(d)
        BY <1>7
      <3> QED BY <1>7, <2>2, <3>1, Zenon
    <2>7. /\ Len(line) \in Nat /\ Len(line) >= k /\ (Len(line) > k + 1 => Len(line) > k)
          /\ \A i \in 1..k : i \in 1..Len(p)
      <3>1. Len(p) = k /\ Len(line) = Len(p) + Len(d) /\ Len(d) \in Nat /\ k \in Nat \ {0}
        BY <1>5, <1>7, <2>2, Zenon
      <3> QED BY <3>1
    <2>8. \A i \in 1..k : line[i] = o[i]
      BY <1>5, <1>7, <2>7, Zenon
    <2>9. Len(line) > k => line[k + 1] \in {"@map(", "@default("}
      BY <2>5, <2>6, Zenon
    <2>10. Len(line) > k + 1 => line[k + 2] = Quote
      BY <2>5, <2>6, <2>7, Zenon
    <2> QED BY <1>7, <1>8, <2>4, <2>7, <2>8, <2>9, <2>10, Zenon DEF Begun, k
  <1>13. CASE name # column
    <2>1. Len(r) = 5 /\ r[1] = "@map(" /\ r[2] = Quote /\ r[3] = column
      BY <1>3, <1>13, Zenon
    <2>2. /\ Len(p) = k + 5 /\ Len(line) \in Nat /\ Len(line) >= k /\ k + 1 \in 1..Len(line)
          /\ \A i \in 1..k : i \in 1..Len(p)
          /\ k + 1 \in 1..Len(p) /\ k + 2 \in 1..Len(p) /\ k + 3 \in 1..Len(p)
          /\ (k + 1) - 1 = k /\ (k + 1) + 2 = k + 3
      <3>1. Len(r) = 5 /\ Len(p) = k + Len(r) /\ k \in Nat /\ Len(line) = Len(p) + Len(d) /\ Len(d) \in Nat
        BY <1>5, <1>7, <2>1, Zenon
      <3> QED BY <3>1
    <2>3. p[k + 1] = r[1] /\ p[k + 2] = r[2] /\ p[k + 3] = r[3]
      <3>1. 1 \in 1..5 /\ 2 \in 1..5 /\ 3 \in 1..5
        OBVIOUS
      <3> QED BY <1>5, <2>1, <3>1, Zenon
    <2>4. line[k + 1] = "@map(" /\ line[k + 2] = Quote /\ line[k + 3] = column
      BY <1>7, <2>1, <2>2, <2>3, Zenon
    <2>5. \A i \in 1..k : line[i] = o[i]
      BY <1>5, <1>7, <2>2, Zenon
    <2>6. \A i \in 1..((k + 1) - 1) : line[i] # "@map("
      BY <1>9, <2>2, <2>5, Zenon DEF Without, k
    <2>7. MappedName(line, "@map(", name) = line[(k + 1) + 2]
      <3> DEFINE tag == "@map("
                 j == k + 1
      <3>1. FirstAt(line, tag, j)
        BY <2>2, <2>4, <2>6, Zenon DEF FirstAt
      <3> HIDE DEF tag, j
      <3>a. line \in Seq(Word)
        BY <1>7
      <3>2. MappedName(line, tag, name) = line[j + 2]
        BY <3>a, <3>1, MappedFound
      <3> QED BY <3>2, Zenon DEF tag, j
    <2>8. MappedName(line, "@map(", name) = column
      BY <2>2, <2>4, <2>7, Zenon
    <2>9. line[k + 1] \in {"@map(", "@default("}
      BY <2>4, Zenon
    <2> QED BY <1>8, <1>7, <2>2, <2>4, <2>5, <2>8, <2>9, Zenon DEF Begun, k
  <1> QED BY <1>12, <1>13

\* A field's line before its attributes, and without its comment.
Opening(f) == <<f.name, f.type>> \o (IF f.list THEN <<"[]">> ELSE <<>>) \o (IF f.optional THEN <<"?">> ELSE <<>>)
Defaulted(f) == IF f.default = <<>> THEN <<>> ELSE <<"@default(">> \o InQuotes(f.default)
FieldLine(f) == Opening(f) \o Renamed("@map(", f.name, f.column) \o Defaulted(f)

LEMMA OneAfter ==
    ASSUME NEW a \in Seq(Word), NEW x \in Word, NEW c \in Seq(Word), Len(c) = Len(a) + 1,
           \A i \in 1..Len(a) : c[i] = a[i], c[Len(a) + 1] = x
    PROVE  a \o <<x>> = c
  <1> DEFINE b == a \o <<x>>
  <1>1. /\ b \in Seq(Word) /\ Len(b) = Len(a) + 1
        /\ (\A i \in 1..Len(a) : b[i] = a[i]) /\ b[Len(a) + 1] = x
    BY OneMorePushed
  <1>2. Len(a) \in Nat
    BY LenProperties
  <1> HIDE DEF b
  <1>3. \A i \in 1..Len(b) : b[i] = c[i]
    <2>1. \A i \in 1..(Len(a) + 1) : i \in 1..Len(a) \/ i = Len(a) + 1
      BY <1>2
    <2> QED BY <1>1, <2>1
  <1>4. b = c
    BY <1>1, <1>3, SeqEqual
  <1> QED BY <1>4 DEF b

LEMMA Tuples ==
    ASSUME NEW n \in Word, NEW t \in Word, NEW x \in Word, NEW y \in Word
    PROVE  /\ (<<n, t>> \o <<>>) \o <<>> = <<n, t>>
           /\ (<<n, t>> \o <<x>>) \o <<>> = <<n, t, x>>
           /\ (<<n, t>> \o <<>>) \o <<y>> = <<n, t, y>>
           /\ (<<n, t>> \o <<x>>) \o <<y>> = <<n, t, x, y>>
  <1> DEFINE a == <<n, t>>
             c == <<n, t, x>>
             d == <<n, t, y>>
             e == <<n, t, x, y>>
  <1>1. a \in Seq(Word) /\ Len(a) = 2 /\ a[1] = n /\ a[2] = t
    OBVIOUS
  <1>2. c \in Seq(Word) /\ Len(c) = 3 /\ c[1] = n /\ c[2] = t /\ c[3] = x
    OBVIOUS
  <1>3. d \in Seq(Word) /\ Len(d) = 3 /\ d[1] = n /\ d[2] = t /\ d[3] = y
    OBVIOUS
  <1>4. e \in Seq(Word) /\ Len(e) = 4 /\ e[1] = n /\ e[2] = t /\ e[3] = x /\ e[4] = y
    OBVIOUS
  <1> HIDE DEF a, c, d, e
  <1>5. a \o <<>> = a /\ c \o <<>> = c
    BY <1>1, <1>2, ConcatEmptySeq
  <1>6. a \o <<x>> = c /\ a \o <<y>> = d /\ c \o <<y>> = e
    <2>1. 3 = 2 + 1 /\ 4 = 3 + 1 /\ (\A i \in 1..2 : i = 1 \/ i = 2) /\ \A i \in 1..3 : i = 1 \/ i = 2 \/ i = 3
      OBVIOUS
    <2>2. Len(c) = Len(a) + 1 /\ Len(d) = Len(a) + 1 /\ Len(e) = Len(c) + 1
      BY <1>1, <1>2, <1>3, <1>4
    <2>3. /\ (\A i \in 1..Len(a) : c[i] = a[i] /\ d[i] = a[i]) /\ (\A i \in 1..Len(c) : e[i] = c[i])
          /\ c[Len(a) + 1] = x /\ d[Len(a) + 1] = y /\ e[Len(c) + 1] = y
      BY <1>1, <1>2, <1>3, <1>4, <2>1, Zenon
    <2>4. a \o <<x>> = c
      BY <1>1, <1>2, <2>2, <2>3, OneAfter
    <2>5. a \o <<y>> = d
      BY <1>1, <1>3, <2>2, <2>3, OneAfter
    <2>6. c \o <<y>> = e
      BY <1>2, <1>4, <2>2, <2>3, OneAfter
    <2> QED BY <2>4, <2>5, <2>6
  <1> QED BY <1>5, <1>6, Zenon DEF a, c, d, e

LEMMA OpeningOf ==
    ASSUME NEW f \in Uncut, NEW o, o = Opening(f)
    PROVE  /\ Bare(o)
           /\ o[1] = f.name /\ o[2] = f.type
           /\ \/ Len(o) = 2 /\ ~f.list /\ ~f.optional
              \/ Len(o) = 3 /\ f.list /\ ~f.optional /\ o[3] = "[]"
              \/ Len(o) = 3 /\ ~f.list /\ f.optional /\ o[3] = "?"
              \/ Len(o) = 4 /\ f.list /\ f.optional /\ o[3] = "[]" /\ o[4] = "?"
  <1> DEFINE n == f.name
             t == f.type
             x == "[]"
             y == "?"
             P == Name \cup {x, y}
  <1>1. n \in Name /\ t \in Name /\ f.list \in BOOLEAN /\ f.optional \in BOOLEAN
    BY FieldDeclared
  <1>2. P \subseteq Word /\ {n, t, x, y} \subseteq P
    BY <1>1, NameIsPlain, WordsOfSyntax, Zenon
  <1>3. \A w \in P : w \notin Marks /\ w # "//" /\ w # "@map(" /\ w # "@@map("
    <2>1. \A w \in {x, y} : w \notin Marks /\ w # "//" /\ w # "@map(" /\ w # "@@map("
      BY DEF Marks, Quote
    <2> QED BY <2>1, NameIsPlain, Zenon
  <1>4. o = (<<n, t>> \o (IF f.list THEN <<x>> ELSE <<>>)) \o (IF f.optional THEN <<y>> ELSE <<>>)
    BY DEF Opening
  <1> HIDE DEF n, t, x, y, P
  <1>5. n \in Word /\ t \in Word /\ x \in Word /\ y \in Word
    BY <1>2
  <1>6. \/ o = <<n, t>> /\ ~f.list /\ ~f.optional
        \/ o = <<n, t, x>> /\ f.list /\ ~f.optional
        \/ o = <<n, t, y>> /\ ~f.list /\ f.optional
        \/ o = <<n, t, x, y>> /\ f.list /\ f.optional
    <2>1. /\ (<<n, t>> \o <<>>) \o <<>> = <<n, t>>
          /\ (<<n, t>> \o <<x>>) \o <<>> = <<n, t, x>>
          /\ (<<n, t>> \o <<>>) \o <<y>> = <<n, t, y>>
          /\ (<<n, t>> \o <<x>>) \o <<y>> = <<n, t, x, y>>
      BY <1>5, Tuples
    <2>3. CASE f.list /\ f.optional
      BY <1>4, <2>1, <2>3, Zenon
    <2>4. CASE f.list /\ ~f.optional
      BY <1>4, <2>1, <2>4, Zenon
    <2>5. CASE ~f.list /\ f.optional
      BY <1>4, <2>1, <2>5, Zenon
    <2>6. CASE ~f.list /\ ~f.optional
      BY <1>4, <2>1, <2>6, Zenon
    <2> QED BY <1>1, <2>3, <2>4, <2>5, <2>6, Zenon
  <1>7. /\ Len(<<n, t>>) = 2 /\ Len(<<n, t, x>>) = 3 /\ Len(<<n, t, y>>) = 3 /\ Len(<<n, t, x, y>>) = 4
        /\ <<n, t>>[1] = n /\ <<n, t, x>>[1] = n /\ <<n, t, y>>[1] = n /\ <<n, t, x, y>>[1] = n
        /\ <<n, t>>[2] = t /\ <<n, t, x>>[2] = t /\ <<n, t, y>>[2] = t /\ <<n, t, x, y>>[2] = t
        /\ <<n, t, x>>[3] = x /\ <<n, t, y>>[3] = y /\ <<n, t, x, y>>[3] = x /\ <<n, t, x, y>>[4] = y
    OBVIOUS
  <1>8. /\ <<n, t>> \in Seq(P) /\ <<n, t, x>> \in Seq(P) /\ <<n, t, y>> \in Seq(P) /\ <<n, t, x, y>> \in Seq(P)
    BY <1>2
  <1>9. o \in Seq(P)
    BY <1>6, <1>8, Zenon
  <1>10. o \in Seq(Word) /\ \A i \in 1..Len(o) : o[i] \in P
    BY <1>2, <1>9, SeqMonotonic, ElementOfSeq
  <1>11. Quiet(o) /\ Without(o, "//") /\ Without(o, "@map(") /\ Without(o, "@@map(")
    <2>1. Quiet(o)
      <3>1. \A i \in 1..Len(o) : o[i] \notin Marks
        BY <1>3, <1>10, Zenon
      <3> QED BY <1>10, <3>1, QuietPlain, Zenon
    <2> QED BY <1>3, <1>10, <2>1, Zenon DEF Without
  <1>12. o[1] = n /\ o[2] = t
    BY <1>6, <1>7, Zenon
  <1>13. \/ Len(o) = 2 /\ ~f.list /\ ~f.optional
         \/ Len(o) = 3 /\ f.list /\ ~f.optional /\ o[3] = x
         \/ Len(o) = 3 /\ ~f.list /\ f.optional /\ o[3] = y
         \/ Len(o) = 4 /\ f.list /\ f.optional /\ o[3] = x /\ o[4] = y
    BY <1>6, <1>7, Zenon
  <1> QED BY <1>10, <1>11, <1>12, <1>13, Zenon DEF Bare, n, t, x, y

LEMMA DefaultOf ==
    ASSUME NEW f \in Uncut, NEW d, d = Defaulted(f)
    PROVE  /\ Bare(d)
           /\ d = <<>> \/ (Len(d) >= 2 /\ d[1] = "@default(" /\ d[2] = Quote)
  <1>1. CASE f.default = <<>>
    <2>1. d = <<>>
      BY <1>1, Zenon DEF Defaulted
    <2> QED BY <2>1, NoWord, QuietEmpty, Zenon DEF Bare
  <1>2. CASE f.default # <<>>
    <2> DEFINE tag == "@default("
               t == <<tag>>
               s == f.default
               q == InQuotes(s)
               k == Len(s)
    <2>1. s \in Seq(Word) /\ \A i \in 1..Len(s) : s[i] \notin Syntax \ {"{", "}"}
      BY FieldDeclared
    <2>2. d = t \o q
      BY <1>2, Zenon DEF Defaulted
    <2>3. t \in Seq(Word) /\ Len(t) = 1 /\ t[1] = tag /\ Quiet(t) /\ \A w : w # tag => Without(t, w)
      BY WordsOfSyntax, OneWord, Zenon
    <2>4. {Quote, ")"} \subseteq Word
      BY WordsOfSyntax, Zenon
    <2>5. \A i \in 1..Len(s) : s[i] # Quote /\ s[i] # "//" /\ s[i] # "@map(" /\ s[i] # "@@map("
      <3>1. {Quote, "//", "@map(", "@@map("} \subseteq Syntax \ {"{", "}"}
        BY DEF Syntax, Quote
      <3> QED BY <2>1, <3>1, Zenon
    <2> HIDE DEF s, t
    <2>6. /\ q \in Seq(Word) /\ Len(q) = k + 3 /\ q[1] = Quote /\ q[k + 2] = Quote
          /\ q[k + 3] = ")" /\ \A i \in 1..k : q[i + 1] = s[i]
      BY <2>1, <2>4, QuotedWords
    <2>7. Quiet(q)
      BY <2>1, <2>5, QuietQuoted, Zenon
    <2>8. k \in Nat
      BY <2>1, LenProperties
    <2> HIDE DEF q, k
    <2>9. ASSUME NEW w, w # Quote, w # ")", \A i \in 1..k : s[i] # w
          PROVE  Without(q, w)
      <3> SUFFICES ASSUME NEW j \in 1..(k + 3) PROVE q[j] # w
        BY <2>6, Zenon DEF Without
      <3>1. j = 1 \/ j = k + 2 \/ j = k + 3 \/ (j - 1 \in 1..k /\ (j - 1) + 1 = j)
        BY <2>8
      <3> QED BY <2>6, <2>9, <3>1, Zenon
    <2>10. Without(q, "//") /\ Without(q, "@map(") /\ Without(q, "@@map(")
      <3>1. /\ "//" # Quote /\ "@map(" # Quote /\ "@@map(" # Quote
            /\ "//" # ")" /\ "@map(" # ")" /\ "@@map(" # ")"
        BY DEF Quote
      <3> QED BY <2>5, <2>9, <3>1, Zenon DEF k
    <2>11. "//" # tag /\ "@map(" # tag /\ "@@map(" # tag
      BY Zenon
    <2> HIDE DEF tag
    <2>12. \A w \in {"//", "@map(", "@@map("} : Without(d, w)
      BY <2>2, <2>3, <2>6, <2>10, <2>11, WithoutBoth, Zenon
    <2>13. Quiet(d)
      BY <2>2, <2>3, <2>7, QuietBoth, Zenon
    <2>14. /\ d \in Seq(Word) /\ Len(d) = Len(t) + Len(q)
           /\ \A i \in 1..Len(t) : d[i] = t[i]
           /\ \A i \in 1..Len(q) : d[Len(t) + i] = q[i]
      <3>1. /\ t \o q \in Seq(Word) /\ Len(t \o q) = Len(t) + Len(q)
            /\ \A i \in 1..Len(t) : (t \o q)[i] = t[i]
            /\ \A i \in 1..Len(q) : (t \o q)[Len(t) + i] = q[i]
        BY <2>3, <2>6, BothParts, Zenon
      <3> QED BY <2>2, <3>1, Zenon
    <2>15. Len(d) >= 2 /\ d[1] = tag /\ d[2] = Quote
      <3>1. Len(q) = k + 3 /\ Len(t) = 1 /\ Len(d) = Len(t) + Len(q)
        BY <2>3, <2>6, <2>14, Zenon
      <3>2. Len(d) >= 2 /\ 1 \in 1..Len(t) /\ 1 \in 1..Len(q) /\ Len(t) + 1 = 2
        BY <2>8, <3>1
      <3> QED BY <2>3, <2>6, <2>14, <3>2, Zenon
    <2> QED BY <2>12, <2>13, <2>14, <2>15, Zenon DEF Bare, tag
  <1> QED BY <1>1, <1>2

(* What is left of a line without its comment.                             *)
LEMMA StrippedOf ==
    ASSUME NEW a \in Seq(Word), Without(a, "//"), NEW c \in Seq(Word), c = <<>> \/ (Len(c) >= 1 /\ c[1] = "//"),
           NEW line, line = a \o c
    PROVE  Stripped(line) = a
  <1> DEFINE k == Len(a)
             mark == "//"
             B == {i \in DOMAIN line : line[i] = mark} \cup {Len(line) + 1}
             x == Min(B)
  <1>1. /\ line \in Seq(Word) /\ Len(line) = k + Len(c) /\ k \in Nat /\ Len(c) \in Nat
        /\ \A i \in 1..k : line[i] = a[i]
        /\ \A i \in 1..Len(c) : line[k + i] = c[i]
    <2>1. /\ a \o c \in Seq(Word) /\ Len(a \o c) = Len(a) + Len(c) /\ Len(a) \in Nat /\ Len(c) \in Nat
          /\ \A i \in 1..Len(a) : (a \o c)[i] = a[i]
          /\ \A i \in 1..Len(c) : (a \o c)[Len(a) + i] = c[i]
      BY BothParts, Zenon
    <2> QED BY <2>1, Zenon
  <1>2. DOMAIN line = 1..Len(line) /\ Len(line) \in Nat
    BY <1>1, LenProperties
  <1>3. \A i \in 1..k : a[i] # mark
    BY DEF Without
  <1>4. c = <<>> \/ (Len(c) >= 1 /\ c[1] = mark)
    OBVIOUS
  <1>5. c = <<>> => Len(c) = 0
    BY NoWord, Zenon
  <1>6. Stripped(line) = SubSeq(line, 1, x - 1)
    BY Zenon DEF Stripped
  <1> HIDE DEF k, mark
  <1>7. k + 1 \in B
    <2>1. CASE c = <<>>
      BY <1>1, <1>5, <2>1
    <2>2. CASE Len(c) >= 1 /\ c[1] = mark
      <3>1. 1 \in 1..Len(c) /\ k + 1 \in 1..Len(line)
        BY <1>1, <2>2
      <3> QED BY <1>1, <1>2, <2>2, <3>1
    <2> QED BY <1>4, <2>1, <2>2
  <1>8. \A i \in B : i \in Nat /\ k + 1 <= i
    <2> SUFFICES ASSUME NEW i \in B PROVE i \in Nat /\ k + 1 <= i
      OBVIOUS
    <2>1. (i \in 1..Len(line) /\ line[i] = mark) \/ i = Len(line) + 1
      BY <1>2
    <2>2. i \in Nat
      BY <1>2, <2>1
    <2>3. i \in 1..k => line[i] # mark /\ i # Len(line) + 1
      BY <1>1, <1>3
    <2>4. i \notin 1..k
      BY <2>1, <2>3
    <2>5. i >= 1
      BY <1>2, <2>1
    <2> QED BY <1>1, <2>2, <2>4, <2>5
  <1> HIDE DEF B
  <1>9. x = k + 1
    <2>1. \E y \in B : \A i \in B : y <= i
      BY <1>7, <1>8
    <2>2. x \in B /\ \A i \in B : x <= i
      BY <2>1, Zenon DEF Min
    <2> HIDE DEF x
    <2> QED BY <1>1, <1>7, <1>8, <2>2
  <1> HIDE DEF x
  <1>10. x - 1 = k
    BY <1>1, <1>9
  <1>11. SubSeq(line, 1, k) = a
    <2> DEFINE z == SubSeq(line, 1, k)
    <2>1. z \in Seq(Word) /\ Len(z) = k /\ \A i \in 1..k : z[i] = line[i]
      <3>1. k <= Len(line)
        BY <1>1
      <3>2. \A i \in 1..k : i \in 1..Len(line)
        BY <1>1
      <3> QED BY <1>1, <3>1, <3>2
    <2> HIDE DEF z
    <2>2. \A i \in 1..Len(z) : z[i] = a[i]
      BY <1>1, <2>1
    <2>3. z = a
      BY <2>1, <2>2, SeqEqual DEF k
    <2> QED BY <2>3 DEF z
  <1> QED BY <1>6, <1>10, <1>11

\* A line of a block, without its comment.
Plain(line) ==
    /\ line \in Seq(Word) /\ Quiet(line) /\ Without(line, "//")
    /\ \A keyword : ~Opens(line, keyword)

\* The type that is read of a field.
ReadType(f, enums) ==
    IF f.list THEN "string"
    ELSE IF f.type \in enums THEN f.type
    ELSE IF f.type \in DOMAIN SCALARS THEN SCALARS[f.type] ELSE "string"

LEMMA FieldRead ==
    ASSUME NEW f \in Uncut, NEW line, line = FieldLine(f), NEW enums, NEW models
    PROVE  /\ Plain(line) /\ Without(line, "@@map(")
           /\ ParseField(line, enums, models)
                = IF f.type \in models THEN <<>>
                  ELSE <<[column |-> f.column, tsType |-> ReadType(f, enums), optional |-> f.optional]>>
  <1> DEFINE o == Opening(f)
             d == Defaulted(f)
             name == f.name
             column == f.column
             k == Len(o)
             n == Len(line)
  <1>1. /\ f.name \in Name /\ f.type \in Name /\ column \in Name
        /\ f.list \in BOOLEAN /\ f.optional \in BOOLEAN
    BY FieldDeclared
  <1>2. /\ Bare(o)
        /\ o[1] = f.name /\ o[2] = f.type
    BY OpeningOf
  <1>3. \/ k = 2 /\ ~f.list /\ ~f.optional
        \/ k = 3 /\ f.list /\ ~f.optional /\ o[3] = "[]"
        \/ k = 3 /\ ~f.list /\ f.optional /\ o[3] = "?"
        \/ k = 4 /\ f.list /\ f.optional /\ o[3] = "[]" /\ o[4] = "?"
    BY OpeningOf
  <1>4. /\ Bare(d)
        /\ d = <<>> \/ (Len(d) >= 2 /\ d[1] = "@default(" /\ d[2] = Quote)
    BY DefaultOf
  <1>5. line = o \o Renamed("@map(", name, column) \o d
    BY Zenon DEF FieldLine
  <1> HIDE DEF o, d, name, column
  <1>6. k \in 2..4
    <2>1. k = 2 \/ k = 3 \/ k = 4
      BY <1>3, Zenon
    <2> QED BY <2>1
  <1>7. Len(o) \in Nat \ {0}
    BY <1>6
  <1>8. /\ line \in Seq(Word) /\ Quiet(line) /\ Without(line, "//") /\ Without(line, "@@map(")
        /\ n \in Nat /\ n >= k
        /\ \A i \in 1..k : line[i] = o[i]
        /\ MappedName(line, "@map(", name) = column
        /\ n > k => line[k + 1] \in {"@map(", "@default("}
    <2>1. Begun(line, o, name, column)
      BY <1>1, <1>2, <1>4, <1>5, <1>7, ContentLine, Zenon
    <2> QED BY <2>1, Zenon DEF Begun
  <1> HIDE DEF k, n
  <1>9. /\ 1 \in 1..k /\ 2 \in 1..k /\ ~(n < 2) /\ (k >= 3 => 3 \in 1..k /\ n >= 3) /\ (k >= 4 => 4 \in 1..k /\ n >= 4)
        /\ (k = 2 => ~(k >= 3) /\ ~(k >= 4) /\ k + 1 = 3 /\ (n >= 3 => n > k))
        /\ (k = 3 => k >= 3 /\ k + 1 = 4 /\ (n >= 4 => n > k))
        /\ (k = 4 => k >= 3 /\ k >= 4)
    BY <1>6, <1>8
  <1>10. line[1] = f.name /\ line[2] = f.type
    BY <1>2, <1>8, <1>9, Zenon
  <1>11. /\ "[]" # "{" /\ "?" # "{" /\ "[]" # "?"
         /\ \A w \in {"@map(", "@default("} : w # "{" /\ w # "[]" /\ w # "?"
    BY Zenon
  <1>12. /\ (n >= 3 /\ line[3] = "[]") <=> f.list
         /\ n >= 3 => line[3] # "{"
         /\ (n >= 3 /\ (line[3] = "?" \/ (line[3] = "[]" /\ n >= 4 /\ line[4] = "?"))) <=> f.optional
    <2>1. CASE k = 2 /\ ~f.list /\ ~f.optional
      <3>1. n >= 3 => line[3] \in {"@map(", "@default("}
        BY <1>8, <1>9, <2>1, Zenon
      <3> QED BY <1>11, <2>1, <3>1, Zenon
    <2>2. CASE k = 3 /\ f.list /\ ~f.optional /\ o[3] = "[]"
      <3>1. n >= 3 /\ line[3] = "[]"
        BY <1>8, <1>9, <2>2, Zenon
      <3>2. n >= 4 => line[4] \in {"@map(", "@default("}
        BY <1>8, <1>9, <2>2, Zenon
      <3> QED BY <1>11, <2>2, <3>1, <3>2, Zenon
    <2>3. CASE k = 3 /\ ~f.list /\ f.optional /\ o[3] = "?"
      <3>1. n >= 3 /\ line[3] = "?"
        BY <1>8, <1>9, <2>3, Zenon
      <3> QED BY <1>11, <2>3, <3>1, Zenon
    <2>4. CASE k = 4 /\ f.list /\ f.optional /\ o[3] = "[]" /\ o[4] = "?"
      <3>1. n >= 3 /\ line[3] = "[]" /\ n >= 4 /\ line[4] = "?"
        BY <1>8, <1>9, <2>4, Zenon
      <3> QED BY <1>11, <2>4, <3>1, Zenon
    <2> QED BY <1>3, <2>1, <2>2, <2>3, <2>4, Zenon
  <1>13. Plain(line)
    BY <1>8, <1>12, Zenon DEF Plain, Opens, n
  <1>14. line[1] # "@@map("
    BY <1>1, <1>10, NameIsPlain, Zenon
  <1>15. TsType(line, enums) = ReadType(f, enums)
    <2>1. (Len(line) >= 3 /\ line[3] = "[]") <=> f.list
      BY <1>12 DEF n
    <2> QED BY <1>10, <2>1, Zenon DEF TsType, ReadType
  <1>16. ParseField(line, enums, models)
           = IF f.type \in models THEN <<>>
             ELSE <<[column |-> f.column, tsType |-> ReadType(f, enums), optional |-> f.optional]>>
    <2> DEFINE opt == n >= 3 /\ (line[3] = "?" \/ (line[3] = "[]" /\ n >= 4 /\ line[4] = "?"))
    <2>1. opt = f.optional
      <3>1. opt \in BOOLEAN
        BY Zenon
      <3> QED BY <1>1, <1>12, <3>1, Zenon
    <2>2. MappedName(line, "@map(", line[1]) = f.column
      BY <1>8, <1>10, Zenon DEF name, column
    <2>3. ParseField(line, enums, models)
            = IF n < 2 \/ line[1] = "@@map(" \/ line[2] \in models THEN <<>>
              ELSE <<[column |-> MappedName(line, "@map(", line[1]), tsType |-> TsType(line, enums), optional |-> opt]>>
      BY Zenon DEF ParseField, n
    <2> HIDE DEF opt
    <2>4. ~(n < 2 \/ line[1] = "@@map(") /\ line[2] = f.type
      BY <1>9, <1>10, <1>14, Zenon
    <2>5. CASE f.type \in models
      BY <2>3, <2>4, <2>5, Zenon
    <2>6. CASE f.type \notin models
      <3>1. ParseField(line, enums, models)
              = <<[column |-> MappedName(line, "@map(", line[1]), tsType |-> TsType(line, enums), optional |-> opt]>>
        BY <2>3, <2>4, <2>6, Zenon
      <3> QED BY <1>15, <2>1, <2>2, <2>6, <3>1, Zenon
    <2> QED BY <2>5, <2>6, Zenon
  <1> QED BY <1>8, <1>13, <1>16, Zenon

LEMMA ValueRead ==
    ASSUME NEW v \in Uncut, NEW line, line = ValueText(v)
    PROVE  /\ Plain(line) /\ Without(line, "@@map(")
           /\ EnumValue(line) = <<v.column>>
  <1> DEFINE o == <<v.name>>
             d == <<>>
             name == v.name
             column == v.column
             n == Len(line)
             k == Len(o)
  <1>1. name \in Name /\ column \in Name
    BY FieldDeclared
  <1>2. /\ name \in Word /\ name \notin Marks
        /\ name # "//" /\ name # "@map(" /\ name # "@@map("
    BY <1>1, NameIsPlain
  <1>3. Bare(o) /\ Len(o) = 1 /\ o[1] = name /\ o \in Seq(Word)
    BY <1>2, OneWord, Zenon DEF Bare
  <1>4. Bare(d)
    BY NoWord, QuietEmpty, Zenon DEF Bare
  <1>a. d = <<>> \/ (Len(d) >= 2 /\ d[1] = "@default(" /\ d[2] = Quote)
    BY Zenon
  <1>5. line = o \o Renamed("@map(", name, column) \o d
    <2> DEFINE r == o \o Renamed("@map(", name, column)
    <2>1. line = r
      BY Zenon DEF ValueText
    <2>2. r \in Seq(Word)
      <3>1. Renamed("@map(", name, column) \in Seq(Word)
        <4>1. CASE name = column
          <5>1. Renamed("@map(", name, column) = <<>>
            BY <4>1, Zenon DEF Renamed
          <5> QED BY <5>1, NoWord, Zenon
        <4>2. CASE name # column
          <5> DEFINE tag == "@map("
                     s == Renamed(tag, name, column)
          <5>1. tag \in {"@map(", "@@map("}
            BY Zenon
          <5> HIDE DEF tag, s
          <5>2. IsRenamed(s, tag, column)
            BY <1>1, <4>2, <5>1, RenamedLine DEF s
          <5> QED BY <5>2, Zenon DEF IsRenamed, s, tag
        <4> QED BY <4>1, <4>2
      <3> QED BY <1>3, <3>1, BothParts, Zenon
    <2> HIDE DEF r
    <2>3. r \o <<>> = r
      BY <2>2, ConcatEmptySeq
    <2> QED BY <2>1, <2>3, Zenon DEF r
  <1> HIDE DEF o, d, name, column
  <1>6. k = 1 /\ Len(o) \in Nat \ {0}
    BY <1>3
  <1>7. /\ line \in Seq(Word) /\ Quiet(line) /\ Without(line, "//") /\ Without(line, "@@map(")
        /\ n \in Nat /\ n >= k
        /\ \A i \in 1..k : line[i] = o[i]
        /\ MappedName(line, "@map(", name) = column
        /\ n > k + 1 => line[k + 2] = Quote
    <2>1. Begun(line, o, name, column)
      BY <1>1, <1>3, <1>4, <1>a, <1>5, <1>6, ContentLine, Zenon
    <2> QED BY <2>1, Zenon DEF Begun
  <1> HIDE DEF k, n
  <1>8. 1 \in 1..k /\ k + 2 = 3 /\ (n >= 3 => n > k + 1) /\ n # 0
    BY <1>6, <1>7
  <1>9. line[1] = name /\ line # <<>>
    <2>1. line = <<>> => n = 0
      BY NoWord, Zenon DEF n
    <2> QED BY <1>3, <1>7, <1>8, <2>1, Zenon
  <1>10. Quote # "{"
    BY DEF Quote
  <1>11. Plain(line)
    BY <1>7, <1>8, <1>10, Zenon DEF Plain, Opens, n
  <1>12. EnumValue(line) = <<column>>
    BY <1>2, <1>7, <1>9, Zenon DEF EnumValue
  <1> QED BY <1>7, <1>11, <1>12, Zenon DEF column

\* What is known of the line that gives a table its name.
TagLine(line, name, table) ==
    /\ Plain(line) /\ EnumValue(line) = <<>>
    /\ \A enums, models : ParseField(line, enums, models) = <<>>
    /\ name = table => line = <<>>
    /\ name # table => (\E k \in 1..Len(line) : line[k] = "@@map(")
                       /\ \A other : MappedName(line, "@@map(", other) = table

LEMMA TagRead ==
    ASSUME NEW name \in Name, NEW table \in Name, NEW line, line = Renamed("@@map(", name, table)
    PROVE  TagLine(line, name, table)
  <1>1. CASE name = table
    <2>1. line = <<>>
      BY <1>1, Zenon DEF Renamed
    <2>2. ~(Len(<<>>) >= 3) /\ Len(<<>>) < 2
      OBVIOUS
    <2>3. Plain(<<>>)
      BY <2>2, NoWord, QuietEmpty, Zenon DEF Plain, Opens
    <2>4. EnumValue(<<>>) = <<>>
      BY Zenon DEF EnumValue
    <2>5. \A enums, models : ParseField(<<>>, enums, models) = <<>>
      BY <2>2, Zenon DEF ParseField
    <2> QED BY <1>1, <2>1, <2>3, <2>4, <2>5, Zenon DEF TagLine
  <1>2. CASE name # table
    <2> DEFINE tag == "@@map("
    <2>1. tag \in {"@map(", "@@map("} /\ line = Renamed(tag, name, table)
      BY Zenon
    <2> HIDE DEF tag
    <2>2. IsRenamed(line, tag, table)
      BY <1>2, <2>1, RenamedLine
    <2>3. /\ line \in Seq(Word) /\ Quiet(line) /\ Len(line) = 5
          /\ line[1] = tag /\ line[2] = Quote /\ line[3] = table
          /\ \A w : w \notin {tag, Quote, table, ")"} => Without(line, w)
      BY <2>2, Zenon DEF IsRenamed
    <2>4. table # "//" /\ table # "{"
      BY NameIsPlain, Zenon
    <2>5. Without(line, "//")
      <3>1. "//" \notin {tag, Quote, ")"}
        BY DEF Quote, tag
      <3> QED BY <2>3, <2>4, <3>1, Zenon
    <2>6. Plain(line)
      BY <2>3, <2>4, <2>5, Zenon DEF Plain, Opens
    <2>7. line[1] = "@@map("
      BY <2>3, Zenon DEF tag
    <2>8. EnumValue(line) = <<>> /\ \A enums, models : ParseField(line, enums, models) = <<>>
      BY <2>7, Zenon DEF EnumValue, ParseField
    <2>9. 1 \in 1..Len(line) /\ 1..(1 - 1) = {} /\ 1 + 2 = 3
      BY <2>3
    <2>10. FirstAt(line, tag, 1)
      BY <2>3, <2>9, Zenon DEF FirstAt
    <2>11. \A other : MappedName(line, tag, other) = table
      <3> SUFFICES ASSUME NEW other PROVE MappedName(line, tag, other) = table
        OBVIOUS
      <3>1. MappedName(line, tag, other) = line[1 + 2]
        BY <2>3, <2>10, MappedFound
      <3> QED BY <2>3, <2>9, <3>1, Zenon
    <2> QED BY <1>2, <2>6, <2>7, <2>8, <2>9, <2>11, Zenon DEF TagLine, tag
  <1> QED BY <1>1, <1>2

-----------------------------------------------------------------------------
(* The blocks of a schema, and their text.                                 *)

Blocks ==
    {b \in [kind : {"enum", "model"}, name : Name, table : Name, fields : Seq(Uncut)] :
        b.kind = "enum" => b.name \in EnumNames}

\* What is extracted of a block.
Line(b, i) == IF b.kind = "enum" THEN ValueText(b.fields[i]) ELSE FieldLine(b.fields[i])
Tag(b) == Renamed("@@map(", b.name, b.table)
Lines(b) ==
    [i \in 1..(Len(b.fields) + 3) |->
        IF i \in {1, Len(b.fields) + 3} THEN <<>> ELSE IF i = Len(b.fields) + 2 THEN Tag(b) ELSE Line(b, i - 1)]
BlockOf(b) == [name |-> b.name, body |-> Lines(b)]

LEMMA BlockIs ==
    ASSUME NEW b \in Blocks
    PROVE  /\ b.kind \in {"enum", "model"} /\ b.name \in Name /\ b.table \in Name
           /\ b.fields \in Seq(Uncut) /\ Len(b.fields) \in Nat /\ DOMAIN b.fields = 1..Len(b.fields)
           /\ \A i \in 1..Len(b.fields) : b.fields[i] \in Uncut
           /\ b.kind = "enum" => b.name \in EnumNames
  <1>1. b \in [kind : {"enum", "model"}, name : Name, table : Name, fields : Seq(Uncut)]
    BY Zenon DEF Blocks
  <1>2. b.kind \in {"enum", "model"} /\ b.name \in Name /\ b.table \in Name /\ b.fields \in Seq(Uncut)
    BY <1>1
  <1>3. b.kind = "enum" => b.name \in EnumNames
    BY Zenon DEF Blocks
  <1>4. /\ Len(b.fields) \in Nat /\ DOMAIN b.fields = 1..Len(b.fields)
        /\ \A i \in 1..Len(b.fields) : b.fields[i] \in Uncut
    BY <1>2, LenProperties, ElementOfSeq
  <1> QED BY <1>2, <1>3, <1>4

LEMMA TagIs ==
    ASSUME NEW b \in Blocks
    PROVE  TagLine(Tag(b), b.name, b.table)
  <1>1. b.name \in Name /\ b.table \in Name /\ Tag(b) = Renamed("@@map(", b.name, b.table)
    BY BlockIs, Zenon DEF Tag
  <1> QED BY <1>1, TagRead, Zenon

\* Line i of what is extracted of a block with m lines.
LEMMA LinesAre ==
    ASSUME NEW b \in Blocks, NEW m, m = Len(b.fields) + 3
    PROVE  /\ m \in Nat /\ m >= 3
           /\ Lines(b) \in Seq(Seq(Word)) /\ Len(Lines(b)) = m
           /\ Lines(b)[1] = <<>> /\ Lines(b)[m - 1] = Tag(b) /\ Lines(b)[m] = <<>>
           /\ \A i \in 1..Len(b.fields) : Lines(b)[i + 1] = Line(b, i)
           /\ \A i \in 1..m : i = 1 \/ i = m \/ i = m - 1 \/ \E k \in 1..Len(b.fields) : i = k + 1
           /\ \A i \in 2..(m - 1) : Plain(Lines(b)[i])
           /\ Plain(Tag(b))
           /\ \A i \in 1..Len(b.fields) : Plain(Line(b, i)) /\ Without(Line(b, i), "@@map(")
  <1> DEFINE l == Lines(b)
             n == Len(b.fields)
  <1>1. n \in Nat /\ \A i \in 1..n : b.fields[i] \in Uncut
    BY BlockIs
  <1>2. \A i \in 1..(n + 3) : l[i] = IF i \in {1, n + 3} THEN <<>> ELSE IF i = n + 2 THEN Tag(b) ELSE Line(b, i - 1)
    BY DEF Lines
  <1>3. m = n + 3
    OBVIOUS
  <1>4. \A i \in 1..n : Plain(Line(b, i)) /\ Without(Line(b, i), "@@map(")
    <2> SUFFICES ASSUME NEW i \in 1..n PROVE Plain(Line(b, i)) /\ Without(Line(b, i), "@@map(")
      OBVIOUS
    <2> DEFINE f == b.fields[i]
    <2>1. f \in Uncut
      BY <1>1
    <2> HIDE DEF f
    <2>2. Plain(ValueText(f)) /\ Without(ValueText(f), "@@map(")
      BY <2>1, ValueRead
    <2>3. Plain(FieldLine(f)) /\ Without(FieldLine(f), "@@map(")
      BY <2>1, FieldRead
    <2> QED BY <2>2, <2>3, Zenon DEF Line, f
  <1>5. Plain(Tag(b))
    BY TagIs, Zenon DEF TagLine
  <1>a. l = [i \in 1..(n + 3) |-> l[i]]
    BY DEF Lines
  <1> HIDE DEF l, n
  <1>6. l[1] = <<>> /\ l[n + 3] = <<>> /\ l[n + 2] = Tag(b) /\ \A i \in 1..n : l[i + 1] = Line(b, i)
    <2>1. 1 \in 1..(n + 3) /\ n + 3 \in 1..(n + 3) /\ n + 2 \in 1..(n + 3) /\ n + 2 # 1 /\ n + 2 # n + 3
      BY <1>1
    <2>2. \A i \in 1..n : i + 1 \in 1..(n + 3) /\ i + 1 # 1 /\ i + 1 # n + 3 /\ i + 1 # n + 2 /\ (i + 1) - 1 = i
      BY <1>1
    <2>3. l[1] = <<>> /\ l[n + 3] = <<>> /\ l[n + 2] = Tag(b)
      BY <1>2, <2>1, Zenon
    <2>4. \A i \in 1..n : l[i + 1] = Line(b, i)
      BY <1>2, <2>2, Zenon
    <2> QED BY <2>3, <2>4
  <1>7. /\ m \in Nat /\ m >= 3 /\ m - 1 = n + 2
        /\ \A i \in 1..m : i = 1 \/ i = m \/ i = m - 1 \/ (i - 1 \in 1..n /\ i = (i - 1) + 1)
        /\ \A i \in 2..(m - 1) : i \in 1..m /\ i # 1 /\ i # m
    BY <1>1, <1>3
  <1>8. \A i \in 1..m : i = 1 \/ i = m \/ i = m - 1 \/ \E k \in 1..n : i = k + 1
    BY <1>7, Zenon
  <1>9. Plain(<<>>)
    <2>1. ~(Len(<<>>) >= 3)
      OBVIOUS
    <2> QED BY <2>1, NoWord, QuietEmpty, Zenon DEF Plain, Opens
  <1>10. \A i \in 1..m : Plain(l[i])
    <2> SUFFICES ASSUME NEW i \in 1..m PROVE Plain(l[i])
      OBVIOUS
    <2>1. CASE i = 1 \/ i = m
      BY <1>3, <1>6, <1>9, <2>1, Zenon
    <2>2. CASE i = m - 1
      BY <1>5, <1>6, <1>7, <2>2, Zenon
    <2>3. CASE \E k \in 1..n : i = k + 1
      BY <1>4, <1>6, <2>3, Zenon
    <2> QED BY <1>8, <2>1, <2>2, <2>3, Zenon
  <1>11. l \in Seq(Seq(Word)) /\ Len(l) = m
    <2>1. \A i \in 1..(n + 3) : l[i] \in Seq(Word)
      BY <1>3, <1>10, Zenon DEF Plain
    <2>2. l \in [1..(n + 3) -> Seq(Word)]
      BY <1>a, <2>1
    <2> QED BY <1>1, <1>3, <2>2
  <1> QED BY <1>3, <1>4, <1>5, <1>6, <1>7, <1>8, <1>10, <1>11, Zenon DEF l, n

(* The text of a block, without its comments, is what is extracted of it   *)
(* between what opens it and the brace that closes it.                     *)
LEMMA BlockTextIs ==
    ASSUME NEW b \in Blocks, NEW m, m = Len(b.fields) + 3
    PROVE  /\ BlockText(b) \in Seq(Seq(Word)) /\ Len(BlockText(b)) = m
           /\ Stripped(BlockText(b)[1]) = <<b.kind, b.name, "{">>
           /\ \A i \in 2..(m - 1) : Stripped(BlockText(b)[i]) = Lines(b)[i]
           /\ Stripped(BlockText(b)[m]) = <<"}">>
  <1> DEFINE n == Len(b.fields)
             T(i) == IF b.kind = "enum" THEN ValueText(b.fields[i]) ELSE FieldText(b.fields[i])
             open == <<b.kind, b.name, "{">>
             close == <<"}">>
             tag == Tag(b)
             x == <<open>>
             y == [i \in DOMAIN b.fields |-> T(i)]
             z == <<tag, close>>
             text == BlockText(b)
  <1>1. /\ b.kind \in {"enum", "model"} /\ b.name \in Name
        /\ n \in Nat /\ DOMAIN b.fields = 1..n /\ \A i \in 1..n : b.fields[i] \in Uncut
    BY BlockIs
  <1>2. \A line : Plain(line) => line \in Seq(Word) /\ Without(line, "//")
    BY Zenon DEF Plain
  <1>3. \A line \in Seq(Word) : Without(line, "//") => Stripped(line) = line
    <2> SUFFICES ASSUME NEW line \in Seq(Word), Without(line, "//") PROVE Stripped(line) = line
      OBVIOUS
    <2> DEFINE e == <<>>
    <2>1. e \in Seq(Word) /\ (e = <<>> \/ (Len(e) >= 1 /\ e[1] = "//"))
      BY NoWord, Zenon
    <2>2. line = line \o e
      BY ConcatEmptySeq
    <2> HIDE DEF e
    <2> QED BY <2>1, <2>2, StrippedOf, Zenon
  <1>4. ASSUME NEW i \in 1..n PROVE T(i) \in Seq(Word) /\ Stripped(T(i)) = Line(b, i)
    <2> DEFINE f == b.fields[i]
    <2>1. f \in Uncut
      BY <1>1
    <2>2. CASE b.kind = "enum"
      <3>1. T(i) = ValueText(f) /\ Line(b, i) = ValueText(f)
        BY <2>2, Zenon DEF Line
      <3> HIDE DEF f
      <3>2. Plain(ValueText(f))
        BY <2>1, ValueRead
      <3> QED BY <1>2, <1>3, <3>1, <3>2, Zenon
    <2>3. CASE b.kind # "enum"
      <3>1. T(i) = FieldText(f) /\ Line(b, i) = FieldLine(f)
        BY <2>3, Zenon DEF Line
      <3> HIDE DEF f
      <3> DEFINE a == FieldLine(f)
                 c == IF f.comment THEN <<"//", "}", Quote>> ELSE <<>>
      <3>2. FieldText(f) = a \o c
        BY Zenon DEF FieldText, FieldLine, Opening, Defaulted
      <3>3. a \in Seq(Word) /\ Without(a, "//")
        <4>1. Plain(a)
          BY <2>1, FieldRead
        <4> QED BY <1>2, <4>1, Zenon
      <3>4. c \in Seq(Word) /\ (c = <<>> \/ (Len(c) >= 1 /\ c[1] = "//"))
        <4>1. CASE ~f.comment
          <5>1. c = <<>>
            BY <4>1, Zenon
          <5> QED BY <5>1, NoWord, Zenon
        <4>2. CASE f.comment
          <5>1. c = <<"//", "}", Quote>>
            BY <4>2, Zenon
          <5>2. "//" \in Word /\ "}" \in Word /\ Quote \in Word
            BY WordsOfSyntax DEF Word, Syntax
          <5>3. ASSUME NEW u \in Word, NEW v \in Word, NEW w \in Word
                PROVE  <<u, v, w>> \in Seq(Word) /\ Len(<<u, v, w>>) >= 1 /\ <<u, v, w>>[1] = u
            OBVIOUS
          <5> QED BY <5>1, <5>2, <5>3, Zenon
        <4> QED BY <4>1, <4>2, Zenon
      <3> HIDE DEF a, c
      <3>5. a \o c \in Seq(Word)
        BY <3>3, <3>4, BothParts, Zenon
      <3>6. Stripped(a \o c) = a
        BY <3>3, <3>4, StrippedOf, Zenon
      <3> QED BY <3>1, <3>2, <3>5, <3>6, Zenon DEF a
    <2> QED BY <2>2, <2>3
  <1>5. open \in Seq(Word) /\ Stripped(open) = open
    <2>1. b.kind \in Word /\ b.name \in Word /\ "{" \in Word
      BY <1>1, NameIsPlain, WordsOfSyntax, Zenon DEF Word, Syntax
    <2>2. b.kind # "//" /\ b.name # "//" /\ "{" # "//"
      BY <1>1, NameIsPlain, Zenon
    <2>3. ASSUME NEW u \in Word, NEW v \in Word, NEW w \in Word
          PROVE  /\ <<u, v, w>> \in Seq(Word) /\ Len(<<u, v, w>>) = 3
                 /\ <<u, v, w>>[1] = u /\ <<u, v, w>>[2] = v /\ <<u, v, w>>[3] = w
      OBVIOUS
    <2>4. open \in Seq(Word) /\ Len(open) = 3 /\ open[1] = b.kind /\ open[2] = b.name /\ open[3] = "{"
      BY <2>1, <2>3, Zenon
    <2>5. \A i \in 1..3 : i = 1 \/ i = 2 \/ i = 3
      OBVIOUS
    <2>6. Without(open, "//")
      <3> HIDE DEF open
      <3> QED BY <2>2, <2>4, <2>5, Zenon DEF Without
    <2> HIDE DEF open
    <2> QED BY <1>3, <2>4, <2>6, Zenon
  <1>6. close \in Seq(Word) /\ Stripped(close) = close
    <2>1. "}" \in Word /\ "//" # "}"
      BY Zenon DEF Word, Syntax
    <2>2. close \in Seq(Word) /\ Without(close, "//")
      BY <2>1, OneWord, Zenon
    <2> HIDE DEF close
    <2> QED BY <1>3, <2>2, Zenon
  <1>7. tag \in Seq(Word) /\ Stripped(tag) = tag
    <2>1. Plain(tag)
      BY LinesAre
    <2> QED BY <1>2, <1>3, <2>1, Zenon
  <1>8. text = x \o y \o z
    BY Zenon DEF BlockText, Tag
  <1> HIDE DEF T, open, close, tag
  <1>9. x \in Seq(Seq(Word)) /\ Len(x) = 1 /\ x[1] = open
    BY <1>5
  <1>10. y \in Seq(Seq(Word)) /\ Len(y) = n /\ \A i \in 1..n : y[i] = T(i)
    <2>1. y \in [1..n -> Seq(Word)] /\ \A i \in 1..n : y[i] = T(i)
      BY <1>1, <1>4
    <2> HIDE DEF y
    <2> QED BY <1>1, <2>1
  <1>11. z \in Seq(Seq(Word)) /\ Len(z) = 2 /\ z[1] = tag /\ z[2] = close
    BY <1>6, <1>7
  <1> DEFINE u == x \o y
  <1> HIDE DEF x, y, z, n
  <1>12. /\ u \in Seq(Seq(Word)) /\ Len(u) = n + 1 /\ u[1] = open /\ \A i \in 1..n : u[i + 1] = T(i)
    <2>1. /\ u \in Seq(Seq(Word)) /\ Len(u) = Len(x) + Len(y)
          /\ \A i \in 1..(Len(x) + Len(y)) : u[i] = IF i <= Len(x) THEN x[i] ELSE y[i - Len(x)]
      BY <1>9, <1>10, ConcatProperties
    <2>2. \A i \in 1..n : i + 1 \in 1..(1 + n) /\ ~(i + 1 <= 1) /\ (i + 1) - 1 = i
      BY <1>1
    <2>3. 1 \in 1..(1 + n) /\ 1 <= 1 /\ 1 + n = n + 1
      BY <1>1
    <2> HIDE DEF u
    <2> QED BY <1>9, <1>10, <2>1, <2>2, <2>3, Zenon
  <1> HIDE DEF u, text
  <1>13. /\ text \in Seq(Seq(Word)) /\ Len(text) = n + 3 /\ text[1] = open
         /\ text[n + 2] = tag /\ text[n + 3] = close
         /\ \A i \in 1..n : text[i + 1] = T(i)
    <2>1. /\ u \o z \in Seq(Seq(Word)) /\ Len(u \o z) = Len(u) + Len(z)
          /\ \A i \in 1..(Len(u) + Len(z)) : (u \o z)[i] = IF i <= Len(u) THEN u[i] ELSE z[i - Len(u)]
      BY <1>11, <1>12, ConcatProperties
    <2>2. text = u \o z
      BY <1>8, Zenon DEF u
    <2>3. /\ text \in Seq(Seq(Word)) /\ Len(text) = (n + 1) + 2
          /\ \A i \in 1..((n + 1) + 2) : text[i] = IF i <= n + 1 THEN u[i] ELSE z[i - (n + 1)]
      BY <1>11, <1>12, <2>1, <2>2, Zenon
    <2>4. /\ 1 \in 1..((n + 1) + 2) /\ 1 <= n + 1 /\ (n + 1) + 2 = n + 3
          /\ n + 2 \in 1..((n + 1) + 2) /\ ~(n + 2 <= n + 1) /\ (n + 2) - (n + 1) = 1
          /\ n + 3 \in 1..((n + 1) + 2) /\ ~(n + 3 <= n + 1) /\ (n + 3) - (n + 1) = 2
          /\ \A i \in 1..n : i + 1 \in 1..((n + 1) + 2) /\ i + 1 <= n + 1
      BY <1>1
    <2> QED BY <1>11, <1>12, <2>3, <2>4, Zenon
  <1> DEFINE l == Lines(b)
  <1>14. /\ l[n + 2] = tag /\ \A i \in 1..n : l[i + 1] = Line(b, i)
    <2>1. m - 1 = n + 2
      BY <1>1 DEF n
    <2> QED BY <2>1, LinesAre DEF n, tag
  <1>15. m = n + 3 /\ \A i \in 2..(m - 1) : i = n + 2 \/ (i - 1 \in 1..n /\ i = (i - 1) + 1)
    BY <1>1 DEF n
  <1> HIDE DEF l
  <1>16. \A i \in 2..(m - 1) : Stripped(text[i]) = l[i]
    <2> SUFFICES ASSUME NEW i \in 2..(m - 1) PROVE Stripped(text[i]) = l[i]
      OBVIOUS
    <2>1. CASE i = n + 2
      BY <1>7, <1>13, <1>14, <2>1, Zenon
    <2>2. CASE i - 1 \in 1..n /\ i = (i - 1) + 1
      BY <1>4, <1>13, <1>14, <2>2, Zenon
    <2> QED BY <1>15, <2>1, <2>2
  <1>17. Stripped(text[1]) = open /\ Stripped(text[m]) = close /\ Len(text) = m
    BY <1>5, <1>6, <1>13, <1>15, Zenon
  <1> QED BY <1>13, <1>16, <1>17, Zenon DEF open, close, l, text

\* Where the n-th of some sequences stands when they are put together.
StandsAt(h, s, n) ==
    /\ Len(h[n - 1]) \in Nat /\ Len(h[n]) = Len(h[n - 1]) + Len(s[n])
    /\ Len(h[n]) <= Len(h[Len(s)])
    /\ \A j \in 1..Len(s[n]) : h[Len(s)][Len(h[n - 1]) + j] = s[n][j]

LEMMA Positions ==
    ASSUME NEW S, NEW s \in Seq(Seq(S)), NEW h, Joined(h, s, S), NEW n \in 1..Len(s)
    PROVE  StandsAt(h, s, n)
  <1> DEFINE N == Len(s)
             a == h[n - 1]
             Upto(k) == k >= n => /\ Len(h[n]) <= Len(h[k])
                                  /\ \A j \in 1..Len(s[n]) : h[k][Len(a) + j] = s[n][j]
             T == {k \in 0..N : Upto(k)}
  <1>1. N \in Nat /\ n \in 1..N /\ n - 1 \in 0..N /\ n \in 0..N
    OBVIOUS
  <1>2. /\ \A i \in 1..N : h[i] = h[i - 1] \o s[i]
        /\ \A i \in 0..N : h[i] \in Seq(S)
    BY DEF Joined
  <1>3. \A i \in 1..N : s[i] \in Seq(S)
    BY ElementOfSeq
  <1>4. a \in Seq(S) /\ Len(a) \in Nat /\ s[n] \in Seq(S) /\ Len(s[n]) \in Nat
    BY <1>1, <1>2, <1>3, LenProperties
  <1> HIDE DEF N
  <1>5. ASSUME NEW k \in 1..N
        PROVE  /\ Len(h[k]) = Len(h[k - 1]) + Len(s[k]) /\ Len(h[k - 1]) \in Nat /\ Len(s[k]) \in Nat
               /\ \A i \in 1..Len(h[k - 1]) : h[k][i] = h[k - 1][i]
               /\ \A i \in 1..Len(s[k]) : h[k][Len(h[k - 1]) + i] = s[k][i]
    <2> DEFINE c == h[k - 1]
               d == s[k]
               e == h[k]
    <2>1. c \in Seq(S) /\ d \in Seq(S) /\ e = c \o d
      <3>1. k - 1 \in 0..N
        BY <1>1
      <3> QED BY <1>2, <1>3, <3>1
    <2> HIDE DEF c, d, e
    <2>2. /\ Len(e) = Len(c) + Len(d) /\ Len(c) \in Nat /\ Len(d) \in Nat
          /\ \A i \in 1..(Len(c) + Len(d)) : e[i] = IF i <= Len(c) THEN c[i] ELSE d[i - Len(c)]
      BY <2>1, ConcatProperties, LenProperties
    <2>3. \A i \in 1..Len(c) : i \in 1..(Len(c) + Len(d)) /\ i <= Len(c)
      BY <2>2
    <2>4. \A i \in 1..Len(d) : Len(c) + i \in 1..(Len(c) + Len(d)) /\ ~(Len(c) + i <= Len(c)) /\ (Len(c) + i) - Len(c) = i
      BY <2>2
    <2>5. (\A i \in 1..Len(c) : e[i] = c[i]) /\ \A i \in 1..Len(d) : e[Len(c) + i] = d[i]
      BY <2>2, <2>3, <2>4, Zenon
    <2> QED BY <2>2, <2>5 DEF c, d, e
  <1> DEFINE p == Len(a)
             q == Len(s[n])
  <1>6. p \in Nat /\ q \in Nat /\ Len(h[n]) = p + q
    BY <1>1, <1>4, <1>5
  <1>7. 0 \in T
    BY <1>1
  <1>8. ASSUME NEW k \in 1..N, k - 1 \in T PROVE k \in T
    <2>1. CASE k < n
      BY <2>1
    <2>2. CASE k = n
      <3>1. \A j \in 1..q : h[k][p + j] = s[n][j]
        BY <1>5, <2>2
      <3> HIDE DEF p, q
      <3>2. Len(h[n]) <= Len(h[k])
        <4>1. Len(h[k]) = p + q
          BY <1>6, <2>2
        <4> QED BY <1>6, <4>1
      <3>3. Upto(k)
        BY <3>1, <3>2, Zenon DEF p, q
      <3> QED BY <3>3
    <2>3. CASE k > n
      <3>1. Len(h[n]) <= Len(h[k - 1]) /\ \A j \in 1..q : h[k - 1][p + j] = s[n][j]
        <4>1. k - 1 >= n
          BY <1>1, <2>3
        <4> QED BY <1>8, <4>1
      <3>2. /\ Len(h[k]) = Len(h[k - 1]) + Len(s[k]) /\ Len(h[k - 1]) \in Nat /\ Len(s[k]) \in Nat
            /\ \A i \in 1..Len(h[k - 1]) : h[k][i] = h[k - 1][i]
        BY <1>5
      <3> HIDE DEF p, q
      <3>3. Len(h[n]) <= Len(h[k])
        <4>1. Len(h[n]) <= Len(h[k - 1]) /\ Len(h[k]) = Len(h[k - 1]) + Len(s[k])
          BY <3>1, <3>2, Zenon
        <4>2. Len(h[n]) = p + q /\ Len(h[k - 1]) \in Nat /\ Len(s[k]) \in Nat /\ p \in Nat /\ q \in Nat
          BY <1>6, <3>2, Zenon
        <4> DEFINE u == Len(h[n])
                   v == Len(h[k - 1])
                   w == Len(s[k])
                   z == Len(h[k])
        <4>3. u <= v /\ z = v + w /\ u = p + q /\ v \in Nat /\ w \in Nat /\ p \in Nat /\ q \in Nat
          BY <4>1, <4>2, Zenon
        <4> HIDE DEF u, v, w, z
        <4>4. u <= z
          BY <4>3
        <4> QED BY <4>4 DEF u, z
      <3>4. \A j \in 1..q : p + j \in 1..Len(h[k - 1])
        BY <1>6, <3>1, <3>2
      <3>5. \A j \in 1..q : h[k][p + j] = s[n][j]
        BY <3>1, <3>2, <3>4
      <3> QED BY <3>3, <3>5 DEF p, q
    <2> QED BY <1>1, <2>1, <2>2, <2>3
  <1>9. 0..N \subseteq T
    <2> HIDE DEF T
    <2> QED BY <1>1, <1>7, <1>8, UpTo
  <1>10. Upto(N)
    <2>1. N \in 0..N
      BY <1>1
    <2> QED BY <1>9, <2>1
  <1>11. N >= n
    BY <1>1
  <1> QED BY <1>6, <1>10, <1>11, Zenon DEF StandsAt, N

(* The text of a schema without its comments, which is what is read.       *)
Bared == [i \in DOMAIN Text |-> Stripped(Text[i])]
Kept(kind) == [i \in 1..Len(schema) |-> schema[i].kind = kind]
Extracted == [i \in 1..Len(schema) |-> BlockOf(schema[i])]

(* Of a schema just the blocks of the kind looked for are extracted, in    *)
(* their order and with all their lines.                                   *)
LEMMA BlocksFound ==
    ASSUME schema \in Seq(Blocks), NEW keyword
    PROVE  ExtractBlocks(Bared, keyword) = FlattenSeq(Pushed(Kept(keyword), Extracted))
  <1> DEFINE N == Len(schema)
             s == [i \in DOMAIN schema |-> BlockText(schema[i])]
             m(i) == Len(schema[i].fields) + 3
  <1>1. N \in Nat /\ DOMAIN schema = 1..N /\ \A i \in 1..N : schema[i] \in Blocks
    BY LenProperties, ElementOfSeq
  <1>2. s \in Seq(Seq(Seq(Word))) /\ Len(s) = N /\ \A i \in 1..N : s[i] = BlockText(schema[i])
    <2>1. \A i \in 1..N : BlockText(schema[i]) \in Seq(Seq(Word))
      BY <1>1, BlockTextIs
    <2>2. s \in [1..N -> Seq(Seq(Word))]
      BY <1>1, <2>1
    <2>3. \A i \in 1..N : s[i] = BlockText(schema[i])
      BY <1>1
    <2> HIDE DEF s
    <2> QED BY <1>1, <2>2, <2>3
  <1>3. Text = FlattenSeq(s)
    BY Zenon DEF Text
  <1> HIDE DEF s
  <1>4. PICK h : Joined(h, s, Seq(Word))
    BY <1>2, Flattening
  <1>5. Text = h[N] /\ h[0] = <<>> /\ Text \in Seq(Seq(Word)) /\ Len(Text) \in Nat /\ DOMAIN Text = 1..Len(Text)
    <2>1. FlattenSeq(s) = h[N] /\ h[0] = <<>> /\ \A i \in 0..N : h[i] \in Seq(Seq(Word))
      BY <1>2, <1>4, Zenon DEF Joined
    <2>2. N \in 0..N
      BY <1>1
    <2>3. Text \in Seq(Seq(Word)) /\ Text = h[N]
      BY <1>3, <2>1, <2>2, Zenon
    <2> QED BY <2>1, <2>3, LenProperties, Zenon
  <1> DEFINE text == Bared
             c(i) == Len(h[i])
  <1>6. Len(text) = Len(Text) /\ \A i \in 1..Len(Text) : text[i] = Stripped(Text[i])
    <2>1. text = [i \in 1..Len(Text) |-> Stripped(Text[i])]
      BY <1>5, Zenon DEF Bared
    <2>2. \A i \in 1..Len(Text) : text[i] = Stripped(Text[i])
      BY <2>1, Zenon
    <2>3. Len(text) = Len(Text)
      <3> HIDE DEF text
      <3> QED BY <1>5, <2>1
    <2> QED BY <2>2, <2>3
  <1> HIDE DEF text
  <1>a. ASSUME NEW n \in 1..N
        PROVE  /\ c(n - 1) \in Nat /\ c(n) = c(n - 1) + Len(s[n]) /\ c(n) <= c(N)
               /\ \A j \in 1..Len(s[n]) : h[N][c(n - 1) + j] = s[n][j]
    <2> DEFINE S == Seq(Word)
    <2>1. s \in Seq(Seq(S)) /\ Joined(h, s, S) /\ n \in 1..Len(s) /\ Len(s) = N
      BY <1>2, <1>4
    <2> HIDE DEF S, N
    <2>2. StandsAt(h, s, n)
      BY <2>1, Positions
    <2> QED BY <2>1, <2>2, Zenon DEF StandsAt
  <1>7. ASSUME NEW n \in 1..N
        PROVE  /\ c(n) = c(n - 1) + m(n)
               /\ BlockAt(text, c(n - 1), m(n), schema[n].kind, schema[n].name, Lines(schema[n]))
               /\ \A i \in 2..(m(n) - 1) : Plain(Lines(schema[n])[i])
    <2> DEFINE b == schema[n]
               M == m(n)
               p == c(n - 1)
               l == Lines(b)
               t == BlockText(b)
    <2>1. b \in Blocks /\ M = Len(b.fields) + 3
      BY <1>1
    <2>2. /\ M \in Nat /\ M >= 3 /\ l \in Seq(Seq(Word)) /\ Len(l) = M
          /\ l[1] = <<>> /\ l[M] = <<>>
          /\ \A i \in 2..(M - 1) : Plain(l[i])
      BY <2>1, LinesAre
    <2>3. /\ Len(t) = M
          /\ Stripped(t[1]) = <<b.kind, b.name, "{">>
          /\ \A i \in 2..(M - 1) : Stripped(t[i]) = l[i]
          /\ Stripped(t[M]) = <<"}">>
      BY <2>1, BlockTextIs
    <2>4. s[n] = t
      BY <1>2
    <2>5. /\ p \in Nat /\ c(n) = p + Len(s[n]) /\ c(n) <= c(N)
          /\ \A j \in 1..Len(s[n]) : h[N][p + j] = s[n][j]
      BY <1>a
    <2> HIDE DEF b, M, p, l, t
    <2>6. c(N) = Len(Text) /\ c(n) = p + M /\ p + M <= Len(text)
      <3>1. c(N) = Len(Text)
        BY <1>5
      <3>2. c(n) = p + M
        BY <2>3, <2>4, <2>5, Zenon
      <3>3. p + M <= Len(text)
        BY <1>6, <2>5, <3>1, <3>2, Zenon
      <3> QED BY <3>1, <3>2, <3>3
    <2>7. \A j \in 1..M : text[p + j] = Stripped(t[j])
      <3>1. \A j \in 1..M : p + j \in 1..Len(Text)
        <4>1. p \in Nat /\ M \in Nat /\ p + M <= Len(Text) /\ Len(Text) \in Nat
          BY <1>5, <1>6, <2>2, <2>5, <2>6, Zenon
        <4> QED BY <4>1
      <3>2. \A j \in 1..M : Text[p + j] = t[j]
        BY <1>5, <2>3, <2>4, <2>5, Zenon
      <3> QED BY <1>6, <3>1, <3>2, Zenon
    <2>8. 1 \in 1..M /\ M \in 1..M /\ \A i \in 2..(M - 1) : i \in 1..M
      BY <2>2
    <2>9. \A i \in 2..(M - 1) : text[p + i] = l[i] /\ Quiet(l[i])
      BY <2>2, <2>3, <2>7, <2>8, Zenon DEF Plain
    <2>10. text[p + 1] = <<b.kind, b.name, "{">> /\ text[p + M] = <<"}">>
      BY <2>3, <2>7, <2>8, Zenon
    <2>11. Len(text) \in Nat
      BY <1>5, <1>6, Zenon
    <2>12. BlockAt(text, p, M, b.kind, b.name, l)
      BY <2>2, <2>5, <2>6, <2>9, <2>10, <2>11, Zenon DEF BlockAt
    <2> QED BY <2>2, <2>6, <2>12, Zenon DEF b, M, p, l
  <1> DEFINE keep == Kept(keyword)
             x == Extracted
             X == {x[i] : i \in 1..N}
             f == Pushed(keep, x)
  <1>8. /\ \A i \in 1..N : x[i] = [name |-> schema[i].name, body |-> Lines(schema[i])] /\ x[i] \in X
        /\ \A i \in 1..N : keep[i] = (schema[i].kind = keyword)
        /\ DOMAIN x = 1..N
    <2>1. (\A i \in 1..N : x[i] = BlockOf(schema[i])) /\ DOMAIN x = 1..N
      BY Zenon DEF Extracted
    <2>2. \A i \in 1..N : keep[i] = (schema[i].kind = keyword)
      BY Zenon DEF Kept
    <2> QED BY <2>1, <2>2, Zenon DEF BlockOf
  <1> HIDE DEF keep, x, X
  <1>9. f \in Seq(Seq(X)) /\ Len(f) = N /\ \A i \in 1..N : f[i] = IF keep[i] THEN <<x[i]>> ELSE <<>>
    <2>1. \A i \in 1..N : <<x[i]>> \in Seq(X) /\ <<>> \in Seq(X)
      BY <1>8
    <2>2. f = [i \in 1..N |-> IF keep[i] THEN <<x[i]>> ELSE <<>>]
      BY <1>8, Zenon DEF Pushed
    <2> HIDE DEF f
    <2>3. f \in [1..N -> Seq(X)] /\ \A i \in 1..N : f[i] = IF keep[i] THEN <<x[i]>> ELSE <<>>
      BY <2>1, <2>2
    <2> QED BY <1>1, <2>3
  <1> HIDE DEF f
  <1>10. PICK g : Joined(g, f, X)
    BY <1>9, Flattening
  <1>11. /\ g[0] = <<>> /\ FlattenSeq(f) = g[N]
         /\ \A i \in 0..N : g[i] \in Seq(X)
         /\ \A i \in 1..N : g[i] = g[i - 1] \o f[i]
    BY <1>9, <1>10, Zenon DEF Joined
  <1>12. PICK r : /\ Reads(r, text, keyword)
                  /\ r[Len(text)].scan.depth = 0 => ExtractBlocks(text, keyword) = r[Len(text)].found
    <2>1. Len(text) \in Nat
      BY <1>5, <1>6
    <2> QED BY <2>1, ReadRuns
  <1> DEFINE T == {n \in 0..N : r[c(n)].scan = Scanning(0) /\ r[c(n)].found = g[n]}
  <1>13. 0 \in T
    <2>1. c(0) = 0
      BY <1>5
    <2>2. r[0] = Start
      BY <1>12, Zenon DEF Reads
    <2>3. Start.scan = Scanning(0) /\ Start.found = <<>>
      BY FieldsOfRead, Zenon DEF Start
    <2>4. 0 \in 0..N
      BY <1>1
    <2> QED BY <1>11, <2>1, <2>2, <2>3, <2>4, Zenon
  <1>14. ASSUME NEW n \in 1..N, n - 1 \in T PROVE n \in T
    <2> DEFINE b == schema[n]
               p == c(n - 1)
               M == m(n)
               q == c(n)
               a == g[n - 1]
               e == x[n]
    <2>1. q = p + M /\ BlockAt(text, p, M, b.kind, b.name, Lines(b)) /\ \A i \in 2..(M - 1) : Plain(Lines(b)[i])
      BY <1>7
    <2>2. r[p].scan = Scanning(0) /\ r[p].found = a
      BY <1>14
    <2>3. n \in 0..N /\ n - 1 \in 0..N
      BY <1>1
    <2>4. a \in Seq(X) /\ e \in X /\ g[n] = a \o f[n] /\ f[n] = (IF keep[n] THEN <<e>> ELSE <<>>)
      BY <1>8, <1>9, <1>11, <2>3, Zenon
    <2>5. keep[n] = (b.kind = keyword) /\ e = [name |-> b.name, body |-> Lines(b)]
      BY <1>8, Zenon
    <2> HIDE DEF b, p, M, q, a, e
    <2>6. CASE b.kind = keyword
      <3>1. r[p + M].scan = Scanning(0) /\ r[p + M].found = Append(r[p].found, [name |-> b.name, body |-> Lines(b)])
        <4> DEFINE kind == b.kind
                   name == b.name
                   l == Lines(b)
        <4>1. /\ Reads(r, text, keyword) /\ BlockAt(text, p, M, kind, name, l)
              /\ r[p].scan = Scanning(0) /\ kind = keyword
          BY <1>12, <2>1, <2>2, <2>6, Zenon
        <4> HIDE DEF kind, name, l
        <4>2. r[p + M].scan = Scanning(0) /\ r[p + M].found = Append(r[p].found, [name |-> name, body |-> l])
          BY <4>1, BlockTaken
        <4> QED BY <4>2, Zenon DEF name, l
      <3>2. g[n] = a \o <<e>>
        BY <2>4, <2>5, <2>6, Zenon
      <3>3. Append(a, e) = a \o <<e>>
        BY <2>4, AppendIsConcat
      <3>4. r[q].scan = Scanning(0) /\ r[q].found = g[n]
        BY <2>1, <2>2, <2>5, <3>1, <3>2, <3>3, Zenon
      <3> QED BY <2>3, <3>4, Zenon DEF q
    <2>7. CASE b.kind # keyword
      <3>1. \A i \in 2..(M - 1) : ~Opens(Lines(b)[i], keyword)
        BY <2>1, Zenon DEF Plain
      <3>2. r[p + M] = r[p]
        <4> DEFINE kind == b.kind
                   name == b.name
                   l == Lines(b)
        <4>1. /\ Reads(r, text, keyword) /\ BlockAt(text, p, M, kind, name, l)
              /\ r[p].scan = Scanning(0) /\ kind # keyword /\ \A i \in 2..(M - 1) : ~Opens(l[i], keyword)
          BY <1>12, <2>1, <2>2, <2>7, <3>1, Zenon
        <4> HIDE DEF kind, name, l
        <4> QED BY <4>1, BlockPassed
      <3>3. g[n] = a
        <4>1. g[n] = a \o <<>>
          BY <2>4, <2>5, <2>7, Zenon
        <4> QED BY <2>4, <4>1, ConcatEmptySeq
      <3>4. r[q].scan = Scanning(0) /\ r[q].found = g[n]
        BY <2>1, <2>2, <3>2, <3>3, Zenon
      <3> QED BY <2>3, <3>4, Zenon DEF q
    <2> QED BY <2>6, <2>7
  <1>15. 0..N \subseteq T
    <2> HIDE DEF T
    <2> QED BY <1>1, <1>13, <1>14, UpTo
  <1>16. r[Len(text)].scan = Scanning(0) /\ r[Len(text)].found = g[N]
    <2>1. N \in T
      <3>1. N \in 0..N
        BY <1>1
      <3> QED BY <1>15, <3>1
    <2>2. c(N) = Len(text)
      BY <1>5, <1>6
    <2> QED BY <2>1, <2>2, Zenon
  <1>17. Scanning(0).depth = 0
    BY DEF Scanning
  <1> QED BY <1>11, <1>12, <1>16, <1>17, Zenon DEF text, f, keep, x

(* What is read of each line of a block, the first and the last two being  *)
(* passed over: what is read of its fields.                                *)
LEMMA LinesRead ==
    ASSUME NEW b \in Blocks, NEW S, NEW s \in Seq(Seq(S)), Len(s) = Len(b.fields),
           NEW u, u = [i \in DOMAIN Lines(b) |-> u[i]], u[1] = <<>>,
           u[Len(b.fields) + 2] = <<>>, u[Len(b.fields) + 3] = <<>>,
           \A k \in 1..Len(b.fields) : u[k + 1] = s[k]
    PROVE  FlattenSeq(u) = FlattenSeq(s)
  <1> DEFINE n == Len(b.fields)
  <1>1. n \in Nat
    BY BlockIs
  <1>2. DOMAIN Lines(b) = 1..(n + 3)
    BY DEF Lines
  <1> HIDE DEF n
  <1>3. \A i \in 1..(n + 3) : u[i] \in Seq(S)
    <2> SUFFICES ASSUME NEW i \in 1..(n + 3) PROVE u[i] \in Seq(S)
      OBVIOUS
    <2>1. u[1] = <<>> /\ u[n + 2] = <<>> /\ u[n + 3] = <<>> /\ (\A k \in 1..n : u[k + 1] = s[k]) /\ Len(s) = n
      BY DEF n
    <2>2. i = 1 \/ i = n + 2 \/ i = n + 3 \/ (i - 1 \in 1..n /\ i = (i - 1) + 1)
      BY <1>1
    <2>3. CASE i = 1 \/ i = n + 2 \/ i = n + 3
      <3>1. <<>> \in Seq(S)
        OBVIOUS
      <3> QED BY <2>1, <2>3, <3>1, Zenon
    <2>4. CASE i - 1 \in 1..n /\ i = (i - 1) + 1
      <3>1. s[i - 1] \in Seq(S)
        BY <2>1, <2>4, ElementOfSeq
      <3> QED BY <2>1, <2>4, <3>1, Zenon
    <2> QED BY <2>2, <2>3, <2>4
  <1>4. u \in Seq(Seq(S)) /\ Len(u) = n + 3
    <2>1. u \in [1..(n + 3) -> Seq(S)]
      BY <1>2, <1>3
    <2> QED BY <1>1, <2>1
  <1>5. Len(s) = n /\ n + 3 = Len(s) + 3 /\ n + 2 = Len(s) + 2
    BY DEF n
  <1> QED BY <1>4, <1>5, PaddedPushed DEF n

(* An enum's values are read with the names they have in the database.     *)
LEMMA EnumRead ==
    ASSUME NEW b \in Blocks, b.kind = "enum"
    PROVE  ParseEnum(BlockOf(b)) = [name |-> b.name, values |-> [k \in DOMAIN b.fields |-> b.fields[k].column]]
  <1> DEFINE n == Len(b.fields)
             x == [k \in 1..n |-> b.fields[k].column]
             S == {x[k] : k \in 1..n}
             s == [k \in 1..n |-> <<x[k]>>]
             l == Lines(b)
             u == [i \in DOMAIN l |-> EnumValue(l[i])]
  <1>1. n \in Nat /\ DOMAIN b.fields = 1..n /\ \A k \in 1..n : b.fields[k] \in Uncut
    BY BlockIs
  <1>2. s \in Seq(Seq(S)) /\ Len(s) = n /\ \A k \in 1..n : s[k] = <<x[k]>>
    <2>1. \A k \in 1..n : x[k] \in S
      OBVIOUS
    <2> HIDE DEF S, x
    <2>2. s \in [1..n -> Seq(S)] /\ \A k \in 1..n : s[k] = <<x[k]>>
      BY <2>1
    <2> HIDE DEF s
    <2> QED BY <1>1, <2>2
  <1>3. DOMAIN l = 1..(n + 3)
    BY DEF Lines
  <1>4. /\ l[1] = <<>> /\ l[n + 2] = Tag(b) /\ l[n + 3] = <<>>
        /\ \A k \in 1..n : l[k + 1] = Line(b, k)
    <2>1. (n + 3) - 1 = n + 2
      BY <1>1
    <2> QED BY <2>1, LinesAre
  <1>5. \A i \in 1..(n + 3) : u[i] = EnumValue(l[i])
    BY <1>3
  <1>6. EnumValue(<<>>) = <<>> /\ EnumValue(Tag(b)) = <<>>
    <2>1. EnumValue(<<>>) = <<>>
      BY Zenon DEF EnumValue
    <2>2. EnumValue(Tag(b)) = <<>>
      BY TagIs, Zenon DEF TagLine
    <2> QED BY <2>1, <2>2
  <1>7. \A k \in 1..n : EnumValue(Line(b, k)) = <<x[k]>>
    <2> SUFFICES ASSUME NEW k \in 1..n PROVE EnumValue(Line(b, k)) = <<x[k]>>
      OBVIOUS
    <2> DEFINE f == b.fields[k]
    <2>1. f \in Uncut /\ x[k] = f.column
      BY <1>1
    <2>2. Line(b, k) = ValueText(f)
      BY Zenon DEF Line
    <2> HIDE DEF f, x
    <2>3. EnumValue(ValueText(f)) = <<f.column>>
      BY <2>1, ValueRead
    <2> QED BY <2>1, <2>2, <2>3, Zenon
  <1>8. ParseEnum(BlockOf(b)) = [name |-> b.name, values |-> FlattenSeq(u)]
    <2>1. BlockOf(b).name = b.name /\ BlockOf(b).body = l
      BY DEF BlockOf
    <2> HIDE DEF l
    <2> QED BY <2>1, Zenon DEF ParseEnum
  <1>9. FlattenSeq(s) = x
    <2>1. DOMAIN x = 1..n
      OBVIOUS
    <2>2. x = [k \in 1..n |-> x[k]]
      OBVIOUS
    <2> HIDE DEF x
    <2> QED BY <1>1, <2>1, <2>2, AllPushed
  <1>a. u = [i \in DOMAIN Lines(b) |-> u[i]]
    OBVIOUS
  <1> HIDE DEF x, S, s, u, l
  <1>10. FlattenSeq(u) = FlattenSeq(s)
    <2>1. 1 \in 1..(n + 3) /\ n + 2 \in 1..(n + 3) /\ n + 3 \in 1..(n + 3) /\ \A k \in 1..n : k + 1 \in 1..(n + 3)
      BY <1>1
    <2>2. u[1] = <<>> /\ u[n + 2] = <<>> /\ u[n + 3] = <<>>
      BY <1>4, <1>5, <1>6, <2>1, Zenon
    <2>3. \A k \in 1..n : u[k + 1] = s[k]
      BY <1>2, <1>4, <1>5, <1>7, <2>1, Zenon
    <2> QED BY <1>2, <1>a, <2>2, <2>3, LinesRead, Zenon
  <1>11. x = [k \in DOMAIN b.fields |-> b.fields[k].column]
    BY <1>1 DEF x
  <1> QED BY <1>8, <1>9, <1>10, <1>11, Zenon

\* The models of a schema use scalars, its enums and its models.
WellTyped ==
    \A i \in DOMAIN schema : schema[i].kind = "model" =>
        \A k \in DOMAIN schema[i].fields :
            schema[i].fields[k].type \in DOMAIN SCALARS \cup NamesOf("enum") \cup NamesOf("model")

(* The type that is read of a column is the one that its values have.      *)
LEMMA ReadAsDelivered ==
    ASSUME NEW f \in Uncut, NEW enums, enums \subseteq EnumNames, f.type \in DOMAIN SCALARS \cup enums
    PROVE  ReadType(f, enums) = DeliveredAs(f)
  <1> DEFINE type == IF ~f.list /\ f.type \in DOMAIN PostgresType THEN PostgresType[f.type] ELSE "other"
  <1>1. DeliveredAs(f)
          = CASE type = "bool" -> "boolean" [] type \in {"int4", "float8"} -> "number" [] type = "jsonb" -> "JsonValue"
              [] OTHER -> IF f.type \in EnumNames /\ ~f.list THEN f.type ELSE "string"
    BY Zenon DEF DeliveredAs
  <1>2. EnumNames \cap DOMAIN SCALARS = {}
    BY TypegenAssumption, Zenon
  <1>3. DOMAIN PostgresType = {"Boolean", "Int", "Float", "Json"}
    BY DEF PostgresType
  <1>4. DOMAIN SCALARS = {"String", "Boolean", "Int", "Float", "BigInt", "Decimal", "DateTime", "Json", "Bytes"}
    BY DEF SCALARS
  <1>5. DOMAIN PostgresType \subseteq DOMAIN SCALARS
    BY <1>3, <1>4
  <1>6. type = "other" => DeliveredAs(f) = IF f.type \in EnumNames /\ ~f.list THEN f.type ELSE "string"
    <2> HIDE DEF type
    <2> QED BY <1>1
  <1>7. CASE f.list
    BY <1>6, <1>7, Zenon DEF ReadType
  <1>8. CASE ~f.list /\ f.type \in enums
    <2>1. f.type \in EnumNames /\ f.type \notin DOMAIN PostgresType
      BY <1>2, <1>5, <1>8, Zenon
    <2> QED BY <1>6, <1>8, <2>1, Zenon DEF ReadType
  <1>9. CASE ~f.list /\ f.type \notin enums
    <2>1. f.type \in DOMAIN SCALARS /\ f.type \notin EnumNames
      BY <1>2, <1>9, Zenon
    <2>2. ReadType(f, enums) = SCALARS[f.type]
      BY <1>9, <2>1, Zenon DEF ReadType
    <2>3. CASE f.type \in {"Boolean", "Int", "Float", "Json"}
      <3>1. type = PostgresType[f.type]
        BY <1>3, <1>9, <2>3, Zenon
      <3>2. \/ f.type = "Boolean" /\ type = "bool"
            \/ f.type = "Int" /\ type = "int4"
            \/ f.type = "Float" /\ type = "float8"
            \/ f.type = "Json" /\ type = "jsonb"
        <4> HIDE DEF type
        <4> QED BY <2>3, <3>1 DEF PostgresType
      <3> HIDE DEF type
      <3>3. \/ f.type = "Boolean" /\ DeliveredAs(f) = "boolean"
            \/ f.type \in {"Int", "Float"} /\ DeliveredAs(f) = "number"
            \/ f.type = "Json" /\ DeliveredAs(f) = "JsonValue"
        BY <1>1, <3>2
      <3> QED BY <2>2, <3>3 DEF SCALARS
    <2>4. CASE f.type \in {"String", "BigInt", "Decimal", "DateTime", "Bytes"}
      <3>1. f.type \notin DOMAIN PostgresType
        BY <1>3, <2>4
      <3>2. DeliveredAs(f) = "string"
        BY <1>6, <2>1, <3>1, Zenon
      <3> QED BY <2>2, <2>4, <3>2 DEF SCALARS
    <2> QED BY <1>4, <2>1, <2>3, <2>4
  <1> QED BY <1>7, <1>8, <1>9

\* The interface that is written for a model, its columns those declared.
InterfaceOf(b) == [table |-> b.table, model |-> b.name, fields |-> Columns(b)]
EnumOf(b) == [name |-> b.name, values |-> [k \in DOMAIN b.fields |-> b.fields[k].column]]

(* The name of the table is found at the one line that gives it.           *)
LEMMA TableRead ==
    ASSUME NEW b \in Blocks, NEW tagged,
           tagged = {i \in DOMAIN Lines(b) : \E k \in DOMAIN Lines(b)[i] : Lines(b)[i][k] = "@@map("}
    PROVE  (IF tagged = {} THEN b.name ELSE MappedName(Lines(b)[Min(tagged)], "@@map(", b.name)) = b.table
  <1> DEFINE n == Len(b.fields)
             l == Lines(b)
             mark == "@@map("
             t == Tag(b)
  <1>1. n \in Nat /\ b.name \in Name /\ b.table \in Name
    BY BlockIs
  <1>2. DOMAIN l = 1..(n + 3)
    BY DEF Lines
  <1>3. /\ l[1] = <<>> /\ l[n + 2] = t /\ l[n + 3] = <<>>
        /\ \A k \in 1..n : l[k + 1] = Line(b, k) /\ Without(Line(b, k), mark)
        /\ \A i \in 1..(n + 3) : l[i] \in Seq(Word)
    <2>1. (n + 3) - 1 = n + 2
      BY <1>1
    <2>2. /\ l[1] = <<>> /\ l[n + 2] = t /\ l[n + 3] = <<>>
          /\ \A k \in 1..n : l[k + 1] = Line(b, k)
          /\ \A k \in 1..n : Plain(Line(b, k)) /\ Without(Line(b, k), "@@map(")
          /\ l \in Seq(Seq(Word)) /\ Len(l) = n + 3
      BY <2>1, LinesAre
    <2> HIDE DEF l
    <2>3. \A i \in 1..(n + 3) : l[i] \in Seq(Word)
      BY <2>2, ElementOfSeq
    <2> QED BY <2>2, <2>3, Zenon
  <1>4. \A line \in Seq(Word) : DOMAIN line = 1..Len(line)
    BY LenProperties
  <1>5. /\ b.name = b.table => t = <<>>
        /\ b.name # b.table => (\E k \in 1..Len(t) : t[k] = mark) /\ MappedName(t, mark, b.name) = b.table
    <2>1. TagLine(t, b.name, b.table)
      BY TagIs
    <2> QED BY <2>1, Zenon DEF TagLine
  <1>6. Without(<<>>, mark)
    BY NoWord, Zenon
  <1> HIDE DEF mark, l, t
  <1>7. tagged = {i \in 1..(n + 3) : ~Without(l[i], mark)}
    <2>1. \A i \in 1..(n + 3) : (\E k \in DOMAIN l[i] : l[i][k] = mark) <=> ~Without(l[i], mark)
      BY <1>3, <1>4, Zenon DEF Without
    <2>2. tagged = {i \in 1..(n + 3) : \E k \in DOMAIN l[i] : l[i][k] = mark}
      BY <1>2, Zenon DEF l, mark
    <2> QED BY <2>1, <2>2
  <1>8. n + 2 \in 1..(n + 3) /\ \A i \in 1..(n + 3) : i = 1 \/ i = n + 2 \/ i = n + 3 \/ (i - 1 \in 1..n /\ i = (i - 1) + 1)
    BY <1>1
  <1> HIDE DEF n
  <1>9. ASSUME NEW i \in tagged PROVE i = n + 2
    <2>1. i \in 1..(n + 3) /\ ~Without(l[i], mark)
      BY <1>7
    <2>2. CASE i = 1 \/ i = n + 3
      BY <1>3, <1>6, <2>1, <2>2, Zenon
    <2>3. CASE i - 1 \in 1..n /\ i = (i - 1) + 1
      BY <1>3, <2>1, <2>3, Zenon
    <2> QED BY <1>8, <2>1, <2>2, <2>3
  <1>10. CASE b.name = b.table
    <2>1. Without(l[n + 2], mark)
      BY <1>3, <1>5, <1>6, <1>10, Zenon
    <2>2. tagged = {}
      BY <1>7, <1>9, <2>1
    <2> QED BY <1>10, <2>2, Zenon
  <1>11. CASE b.name # b.table
    <2>1. ~Without(t, mark)
      BY <1>5, <1>11, Zenon DEF Without
    <2>2. tagged = {n + 2}
      BY <1>3, <1>7, <1>8, <1>9, <2>1
    <2>3. Min(tagged) = n + 2
      <3> DEFINE x == Min(tagged)
      <3>1. n + 2 <= n + 2
        BY <1>8
      <3>2. \E y \in tagged : \A i \in tagged : y <= i
        BY <2>2, <3>1
      <3>3. x \in tagged
        BY <3>2, Zenon DEF Min
      <3> QED BY <1>9, <3>3
    <2>4. tagged # {}
      BY <2>2
    <2>5. MappedName(Lines(b)[Min(tagged)], "@@map(", b.name) = b.table
      BY <1>3, <1>5, <1>11, <2>3, Zenon DEF l, mark
    <2> QED BY <2>4, <2>5, Zenon
  <1> QED BY <1>10, <1>11

(* A model is read as the interface that its table calls for.              *)
LEMMA ModelRead ==
    ASSUME NEW b \in Blocks, b.kind # "enum", NEW enums, enums \subseteq EnumNames, NEW models, models = NamesOf("model"),
           \A k \in 1..Len(b.fields) : b.fields[k].type \in DOMAIN SCALARS \cup enums \cup models
    PROVE  ParseModel(BlockOf(b), enums, models) = InterfaceOf(b)
  <1> DEFINE n == Len(b.fields)
             R(f) == [column |-> f.column, tsType |-> DeliveredAs(f), optional |-> f.optional]
             S == {R(b.fields[k]) : k \in 1..n}
             s == [k \in 1..n |-> IF b.fields[k].type \in models THEN <<>> ELSE <<R(b.fields[k])>>]
             l == Lines(b)
             u == [i \in DOMAIN l |-> ParseField(l[i], enums, models)]
             tagged == {i \in DOMAIN l : \E k \in DOMAIN l[i] : l[i][k] = "@@map("}
  <1>1. n \in Nat /\ DOMAIN b.fields = 1..n /\ \A k \in 1..n : b.fields[k] \in Uncut
    BY BlockIs
  <1>2. s \in Seq(Seq(S)) /\ Len(s) = n
    <2>1. \A k \in 1..n : R(b.fields[k]) \in S
      OBVIOUS
    <2> HIDE DEF S, R
    <2>2. \A k \in 1..n : <<>> \in Seq(S) /\ <<R(b.fields[k])>> \in Seq(S)
      BY <2>1
    <2>3. s \in [1..n -> Seq(S)]
      BY <2>2
    <2> HIDE DEF s
    <2> QED BY <1>1, <2>3
  <1>a. \A k \in 1..n : s[k] = IF b.fields[k].type \in models THEN <<>> ELSE <<R(b.fields[k])>>
    <2> HIDE DEF R
    <2> QED OBVIOUS
  <1>3. DOMAIN l = 1..(n + 3)
    BY DEF Lines
  <1>4. /\ l[1] = <<>> /\ l[n + 2] = Tag(b) /\ l[n + 3] = <<>>
        /\ \A k \in 1..n : l[k + 1] = Line(b, k)
    <2>1. (n + 3) - 1 = n + 2
      BY <1>1
    <2> QED BY <2>1, LinesAre
  <1>5. \A i \in 1..(n + 3) : u[i] = ParseField(l[i], enums, models)
    BY <1>3
  <1>6. ParseField(<<>>, enums, models) = <<>> /\ ParseField(Tag(b), enums, models) = <<>>
    <2>1. Len(<<>>) < 2
      OBVIOUS
    <2>2. ParseField(<<>>, enums, models) = <<>>
      BY <2>1, Zenon DEF ParseField
    <2>4. ParseField(Tag(b), enums, models) = <<>>
      BY TagIs, Zenon DEF TagLine
    <2> QED BY <2>2, <2>4
  <1>7. \A k \in 1..n : ParseField(Line(b, k), enums, models) = s[k]
    <2> SUFFICES ASSUME NEW k \in 1..n PROVE ParseField(Line(b, k), enums, models) = s[k]
      OBVIOUS
    <2> DEFINE f == b.fields[k]
               d == R(f)
    <2>1. f \in Uncut /\ f.type \in DOMAIN SCALARS \cup enums \cup models
      BY <1>1
    <2>2. Line(b, k) = FieldLine(f)
      BY Zenon DEF Line
    <2>3. s[k] = IF f.type \in models THEN <<>> ELSE <<d>>
      BY <1>a
    <2> HIDE DEF f, s
    <2>4. ParseField(FieldLine(f), enums, models)
            = IF f.type \in models THEN <<>>
              ELSE <<[column |-> f.column, tsType |-> ReadType(f, enums), optional |-> f.optional]>>
      <3> DEFINE line == FieldLine(f)
                 read == ParseField(line, enums, models)
                 e == [column |-> f.column, tsType |-> ReadType(f, enums), optional |-> f.optional]
      <3>1. line = FieldLine(f)
        OBVIOUS
      <3> HIDE DEF line
      <3>2. read = IF f.type \in models THEN <<>> ELSE <<e>>
        BY <2>1, <3>1, FieldRead
      <3> QED BY <3>1, <3>2, Zenon
    <2>5. f.type \notin models => ReadType(f, enums) = DeliveredAs(f)
      BY <2>1, ReadAsDelivered, Zenon
    <2>6. CASE f.type \in models
      BY <2>2, <2>3, <2>4, <2>6, Zenon
    <2>7. CASE f.type \notin models
      BY <2>2, <2>3, <2>4, <2>5, <2>7, Zenon
    <2> QED BY <2>6, <2>7
  <1>8. ParseModel(BlockOf(b), enums, models)
          = [table |-> IF tagged = {} THEN b.name ELSE MappedName(l[Min(tagged)], "@@map(", b.name),
             model |-> b.name, fields |-> FlattenSeq(u)]
    <2>1. BlockOf(b).name = b.name /\ BlockOf(b).body = l
      BY DEF BlockOf
    <2> HIDE DEF l
    <2> QED BY <2>1, Zenon DEF ParseModel
  <1>9. (IF tagged = {} THEN b.name ELSE MappedName(l[Min(tagged)], "@@map(", b.name)) = b.table
    BY TableRead
  <1>10. Columns(b) = FlattenSeq(s)
    BY <1>1, Zenon DEF Columns
  <1>b. u = [i \in DOMAIN Lines(b) |-> u[i]]
    OBVIOUS
  <1> HIDE DEF S, s, u, l, tagged
  <1>11. FlattenSeq(u) = FlattenSeq(s)
    <2>1. 1 \in 1..(n + 3) /\ n + 2 \in 1..(n + 3) /\ n + 3 \in 1..(n + 3) /\ \A k \in 1..n : k + 1 \in 1..(n + 3)
      BY <1>1
    <2>2. u[1] = <<>> /\ u[n + 2] = <<>> /\ u[n + 3] = <<>>
      BY <1>4, <1>5, <1>6, <2>1, Zenon
    <2>3. \A k \in 1..n : u[k + 1] = s[k]
      BY <1>4, <1>5, <1>7, <2>1, Zenon
    <2> QED BY <1>2, <1>b, <2>2, <2>3, LinesRead, Zenon
  <1> QED BY <1>8, <1>9, <1>10, <1>11, Zenon DEF InterfaceOf

-----------------------------------------------------------------------------
(* A schema and the types that are generated from it.                      *)

LEMMA SchemaIs ==
    ASSUME schema \in Seq(Blocks), NEW kind
    PROVE  /\ Len(schema) \in Nat /\ DOMAIN schema = 1..Len(schema)
           /\ \A i \in 1..Len(schema) : schema[i] \in Blocks
           /\ Kept(kind) \in [1..Len(schema) -> BOOLEAN]
           /\ \A i \in 1..Len(schema) : Kept(kind)[i] = (schema[i].kind = kind)
           /\ DOMAIN Extracted = 1..Len(schema)
           /\ \A i \in 1..Len(schema) : Extracted[i] = BlockOf(schema[i])
  <1>1. /\ Len(schema) \in Nat /\ DOMAIN schema = 1..Len(schema)
        /\ \A i \in 1..Len(schema) : schema[i] \in Blocks
    BY LenProperties, ElementOfSeq
  <1>2. Kept(kind) \in [1..Len(schema) -> BOOLEAN] /\ \A i \in 1..Len(schema) : Kept(kind)[i] = (schema[i].kind = kind)
    BY DEF Kept
  <1>3. DOMAIN Extracted = 1..Len(schema) /\ \A i \in 1..Len(schema) : Extracted[i] = BlockOf(schema[i])
    BY Zenon DEF Extracted
  <1> QED BY <1>1, <1>2, <1>3

(* The names of the blocks extracted are those declared.                   *)
LEMMA NamesRead ==
    ASSUME schema \in Seq(Blocks), NEW kind, NEW F, F = FlattenSeq(Pushed(Kept(kind), Extracted))
    PROVE  {F[i].name : i \in DOMAIN F} = NamesOf(kind)
  <1> DEFINE n == Len(schema)
             keep == Kept(kind)
             x == Extracted
  <1>1. /\ n \in Nat /\ keep \in [1..n -> BOOLEAN] /\ DOMAIN x = 1..n /\ DOMAIN schema = 1..n
        /\ \A i \in 1..n : keep[i] = (schema[i].kind = kind)
        /\ \A i \in 1..n : x[i] = BlockOf(schema[i])
    BY SchemaIs
  <1>2. \A i \in 1..n : x[i].name = schema[i].name
    <2>1. \A b : BlockOf(b).name = b.name
      BY DEF BlockOf
    <2> QED BY <1>1, <2>1, Zenon
  <1> HIDE DEF n, keep, x
  <1>3. InStep(n, keep, x, x, F, F)
    <2>1. F = FlattenSeq(Pushed(keep, x))
      BY DEF keep, x
    <2> QED BY <1>1, <2>1, PushedInStep
  <1>4. /\ DOMAIN F = 1..Len(F)
        /\ \A i \in 1..Len(F) : \E k \in 1..n : keep[k] /\ F[i] = x[k]
        /\ \A k \in 1..n : keep[k] => \E i \in 1..Len(F) : F[i] = x[k]
    BY <1>3, Zenon DEF InStep
  <1>5. NamesOf(kind) = {schema[k].name : k \in {j \in DOMAIN schema : schema[j].kind = kind}}
    BY DEF NamesOf
  <1>6. ASSUME NEW i \in DOMAIN F PROVE F[i].name \in NamesOf(kind)
    <2>1. PICK k \in 1..n : keep[k] /\ F[i] = x[k]
      BY <1>4
    <2>2. k \in DOMAIN schema /\ schema[k].kind = kind /\ F[i].name = schema[k].name
      BY <1>1, <1>2, <2>1, Zenon
    <2> QED BY <1>5, <2>2, Zenon
  <1>7. ASSUME NEW k \in DOMAIN schema, schema[k].kind = kind PROVE \E i \in DOMAIN F : F[i].name = schema[k].name
    <2>1. k \in 1..n /\ keep[k]
      BY <1>1, <1>7, Zenon
    <2>2. PICK i \in 1..Len(F) : F[i] = x[k]
      BY <1>4, <2>1
    <2>3. i \in DOMAIN F /\ F[i].name = schema[k].name
      <3>1. DOMAIN F = 1..Len(F)
        BY <1>4
      <3> QED BY <1>2, <2>1, <2>2, <3>1, Zenon
    <2> QED BY <2>3
  <1> QED BY <1>5, <1>6, <1>7

LEMMA HonestTypes ==
    ASSUME schema \in Seq(Blocks)
    PROVE  TypesAreHonest
  <1> DEFINE n == Len(schema)
             x == Extracted
             E == FlattenSeq(Pushed(Kept("enum"), x))
             M == FlattenSeq(Pushed(Kept("model"), x))
             enums == NamesOf("enum")
             models == NamesOf("model")
             y == [i \in 1..n |-> EnumOf(schema[i])]
             z == [i \in 1..n |-> InterfaceOf(schema[i])]
             P == FlattenSeq(Pushed(Kept("enum"), y))
             Q == FlattenSeq(Pushed(Kept("model"), z))
  <1>1. /\ n \in Nat /\ DOMAIN schema = 1..n /\ DOMAIN x = 1..n
        /\ \A i \in 1..n : schema[i] \in Blocks /\ x[i] = BlockOf(schema[i])
    BY SchemaIs, Zenon
  <1>2. \A kind : Kept(kind) \in [1..n -> BOOLEAN] /\ \A i \in 1..n : Kept(kind)[i] = (schema[i].kind = kind)
    BY SchemaIs, Zenon
  <1>3. ExtractBlocks(Bared, "enum") = E /\ ExtractBlocks(Bared, "model") = M
    BY BlocksFound, Zenon
  <1>4. {E[i].name : i \in DOMAIN E} = enums /\ {M[i].name : i \in DOMAIN M} = models
    BY NamesRead, Zenon
  <1>5. /\ Parsed.enums = [i \in DOMAIN E |-> ParseEnum(E[i])]
        /\ Parsed.models = [i \in DOMAIN M |-> ParseModel(M[i], enums, models)]
    <2> DEFINE a == [i \in DOMAIN E |-> ParseEnum(E[i])]
               c == [i \in DOMAIN M |-> ParseModel(M[i], enums, models)]
    <2>1. Parsed = [enums |-> a, models |-> c]
      BY <1>3, <1>4, Zenon DEF Parsed, Bared
    <2> HIDE DEF a, c
    <2>2. Parsed.enums = a /\ Parsed.models = c
      BY <2>1
    <2> QED BY <2>2 DEF a, c
  <1>6. Enums = P
    <2> DEFINE p == [i \in DOMAIN schema |-> IF schema[i].kind = "enum" THEN <<EnumOf(schema[i])>> ELSE <<>>]
               q == Pushed(Kept("enum"), y)
    <2>1. Enums = FlattenSeq(p)
      BY Zenon DEF Enums, EnumOf
    <2>2. ASSUME NEW i \in 1..n PROVE p[i] = q[i]
      <3>1. (Kept("enum")[i] = (schema[i].kind = "enum")) /\ DOMAIN y = 1..n /\ y[i] = EnumOf(schema[i])
        BY <1>2, Zenon
      <3>2. q[i] = IF Kept("enum")[i] THEN <<y[i]>> ELSE <<>>
        BY <3>1, Zenon DEF Pushed
      <3>3. p[i] = IF schema[i].kind = "enum" THEN <<EnumOf(schema[i])>> ELSE <<>>
        BY <1>1, Zenon
      <3> QED BY <3>1, <3>2, <3>3, Zenon
    <2>3. p = [i \in 1..n |-> p[i]] /\ q = [i \in 1..n |-> q[i]]
      BY <1>1 DEF Pushed
    <2> HIDE DEF p, q
    <2> QED BY <2>1, <2>2, <2>3 DEF q
  <1>7. Interfaces = Q
    <2> DEFINE p == [i \in DOMAIN schema |-> IF schema[i].kind = "model" THEN <<InterfaceOf(schema[i])>> ELSE <<>>]
               q == Pushed(Kept("model"), z)
    <2>1. Interfaces = FlattenSeq(p)
      BY Zenon DEF Interfaces, InterfaceOf
    <2>2. ASSUME NEW i \in 1..n PROVE p[i] = q[i]
      <3>1. (Kept("model")[i] = (schema[i].kind = "model")) /\ DOMAIN z = 1..n /\ z[i] = InterfaceOf(schema[i])
        BY <1>2, Zenon
      <3>2. q[i] = IF Kept("model")[i] THEN <<z[i]>> ELSE <<>>
        BY <3>1, Zenon DEF Pushed
      <3>3. p[i] = IF schema[i].kind = "model" THEN <<InterfaceOf(schema[i])>> ELSE <<>>
        BY <1>1, Zenon
      <3> QED BY <3>1, <3>2, <3>3, Zenon
    <2>3. p = [i \in 1..n |-> p[i]] /\ q = [i \in 1..n |-> q[i]]
      BY <1>1 DEF Pushed
    <2> HIDE DEF p, q
    <2> QED BY <2>1, <2>2, <2>3 DEF q
  <1>8. DOMAIN y = 1..n /\ DOMAIN z = 1..n /\ \A i \in 1..n : y[i] = EnumOf(schema[i]) /\ z[i] = InterfaceOf(schema[i])
    BY Zenon
  <1> HIDE DEF n, x, y, z, E, M, P, Q
  <1>9. Parsed.enums = Enums
    <2>1. InStep(n, Kept("enum"), x, y, E, P)
      <3> DEFINE keep == Kept("enum")
      <3>1. E = FlattenSeq(Pushed(keep, x)) /\ P = FlattenSeq(Pushed(keep, y)) /\ keep \in [1..n -> BOOLEAN]
        BY <1>2, Zenon DEF E, P
      <3> HIDE DEF keep
      <3>2. InStep(n, keep, x, y, E, P)
        BY <1>1, <1>8, <3>1, PushedInStep
      <3> QED BY <3>2 DEF keep
    <2>2. /\ DOMAIN E = 1..Len(E) /\ P = [i \in 1..Len(E) |-> P[i]]
          /\ \A i \in 1..Len(E) : \E k \in 1..n : Kept("enum")[k] /\ E[i] = x[k] /\ P[i] = y[k]
      BY <2>1, Zenon DEF InStep
    <2>3. ASSUME NEW i \in 1..Len(E) PROVE ParseEnum(E[i]) = P[i]
      <3>1. PICK k \in 1..n : Kept("enum")[k] /\ E[i] = x[k] /\ P[i] = y[k]
        BY <2>2
      <3>2. schema[k] \in Blocks /\ schema[k].kind = "enum" /\ E[i] = BlockOf(schema[k]) /\ P[i] = EnumOf(schema[k])
        BY <1>1, <1>2, <1>8, <3>1, Zenon
      <3>3. ParseEnum(BlockOf(schema[k])) = EnumOf(schema[k])
        BY <3>2, EnumRead, Zenon DEF EnumOf
      <3> QED BY <3>2, <3>3, Zenon
    <2>4. [i \in DOMAIN E |-> ParseEnum(E[i])] = P
      BY <2>2, <2>3
    <2> QED BY <1>5, <1>6, <2>4, Zenon
  <1>10. ASSUME WellTyped PROVE Parsed.models = Interfaces
    <2>1. InStep(n, Kept("model"), x, z, M, Q)
      <3> DEFINE keep == Kept("model")
      <3>1. M = FlattenSeq(Pushed(keep, x)) /\ Q = FlattenSeq(Pushed(keep, z)) /\ keep \in [1..n -> BOOLEAN]
        BY <1>2, Zenon DEF M, Q
      <3> HIDE DEF keep
      <3>2. InStep(n, keep, x, z, M, Q)
        BY <1>1, <1>8, <3>1, PushedInStep
      <3> QED BY <3>2 DEF keep
    <2>2. /\ DOMAIN M = 1..Len(M) /\ Q = [i \in 1..Len(M) |-> Q[i]]
          /\ \A i \in 1..Len(M) : \E k \in 1..n : Kept("model")[k] /\ M[i] = x[k] /\ Q[i] = z[k]
      BY <2>1, Zenon DEF InStep
    <2>3. enums \subseteq EnumNames
      <3> SUFFICES ASSUME NEW i \in DOMAIN schema, schema[i].kind = "enum" PROVE schema[i].name \in EnumNames
        BY DEF NamesOf
      <3>1. schema[i] \in Blocks
        BY <1>1
      <3> QED BY <3>1, BlockIs
    <2>4. ASSUME NEW i \in 1..Len(M) PROVE ParseModel(M[i], enums, models) = Q[i]
      <3>1. PICK k \in 1..n : Kept("model")[k] /\ M[i] = x[k] /\ Q[i] = z[k]
        BY <2>2
      <3>2. /\ schema[k] \in Blocks /\ schema[k].kind = "model" /\ k \in DOMAIN schema
            /\ M[i] = BlockOf(schema[k]) /\ Q[i] = InterfaceOf(schema[k])
        BY <1>1, <1>2, <1>8, <3>1, Zenon
      <3> DEFINE b == schema[k]
      <3>3. \A j \in 1..Len(b.fields) : b.fields[j].type \in DOMAIN SCALARS \cup enums \cup models
        <4>1. DOMAIN b.fields = 1..Len(b.fields)
          BY <3>2, BlockIs
        <4> QED BY <1>10, <3>2, <4>1, Zenon DEF WellTyped
      <3>4. b \in Blocks /\ b.kind # "enum"
        <4>1. "model" # "enum"
          OBVIOUS
        <4> QED BY <3>2, <4>1, Zenon
      <3> HIDE DEF b, enums
      <3>5. ParseModel(BlockOf(b), enums, models) = InterfaceOf(b)
        BY <2>3, <3>3, <3>4, ModelRead
      <3> QED BY <3>2, <3>5, Zenon DEF b
    <2>5. [i \in DOMAIN M |-> ParseModel(M[i], enums, models)] = Q
      <3> HIDE DEF enums, models
      <3> QED BY <2>2, <2>4
    <2> QED BY <1>5, <1>7, <2>5, Zenon
  <1> QED BY <1>9, <1>10, Zenon DEF TypesAreHonest, WellTyped

LEMMA SchemaStarts == TypegenInit => schema \in Seq(Blocks)
  BY DEF TypegenInit

LEMMA SchemaGrows ==
    ASSUME Declared = Uncut, schema \in Seq(Blocks), [TypegenNext]_schema
    PROVE  schema' \in Seq(Blocks)
  <1>1. CASE UNCHANGED schema
    BY <1>1
  <1>2. CASE DeclareBlock
    <2>1. PICK kind \in {"enum", "model"}, mapped \in BOOLEAN :
            \E name \in (IF kind = "enum" THEN EnumNames ELSE ModelNames) \ NamesOf(kind) :
               schema' = Append(schema, [kind |-> kind, name |-> name, table |-> IF mapped THEN "mapped" ELSE name,
                                         fields |-> <<>>])
      BY <1>2 DEF DeclareBlock
    <2>2. PICK name \in (IF kind = "enum" THEN EnumNames ELSE ModelNames) \ NamesOf(kind) :
            schema' = Append(schema, [kind |-> kind, name |-> name, table |-> IF mapped THEN "mapped" ELSE name,
                                      fields |-> <<>>])
      BY <2>1
    <2> DEFINE table == IF mapped THEN "mapped" ELSE name
               b == [kind |-> kind, name |-> name, table |-> table, fields |-> <<>>]
    <2>3. EnumNames \cup ModelNames \subseteq Name
      BY TypegenAssumption, Zenon DEF Name
    <2>4. "mapped" \in Name
      BY DEF Name, Syntax, Quote
    <2>5. name \in Name /\ (kind = "enum" => name \in EnumNames)
      BY <2>3, Zenon
    <2>6. table \in Name
      BY <2>4, <2>5, Zenon
    <2> HIDE DEF table
    <2>7. b \in Blocks
      <3>1. <<>> \in Seq(Uncut)
        OBVIOUS
      <3>2. b \in [kind : {"enum", "model"}, name : Name, table : Name, fields : Seq(Uncut)]
        BY <2>5, <2>6, <3>1
      <3>3. b.kind = kind /\ b.name = name
        OBVIOUS
      <3> HIDE DEF b
      <3> QED BY <2>5, <3>2, <3>3, Zenon DEF Blocks
    <2>8. schema' = Append(schema, b)
      BY <2>2 DEF table
    <2> HIDE DEF b
    <2> QED BY <2>7, <2>8, AppendProperties
  <1>3. CASE DeclareField
    <2> DEFINE last == Len(schema)
    <2>1. PICK f \in Uncut : schema' = [schema EXCEPT ![last].fields = Append(@, f)]
      BY <1>3, Zenon DEF DeclareField
    <2>2. last \in Nat /\ DOMAIN schema = 1..last /\ \A i \in 1..last : schema[i] \in Blocks
      BY LenProperties, ElementOfSeq
    <2>3. schema # <<>>
      BY <1>3 DEF DeclareField
    <2>4. last \in 1..last
      BY <2>2, <2>3, EmptySeq
    <2> DEFINE b == schema[last]
               d == [b EXCEPT !.fields = Append(@, f)]
    <2>5. d \in Blocks
      <3>1. b \in Blocks /\ b \in [kind : {"enum", "model"}, name : Name, table : Name, fields : Seq(Uncut)]
        BY <2>2, <2>4, Zenon DEF Blocks
      <3>2. Append(b.fields, f) \in Seq(Uncut)
        BY <3>1, BlockIs, AppendProperties
      <3> HIDE DEF b
      <3>3. /\ d \in [kind : {"enum", "model"}, name : Name, table : Name, fields : Seq(Uncut)]
            /\ d.kind = b.kind /\ d.name = b.name
        BY <3>1, <3>2
      <3> HIDE DEF d
      <3>4. b.kind = "enum" => b.name \in EnumNames
        BY <3>1, Zenon DEF Blocks
      <3> QED BY <3>3, <3>4, Zenon DEF Blocks
    <2>6. schema' = [schema EXCEPT ![last] = d]
      BY <2>1
    <2> HIDE DEF d, last
    <2> QED BY <2>4, <2>5, <2>6, ExceptSeq DEF last
  <1> QED BY <1>1, <1>2, <1>3 DEF TypegenNext

(* The types generated from every schema without slashes in its defaults   *)
(* are those that the decoder delivers, none of its columns and values     *)
(* missing (parsePrismaSchema, which cuts slashes off as a comment).       *)
THEOREM TypesStayHonest == Declared = Uncut => (TypegenSpec => []TypesAreHonest)
  <1> SUFFICES ASSUME Declared = Uncut PROVE TypegenSpec => []TypesAreHonest
    OBVIOUS
  <1>1. TypegenInit => schema \in Seq(Blocks)
    BY SchemaStarts
  <1>2. schema \in Seq(Blocks) /\ [TypegenNext]_schema => (schema \in Seq(Blocks))'
    BY SchemaGrows
  <1>3. schema \in Seq(Blocks) => TypesAreHonest
    BY HonestTypes
  <1> QED BY <1>1, <1>2, <1>3, PTL DEF TypegenSpec

===============================================================================
