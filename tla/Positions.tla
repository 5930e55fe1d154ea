----------------------------- MODULE Positions ------------------------------
(***************************************************************************)
(* WAL positions and event ids as text, and the order of events that every *)
(* deduplication rests on: two halves without leading zeros, compared as   *)
(* numbers, and an index behind a colon.                                   *)
(*   packages/walcast/src/lsn.ts, events.ts,                               *)
(*   packages/plugin-kit/src/util.ts, apps/ui/src/api.ts (parseLsn)        *)
(*                                                                         *)
(* The halves have HalfDigits digits of base Base instead of 8 of base 16, *)
(* and an index is written in the same base instead of base 10.            *)
(***************************************************************************)
EXTENDS Naturals, Integers, Sequences

CONSTANTS
    Base,
    HalfDigits,
    MaxIndex       \* bound: changes of one transaction

ASSUME PositionsAssumption == Base \in Nat /\ Base > 1 /\ HalfDigits \in Nat \ {0} /\ MaxIndex \in Nat

Power(n) == LET power[i \in 0..n] == IF i = 0 THEN 1 ELSE Base * power[i - 1] IN power[n]
HalfSize == Power(HalfDigits)
Positions == 0..HalfSize * HalfSize - 1

VARIABLES
    checkpoint,   \* the event the checkpoint holds: its commit position and index
    newest         \* an event that is not older

positionsVars == <<checkpoint, newest>>

-----------------------------------------------------------------------------
(* toString(16): no leading zeros, and "0" for zero. BigInt(`0x${text}`)   *)
(* reads it back.                                                          *)
Digits(n) ==
    LET width == CHOOSE w \in 1..n + 1 : Power(w) > n /\ (w = 1 \/ Power(w - 1) <= n)
    IN [i \in 1..width |-> (n \div Power(width - i)) % Base]
ValueOf(digits) ==
    LET value[i \in 0..Len(digits)] == IF i = 0 THEN 0 ELSE Base * value[i - 1] + digits[i]
    IN value[Len(digits)]

FormatLsn(lsn) == [high |-> Digits((lsn \div HalfSize) % HalfSize), low |-> Digits(lsn % HalfSize)]

(* lsnToBigint, parseLsn: each half must have 1 to HalfDigits digits. *)
Valid(text) == Len(text.high) \in 1..HalfDigits /\ Len(text.low) \in 1..HalfDigits
ParseLsn(text) == ValueOf(text.high) * HalfSize + ValueOf(text.low)

EventId(event) == [lsn |-> FormatLsn(event.commit), index |-> Digits(event.index)]

MCompareIndex(a, b) ==   \* as text: the first digit that differs decides
    IF \E i \in DOMAIN a : i \in DOMAIN b /\ a[i] # b[i]
    THEN LET i == CHOOSE i \in DOMAIN a : i \in DOMAIN b /\ a[i] # b[i] /\ \A j \in 1..i - 1 : a[j] = b[j]
         IN a[i] - b[i]
    ELSE Len(a) - Len(b)

(* compareEventIds: by position, then by Number(index). *)
CompareIndex(a, b) == ValueOf(a) - ValueOf(b)
CompareEventIds(a, b) ==
    LET byLsn == ParseLsn(a.lsn) - ParseLsn(b.lsn)
    IN IF byLsn # 0 THEN byLsn ELSE CompareIndex(a.index, b.index)

-----------------------------------------------------------------------------
(* Delivery order: changes of a transaction one by one, then a transaction *)
(* that commits at any later position.                                     *)
NextChange ==
    /\ newest.index < MaxIndex
    /\ newest' = [newest EXCEPT !.index = @ + 1]
    /\ UNCHANGED checkpoint

NextTransaction ==
    /\ \E commit \in Positions : commit > newest.commit /\ newest' = [commit |-> commit, index |-> 0]
    /\ UNCHANGED checkpoint

Checkpoint ==
    /\ checkpoint' = newest
    /\ UNCHANGED newest

PositionsInit ==
    /\ checkpoint = [commit |-> 0, index |-> 0]
    /\ newest = checkpoint

PositionsNext == NextChange \/ NextTransaction \/ Checkpoint

PositionsSpec == PositionsInit /\ [][PositionsNext]_positionsVars

-----------------------------------------------------------------------------
(* A sink that skips "at or below my checkpoint" skips what it delivered   *)
(* and nothing else: the text ids compare as the events were delivered,    *)
(* across a longer index, a longer half and a carry into the high half     *)
(* (compareEventIds), and every position survives its text form.           *)
OrderedAsDelivered ==
    /\ CompareEventIds(EventId(newest), EventId(checkpoint)) <= 0 <=> newest = checkpoint
    /\ LET text == FormatLsn(newest.commit) IN Valid(text) /\ ParseLsn(text) = newest.commit
=============================================================================
