------------------------------ MODULE AtLeastOnce ------------------------------
(***************************************************************************)
(* What the engine promises the database and the durable sinks, whatever    *)
(* happens to the process in between: the log of changes only grows,        *)
(* deliveries only add to what a recipient has, and a position of the log   *)
(* is released only when every recipient has every user change up to it.    *)
(***************************************************************************)
EXTENDS Naturals, Sequences

CONSTANT Recipients

VARIABLES wal, received, released

avars == <<wal, received, released>>

Has(r, p) == \A e \in 1..p : e \in DOMAIN wal /\ ~wal[e].meta => e \in received[r]

AInit ==
    /\ released = 0
    /\ \A r \in Recipients : received[r] = {}

\* A prefix of the log never changes.
Log ==
    /\ Len(wal') >= Len(wal)
    /\ \A i \in 1..Len(wal) : wal'[i] = wal[i]
    /\ UNCHANGED <<received, released>>

\* Some recipients acknowledge changes of the log, first copies or not.
Receives ==
    /\ \A r \in Recipients :
          /\ received[r] \subseteq received'[r]
          /\ received'[r] \subseteq 1..Len(wal)
    /\ UNCHANGED <<wal, released>>

Release ==
    /\ released' \in (released + 1)..Len(wal)
    /\ \A r \in Recipients : Has(r, released')
    /\ UNCHANGED <<wal, received>>

ANext == Log \/ Receives \/ Release

ASpec == AInit /\ [][ANext]_avars
===============================================================================
