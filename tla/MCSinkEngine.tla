----------------------------- MODULE MCSinkEngine -----------------------------
(***************************************************************************)
(* Instances of SinkEngine for TLC: the logs the slot retains at the start. *)
(***************************************************************************)
EXTENDS SinkEngine

User(f) == [meta |-> FALSE, first |-> f]
Meta(f) == [meta |-> TRUE, first |-> f]

\* Two transactions, of two changes and of one.
WalTwoOne == <<User(1), User(1), User(3)>>
WalOnes2 == <<User(1), User(2)>>
WalOnes == <<User(1), User(2), User(3)>>
WalOnes4 == <<User(1), User(2), User(3), User(4)>>
\* A checkpoint write of the past behind two user transactions.
WalMetaLast == <<User(1), User(2), Meta(3)>>
===============================================================================
