------------------------------ MODULE MCWalcast ------------------------------
(***************************************************************************)
(* An instance of Walcast for TLC.  The first event belongs to a            *)
(* transaction that starts second and commits first; a TRUNCATE of two      *)
(* tables, at one lower position, follows in the other one; a transaction   *)
(* without published changes and WAL of other tables end the log.           *)
(***************************************************************************)
EXTENDS Walcast

Lsns == <<2, 1, 1>>
CommitsOf == <<4, 6, 6>>
===============================================================================
