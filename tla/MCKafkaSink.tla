----------------------------- MODULE MCKafkaSink -----------------------------
(***************************************************************************)
(* Instances of KafkaSink for TLC: events of two tables.                    *)
(***************************************************************************)
EXTENDS KafkaSink

Tables == {"orders", "users"}
Alternating == [e \in Event |-> IF e % 2 = 1 THEN "orders" ELSE "users"]

AtMostOne   == {{}} \union {{a} : a \in Allowance}
Predecessor == {{"zombies"}}
Reconnects  == {{"second copies"}}
===============================================================================
