------------------------------- MODULE MCCharge -------------------------------
(* A small instance of Charge for TLC: three calls for a nation with two credits. *)
EXTENDS Charge, TLC

CONSTANTS n1, n2, BR, e1, e2, e3, sensor, c1, c2, c3

Spend(nation, event) ==
    [parses |-> TRUE, type |-> SPEND, nation |-> nation, event |-> event,
     short |-> FALSE, sig |-> "valid", payload |-> sensor]

TxOfCharge == c1 :> Spend(BR, e1) @@ c2 :> Spend(BR, e2) @@ c3 :> Spend(BR, e3)
TxsCharge == {TxOfCharge[c] : c \in Calls}
=============================================================================
