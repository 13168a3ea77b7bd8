------------------------------- MODULE MCLedger -------------------------------
(* Small instances of Ledger for TLC. *)
EXTENDS Ledger, TLC

CONSTANTS n1, n2, BR, UK, XX, e1, e2, e3, e4, uav1, uav2, sensor

Transaction(type, nation, event, sig, payload) ==
    [parses |-> TRUE, type |-> type, nation |-> nation, event |-> event,
     short |-> FALSE, sig |-> sig, payload |-> payload]

\* Three spends of one nation, two drones' reports about one event, and what the
\* signature barrier stops.
Spend1 == Transaction(SPEND, BR, e1, "valid", sensor)
Spend2 == Transaction(SPEND, BR, e2, "valid", sensor)
Spend3 == Transaction(SPEND, BR, e3, "valid", sensor)
Report1 == Transaction(REPORT, BR, e1, "valid", uav1)
Report1Again == Transaction(REPORT, BR, e1, "valid", uav2)
Forged == Transaction(SPEND, UK, e4, "forged", sensor)
ForgedShort == [Forged EXCEPT !.short = TRUE]
Corrupt == Transaction(REPORT, BR, e2, "corrupt", uav1)
Stranger == Transaction(REPORT, XX, e2, "valid", uav1)
StrangerSpend == Transaction(SPEND, XX, e2, "valid", sensor)
Malformed == [Spend1 EXCEPT !.parses = FALSE]

TxsReplay == {Spend1, Report1, Report1Again}
TxsBlocks == {Spend1, Spend2, Spend3, Forged, ForgedShort, Corrupt, Stranger, StrangerSpend, Malformed}
TxsTwo == {Spend1, Spend2}

NodeSymmetry == Permutations(Nodes)
=============================================================================
