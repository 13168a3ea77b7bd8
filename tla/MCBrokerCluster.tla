--------------------------- MODULE MCBrokerCluster ----------------------------
(* Small instances of BrokerCluster for TLC. *)
EXTENDS BrokerCluster

CONSTANTS b1, b2, b3, e1

\* The sector of every event goes to b1, then b2, then b3.
RankOne ==
    [e \in Events |-> [b \in Brokers |-> CASE b = b1 -> 1 [] b = b2 -> 2 [] OTHER -> 3]]

\* b3, which starts late, comes first: its start moves the sector to it.
RankLate ==
    [e \in Events |-> [b \in Brokers |-> CASE b = b3 -> 1 [] b = b1 -> 2 [] OTHER -> 3]]
=============================================================================
