--------------------------- MODULE MCPriorityQueue ----------------------------
(* A small instance of PriorityQueue for TLC. *)
EXTENDS PriorityQueue

\* The missions come from two sensors in turn.
TwoSensors == [i \in Ids |-> i % 2]
=============================================================================
