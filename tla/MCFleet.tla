-------------------------------- MODULE MCFleet -------------------------------
(* A small instance of Fleet for TLC. *)
EXTENDS Fleet, TLC

CONSTANTS d1, d2, s1, s2, m1, m2
=============================================================================
