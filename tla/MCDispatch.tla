------------------------------ MODULE MCDispatch ------------------------------
(* Small instances of Dispatch for TLC. *)
EXTENDS Dispatch, TLC

CONSTANTS b1, b2, s1, d1, d2, m1

HomeOne == [m \in Missions |-> b1]

DroneSymmetry == Permutations(Drones)
=============================================================================
