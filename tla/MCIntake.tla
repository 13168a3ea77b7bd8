------------------------------- MODULE MCIntake -------------------------------
(* A small instance of Intake for TLC. *)
EXTENDS Intake, TLC

CONSTANTS b1, b2, r1, t1, w1, w2
=============================================================================
