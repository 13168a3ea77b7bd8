---------------------------- MODULE MCLamportClock ----------------------------
(* A small instance of LamportClock for TLC. *)
EXTENDS LamportClock

CONSTANTS w1, w2, w3
=============================================================================
