------------------------------- MODULE MCFlight -------------------------------
(* The constants of the code, in half seconds, for TLC. *)
EXTENDS Flight

\* rand.Intn(6) + 4 seconds.
CodeFlightTimes == {8, 10, 12, 14, 16, 18}
=============================================================================
