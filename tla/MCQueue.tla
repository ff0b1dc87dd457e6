------------------------------ MODULE MCQueue ------------------------------
(* Instantiates MPDCliQueue for TLC: a queue of two songs, at most four   *)
(* ids, a few calls.  The cfg files choose which failures can happen.     *)
EXTENDS MPDCliQueue

MCInitQueue == <<1, 2>>
=============================================================================
