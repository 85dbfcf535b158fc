---------------------------- MODULE MC_Monitor ----------------------------
(* Model checking of the monitor daemon on a short stats stream.           *)
EXTENDS Monitor
=============================================================================
