-------------------------- MODULE MCTrafficWriter --------------------------
(* Small instances of TrafficWriter for TLC.                               *)
EXTENDS TrafficWriter

CONSTANTS p1, p2, p3, m1, m2
=============================================================================
