------------------------------- MODULE MCHub -------------------------------
(* Small instances of Hub for TLC.                                         *)
EXTENDS Hub

CONSTANTS c1, c2, b1
=============================================================================
