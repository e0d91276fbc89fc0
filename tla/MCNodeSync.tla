----------------------------- MODULE MCNodeSync -----------------------------
(* Small instances of NodeSync for TLC.                                    *)
EXTENDS NodeSync, TLC

CONSTANTS i1, i2, c1, e1

=============================================================================
