-------------------------- MODULE MCLineLifecycle --------------------------
(* Small instances of LineLifecycle for TLC.                               *)
EXTENDS LineLifecycle, TLC

CONSTANTS l1, l2, r1, r2, j1, j2, on, off

\* Requests are interchangeable.
RequestSymmetry == Permutations(Requests)
=============================================================================
