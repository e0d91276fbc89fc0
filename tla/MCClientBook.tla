---------------------------- MODULE MCClientBook ----------------------------
(* Small instances of ClientBook for TLC.                                  *)
EXTENDS ClientBook, TLC

CONSTANTS c1, c2, r1, r2

Symmetry == Permutations({c1, c2}) \union Permutations({r1, r2})
=============================================================================
