----------------------------- MODULE MCSidecars -----------------------------
(* Small instances of Sidecars for TLC.                                    *)
EXTENDS Sidecars, TLC

CONSTANTS i1, c1, c2, s1, s2, r1, p1, p2, p3

\* Rows with both clients, with one of them and another structure, with none.
MCForms == {[on |-> TRUE, struct |-> s1, secrets |-> {c1, c2}],
            [on |-> TRUE, struct |-> s2, secrets |-> {c1}],
            [on |-> TRUE, struct |-> s1, secrets |-> {}]}

\* Traffic of one client is enough to count it twice.
MCMaxUse == (c1 :> 1) @@ (c2 :> 0)
=============================================================================
