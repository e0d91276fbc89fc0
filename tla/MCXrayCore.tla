----------------------------- MODULE MCXrayCore -----------------------------
(* Small instances of XrayCore for TLC.                                    *)
EXTENDS XrayCore

CONSTANTS h1, h2, static, e1, e2, d1
=============================================================================
