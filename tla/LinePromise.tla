---------------------------- MODULE LinePromise ----------------------------
(***************************************************************************)
(* What the line service promises about serving, without any of the        *)
(* database columns, workers or clocks that keep the promise: a line       *)
(* serves only while it is known, an expired line is blocked, and a        *)
(* blocked line that has gone dark stays dark until somebody renews it.    *)
(***************************************************************************)
CONSTANT Lines

VARIABLES known,     \* lines that exist
          blocked,   \* lines that need a manual renewal
          serving    \* lines whose inbound is enabled

vars == <<known, blocked, serving>>

\* Lines from before are known and do not serve yet.
Init == known \in SUBSET Lines /\ blocked = {} /\ serving = {}

Admit(l) ==
  /\ l \notin known
  /\ known' = known \union {l}
  /\ UNCHANGED <<blocked, serving>>

\* Only a line that is not blocked may begin to serve.
Start(l) ==
  /\ l \in known \ blocked
  /\ serving' = serving \union {l}
  /\ UNCHANGED <<known, blocked>>

\* Expiry blocks first; the serving inbound is cut afterwards.
Block(l) ==
  /\ l \in known
  /\ blocked' = blocked \union {l}
  /\ UNCHANGED <<known, serving>>

\* Cutting the inbound; the step that completes an expiry also blocks the line.
Cut(l) ==
  /\ l \in known
  /\ serving' = serving \ {l}
  /\ blocked' \in {blocked, blocked \union {l}}
  /\ UNCHANGED known

Renew(l) ==
  /\ l \in known /\ l \in blocked
  /\ blocked' = blocked \ {l}
  /\ UNCHANGED <<known, serving>>

Forget(l) ==
  /\ l \in known
  /\ known' = known \ {l}
  /\ blocked' = blocked \ {l}
  /\ serving' = serving \ {l}

Next == \E l \in Lines :
  Admit(l) \/ Start(l) \/ Block(l) \/ Cut(l) \/ Renew(l) \/ Forget(l)

Spec == Init /\ [][Next]_vars
=============================================================================
