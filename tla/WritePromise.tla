---------------------------- MODULE WritePromise ---------------------------
(***************************************************************************)
(* What submitTrafficWrite promises its callers, without the queue, the    *)
(* goroutines, the lock or the restarts that keep the promise: a write is  *)
(* executed at most once, and only while its caller waits for the answer;  *)
(* the answer says whether it was executed; and the only error is that it  *)
(* was not accepted.                                                       *)
(***************************************************************************)
EXTENDS Naturals

CONSTANT Submitters

VARIABLES asking,   \* callers that wait for an answer
          runs,     \* how often the write each last asked for was executed
          outcome   \* the answer each got last: none, ok, full

vars == <<asking, runs, outcome>>

Init ==
  /\ asking = {}
  /\ runs = [p \in Submitters |-> 0]
  /\ outcome = [p \in Submitters |-> "none"]

Ask(p) ==
  /\ p \notin asking
  /\ asking' = asking \union {p}
  /\ runs' = [runs EXCEPT ![p] = 0]
  /\ outcome' = [outcome EXCEPT ![p] = "none"]

Execute(p) ==
  /\ p \in asking /\ runs[p] = 0
  /\ runs' = [runs EXCEPT ![p] = 1]
  /\ UNCHANGED <<asking, outcome>>

Answer(p) ==
  /\ p \in asking
  /\ asking' = asking \ {p}
  /\ outcome' = [outcome EXCEPT ![p] = IF runs[p] = 1 THEN "ok" ELSE "full"]
  /\ UNCHANGED runs

\* Without a writer the caller executes its write itself.
Serve(p) ==
  /\ p \in asking /\ runs[p] = 0
  /\ asking' = asking \ {p}
  /\ runs' = [runs EXCEPT ![p] = 1]
  /\ outcome' = [outcome EXCEPT ![p] = "ok"]

Next == \E p \in Submitters : Ask(p) \/ Execute(p) \/ Answer(p) \/ Serve(p)

Spec == Init /\ [][Next]_vars
=============================================================================
