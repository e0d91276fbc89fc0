--------------------------- MODULE TrafficWriter ---------------------------
(***************************************************************************)
(* The serial database writer (web/service/traffic_writer.go).             *)
(*                                                                         *)
(* Traffic accounting and every client or inbound mutation hand their      *)
(* transaction to one goroutine through a bounded channel.  The writer can *)
(* be stopped and started again; each start makes a fresh queue, context   *)
(* and done channel, here a generation.  The lock twMu is held over one    *)
(* step except by a submitter that waits for room in a full queue.         *)
(***************************************************************************)
EXTENDS Naturals, Sequences

CONSTANTS
  Submitters,  \* goroutines that call submitTrafficWrite
  Managers,    \* callers of StartTrafficWriter and StopTrafficWriter
  Nobody,      \* no lock holder, no request at the writer
  QueueSize,   \* trafficWriterQueueSize
  MaxWriters   \* bound on the writers started

ASSUME ProcessAssumption == Nobody \notin Submitters
ASSUME BoundsAssumption == QueueSize \in Nat \ {0} /\ MaxWriters \in Nat

Generations == 1..MaxWriters

VARIABLES
  mutex,    \* twMu: Nobody, or the submitter that waits for room
  cur,      \* the generation twQueue, twCtx, twDone belong to; 0 for nil
  started,  \* generations made so far
  phase,    \* of each generation: unborn, running, cancelled, done
  queue,    \* its channel
  busy,     \* whose write its goroutine is executing
  spc,      \* what each submitter does: idle, enqueue, wait, inline
  sgen,     \* the generation it submitted to
  answered, \* submitters whose req.done holds a result
  runs,     \* how often the write a submitter last asked for was executed
  outcome,  \* what submitTrafficWrite last returned: none, ok, full, stopped
  mpc,      \* what each manager does: idle, drain
  mgen      \* the generation it is stopping

submitters == <<spc, sgen, answered, runs, outcome>>
managers   == <<mpc, mgen>>
writers    == <<cur, started, phase, queue, busy>>
vars == <<mutex, writers, submitters, managers>>

Live(g) == phase[g] \in {"running", "cancelled"}

-----------------------------------------------------------------------------
(* submitTrafficWrite.                                                     *)

\* Mutant: the context is not looked at.
SubmitUnchecked(p) ==
  /\ spc[p] = "idle" /\ mutex = Nobody
  /\ spc' = [spc EXCEPT ![p] = IF cur # 0 THEN "enqueue" ELSE "inline"]
  /\ mutex' = IF cur # 0 THEN p ELSE Nobody
  /\ sgen' = [sgen EXCEPT ![p] = cur]
  /\ runs' = [runs EXCEPT ![p] = 0]
  /\ outcome' = [outcome EXCEPT ![p] = "none"]
  /\ UNCHANGED <<writers, answered, managers>>

\* With no writer, or a cancelled one, the caller executes its write itself.
Submit(p) ==
  LET serve == cur # 0 /\ phase[cur] = "running" IN
  /\ spc[p] = "idle" /\ mutex = Nobody
  /\ spc' = [spc EXCEPT ![p] = IF serve THEN "enqueue" ELSE "inline"]
  /\ mutex' = IF serve THEN p ELSE Nobody
  /\ sgen' = [sgen EXCEPT ![p] = cur]
  /\ runs' = [runs EXCEPT ![p] = 0]
  /\ outcome' = [outcome EXCEPT ![p] = "none"]
  /\ UNCHANGED <<writers, answered, managers>>

Return(p, result) ==
  /\ spc' = [spc EXCEPT ![p] = "idle"]
  /\ outcome' = [outcome EXCEPT ![p] = result]

InlineDone(p) ==
  /\ spc[p] = "inline"
  /\ runs' = [runs EXCEPT ![p] = @ + 1]
  /\ Return(p, "ok")
  /\ UNCHANGED <<mutex, writers, sgen, answered, managers>>

Enqueue(p) ==
  /\ spc[p] = "enqueue"
  /\ Len(queue[sgen[p]]) < QueueSize
  /\ queue' = [queue EXCEPT ![sgen[p]] = Append(@, p)]
  /\ spc' = [spc EXCEPT ![p] = "wait"]
  /\ mutex' = Nobody
  /\ UNCHANGED <<cur, started, phase, busy, sgen, answered, runs, outcome, managers>>

\* The queue stays full for trafficWriterSubmitTimeout.
QueueFull(p) ==
  /\ spc[p] = "enqueue"
  /\ Len(queue[sgen[p]]) >= QueueSize
  /\ mutex' = Nobody
  /\ Return(p, "full")
  /\ UNCHANGED <<writers, sgen, answered, runs, managers>>

\* Mutant: whoever finds the writer gone executes the write itself.
AwaitRedoes(p) ==
  /\ spc[p] = "wait"
  /\ p \in answered \/ phase[sgen[p]] = "done"
  /\ runs' = [runs EXCEPT ![p] = IF phase[sgen[p]] = "done" THEN @ + 1 ELSE @]
  /\ Return(p, "ok")
  /\ answered' = answered \ {p}
  /\ UNCHANGED <<mutex, writers, sgen, managers>>

\* The two selects at the end: the result if there is one, otherwise an error
\* once the writer is gone.
Await(p) ==
  /\ spc[p] = "wait"
  /\ p \in answered \/ phase[sgen[p]] = "done"
  /\ Return(p, IF p \in answered THEN "ok" ELSE "stopped")
  /\ answered' = answered \ {p}
  /\ UNCHANGED <<mutex, writers, sgen, runs, managers>>

-----------------------------------------------------------------------------
(* runTrafficWriter; a panicking write is recovered and answered.          *)

Take(g) ==
  /\ Live(g) /\ busy[g] = Nobody /\ queue[g] # <<>>
  /\ busy' = [busy EXCEPT ![g] = Head(queue[g])]
  /\ queue' = [queue EXCEPT ![g] = Tail(@)]
  /\ UNCHANGED <<mutex, cur, started, phase, submitters, managers>>

\* Mutant: the result is not sent.
FinishSilently(g) ==
  /\ Live(g) /\ busy[g] # Nobody
  /\ runs' = [runs EXCEPT ![busy[g]] = @ + 1]
  /\ busy' = [busy EXCEPT ![g] = Nobody]
  /\ UNCHANGED <<mutex, cur, started, phase, queue, spc, sgen, answered, outcome, managers>>

Finish(g) ==
  LET p == busy[g] IN
  /\ Live(g) /\ p # Nobody
  /\ runs' = [runs EXCEPT ![p] = @ + 1]
  /\ answered' = answered \union {p}
  /\ busy' = [busy EXCEPT ![g] = Nobody]
  /\ UNCHANGED <<mutex, cur, started, phase, queue, spc, sgen, outcome, managers>>

\* Mutant: no drain loop.
ExitAtOnce(g) ==
  /\ phase[g] = "cancelled" /\ busy[g] = Nobody
  /\ phase' = [phase EXCEPT ![g] = "done"]
  /\ UNCHANGED <<mutex, cur, started, queue, busy, submitters, managers>>

\* Cancelled, and the drain loop finds the queue empty.
Exit(g) ==
  /\ phase[g] = "cancelled" /\ busy[g] = Nobody /\ queue[g] = <<>>
  /\ phase' = [phase EXCEPT ![g] = "done"]
  /\ UNCHANGED <<mutex, cur, started, queue, busy, submitters, managers>>

-----------------------------------------------------------------------------
(* StartTrafficWriter; a call while a writer is alive changes nothing.     *)

Start(m) ==
  /\ mpc[m] = "idle" /\ mutex = Nobody
  /\ cur # 0 => phase[cur] = "done"
  /\ started < MaxWriters
  /\ started' = started + 1
  /\ cur' = started + 1
  /\ phase' = [phase EXCEPT ![started + 1] = "running"]
  /\ UNCHANGED <<mutex, queue, busy, submitters, managers>>

(* StopTrafficWriter.                                                      *)

Cancel(m) ==
  /\ mpc[m] = "idle" /\ mutex = Nobody /\ cur # 0
  /\ phase' = [phase EXCEPT ![cur] = IF @ = "done" THEN @ ELSE "cancelled"]
  /\ mpc' = [mpc EXCEPT ![m] = "drain"]
  /\ mgen' = [mgen EXCEPT ![m] = cur]
  /\ UNCHANGED <<mutex, cur, started, queue, busy, submitters>>

\* Mutant: the state is cleared whosever it is.
ClearAlways(m) ==
  /\ mpc[m] = "drain" /\ phase[mgen[m]] = "done" /\ mutex = Nobody
  /\ cur' = 0
  /\ mpc' = [mpc EXCEPT ![m] = "idle"]
  /\ UNCHANGED <<mutex, started, phase, queue, busy, submitters, mgen>>

\* The state is cleared only if it is still that of the writer just stopped.
Clear(m) ==
  /\ mpc[m] = "drain" /\ phase[mgen[m]] = "done" /\ mutex = Nobody
  /\ cur' = IF cur = mgen[m] THEN 0 ELSE cur
  /\ mpc' = [mpc EXCEPT ![m] = "idle"]
  /\ UNCHANGED <<mutex, started, phase, queue, busy, submitters, mgen>>

-----------------------------------------------------------------------------
Init ==
  /\ mutex = Nobody /\ cur = 0 /\ started = 0
  /\ phase = [g \in Generations |-> "unborn"]
  /\ queue = [g \in Generations |-> <<>>]
  /\ busy = [g \in Generations |-> Nobody]
  /\ spc = [p \in Submitters |-> "idle"] /\ sgen = [p \in Submitters |-> 0]
  /\ answered = {}
  /\ runs = [p \in Submitters |-> 0] /\ outcome = [p \in Submitters |-> "none"]
  /\ mpc = [m \in Managers |-> "idle"] /\ mgen = [m \in Managers |-> 0]

Next ==
  \/ \E p \in Submitters : Submit(p) \/ InlineDone(p) \/ Enqueue(p) \/ QueueFull(p) \/ Await(p)
  \/ \E g \in Generations : Take(g) \/ Finish(g) \/ Exit(g)
  \/ \E m \in Managers : Start(m) \/ Cancel(m) \/ Clear(m)

Spec == Init /\ [][Next]_vars

(* The writer goroutine runs on, a submitter that has entered goes on, and *)
(* the Go mutex lets a stopping manager in eventually.                     *)
Fairness ==
  /\ \A g \in Generations : WF_vars(Take(g) \/ Finish(g) \/ Exit(g))
  /\ \A p \in Submitters : WF_vars(InlineDone(p) \/ Enqueue(p) \/ QueueFull(p) \/ Await(p))
  /\ \A m \in Managers : SF_vars(Clear(m))

FairSpec == Spec /\ Fairness

-----------------------------------------------------------------------------
(* Properties.                                                             *)

Phases == {"unborn", "running", "cancelled", "done"}

\* Every variable keeps its type, no channel holds more than its capacity, and
\* no write is executed a second time for one call of its submitter.
TypeOK ==
  /\ mutex \in Submitters \union {Nobody}
  /\ cur \in 0..MaxWriters
  /\ started \in 0..MaxWriters
  /\ phase \in [Generations -> Phases]
  /\ queue \in [Generations -> Seq(Submitters)]
  /\ \A g \in Generations : Len(queue[g]) <= QueueSize
  /\ busy \in [Generations -> Submitters \union {Nobody}]
  /\ spc \in [Submitters -> {"idle", "enqueue", "wait", "inline"}]
  /\ sgen \in [Submitters -> 0..MaxWriters]
  /\ answered \subseteq Submitters
  /\ runs \in [Submitters -> 0..1]
  /\ outcome \in [Submitters -> {"none", "ok", "full", "stopped"}]
  /\ mpc \in [Managers -> {"idle", "drain"}]
  /\ mgen \in [Managers -> 0..MaxWriters]

\* However starts and stops overlap, the only writer alive is the one the
\* package variables name: no goroutine is left that nobody can stop, and two
\* queues are never served side by side.
OneWriter == \A g \in Generations : Live(g) => g = cur

\* submitTrafficWrite's answer is the truth: "ok" for a write that was
\* executed exactly once, an error for one that was never executed.
AnswerIsTrue == \A p \in Submitters : spc[p] = "idle" =>
  /\ outcome[p] = "ok" => runs[p] = 1
  /\ outcome[p] = "full" => runs[p] = 0

\* A write that was accepted is executed before the writer ends, so that no
\* caller ever gets "traffic writer stopped before write completed".
NothingAbandoned == \A p \in Submitters : outcome[p] # "stopped"

\* The writer implements WritePromise: whatever starts, stops, timeouts and
\* drains overlap, a write is executed at most once and only while its caller
\* waits, "ok" goes to the caller of an executed write, and an error only to
\* the caller of one that never reached the queue and never will.
Promise == INSTANCE WritePromise WITH asking <- {p \in Submitters : spc[p] # "idle"}
KeepsWritePromise == Promise!Spec

\* Every submitted write is answered, also across a stop and a restart.
SubmitReturns == \A p \in Submitters : spc[p] # "idle" ~> spc[p] = "idle"

\* A stop ends: it waits for the queue to drain, and the callers that race it
\* do not fill the queue for ever.
StopReturns == \A m \in Managers : mpc[m] = "drain" ~> mpc[m] = "idle"
=============================================================================
