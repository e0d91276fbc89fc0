------------------------------ MODULE XrayCore ------------------------------
(***************************************************************************)
(* Keeping the Xray core in step with the database                         *)
(* (web/service/xray.go, xray/process.go, xray/hot_diff.go,                *)
(* job/check_xray_running_job.go, web/runtime/local.go and their callers). *)
(*                                                                         *)
(* The database says which handlers should run.  Editors change it and     *)
(* then raise the need-restart flag, call the core's API, or restart the   *)
(* core themselves.  RestartXray compares the configuration it builds with *)
(* the snapshot it stored for the running process, never with the core.    *)
(***************************************************************************)
EXTENDS Naturals, FiniteSets

CONSTANTS
  Handlers,        \* inbounds (with users, outbounds, rules) of a configuration
  StaticParts,     \* those that no API call can change in a running core
  ApiHandlers,     \* those that somebody edits through the API: inbounds and
                   \* users; never outbounds, rules and the other sections
  FlagEditors,     \* handlers that commit and then SetToNeedRestart
  ApiEditors,      \* handlers that commit, call the API, and flag if it fails
  DirectEditors,   \* callers that commit and then RestartXray(false)
  Pending,         \* the 30 s cron entry, ApplyPendingRestart
  Watch,           \* the 1 s cron entry, CheckXrayRunningJob
  User,            \* panel start, force restart, stop
  Nobody,          \* no lock holder
  Down,            \* no core process
  MaxFaults        \* bound on core crashes and failing calls

Restarters == DirectEditors \union {Pending, Watch, User}
Editors == FlagEditors \union ApiEditors \union DirectEditors
Procs == FlagEditors \union ApiEditors \union Restarters

ASSUME HandlersAssumption ==
  /\ Handlers # {} /\ \A s \in SUBSET Handlers : s # Down
  /\ StaticParts \subseteq Handlers /\ ApiHandlers \subseteq Handlers \ StaticParts
  /\ ApiEditors # {} => ApiHandlers # {}
ASSUME CallersAssumption ==
  /\ Cardinality({Pending, Watch, User}) = 3
  /\ {Pending, Watch, User} \cap Editors = {}
  /\ FlagEditors \cap ApiEditors = {}
  /\ DirectEditors \cap (FlagEditors \union ApiEditors) = {}
  /\ Nobody \notin Restarters
ASSUME FaultsAssumption == MaxFaults \in Nat

VARIABLES
  desired,     \* what GetXrayConfig would build from the database now
  core,        \* handlers the core process has loaded, or Down
  known,       \* process.GetConfig(): the panel's snapshot of that process
  needRestart, \* isNeedXrayRestart
  manualStop,  \* isManuallyStopped
  holder,      \* who holds the package lock of xray.go
  pc,          \* what each process does next
  force,       \* isForce of the restart each caller is in
  cand,        \* the configuration the lock holder has built
  left,        \* handlers the hot apply under way has still to change
  edit,        \* the handler each API editor has committed
  checks,      \* CheckXrayRunningJob.checkTime
  faults,
  dropped      \* history: a direct editor's restart failed, and none has
               \* succeeded since

vars == <<desired, core, known, needRestart, manualStop, holder, pc, force,
          cand, left, edit, checks, faults, dropped>>

Up == core # Down
Fault == faults < MaxFaults /\ faults' = faults + 1
Goto(p, step) == pc' = [pc EXCEPT ![p] = step]
Toggle(set, h) == IF h \in set THEN set \ {h} ELSE set \union {h}

-----------------------------------------------------------------------------
(* Editors.                                                                *)

\* A line applied or deleted, a template saved: committed, not yet flagged.
FlagEdit(e) == \E h \in Handlers :
  /\ pc[e] = "idle"
  /\ desired' = Toggle(desired, h)
  /\ Goto(e, "flag")
  /\ UNCHANGED <<core, known, needRestart, manualStop, holder, force, cand, left,
                 edit, checks, faults, dropped>>

SetToNeedRestart(e) ==
  /\ pc[e] = "flag"
  /\ needRestart' = TRUE
  /\ Goto(e, "idle")
  /\ UNCHANGED <<desired, core, known, manualStop, holder, force, cand, left, edit,
                 checks, faults, dropped>>

\* SetInboundEnable, AddInbound, DelInbound: the row first.
ApiEdit(e) == \E h \in ApiHandlers :
  /\ pc[e] = "idle"
  /\ desired' = Toggle(desired, h)
  /\ edit' = [edit EXCEPT ![e] = [tag |-> h, add |-> h \notin desired]]
  /\ Goto(e, "api")
  /\ UNCHANGED <<core, known, needRestart, manualStop, holder, force, cand, left,
                 checks, faults, dropped>>

\* Then the call to the core, outside the restart lock; the panel's snapshot
\* of the process is not touched.
ApiCall(e) ==
  /\ pc[e] = "api"
  /\ \/ /\ Up
        /\ core' = IF edit[e].add THEN core \union {edit[e].tag} ELSE core \ {edit[e].tag}
        /\ Goto(e, "idle")
        /\ UNCHANGED faults
     \/ Up /\ Fault /\ Goto(e, "flag") /\ UNCHANGED core
     \/ ~Up /\ Goto(e, "flag") /\ UNCHANGED <<core, faults>>
  /\ UNCHANGED <<desired, known, needRestart, manualStop, holder, force, cand, left,
                 edit, checks, dropped>>

\* The validity job and the renew handler restart the core themselves.
DirectEdit(e) == \E h \in Handlers :
  /\ pc[e] = "idle"
  /\ desired' = Toggle(desired, h)
  /\ Goto(e, "want")
  /\ UNCHANGED <<core, known, needRestart, manualStop, holder, force, cand, left,
                 edit, checks, faults, dropped>>

-----------------------------------------------------------------------------
(* Who asks for a restart.                                                 *)

\* ApplyPendingRestart takes the flag down before it restarts.
PendingTick ==
  /\ pc[Pending] = "idle" /\ needRestart
  /\ needRestart' = FALSE
  /\ Goto(Pending, "want")
  /\ UNCHANGED <<desired, core, known, manualStop, holder, force, cand, left, edit,
                 checks, faults, dropped>>

\* Mutants: the counter is not taken back, or is taken back at every tick.
WatchTickGreedy ==
  /\ pc[Watch] = "idle"
  /\ IF Up \/ manualStop THEN checks' = 0 /\ UNCHANGED pc
     ELSE checks' = checks + 1 /\ IF checks + 1 > 1 THEN Goto(Watch, "want") ELSE UNCHANGED pc
  /\ UNCHANGED <<desired, core, known, needRestart, manualStop, holder, force, cand,
                 left, edit, faults, dropped>>
WatchTickForgetful ==
  /\ pc[Watch] = "idle" /\ checks' = 0
  /\ UNCHANGED <<desired, core, known, needRestart, manualStop, holder, pc, force, cand,
                 left, edit, faults, dropped>>

WatchTick ==
  /\ pc[Watch] = "idle"
  /\ IF Up \/ manualStop
     THEN checks' = 0 /\ UNCHANGED pc
     ELSE IF checks + 1 > 1 THEN checks' = 0 /\ Goto(Watch, "want")
                            ELSE checks' = checks + 1 /\ UNCHANGED pc
  /\ UNCHANGED <<desired, core, known, needRestart, manualStop, holder, force, cand,
                 left, edit, faults, dropped>>

UserRestart ==
  /\ pc[User] = "idle"
  /\ Goto(User, "want")
  /\ force' = [force EXCEPT ![User] = TRUE]
  /\ UNCHANGED <<desired, core, known, needRestart, manualStop, holder, cand, left,
                 edit, checks, faults, dropped>>

\* Mutant: the stop does not wait for a restart under way.
StopXrayUnlocked ==
  /\ manualStop' = TRUE
  /\ core' = Down
  /\ UNCHANGED <<desired, known, needRestart, holder, pc, force, cand, left, edit,
                 checks, faults, dropped>>

\* StopXray marks the stop even when there is nothing to stop.
StopXray ==
  /\ holder = Nobody
  /\ manualStop' = TRUE
  /\ core' = Down
  /\ UNCHANGED <<desired, known, needRestart, holder, pc, force, cand, left, edit,
                 checks, faults, dropped>>

-----------------------------------------------------------------------------
(* RestartXray, under the lock.                                            *)

Enter(c) ==
  /\ pc[c] = "want" /\ holder = Nobody
  /\ IF ~force[c] /\ manualStop
     THEN Goto(c, "idle") /\ UNCHANGED <<manualStop, holder>>
     ELSE manualStop' = FALSE /\ holder' = c /\ Goto(c, "build")
  /\ UNCHANGED <<desired, core, known, needRestart, force, cand, left, edit, checks,
                 faults, dropped>>

\* Mutant: a failed pending restart is only logged.
LeaveForGood(c, failed) ==
  /\ holder' = Nobody
  /\ force' = [force EXCEPT ![c] = FALSE]
  /\ Goto(c, "idle")
  /\ dropped' = (failed /\ (dropped \/ c \in DirectEditors))

\* The lock is released; the pending-restart entry arms the flag again when
\* the restart failed, the others only log.
Leave(c, failed) ==
  /\ holder' = Nobody
  /\ force' = [force EXCEPT ![c] = FALSE]
  /\ Goto(c, IF failed /\ c = Pending THEN "flag" ELSE "idle")
  /\ dropped' = (failed /\ (dropped \/ c \in DirectEditors))

Build(c) ==
  /\ pc[c] = "build"
  /\ \/ cand' = desired /\ Goto(c, "decide") /\ UNCHANGED <<holder, force, faults, dropped>>
     \/ Fault /\ Leave(c, TRUE) /\ UNCHANGED cand
  /\ UNCHANGED <<desired, core, known, needRestart, manualStop, left, edit, checks>>

Changed == (known \ cand) \union (cand \ known)

Decide(c) ==
  /\ pc[c] = "decide"
  /\ \/ /\ Up /\ ~force[c] /\ cand = known /\ ~needRestart
        /\ Leave(c, FALSE) /\ UNCHANGED left
     \/ /\ Up /\ ~force[c] /\ cand # known /\ Changed \cap StaticParts = {}
        /\ left' = Changed
        /\ Goto(c, "hot") /\ UNCHANGED <<holder, force, dropped>>
     \/ /\ ~Up \/ force[c] \/ (IF cand = known THEN needRestart
                                               ELSE Changed \cap StaticParts # {})
        /\ Goto(c, "stop") /\ UNCHANGED <<holder, force, left, dropped>>
  /\ UNCHANGED <<desired, core, known, needRestart, manualStop, cand, edit, checks, faults>>

\* tryHotApply: removals, then additions, each of them an API call. A handler
\* that is already gone, or already there, is not a failure.
HotStep(c) ==
  LET removals == left \ cand
      step == IF removals # {} THEN removals ELSE left
  IN
  /\ pc[c] = "hot" /\ Up
  /\ \E h \in step :
       /\ core' = IF h \in cand THEN core \union {h} ELSE core \ {h}
       /\ left' = left \ {h}
  /\ UNCHANGED <<desired, known, needRestart, manualStop, holder, pc, force, cand,
                 edit, checks, faults, dropped>>

\* Mutant: a failing call ends the restart, without the full restart.
HotFailAlone(c) ==
  /\ pc[c] = "hot" /\ left # {}
  /\ IF Up THEN Fault ELSE UNCHANGED faults
  /\ left' = {}
  /\ Leave(c, TRUE)
  /\ UNCHANGED <<desired, core, known, needRestart, manualStop, cand, edit, checks>>

\* A failing call leaves the core half changed; a full restart follows.
HotFail(c) ==
  /\ pc[c] = "hot" /\ left # {}
  /\ IF Up THEN Fault ELSE UNCHANGED faults
  /\ left' = {}
  /\ Goto(c, "stop")
  /\ UNCHANGED <<desired, core, known, needRestart, manualStop, holder, force, cand,
                 edit, checks, dropped>>

HotDone(c) ==
  /\ pc[c] = "hot" /\ left = {}
  /\ known' = cand
  /\ Leave(c, FALSE)
  /\ UNCHANGED <<desired, core, needRestart, manualStop, cand, left, edit, checks, faults>>

StopCore(c) ==
  /\ pc[c] = "stop"
  /\ core' = Down
  /\ Goto(c, "start")
  /\ UNCHANGED <<desired, known, needRestart, manualStop, holder, force, cand, left,
                 edit, checks, faults, dropped>>

StartCore(c) ==
  /\ pc[c] = "start"
  /\ known' = cand
  /\ \/ core' = cand /\ Leave(c, FALSE) /\ UNCHANGED faults
     \/ Fault /\ Leave(c, TRUE) /\ UNCHANGED core
  /\ UNCHANGED <<desired, needRestart, manualStop, cand, left, edit, checks>>

CoreExits ==
  /\ Up /\ Fault
  /\ core' = Down
  /\ UNCHANGED <<desired, known, needRestart, manualStop, holder, pc, force, cand, left,
                 edit, checks, dropped>>

-----------------------------------------------------------------------------
\* The panel has just started and is about to start the core.
Init ==
  /\ desired \in SUBSET Handlers
  /\ core = Down /\ known = {}
  /\ needRestart = FALSE /\ manualStop = FALSE /\ holder = Nobody
  /\ pc = [p \in Procs |-> IF p = User THEN "want" ELSE "idle"]
  /\ force = [c \in Restarters |-> c = User]
  /\ cand = {} /\ left = {}
  /\ edit = [e \in ApiEditors |-> [tag |-> CHOOSE h \in ApiHandlers : TRUE, add |-> FALSE]]
  /\ checks = 0 /\ faults = 0 /\ dropped = FALSE

Restart(c) == Enter(c) \/ Build(c) \/ Decide(c) \/ HotStep(c) \/ HotFail(c) \/ HotDone(c)
              \/ StopCore(c) \/ StartCore(c)

Next ==
  \/ \E e \in FlagEditors : FlagEdit(e)
  \/ \E e \in ApiEditors : ApiEdit(e) \/ ApiCall(e)
  \/ \E e \in DirectEditors : DirectEdit(e)
  \/ \E p \in Procs : SetToNeedRestart(p)
  \/ PendingTick \/ WatchTick \/ UserRestart \/ StopXray \/ CoreExits
  \/ \E c \in Restarters : Restart(c)

Spec == Init /\ [][Next]_vars

(* The cron entries keep ticking, what has been begun is finished, and the *)
(* Go mutex lets every waiter in eventually.                               *)
Fairness ==
  /\ WF_vars(PendingTick) /\ WF_vars(WatchTick)
  /\ \A c \in Restarters : WF_vars(Restart(c)) /\ SF_vars(Enter(c))
  /\ \A p \in Procs : WF_vars(SetToNeedRestart(p))
  /\ \A e \in ApiEditors : WF_vars(ApiCall(e))

FairSpec == Spec /\ Fairness

-----------------------------------------------------------------------------
(* Properties.                                                             *)

Steps == {"idle", "flag", "api", "want", "build", "decide", "hot", "stop", "start"}
Locked == {"build", "decide", "hot", "stop", "start"}

\* Every variable keeps its type.
TypeOK ==
  /\ desired \subseteq Handlers
  /\ core = Down \/ core \subseteq Handlers
  /\ known \subseteq Handlers
  /\ needRestart \in BOOLEAN /\ manualStop \in BOOLEAN
  /\ holder \in Restarters \union {Nobody}
  /\ pc \in [Procs -> Steps]
  /\ force \in [Restarters -> BOOLEAN]
  /\ cand \subseteq Handlers /\ left \subseteq Handlers
  /\ edit \in [ApiEditors -> [tag : ApiHandlers, add : BOOLEAN]]
  /\ checks \in 0..1 /\ faults \in Nat /\ dropped \in BOOLEAN

\* Between restarts the snapshot RestartXray compares with is what the core
\* has loaded, also after a hot apply that broke off half way, in everything
\* that nobody edits through the API: an API call goes past the snapshot.
SnapshotIsCore == holder = Nobody /\ Up => known \ ApiHandlers = core \ ApiHandlers

\* A core that runs something else than the database asks for has a restart
\* coming: the change is flagged or about to be, or whoever is going to serve
\* it waits for the lock. It is about what nobody edits through the API, since
\* a restart does not see what an API call changed; and a direct editor whose
\* restart failed is owed nothing.
StaleIsOwed == holder = Nobody /\ Up /\ core \ ApiHandlers # desired \ ApiHandlers =>
  \/ needRestart \/ \E p \in Procs : pc[p] = "flag"
  \/ \E c \in DirectEditors \union {Pending} : pc[c] = "want"
  \/ dropped

\* A core that the user stopped stays down, whatever restarts were ticking or
\* waiting for the lock: it comes up only after a forced restart has taken the
\* mark back.
StoppedStaysDown == [][manualStop =>
  /\ ~Up => ~(core' # Down)
  /\ manualStop' \/ \E c \in Restarters : force[c] /\ pc[c] = "want"]_vars

Runs(h) == Up /\ h \in core

\* A handler that was taken out of the database does not keep running: a
\* flagged change is never lost between the flag and the restart that serves
\* it, and a failed restart is retried, while others go past the snapshot. It
\* needs DirectEditors = {}: nobody retries the restart of a direct editor.
RemovedHandlerIsCut == \A h \in Handlers \ ApiHandlers :
  (h \notin desired) ~> (~Runs(h) \/ h \in desired)

\* A handler that was put into the database comes to run, unless the user
\* keeps the core stopped.
AddedHandlerRuns == \A h \in Handlers \ ApiHandlers :
  (h \in desired) ~> (Runs(h) \/ h \notin desired \/ manualStop)
=============================================================================
