------------------------------ MODULE Sidecars ------------------------------
(***************************************************************************)
(* The mtg processes of MTProto inbounds (mtproto/manager.go, process.go,  *)
(* web/job/mtproto_job.go, web/service/inbound_mtproto.go and the edits    *)
(* that reach them through web/runtime/local.go).                          *)
(*                                                                         *)
(* The manager keeps one process per inbound, with the fingerprints of     *)
(* what it was started or last reloaded with.  A job reads the inbounds,   *)
(* reconciles the processes and collects their counters; an edit commits   *)
(* and then drives the one process itself, with what it read.  Processes   *)
(* survive a crash of the panel, the manager's memory does not.            *)
(***************************************************************************)
EXTENDS Naturals

CONSTANTS
  Inbounds,    \* ids of local mtproto inbounds
  Clients,     \* client e-mails
  Structures,  \* everything of an inbound but its secrets and its switch
  Requests,    \* requests that edit
  Kinds,       \* the edits they make
  Forms,       \* the rows there are at the start and that are saved whole
  Pids,        \* operating system processes
  Absent,      \* no row, no process, no counter
  MaxUse,      \* bound on each client's traffic through a process
  MaxEdits,    \* bound on edits
  MaxFaults    \* bound on failing calls, deaths, stops and restarts

ASSUME KindsAssumption == Kinds \subseteq {"client", "reset", "form", "toggle", "add", "drop"}
ASSUME LimitsAssumption == MaxUse \in [Clients -> Nat] /\ MaxEdits \in Nat /\ MaxFaults \in Nat

\* A row, with the clients its settings enable.
Content == [on : BOOLEAN, struct : Structures, secrets : SUBSET Clients]
ASSUME FormsAssumption == Forms \subseteq Content
Instance == [struct : Structures, secrets : SUBSET Clients]
Counters == [Clients -> Nat]
Last == [Clients -> Nat \union {Absent}]
Managed == [proc : Pids, struct : Structures, secrets : SUBSET Clients, last : Last]
Sidecar == [at : Inbounds, struct : Structures, secrets : SUBSET Clients, count : Counters]
Snap == [proc : Pids, last : Last, got : BOOLEAN]
ASSUME AbsentAssumption ==
  Absent \notin Content \union Instance \union Managed \union Sidecar \union Snap \union Nat

VARIABLES
  rows,     \* the inbounds table
  off,      \* client_traffics rows that are switched off
  taken,    \* ids that SQLite will not give again
  procs,    \* the manager's map
  swept,    \* the manager has killed the leftovers of earlier runs
  mtg,      \* the processes that run
  claimed,  \* history: traffic of each process handed to the accounts
  touched,  \* history: clients of an inbound that were not served, or whose
            \* inbound changed its structure
  job,      \* the job: step and local variables
  at,       \* each request: step and local variables
  edits,
  faults

table == <<rows, off, taken, touched>>
world == <<procs, swept, mtg, claimed>>
vars  == <<table, world, job, at, edits, faults>>

None == [i \in Inbounds |-> Absent]
JobIdle == [pc |-> "idle", rows |-> None, want |-> None, todo |-> {}, snap |-> None]
Idle == [pc |-> "idle", kind |-> "none", i |-> Absent, row |-> Absent, inst |-> Absent]
Zero == [c \in Clients |-> 0]
Fault == faults < MaxFaults /\ faults' = faults + 1
Edit == edits < MaxEdits /\ edits' = edits + 1

\* InstanceFromInbound, without the clients that are switched off in os.
Make(i, row, os) ==
  LET left == IF row = Absent THEN {} ELSE {c \in row.secrets : <<i, c>> \notin os} IN
  IF row # Absent /\ row.on /\ left # {} THEN [struct |-> row.struct, secrets |-> left]
  ELSE Absent

-----------------------------------------------------------------------------
(* The manager.  Its lock is held by Reconcile from its first to its last  *)
(* Ensure; every other operation is one step.                              *)

LockFree == ~(job.pc = "ensure" /\ job.todo # {})

Without(ps, S) == [p \in Pids |-> IF p \in S THEN Absent ELSE ps[p]]

\* Mutant: the processes of an earlier run are left alone.
AliveUnswept == mtg

\* The processes once the leftovers are swept.
Alive == IF swept THEN mtg ELSE Without(mtg, Pids)

Held(i) == IF procs[i] = Absent THEN {} ELSE {procs[i].proc}

\* Process ids are given again once nothing refers to them.
FreePids == {p \in Pids :
  /\ mtg[p] = Absent
  /\ \A i \in Inbounds : p \notin Held(i) /\ (job.snap[i] # Absent => job.snap[i].proc # p)}

\* ensureActionFor
IsNoop(i, inst) ==
  /\ procs[i] # Absent /\ Alive[procs[i].proc] # Absent
  /\ procs[i].struct = inst.struct /\ procs[i].secrets = inst.secrets
IsReload(i, inst) ==
  /\ procs[i] # Absent /\ Alive[procs[i].proc] # Absent
  /\ procs[i].struct = inst.struct /\ procs[i].secrets # inst.secrets

\* The old process is stopped and forgotten, and a new one starts or does not.
Started(i, inst) == FreePids # {} /\
  LET p == CHOOSE q \in FreePids : TRUE IN
  /\ procs' = [procs EXCEPT ![i] = [proc |-> p, struct |-> inst.struct,
                 secrets |-> inst.secrets, last |-> [c \in Clients |-> Absent]]]
  /\ mtg' = [Without(Alive, Held(i)) EXCEPT
               ![p] = [at |-> i, struct |-> inst.struct, secrets |-> inst.secrets, count |-> Zero]]
  /\ claimed' = [claimed EXCEPT ![p] = Zero]

\* Mutant: the entry outlives a start that fails.
NotStartedKept(i) ==
  /\ procs' = [procs EXCEPT ![i] = IF @ = Absent THEN @ ELSE [@ EXCEPT !.proc = Absent]]
  /\ mtg' = Without(Alive, Held(i))
  /\ UNCHANGED claimed

NotStarted(i) ==
  /\ procs' = [procs EXCEPT ![i] = Absent]
  /\ mtg' = Without(Alive, Held(i))
  /\ UNCHANGED claimed

\* Mutant: a PUT that fails is taken for done.
ReloadBelieved(i, inst) ==
  \/ /\ procs' = [procs EXCEPT ![i].secrets = inst.secrets]
     /\ mtg' = [Alive EXCEPT ![procs[i].proc].secrets = inst.secrets]
     /\ UNCHANGED <<claimed, faults>>
  \/ /\ Fault
     /\ procs' = [procs EXCEPT ![i].secrets = inst.secrets]
     /\ mtg' = Alive
     /\ UNCHANGED claimed

\* PUT /secrets succeeds, fails and is followed by a restart, or is not sent
\* because the config file could not be written.
Reload(i, inst) ==
  \/ /\ procs' = [procs EXCEPT ![i].secrets = inst.secrets]
     /\ mtg' = [Alive EXCEPT ![procs[i].proc].secrets = inst.secrets]
     /\ UNCHANGED <<claimed, faults>>
  \/ Fault /\ mtg' = Alive /\ UNCHANGED <<procs, claimed>>
  \/ Fault /\ (Started(i, inst) \/ NotStarted(i))

Ensure(i, inst) ==
  /\ swept' = TRUE
  /\ \/ IsNoop(i, inst) /\ mtg' = Alive /\ UNCHANGED <<procs, claimed, faults>>
     \/ IsReload(i, inst) /\ Reload(i, inst)
     \/ /\ ~IsNoop(i, inst) /\ ~IsReload(i, inst)
        /\ \/ Started(i, inst) /\ UNCHANGED faults
           \/ Fault /\ NotStarted(i)

Remove(i) ==
  /\ procs' = [procs EXCEPT ![i] = Absent]
  /\ mtg' = Without(mtg, Held(i))
  /\ UNCHANGED <<swept, claimed, faults>>

-----------------------------------------------------------------------------
(* The job.  The first run, which the panel starts itself, is taken to be  *)
(* over before the cron's first.                                           *)

JobOnly == UNCHANGED <<table, at, edits>>

ReadRows ==
  /\ job.pc = "idle"
  /\ job' = [JobIdle EXCEPT !.pc = "off", !.rows = rows]
  /\ UNCHANGED <<world, faults>> /\ JobOnly

\* Mutant: the accounts are not asked.
ReadOffNot ==
  /\ job.pc = "off"
  /\ job' = [JobIdle EXCEPT !.pc = "lock",
                            !.want = [i \in Inbounds |-> Make(i, job.rows[i], {})]]
  /\ UNCHANGED <<world, faults>> /\ JobOnly

ReadOff ==
  /\ job.pc = "off"
  /\ job' = [JobIdle EXCEPT !.pc = "lock",
                            !.want = [i \in Inbounds |-> Make(i, job.rows[i], off)]]
  /\ UNCHANGED <<world, faults>> /\ JobOnly

Unwanted == {i \in Inbounds : job.want[i] = Absent}

\* Reconcile, up to its Ensures.
Reconcile ==
  /\ job.pc = "lock"
  /\ swept' = TRUE
  /\ procs' = [i \in Inbounds |-> IF i \in Unwanted THEN Absent ELSE procs[i]]
  /\ mtg' = Without(Alive, UNION {Held(i) : i \in Unwanted})
  /\ job' = [job EXCEPT !.pc = "ensure", !.todo = Inbounds \ Unwanted]
  /\ UNCHANGED <<claimed, faults>> /\ JobOnly

EnsureNext(i) ==
  /\ job.pc = "ensure" /\ i \in job.todo
  /\ Ensure(i, job.want[i])
  /\ job' = [job EXCEPT !.todo = @ \ {i}]
  /\ JobOnly

\* CollectTraffic copies what it knows of the processes that run.
Collect ==
  /\ job.pc = "ensure" /\ job.todo = {}
  /\ job' = [JobIdle EXCEPT !.pc = "scrape", !.snap = [i \in Inbounds |->
       IF procs[i] # Absent /\ mtg[procs[i].proc] # Absent
       THEN [proc |-> procs[i].proc, last |-> procs[i].last, got |-> FALSE] ELSE Absent]]
  /\ UNCHANGED <<world, faults>> /\ JobOnly

\* Mutant: a client not seen before is counted from zero.
DeltaFromZero(last, p, c) ==
  LET before == IF last[c] = Absent THEN 0 ELSE last[c] IN
  IF c \in mtg[p].secrets /\ before < mtg[p].count[c] THEN mtg[p].count[c] - before ELSE 0

Delta(last, p, c) ==
  IF c \in mtg[p].secrets /\ last[c] # Absent /\ last[c] < mtg[p].count[c]
  THEN mtg[p].count[c] - last[c] ELSE 0

\* One process answers; a dead one, or one behind a failing call, is passed over.
Scrape(i) ==
  LET s == job.snap[i] IN
  /\ job.pc = "scrape" /\ s # Absent /\ \A j \in Inbounds : job.snap[j] # Absent => ~job.snap[j].got
  /\ \/ /\ mtg[s.proc] # Absent
        /\ claimed' = [claimed EXCEPT ![s.proc] = [c \in Clients |-> @[c] + Delta(s.last, s.proc, c)]]
        /\ job' = [job EXCEPT !.snap[i] = [proc |-> s.proc, got |-> TRUE,
             last |-> [c \in Clients |-> IF c \in mtg[s.proc].secrets THEN mtg[s.proc].count[c]
                                         ELSE Absent]]]
        /\ UNCHANGED faults
     \/ /\ \/ mtg[s.proc] = Absent /\ UNCHANGED faults
           \/ Fault
        /\ job' = [job EXCEPT !.snap[i] = Absent]
        /\ UNCHANGED claimed
  /\ UNCHANGED <<procs, swept, mtg>> /\ JobOnly

\* The counters go to whatever process the inbound has by now.
WriteBack(i) ==
  /\ job.pc = "scrape" /\ job.snap[i] # Absent /\ job.snap[i].got
  /\ procs' = IF procs[i] = Absent THEN procs ELSE [procs EXCEPT ![i].last = job.snap[i].last]
  /\ job' = [job EXCEPT !.snap[i] = Absent]
  /\ UNCHANGED <<swept, mtg, claimed, faults>> /\ JobOnly

Finish ==
  /\ job.pc = "scrape" /\ \A i \in Inbounds : job.snap[i] = Absent
  /\ job' = JobIdle
  /\ UNCHANGED <<world, faults>> /\ JobOnly

-----------------------------------------------------------------------------
(* Requests: read, commit, then drive the process with what was read.      *)

\* Client c of inbound i is served by rows rs and accounts os.
Serves(rs, os, i, c) == Make(i, rs[i], os) # Absent /\ c \in Make(i, rs[i], os).secrets

Save(rs, os) ==
  /\ rows' = rs /\ off' = os
  /\ touched' = touched \union {ic \in Inbounds \X Clients :
       ~ /\ Serves(rows, off, ic[1], ic[2]) /\ Serves(rs, os, ic[1], ic[2])
         /\ rs[ic[1]].struct = rows[ic[1]].struct}

\* A client edit holds the inbound's lock to its end.
Begin(r, kind, i) ==
  /\ at[r].pc = "idle" /\ Edit
  /\ IF kind = "add" THEN i \notin taken ELSE rows[i] # Absent
  /\ kind = "client" => \A q \in Requests : at[q].kind = "client" => at[q].i # i
  /\ at' = [at EXCEPT ![r] = [pc |-> "commit", kind |-> kind, i |-> i, row |-> rows[i],
                              inst |-> Absent]]
  /\ taken' = IF kind = "add" THEN taken \union {i} ELSE taken
  /\ UNCHANGED <<rows, off, touched, world, job, faults>>

Goto(r, o) == at' = [at EXCEPT ![r] = o]

\* A client is added, enabled, disabled, renamed away or deleted: the row that
\* was read is written back, and the account follows.
CommitClient(r, c) ==
  LET o == at[r]
      adds == c \notin o.row.secrets IN
  /\ o.pc = "commit" /\ o.kind = "client"
  /\ \E os \in {off \ {<<o.i, c>>}} \union IF adds THEN {} ELSE {off \union {<<o.i, c>>}} :
       Save([rows EXCEPT ![o.i] = [o.row EXCEPT
              !.secrets = IF adds THEN @ \union {c} ELSE @ \ {c}]], os)
  /\ Goto(r, [o EXCEPT !.pc = "reread"])
  /\ UNCHANGED <<taken, world, job, edits, faults>>

\* A reset of the client's traffic switches it on in the accounts of any inbound.
CommitReset(r, c) ==
  LET o == at[r] IN
  /\ o.pc = "commit" /\ o.kind = "reset"
  /\ Save(rows, off \ (Inbounds \X {c}))
  /\ Goto(r, IF rows[o.i] # Absent /\ c \in rows[o.i].secrets THEN [o EXCEPT !.pc = "reread"]
             ELSE Idle)
  /\ UNCHANGED <<taken, world, job, edits, faults>>

\* updateClientTraffics: the accounts of the listed clients are switched as the
\* list has them; one that is not on it, here one of gone, loses its account when
\* it leaves.
Relisted(o, row, gone) ==
  LET left == IF o.kind = "form" THEN gone ELSE {} IN
  (off \ (Inbounds \X row.secrets \union {o.i} \X left))
    \union {o.i} \X (Clients \ (row.secrets \union gone))

\* UpdateInbound and AddInbound save a whole row and build the payload in the
\* transaction.
CommitRow(r, row, gone) ==
  LET o == at[r]
      os == Relisted(o, row, gone) IN
  /\ o.pc = "commit" /\ o.kind \in {"form", "add"}
  /\ Save([rows EXCEPT ![o.i] = row], os)
  /\ \/ /\ Goto(r, IF o.kind = "add" /\ ~row.on THEN Idle
                   ELSE [o EXCEPT !.pc = "push", !.inst = Make(o.i, row, os)])
        /\ UNCHANGED faults
     \/ row.on /\ Fault /\ Goto(r, Idle)
  /\ UNCHANGED <<taken, world, job, edits>>

\* SetInboundEnable writes one column, DelInbound deletes the row.
CommitToggle(r) ==
  LET o == at[r] IN
  /\ o.pc = "commit" /\ o.kind = "toggle"
  /\ Save(IF rows[o.i] = Absent THEN rows ELSE [rows EXCEPT ![o.i].on = ~o.row.on], off)
  /\ Goto(r, [o EXCEPT !.pc = "remove", !.row.on = ~@])
  /\ UNCHANGED <<taken, world, job, edits, faults>>

CommitDrop(r) ==
  LET o == at[r] IN
  /\ o.pc = "commit" /\ o.kind = "drop"
  /\ Save([rows EXCEPT ![o.i] = Absent], off)
  /\ Goto(r, [o EXCEPT !.pc = IF o.row.on THEN "remove" ELSE "count"])
  /\ UNCHANGED <<taken, world, job, edits, faults>>

\* DelInbound of the runtime.
Stop(r) ==
  LET o == at[r] IN
  /\ o.pc = "remove" /\ LockFree
  /\ Remove(o.i)
  /\ Goto(r, CASE o.kind = "drop" -> [o EXCEPT !.pc = "count"]
               [] o.kind = "toggle" /\ o.row.on -> [o EXCEPT !.pc = "build"]
               [] OTHER -> Idle)
  /\ UNCHANGED <<table, job, edits>>

\* The ids start over when the table is empty.
Count(r) ==
  /\ at[r].pc = "count"
  /\ taken' = IF \A i \in Inbounds : rows[i] = Absent THEN {} ELSE taken
  /\ Goto(r, Idle)
  /\ UNCHANGED <<rows, off, touched, world, job, edits, faults>>

\* applyLocalMtproto reads the committed row again, then the accounts; after a
\* reset only if some process runs.
Reread(r) ==
  LET o == at[r] IN
  /\ o.pc = "reread" /\ (o.kind = "reset" => LockFree)
  /\ Goto(r, IF rows[o.i] = Absent \/ (o.kind = "reset" /\ \A i \in Inbounds :
                procs[i] = Absent \/ mtg[procs[i].proc] = Absent)
             THEN Idle ELSE [o EXCEPT !.pc = "build", !.row = rows[o.i]])
  /\ UNCHANGED <<table, world, job, edits, faults>>

\* buildRuntimeInboundForAPI; when it fails, a client edit goes on with the row
\* as it is, a toggle gives up.
Build(r) ==
  LET o == at[r] IN
  /\ o.pc = "build"
  /\ \/ Goto(r, [o EXCEPT !.pc = "push", !.inst = Make(o.i, o.row, off)]) /\ UNCHANGED faults
     \/ /\ Fault
        /\ Goto(r, IF o.kind = "toggle" THEN Idle
                   ELSE [o EXCEPT !.pc = "push", !.inst = Make(o.i, o.row, {})])
  /\ UNCHANGED <<table, world, job, edits>>

\* Mutant: an update deletes and adds, as for an inbound of the core.
PushDelAdd(r) ==
  LET o == at[r] IN
  /\ o.pc = "push" /\ LockFree
  /\ \/ o.inst # Absent /\ swept' = TRUE /\ Started(o.i, o.inst) /\ UNCHANGED faults
     \/ o.inst = Absent /\ Remove(o.i)
  /\ Goto(r, Idle)
  /\ UNCHANGED <<table, job, edits>>

\* UpdateInbound removes what cannot be served; AddInbound does nothing then.
Push(r) ==
  LET o == at[r] IN
  /\ o.pc = "push" /\ LockFree
  /\ \/ o.inst # Absent /\ Ensure(o.i, o.inst)
     \/ o.inst = Absent /\ o.kind \notin {"toggle", "add"} /\ Remove(o.i)
     \/ o.inst = Absent /\ o.kind \in {"toggle", "add"} /\ UNCHANGED <<world, faults>>
  /\ Goto(r, Idle)
  /\ UNCHANGED <<table, job, edits>>

-----------------------------------------------------------------------------
(* The surroundings: the traffic poll, use, death, stop and restart.       *)

\* The poll switches a client off in the accounts and in the settings, whose
\* write may fail, or renews it in both; or it switches an inbound off.
Poll(i, c) ==
  LET ic == <<i, c>> IN
  /\ rows[i] # Absent /\ Edit
  /\ \/ /\ c \in rows[i].secrets /\ ic \notin off /\ UNCHANGED faults
        /\ Save([rows EXCEPT ![i].secrets = @ \ {c}], off \union {ic})
     \/ /\ c \in rows[i].secrets /\ ic \notin off /\ Fault
        /\ Save(rows, off \union {ic})
     \/ /\ ic \in off /\ UNCHANGED faults
        /\ Save([rows EXCEPT ![i].secrets = @ \union {c}], off \ {ic})
     \/ /\ rows[i].on /\ UNCHANGED faults
        /\ Save([rows EXCEPT ![i].on = FALSE], off)
  /\ UNCHANGED <<taken, world, job, at>>

Use(p, c) ==
  /\ mtg[p] # Absent /\ c \in mtg[p].secrets /\ mtg[p].count[c] < MaxUse[c]
  /\ mtg' = [mtg EXCEPT ![p].count[c] = @ + 1]
  /\ UNCHANGED <<table, procs, swept, claimed, job, at, edits, faults>>

Die(p) ==
  /\ mtg[p] # Absent /\ Fault
  /\ mtg' = Without(mtg, {p})
  /\ UNCHANGED <<table, procs, swept, claimed, job, at, edits>>

\* On shutdown, while the job and requests may still be running.
StopAll ==
  /\ LockFree /\ Fault
  /\ procs' = None
  /\ mtg' = Without(mtg, UNION {Held(i) : i \in Inbounds})
  /\ UNCHANGED <<table, swept, claimed, job, at, edits>>

\* The panel ends, in whatever state, and starts again.
Restart ==
  /\ Fault
  /\ procs' = None /\ swept' = FALSE
  /\ job' = JobIdle /\ at' = [r \in Requests |-> Idle]
  /\ UNCHANGED <<table, mtg, claimed, edits>>

-----------------------------------------------------------------------------
Init ==
  /\ rows \in [Inbounds -> Forms \union {Absent}] /\ off = {}
  /\ taken = {i \in Inbounds : rows[i] # Absent}
  /\ touched = {ic \in Inbounds \X Clients : ~Serves(rows, off, ic[1], ic[2])}
  /\ procs = None /\ swept = FALSE
  /\ mtg = [p \in Pids |-> Absent] /\ claimed = [p \in Pids |-> Zero]
  /\ job = JobIdle /\ at = [r \in Requests |-> Idle]
  /\ edits = 0 /\ faults = 0

JobStep ==
  \/ ReadRows \/ ReadOff \/ Reconcile \/ Collect \/ Finish
  \/ \E i \in Inbounds : EnsureNext(i) \/ Scrape(i) \/ WriteBack(i)

RequestStep(r) ==
  \/ \E c \in Clients : CommitClient(r, c) \/ CommitReset(r, c)
  \/ \E row \in Forms : \E gone \in SUBSET (Clients \ row.secrets) : CommitRow(r, row, gone)
  \/ CommitToggle(r) \/ CommitDrop(r) \/ Stop(r) \/ Count(r)
  \/ Reread(r) \/ Build(r) \/ Push(r)

Next ==
  \/ JobStep
  \/ \E r \in Requests : RequestStep(r) \/ \E kind \in Kinds, i \in Inbounds : Begin(r, kind, i)
  \/ \E i \in Inbounds, c \in Clients : Poll(i, c)
  \/ \E p \in Pids : Die(p) \/ \E c \in Clients : Use(p, c)
  \/ StopAll \/ Restart

Spec == Init /\ [][Next]_vars

\* The cron keeps running the job, and a request that has begun goes on.
FairSpec == Spec /\ WF_vars(JobStep) /\ \A r \in Requests : WF_vars(RequestStep(r))

-----------------------------------------------------------------------------
(* Properties.                                                             *)

\* Every variable keeps its type.
TypeOK ==
  /\ rows \in [Inbounds -> Content \union {Absent}]
  /\ off \subseteq Inbounds \X Clients /\ touched \subseteq Inbounds \X Clients
  /\ taken \subseteq Inbounds /\ swept \in BOOLEAN
  /\ procs \in [Inbounds -> Managed \union {Absent}]
  /\ mtg \in [Pids -> Sidecar \union {Absent}]
  /\ claimed \in [Pids -> Counters]
  /\ job \in [pc : {"idle", "off", "lock", "ensure", "scrape"},
              rows : [Inbounds -> Content \union {Absent}],
              want : [Inbounds -> Instance \union {Absent}], todo : SUBSET Inbounds,
              snap : [Inbounds -> Snap \union {Absent}]]
  /\ at \in [Requests -> [pc : {"idle", "commit", "remove", "count", "reread", "build", "push"},
                          kind : Kinds \union {"none"}, i : Inbounds \union {Absent},
                          row : Content \union {Absent}, inst : Instance \union {Absent}]]
  /\ edits \in Nat /\ faults \in Nat

\* Once the leftovers were swept, every process that runs is the one the
\* manager holds for its inbound, so that no two compete for a port and none
\* goes on with secrets nobody can take back.
NoOrphans == swept => \A p \in Pids : mtg[p] # Absent => p \in Held(mtg[p].at)

\* What the manager believes a running process serves is what it serves: else
\* Ensure would leave a wrong process alone for ever.
FingerprintIsTrue == \A i \in Inbounds :
  procs[i] # Absent /\ mtg[procs[i].proc] # Absent =>
    LET m == mtg[procs[i].proc] IN
    m.at = i /\ m.struct = procs[i].struct /\ m.secrets = procs[i].secrets

\* However edits of other clients and the job interleave, a client that was
\* served throughout by an inbound of one structure keeps its process and its
\* place in it, unless something fails or the panel was started anew.
ConnectionsSurvive == [][\A p \in Pids : \A c \in Clients :
  /\ mtg[p] # Absent /\ c \in mtg[p].secrets /\ <<mtg[p].at, c>> \notin touched'
  /\ mtg'[p] = Absent \/ c \notin mtg'[p].secrets
  => faults' # faults \/ ~swept]_vars

\* No traffic of a process is handed to the accounts twice, even when counters
\* are written back to a process other than the one they came from.
ClaimedOnce == \A p \in Pids : mtg[p] # Absent =>
  \A c \in Clients : claimed[p][c] <= mtg[p].count[c]

\* When edits and faults are over, exactly the wanted processes run, with
\* exactly what the tables say.
Converges == <>[](\A i \in Inbounds :
  LET run == {p \in Pids : mtg[p] # Absent /\ mtg[p].at = i} IN
  IF Make(i, rows[i], off) = Absent THEN run = {}
  ELSE \E p \in Pids : run = {p} /\
         [struct |-> mtg[p].struct, secrets |-> mtg[p].secrets] = Make(i, rows[i], off))
=============================================================================
