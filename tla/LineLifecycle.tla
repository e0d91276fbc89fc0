--------------------------- MODULE LineLifecycle ---------------------------
(***************************************************************************)
(* The life of a managed relay line (web/service/line.go,                  *)
(* line_validity.go, reality_preflight.go, line_bunny.go).                 *)
(*                                                                         *)
(* A line is a database row; applying it builds, in one transaction, an    *)
(* Xray inbound, an outbound with its routing rule, and a managed client,  *)
(* and writes an Nginx site next to the database.  Panel requests and the  *)
(* validity job work on the same rows without a lock of their own: every   *)
(* step below is one transaction or statement, and what a process read in  *)
(* an earlier step may be stale in a later one.  The transaction of an     *)
(* apply takes long, since it runs Nginx: SQLite, which database/db.go     *)
(* opens with _txlock=immediate, keeps all other writes waiting meanwhile. *)
(***************************************************************************)
EXTENDS Naturals, FiniteSets

CONSTANTS
  Lines,           \* identities the database may give to lines
  Requests,        \* panel requests that can be in flight together
  Jobs,            \* overlapping runs of LineValidityJob
  Legacy,          \* lines that an older version of the panel has left
  Types,           \* types of line
  Settings,        \* what the user fills in of a configuration
  NginxSettings,   \* those with nginxApply switched on
  Operations,      \* the operations the panel's users perform
  Nothing,         \* no plan, no preflight, no target
  MaxTime,         \* bound on the clock
  MaxFaults        \* bound on crashes and failing database or Nginx calls

LineTypes == {"cloudflare", "bunny", "reality", "shadowsocks"}

(* ConfigJSON: the settings, the types whose defaults and generated values *)
(* have been filled in, and whether an uploaded certificate waits.         *)
Configs == [settings : Settings, filled : SUBSET LineTypes, pending : BOOLEAN]
Plans == [type : Types, json : Configs]
MaybePlan == Plans \union {Nothing}
Notes == [plan : Plans, stamp : Nat, exit : Nat, mark : BOOLEAN]

ASSUME PlansAssumption ==
  /\ Types \subseteq LineTypes /\ NginxSettings \subseteq Settings
  /\ Legacy \subseteq Lines
  /\ Nothing \notin Plans /\ Nothing \notin Lines /\ Nothing \notin Notes
ASSUME BoundsAssumption == MaxTime \in Nat /\ MaxFaults \in Nat
AllOperations ==
  {"create", "update", "extend", "get", "stage", "apply", "check", "renew", "delete"}
ASSUME OperationsAssumption == Operations \subseteq AllOperations
ASSUME ProcessAssumption == Requests \cap Jobs = {}

Procs == Requests \union Jobs

VARIABLES
  now,         \* time.Now().Unix(), at least 1
  status,      \* LineProfile.Status, or that there is no such row
  manual,      \* LineProfile.ManualReenableRequired
  validFrom,   \* LineProfile.ValidFrom, 0 for "at once"
  validUntil,  \* LineProfile.ValidUntil, 0 for "forever"
  plan,        \* LineProfile.Type and ConfigJSON
  began,       \* when the open apply transaction looked at its line, or 0
  stamp,       \* LineProfile.UpdatedAt, in seconds
  exitStamp,   \* LineOutbound.UpdatedAt, of the row with the exit proxy
  inbound,     \* the inbound tagged line-<id>-in: none, disabled, enabled
  built,       \* the plan that inbound was built from
  routed,      \* lines whose outbound and rule are in xrayTemplateConfig
  clients,     \* lines whose managed client row exists
  sites,       \* lines whose Nginx site file is in place
  pc,          \* what each request or job run does next
  op,          \* the operation a request performs
  tgt,         \* the line it works on
  seen,        \* what it read of that line before its current step
  due,         \* lines still to visit in a job run's current loop
  jnow,        \* the time a job run was started with
  restart,     \* LineValidityReconcileResult.RestartXray
  overwritten, \* history: lines whose ConfigJSON was stored from a reading
               \* that was no longer true, and not edited or applied since
  faults       \* failures and crashes so far

row   == <<status, manual, validFrom, validUntil, plan, stamp, exitStamp>>
infra == <<inbound, built, routed, clients, sites>>
proc  == <<pc, op, tgt, seen>>
loop  == <<due, jnow, restart>>
vars  == <<now, row, began, infra, proc, loop, overwritten, faults>>

-----------------------------------------------------------------------------
(* Reading a row.                                                          *)

Exists(l) == status[l] \notin {"absent", "deleted"}

ExpiryStatus == {"expiring", "expired", "expiry_failed"}

Ended(l, t) == validUntil[l] > 0 /\ validUntil[l] <= t

\* Mutant: a claimed expiry does not stop an apply.
CanApplyExpiring(l) == Exists(l) /\ validFrom[l] <= now /\ ~Ended(l, now)

\* validateLineCanApply
CanApply(l) ==
  /\ Exists(l)
  /\ ~manual[l]
  /\ status[l] \notin ExpiryStatus
  /\ validFrom[l] <= now
  /\ ~Ended(l, now)

\* normalizeLineValidity accepts this window.
ValidWindow(from, until) ==
  /\ until = 0 \/ until > now
  /\ from = 0 \/ until = 0 \/ until > from

InitialStatus(from) == IF from > now THEN "scheduled" ELSE "pending_apply"

\* What a process remembers of a line; what the mark means depends on the
\* operation: probed through the exit proxy, artifacts in place, site existed.
Snapshot(l, mark) ==
  [plan |-> plan[l], stamp |-> stamp[l], exit |-> exitStamp[l], mark |-> mark]

(* ensureLineConfigDefaults and promotePendingOriginCertificate; bunny     *)
(* switches nginxApply on.                                                 *)
Fill(t, c) == [c EXCEPT !.filled = @ \union ({t} \ {"shadowsocks"})]
NginxOn(c) == c.settings \in NginxSettings \/ "bunny" \in c.filled
Promote(t, c) == [c EXCEPT !.pending = @ /\ ~(t = "cloudflare" /\ NginxOn(c))]
UsesNginx(p) == p.type \in {"cloudflare", "bunny"} /\ NginxOn(p.json)

\* No apply transaction is open, so a write gets SQLite's lock.
Unlocked == began = 0

\* Mutant: the start second itself is missed.
DueToStartLate(t) == {l \in Lines :
  status[l] = "scheduled" /\ ~manual[l] /\ validFrom[l] \in 1..(t - 1) /\ ~Ended(l, t)}

DueToStart(t) == {l \in Lines :
  /\ status[l] = "scheduled" /\ ~manual[l]
  /\ validFrom[l] > 0 /\ validFrom[l] <= t
  /\ ~Ended(l, t)}

\* Mutant: claimed lines, failed ones too, are left to whoever claimed them.
DueToExpireOnce(t) == {l \in Lines :
  Exists(l) /\ Ended(l, t) /\ status[l] \notin ExpiryStatus}

DueToExpire(t) == {l \in Lines :
  /\ Exists(l)
  /\ \/ Ended(l, t) /\ status[l] # "expired"
     \/ status[l] \in {"expiring", "expiry_failed"}}

(* Writing a row: gorm stamps UpdatedAt with every update.                 *)

\* A write of config_json by id, from what was read earlier.
StoreConfig(l, note, json) ==
  IF Exists(l)
  THEN /\ plan' = [plan EXCEPT ![l].json = json]
       /\ stamp' = [stamp EXCEPT ![l] = now]
       /\ overwritten' = IF note.plan = plan[l] THEN overwritten ELSE overwritten \union {l}
  ELSE UNCHANGED <<plan, stamp, overwritten>>

SetStatus(l, s) ==
  /\ status' = [status EXCEPT ![l] = s]
  /\ stamp' = [stamp EXCEPT ![l] = now]

SetExpiry(l, s) == SetStatus(l, s) /\ manual' = [manual EXCEPT ![l] = TRUE]

\* The Nginx site, after applyCloudflareNginx and after removeLineNginxConfig.
SitesWith(l, p) == IF UsesNginx(p) THEN sites \union {l} ELSE sites
SitesWithout(l, p) == IF UsesNginx(p) THEN sites \ {l} ELSE sites

\* applyLineXray: inbound, outbound with its rule, managed client.
BuildInfra(l, p) ==
  /\ inbound' = [inbound EXCEPT ![l] = "enabled"]
  /\ built' = [built EXCEPT ![l] = p]
  /\ routed' = routed \union {l}
  /\ clients' = clients \union {l}

\* Mutant: the managed client is not removed.
DropInfraNotClient(l) ==
  /\ inbound' = [inbound EXCEPT ![l] = "none"]
  /\ built' = [built EXCEPT ![l] = Nothing]
  /\ routed' = routed \ {l}
  /\ UNCHANGED clients

DropInfra(l) ==
  /\ inbound' = [inbound EXCEPT ![l] = "none"]
  /\ built' = [built EXCEPT ![l] = Nothing]
  /\ routed' = routed \ {l}
  /\ clients' = clients \ {l}

(* Where a process is.                                                     *)

Goto(p, step) == pc' = [pc EXCEPT ![p] = step]

Aim(p, l, what) ==
  /\ tgt' = [tgt EXCEPT ![p] = l]
  /\ seen' = [seen EXCEPT ![p] = what]

\* A request ends.
Answer(p) ==
  /\ Goto(p, "idle") /\ Aim(p, Nothing, Nothing)
  /\ op' = [op EXCEPT ![p] = "none"]

\* An apply ends: a job run goes on with its loop over scheduled lines.
Return(p) ==
  IF p \in Jobs THEN Goto(p, "claim") /\ Aim(p, Nothing, Nothing) /\ UNCHANGED op
                ELSE Answer(p)

Begin(p, o, step) ==
  /\ pc[p] = "idle" /\ o \in Operations
  /\ Goto(p, step)
  /\ op' = [op EXCEPT ![p] = o]

Fault == faults < MaxFaults /\ faults' = faults + 1

-----------------------------------------------------------------------------
(* GetLine, as a request and as the end of most others.                    *)

GetLine(p, l) ==
  /\ Begin(p, "get", "readBack") /\ Aim(p, l, Nothing)
  /\ UNCHANGED <<now, row, began, infra, loop, overwritten, faults>>

\* A request that renews goes on to apply, the others are over.
GoOn(p) ==
  IF op[p] = "renew"
  THEN Goto(p, "applyRead") /\ op' = [op EXCEPT ![p] = "apply"] /\ Aim(p, tgt[p], Nothing)
  ELSE Return(p)

\* A configuration without the defaults of its type is written back with them.
\* A job run owes a restart for an apply only when this read works as well.
ReadBack(p) ==
  LET l == tgt[p] IN
  /\ pc[p] \in {"readBack", "readApplied"}
  /\ \/ /\ Exists(l)
        /\ IF Fill(plan[l].type, plan[l].json) # plan[l].json
           THEN Goto(p, "writeBack") /\ Aim(p, l, Snapshot(l, TRUE)) /\ UNCHANGED op
           ELSE GoOn(p)
        /\ restart' = [j \in Jobs |-> restart[j] \/ (j = p /\ pc[p] = "readApplied")]
        /\ UNCHANGED faults
     \/ ~Exists(l) /\ Return(p) /\ UNCHANGED <<restart, faults>>
     \/ Fault /\ Return(p) /\ UNCHANGED restart
  /\ UNCHANGED <<now, row, began, infra, due, jnow, overwritten>>

\* By id, whatever the row has become since; an error is ignored.
WriteBack(p) ==
  LET read == seen[p].plan IN
  /\ pc[p] = "writeBack"
  /\ \/ Unlocked /\ StoreConfig(tgt[p], seen[p], Fill(read.type, read.json)) /\ UNCHANGED faults
     \/ Fault /\ UNCHANGED <<plan, stamp, overwritten>>
  /\ GoOn(p)
  /\ UNCHANGED <<now, status, manual, validFrom, validUntil, exitStamp, began, infra, loop>>

(* An uploaded certificate is written next to the database and named in    *)
(* the configuration that was read before; the status is left as it is.    *)
StageCloudflareOriginCertificate(p, l) ==
  /\ Begin(p, "stage", "stageWrite")
  /\ Exists(l) /\ plan[l].type = "cloudflare"
  /\ Aim(p, l, Snapshot(l, TRUE))
  /\ UNCHANGED <<now, row, began, infra, loop, overwritten, faults>>

StageWrite(p) ==
  /\ pc[p] = "stageWrite"
  /\ \/ /\ Unlocked
        /\ StoreConfig(tgt[p], seen[p],
                       [Fill("cloudflare", seen[p].plan.json) EXCEPT !.pending = TRUE])
        /\ UNCHANGED faults
     \/ Fault /\ UNCHANGED <<plan, stamp, overwritten>>
  /\ Answer(p)
  /\ UNCHANGED <<now, status, manual, validFrom, validUntil, exitStamp, began, infra, loop>>

-----------------------------------------------------------------------------
(* Requests that are one transaction, the first two with a closing GetLine. *)

\* What a save stores: a waiting certificate is kept from the row.
Saved(t, s, waiting) ==
  [type |-> t, json |-> Fill(t, [settings |-> s, filled |-> {}, pending |-> waiting])]

CreateLine(p, l) == \E t \in Types, s \in Settings, from, until \in 0..MaxTime :
  /\ Begin(p, "create", "readBack") /\ Aim(p, l, Nothing)
  /\ Unlocked
  /\ status[l] = "absent"
  /\ ValidWindow(from, until)
  /\ SetStatus(l, InitialStatus(from))
  /\ plan' = [plan EXCEPT ![l] = Saved(t, s, FALSE)]
  /\ exitStamp' = [exitStamp EXCEPT ![l] = now]
  /\ validFrom' = [validFrom EXCEPT ![l] = from]
  /\ validUntil' = [validUntil EXCEPT ![l] = until]
  /\ UNCHANGED <<now, manual, began, infra, loop, overwritten, faults>>

\* Mutant: an edit keeps the status it finds.
UpdateLineQuietly(p, l) == \E t \in Types, s \in Settings :
  /\ Begin(p, "update", "readBack") /\ Aim(p, l, Nothing)
  /\ Unlocked
  /\ Exists(l) /\ ~manual[l]
  /\ SetStatus(l, status[l])
  /\ plan' = [plan EXCEPT ![l] = Saved(t, s, plan[l].json.pending)]
  /\ exitStamp' = [exitStamp EXCEPT ![l] = now]
  /\ overwritten' = overwritten \ {l}
  /\ UNCHANGED <<now, manual, validFrom, validUntil, began, infra, loop, faults>>

\* The running inbound, its route and its site are left as they are.
UpdateLine(p, l) == \E t \in Types, s \in Settings, from, until \in 0..MaxTime :
  /\ Begin(p, "update", "readBack") /\ Aim(p, l, Nothing)
  /\ Unlocked
  /\ Exists(l) /\ ~manual[l]
  /\ ValidWindow(from, until) \/ <<from, until>> = <<validFrom[l], validUntil[l]>>
  /\ SetStatus(l, InitialStatus(from))
  /\ plan' = [plan EXCEPT ![l] = Saved(t, s, plan[l].json.pending)]
  /\ exitStamp' = [exitStamp EXCEPT ![l] = now]
  /\ validFrom' = [validFrom EXCEPT ![l] = from]
  /\ validUntil' = [validUntil EXCEPT ![l] = until]
  /\ overwritten' = overwritten \ {l}
  /\ UNCHANGED <<now, manual, began, infra, loop, faults>>

UpdateLineValidity(l) == \E until \in 0..MaxTime :
  /\ "extend" \in Operations
  /\ Unlocked
  /\ Exists(l) /\ ~manual[l]
  /\ ValidWindow(validFrom[l], until)
  /\ validUntil' = [validUntil EXCEPT ![l] = until]
  /\ stamp' = [stamp EXCEPT ![l] = now]
  /\ UNCHANGED <<now, status, manual, validFrom, plan, exitStamp, began, infra, proc, loop,
                 overwritten, faults>>

-----------------------------------------------------------------------------
(* ApplyLine, as a request and as a subroutine of renewal and of the job.  *)

ApplyRequest(p, l) ==
  /\ Begin(p, "apply", "applyRead") /\ Aim(p, l, Nothing)
  /\ UNCHANGED <<now, row, began, infra, loop, overwritten, faults>>

\* RenewLine, whose closing GetLine the renew handler follows with ApplyLine.
RenewLine(p, l) == \E until \in 0..MaxTime :
  /\ Begin(p, "renew", "readBack") /\ Aim(p, l, Nothing)
  /\ Unlocked
  /\ Exists(l) /\ manual[l]
  /\ ValidWindow(now, until)
  /\ SetStatus(l, "pending_apply")
  /\ manual' = [manual EXCEPT ![l] = FALSE]
  /\ validFrom' = [validFrom EXCEPT ![l] = now]
  /\ validUntil' = [validUntil EXCEPT ![l] = until]
  /\ UNCHANGED <<now, plan, exitStamp, began, infra, loop, overwritten, faults>>

AfterRead(t) == CASE t = "reality" -> "prepareReality"
                  [] t = "bunny"   -> "prepareBunny"
                  [] OTHER         -> "applyTx"

\* A lifecycle rejection here leaves the row alone; a read that fails does not.
ApplyRead(p) ==
  LET l == tgt[p] IN
  /\ pc[p] = "applyRead"
  /\ \/ /\ CanApply(l)
        /\ Goto(p, AfterRead(plan[l].type))
        /\ UNCHANGED <<op, tgt, seen, faults>>
     \/ ~Exists(l) /\ Goto(p, "recordFailure") /\ UNCHANGED <<op, tgt, seen, faults>>
     \/ Exists(l) /\ ~CanApply(l) /\ Return(p) /\ UNCHANGED faults
     \/ Fault /\ Goto(p, "recordFailure") /\ UNCHANGED <<op, tgt, seen>>
  /\ UNCHANGED <<now, row, began, infra, loop, overwritten>>

\* prepareRealityApply and prepareBunnyApply read the row again, then take
\* seconds over the network; the outcome of the probe comes with the read.
Preflight(p) ==
  LET l == tgt[p] IN
  /\ pc[p] \in {"prepareReality", "prepareBunny"}
  /\ \/ /\ Exists(l)
        /\ Aim(p, l, Snapshot(l, pc[p] = "prepareReality")) /\ Goto(p, "applyTx")
     \/ Goto(p, "recordFailure") /\ UNCHANGED <<tgt, seen>>
  /\ UNCHANGED <<now, op, row, began, infra, loop, overwritten, faults>>

\* The configuration that was probed when there was a probe, which fills in
\* what Reality needs besides; the row's own otherwise.
Prepared(p) ==
  IF seen[p] = Nothing THEN Fill(plan[tgt[p]].type, plan[tgt[p]].json)
  ELSE LET c == Fill(seen[p].plan.type, seen[p].plan.json) IN
       IF seen[p].mark THEN Fill("reality", c) ELSE c

\* What the transaction builds, and stores again.
Candidate(p) ==
  LET t == plan[tgt[p]].type IN [type |-> t, json |-> Promote(t, Prepared(p))]

\* Mutant: only UpdatedAt is compared, which counts in seconds.
StaleByStamp(p) == seen[p] # Nothing /\ seen[p].stamp # stamp[tgt[p]]

\* The type is not compared, only what is in ConfigJSON.
Stale(p) ==
  /\ seen[p] # Nothing
  /\ \/ seen[p].plan.json # plan[tgt[p]].json \/ seen[p].stamp # stamp[tgt[p]]
     \/ seen[p].mark /\ seen[p].exit # exitStamp[tgt[p]]

\* Mutant: what the request checked first is not checked again.
ApplyAdmitUnchecked(p) ==
  /\ pc[p] = "applyTx"
  /\ Unlocked /\ Exists(tgt[p]) /\ ~Stale(p)
  /\ began' = now
  /\ Goto(p, "applySite")
  /\ UNCHANGED <<now, op, tgt, seen, row, infra, loop, overwritten, faults>>

\* The transaction begins and looks at the row again; inbound, outbound and
\* client are written, and nobody else sees them yet.
ApplyAdmit(p) ==
  /\ pc[p] = "applyTx"
  /\ Unlocked /\ CanApply(tgt[p]) /\ ~Stale(p)
  /\ began' = now
  /\ Goto(p, "applySite")
  /\ UNCHANGED <<now, op, tgt, seen, row, infra, loop, overwritten, faults>>

\* applyCloudflareNginx: the site, tested and reloaded, outside the transaction.
ApplySite(p) ==
  /\ pc[p] = "applySite"
  /\ sites' = SitesWith(tgt[p], Candidate(p))
  /\ Goto(p, "applyCommit")
  /\ UNCHANGED <<now, op, tgt, seen, row, began, inbound, built, routed, clients, loop,
                 overwritten, faults>>

ApplyCommit(p) ==
  LET l == tgt[p] IN
  /\ pc[p] = "applyCommit"
  /\ SetStatus(l, "pending_check")
  /\ plan' = [plan EXCEPT ![l] = Candidate(p)]
  /\ exitStamp' = [exitStamp EXCEPT ![l] = now]
  /\ BuildInfra(l, Candidate(p))
  /\ began' = 0
  /\ overwritten' = overwritten \ {l}
  /\ Goto(p, "readApplied") /\ Aim(p, l, Nothing)
  /\ UNCHANGED <<now, op, manual, validFrom, validUntil, sites, loop, faults>>

\* The lifecycle or the staleness check refuses inside the transaction.
ApplyRefuse(p) ==
  /\ pc[p] = "applyTx"
  /\ Unlocked /\ ~(CanApply(tgt[p]) /\ ~Stale(p))
  /\ Goto(p, "recordFailure") /\ Aim(p, tgt[p], Nothing)
  /\ UNCHANGED <<now, op, row, began, infra, loop, overwritten, faults>>

\* Mutant: a failing apply leaves the status the transaction set first.
ApplyFaultKept(p) ==
  /\ pc[p] \in {"applySite", "applyCommit"}
  /\ Fault
  /\ SetStatus(tgt[p], "applying")
  /\ began' = 0
  /\ Goto(p, "recordFailure") /\ Aim(p, tgt[p], Nothing)
  /\ UNCHANGED <<now, op, manual, validFrom, validUntil, plan, exitStamp, infra, loop, overwritten>>

\* The transaction cannot begin, or a later step fails and it rolls back. The
\* Nginx site is not part of it: written before a failing commit, it stays.
ApplyFault(p) ==
  /\ pc[p] \in {"applyTx", "applySite", "applyCommit"}
  /\ Fault
  /\ began' = IF pc[p] = "applyTx" THEN began ELSE 0
  /\ Goto(p, "recordFailure") /\ Aim(p, tgt[p], Nothing)
  /\ UNCHANGED <<now, op, row, infra, loop, overwritten>>

\* recordLineApplyFailure: by id, whatever the row has become since.
RecordApplyFailure(p) ==
  LET l == tgt[p] IN
  /\ pc[p] = "recordFailure"
  /\ \/ /\ Unlocked /\ Exists(l)
        /\ SetStatus(l, "apply_failed")
        /\ Goto(p, "readBack") /\ UNCHANGED <<op, tgt, seen, faults>>
     \/ Unlocked /\ ~Exists(l) /\ Return(p) /\ UNCHANGED <<status, stamp, faults>>
     \/ Fault /\ Return(p) /\ UNCHANGED <<status, stamp>>
  /\ UNCHANGED <<now, manual, validFrom, validUntil, plan, exitStamp, began, infra, loop,
                 overwritten>>

\* A job run's last word to the Xray service.
Finish(p) ==
  /\ pc[p] = "finish"
  /\ Answer(p)
  /\ UNCHANGED <<now, row, began, infra, loop, overwritten, faults>>

-----------------------------------------------------------------------------
(* CheckLine: the probes take seconds; the verdict is written by id.       *)

CheckRead(p, l) ==
  /\ Begin(p, "check", "checkWrite")
  /\ CanApply(l)
  /\ Aim(p, l, Snapshot(l, /\ inbound[l] = "enabled"
                           /\ l \in routed
                           /\ UsesNginx([plan[l] EXCEPT !.json = Fill(plan[l].type, @)])
                              => l \in sites))
  /\ UNCHANGED <<now, row, began, infra, loop, overwritten, faults>>

CheckWrite(p) ==
  LET l == tgt[p]
      verdicts == IF seen[p].mark THEN {"active", "failed"} ELSE {"failed"}
  IN
  /\ pc[p] = "checkWrite"
  /\ Unlocked
  /\ IF Exists(l) THEN \E s \in verdicts : SetStatus(l, s)
                  ELSE UNCHANGED <<status, stamp>>
  /\ Answer(p)
  /\ UNCHANGED <<now, manual, validFrom, validUntil, plan, exitStamp, began, infra, loop,
                 overwritten, faults>>

-----------------------------------------------------------------------------
(* DeleteLine: the site first, then every row in one transaction.          *)

DeleteSite(p, l) ==
  /\ Begin(p, "delete", "deleteTx")
  /\ Exists(l)
  /\ Aim(p, l, Snapshot(l, UsesNginx(plan[l]) /\ l \in sites))
  /\ sites' = SitesWithout(l, plan[l])
  /\ UNCHANGED <<now, row, began, inbound, built, routed, clients, loop, overwritten, faults>>

DeleteCommit(p) ==
  LET l == tgt[p] IN
  /\ pc[p] = "deleteTx"
  /\ Unlocked
  /\ DropInfra(l)
  /\ status' = [status EXCEPT ![l] = "deleted"]
  /\ manual' = [manual EXCEPT ![l] = FALSE]
  /\ validFrom' = [validFrom EXCEPT ![l] = 0]
  /\ validUntil' = [validUntil EXCEPT ![l] = 0]
  /\ plan' = [plan EXCEPT ![l] = Nothing]
  /\ stamp' = [stamp EXCEPT ![l] = 0]
  /\ exitStamp' = [exitStamp EXCEPT ![l] = 0]
  /\ overwritten' = overwritten \ {l}
  /\ Answer(p)
  /\ UNCHANGED <<now, began, sites, loop, faults>>

\* The transaction fails: the site is put back if it was there.
DeleteFault(p) ==
  LET l == tgt[p] IN
  /\ pc[p] = "deleteTx"
  /\ Fault
  /\ sites' = IF seen[p].mark THEN sites \union {l} ELSE sites
  /\ Answer(p)
  /\ UNCHANGED <<now, row, began, inbound, built, routed, clients, loop, overwritten>>

-----------------------------------------------------------------------------
(* LineValidityJob.Run and ReconcileLineValidity.                          *)

\* A run returns, and what it knew is gone.
RunOver(j) ==
  /\ jnow' = [jnow EXCEPT ![j] = 0]
  /\ restart' = [restart EXCEPT ![j] = FALSE]
  /\ UNCHANGED due

JobBegin(j) ==
  /\ pc[j] = "idle"
  /\ Goto(j, "claim")
  /\ jnow' = [jnow EXCEPT ![j] = now]
  /\ due' = [due EXCEPT ![j] = DueToStart(now)]
  /\ UNCHANGED <<now, op, row, began, infra, tgt, seen, restart, faults, overwritten>>

\* The compare-and-set that takes a scheduled line, then ApplyLine.
JobClaim(j) == \E l \in due[j] :
  /\ pc[j] = "claim"
  /\ due' = [due EXCEPT ![j] = @ \ {l}]
  /\ \/ /\ Unlocked /\ status[l] = "scheduled" /\ ~manual[l]
        /\ SetStatus(l, "pending_apply") /\ Goto(j, "applyRead") /\ Aim(j, l, Nothing)
        /\ UNCHANGED faults
     \/ /\ Unlocked /\ (status[l] # "scheduled" \/ manual[l])
        /\ UNCHANGED <<status, stamp, pc, tgt, seen, faults>>
     \/ Fault /\ UNCHANGED <<status, stamp, pc, tgt, seen>>
  /\ UNCHANGED <<now, op, manual, validFrom, validUntil, plan, exitStamp, began, infra, jnow, restart,
                 overwritten>>

JobSelectExpiring(j) ==
  /\ pc[j] = "claim" /\ due[j] = {}
  /\ due' = [due EXCEPT ![j] = DueToExpire(jnow[j])]
  /\ Goto(j, "expire")
  /\ UNCHANGED <<now, op, row, began, infra, tgt, seen, jnow, restart, faults, overwritten>>

\* The query fails: the run ends, and with it the restart it owed.
JobQueryFault(j) ==
  /\ pc[j] = "claim" /\ due[j] = {}
  /\ Fault
  /\ Goto(j, "idle") /\ RunOver(j)
  /\ UNCHANGED <<now, op, row, began, infra, tgt, seen, overwritten>>

\* expireLine re-reads the row and claims it, whatever its window is by now.
JobExpire(j) == \E l \in due[j] :
  /\ pc[j] = "expire"
  /\ due' = [due EXCEPT ![j] = @ \ {l}]
  /\ IF ~Exists(l) \/ status[l] = "expired"
     THEN UNCHANGED <<status, stamp, manual, pc, tgt, seen>>
     ELSE /\ IF status[l] \in ExpiryStatus
             THEN UNCHANGED <<status, stamp, manual>>
             ELSE Unlocked /\ SetExpiry(l, "expiring")
          /\ Goto(j, "disable")
          /\ Aim(j, l, Snapshot(l, FALSE))
  /\ UNCHANGED <<now, op, validFrom, validUntil, plan, exitStamp, began, infra, jnow, restart, faults, overwritten>>

JobDisable(j) ==
  LET l == tgt[j] IN
  /\ pc[j] = "disable"
  /\ \/ /\ Unlocked
        /\ inbound' = [inbound EXCEPT ![l] = IF @ = "enabled" THEN "disabled" ELSE @]
        /\ Goto(j, "removeSite")
        /\ UNCHANGED faults
     \/ Fault /\ Goto(j, "recordExpiryFailure") /\ UNCHANGED inbound
  /\ UNCHANGED <<now, op, row, began, built, routed, clients, sites, tgt, seen, loop,
                 overwritten>>

\* removeLineNginxConfig, by the plan read when the line was claimed.
JobRemoveSite(j) ==
  LET l == tgt[j] IN
  /\ pc[j] = "removeSite"
  /\ \/ /\ sites' = SitesWithout(l, seen[j].plan)
        /\ Goto(j, "expireTx")
        /\ UNCHANGED faults
     \/ /\ Fault /\ UsesNginx(seen[j].plan)
        /\ Goto(j, "recordExpiryFailure")
        /\ UNCHANGED sites
  /\ restart' = [restart EXCEPT ![j] = TRUE]
  /\ UNCHANGED <<now, op, row, began, inbound, built, routed, clients, tgt, seen, due, jnow,
                 overwritten>>

JobExpireCommit(j) ==
  LET l == tgt[j] IN
  /\ pc[j] = "expireTx"
  /\ Unlocked
  /\ DropInfra(l)
  /\ IF Exists(l) THEN SetExpiry(l, "expired") ELSE UNCHANGED <<status, stamp, manual>>
  /\ Goto(j, "expire") /\ Aim(j, Nothing, Nothing)
  /\ UNCHANGED <<now, op, validFrom, validUntil, plan, exitStamp, began, sites, loop, faults, overwritten>>

JobExpireFault(j) ==
  /\ pc[j] = "expireTx"
  /\ Fault
  /\ Goto(j, "recordExpiryFailure")
  /\ UNCHANGED <<now, op, row, began, infra, tgt, seen, loop, overwritten>>

JobRecordExpiryFailure(j) ==
  LET l == tgt[j] IN
  /\ pc[j] = "recordExpiryFailure"
  /\ \/ Unlocked /\ Exists(l) /\ SetExpiry(l, "expiry_failed") /\ UNCHANGED faults
     \/ Unlocked /\ ~Exists(l) /\ UNCHANGED <<status, stamp, manual, faults>>
     \/ Fault /\ UNCHANGED <<status, stamp, manual>>
  /\ Goto(j, "expire") /\ Aim(j, Nothing, Nothing)
  /\ UNCHANGED <<now, op, validFrom, validUntil, plan, exitStamp, began, infra, loop, overwritten>>

JobEnd(j) ==
  /\ pc[j] = "expire" /\ due[j] = {}
  /\ Goto(j, IF restart[j] THEN "finish" ELSE "idle") /\ RunOver(j)
  /\ UNCHANGED <<now, op, row, began, infra, tgt, seen, faults, overwritten>>

-----------------------------------------------------------------------------
Tick == now < MaxTime /\ now' = now + 1 /\ UNCHANGED <<row, began, infra, proc, loop, faults, overwritten>>

\* The panel dies and is started again; rows and site files remain.
Crash ==
  /\ Fault
  /\ \E p \in Procs : pc[p] # "idle"
  /\ pc' = [p \in Procs |-> "idle"]
  /\ op' = [p \in Procs |-> "none"]
  /\ tgt' = [p \in Procs |-> Nothing]
  /\ seen' = [p \in Procs |-> Nothing]
  /\ due' = [j \in Jobs |-> {}]
  /\ restart' = [j \in Jobs |-> FALSE]
  /\ jnow' = [j \in Jobs |-> 0]
  /\ began' = 0
  /\ UNCHANGED <<now, row, infra, overwritten>>

Init ==
  /\ now = 1 /\ faults = 0 /\ began = 0 /\ overwritten = {}
  /\ status = [l \in Lines |-> IF l \in Legacy THEN "pending_apply" ELSE "absent"]
  /\ manual = [l \in Lines |-> FALSE]
  /\ validFrom = [l \in Lines |-> 0] /\ validUntil = [l \in Lines |-> 0]
  /\ \E t \in [Legacy -> Types], s \in [Legacy -> Settings] : plan = [l \in Lines |->
       IF l \notin Legacy THEN Nothing
       ELSE [type |-> t[l], json |-> [settings |-> s[l], filled |-> {}, pending |-> FALSE]]]
  /\ stamp = [l \in Lines |-> 0] /\ exitStamp = [l \in Lines |-> 0]
  /\ inbound = [l \in Lines |-> "none"] /\ built = [l \in Lines |-> Nothing]
  /\ routed = {} /\ clients = {} /\ sites = {}
  /\ pc = [p \in Procs |-> "idle"] /\ op = [p \in Procs |-> "none"]
  /\ tgt = [p \in Procs |-> Nothing] /\ seen = [p \in Procs |-> Nothing]
  /\ due = [j \in Jobs |-> {}] /\ jnow = [j \in Jobs |-> 0]
  /\ restart = [j \in Jobs |-> FALSE]

RequestStep(p) ==
  \/ \E l \in Lines :
       \/ CreateLine(p, l) \/ UpdateLine(p, l) \/ RenewLine(p, l) \/ ApplyRequest(p, l)
       \/ GetLine(p, l) \/ StageCloudflareOriginCertificate(p, l)
       \/ CheckRead(p, l) \/ DeleteSite(p, l)
  \/ StageWrite(p) \/ CheckWrite(p) \/ DeleteCommit(p) \/ DeleteFault(p)

ApplyStep(p) ==
  \/ ApplyRead(p) \/ Preflight(p) \/ ApplyAdmit(p) \/ ApplySite(p) \/ ApplyCommit(p)
  \/ ApplyRefuse(p) \/ ApplyFault(p) \/ RecordApplyFailure(p)
  \/ ReadBack(p) \/ WriteBack(p) \/ Finish(p)

JobStep(j) ==
  \/ JobBegin(j) \/ JobClaim(j) \/ JobSelectExpiring(j) \/ JobQueryFault(j)
  \/ JobExpire(j) \/ JobDisable(j) \/ JobRemoveSite(j)
  \/ JobExpireCommit(j) \/ JobExpireFault(j) \/ JobRecordExpiryFailure(j) \/ JobEnd(j)

Next ==
  \/ \E l \in Lines : UpdateLineValidity(l)
  \/ \E p \in Requests : RequestStep(p)
  \/ \E p \in Procs : ApplyStep(p)
  \/ \E j \in Jobs : JobStep(j)
  \/ Tick \/ Crash

Spec == Init /\ [][Next]_vars

(* cron starts a run every five seconds and a run under way is not         *)
(* preempted; requests under way return, and so every transaction ends;    *)
(* who waits for SQLite's lock gets it sometime (the busy handler retries, *)
(* and the failure of a statement that waited too long is a fault).  Users *)
(* owe nothing.                                                            *)
Fairness ==
  /\ WF_vars(Tick)
  /\ \A j \in Jobs : SF_vars(JobStep(j) \/ ApplyStep(j))
  /\ \A p \in Requests : WF_vars(ApplyStep(p) \/ StageWrite(p) \/ CheckWrite(p) \/ DeleteCommit(p))

FairSpec == Spec /\ Fairness

-----------------------------------------------------------------------------
(* Properties.                                                             *)

Statuses == {"absent", "deleted", "scheduled", "pending_apply", "pending_check",
             "active", "failed", "apply_failed"} \union ExpiryStatus
Steps == {"idle", "readBack", "readApplied", "writeBack", "stageWrite", "applyRead",
          "prepareReality", "prepareBunny", "applyTx", "applySite", "applyCommit",
          "recordFailure", "finish", "checkWrite", "deleteTx", "claim", "expire", "disable", "removeSite",
          "expireTx", "recordExpiryFailure"}

\* Every variable keeps its type: the columns of a line, the artifacts built
\* for it, and what each request and job run remembers between its steps.
TypeOK ==
  /\ now \in Nat /\ faults \in Nat /\ began \in Nat /\ overwritten \subseteq Lines
  /\ status \in [Lines -> Statuses]
  /\ manual \in [Lines -> BOOLEAN]
  /\ validFrom \in [Lines -> Nat] /\ validUntil \in [Lines -> Nat]
  /\ plan \in [Lines -> MaybePlan]
  /\ stamp \in [Lines -> Nat] /\ exitStamp \in [Lines -> Nat]
  /\ inbound \in [Lines -> {"none", "disabled", "enabled"}]
  /\ built \in [Lines -> MaybePlan]
  /\ routed \subseteq Lines /\ clients \subseteq Lines /\ sites \subseteq Lines
  /\ pc \in [Procs -> Steps]
  /\ op \in [Procs -> AllOperations \union {"none"}]
  /\ tgt \in [Procs -> Lines \union {Nothing}]
  /\ seen \in [Procs -> Notes \union {Nothing}]
  /\ due \in [Jobs -> SUBSET Lines]
  /\ jnow \in [Jobs -> Nat] /\ restart \in [Jobs -> BOOLEAN]

\* The inbound, the template route and the managed client of a line live and
\* die together, and none of them outlives the line or its expiry, whichever
\* applies, deletions and expiry runs overlap (applyLineXray, DeleteLine and
\* expireLine change them in one transaction that re-reads the line).
RuntimeFollowsLine == \A l \in Lines :
  /\ inbound[l] # "none" <=> l \in routed
  /\ l \in routed <=> l \in clients
  /\ l \in routed => Exists(l) /\ status[l] # "expired"

\* What was deployed is what the row says, but for defaults filled in and a
\* certificate uploaded since.
Deploys(b, p) ==
  /\ b.type = p.type /\ b.json.settings = p.json.settings
  /\ b.json.filled \subseteq p.json.filled
  /\ b.json.pending => p.json.pending

\* A line waiting for its first check runs the plan that is stored: an edit
\* that lands after the apply takes it out of pending_check again. Two writers
\* leave the status alone: an upload adds the certificate that the next apply
\* will use, and GetLine adds defaults; both write what they read before, and
\* where that was no longer true (overwritten) an edit or an apply may be lost.
PendingCheckIsDeployed == \A l \in Lines :
  status[l] = "pending_check" /\ l \notin overwritten
    => built[l] # Nothing /\ plan[l] # Nothing /\ Deploys(built[l], plan[l])

\* An apply never undoes an edit: between the probe's read and the transaction
\* that stores the probed configuration the row may be saved again, also within
\* the same second, and then the apply must give way. What it stores keeps the
\* settings; it adds defaults, and puts a waiting certificate to use.
ApplyKeepsEdits == [][\A p \in Procs :
  pc[p] = "applyCommit" => LET l == tgt[p] IN
    /\ plan'[l].type = plan[l].type /\ plan'[l].json.settings = plan[l].json.settings
    /\ plan[l].json.filled \subseteq plan'[l].json.filled
    /\ plan'[l].json.pending => plan[l].json.pending]_vars

\* An inbound is switched on only when its line existed, waited for no manual
\* renewal and was inside its window when the transaction that does it began,
\* however long before that the apply was admitted; and while the transaction
\* runs Nginx nobody blocks the line or moves its window.
EnabledOnlyWhileServable == [][\A l \in Lines :
  inbound[l] # "enabled" /\ inbound'[l] = "enabled"
    => Exists(l) /\ ~manual[l] /\ validFrom[l] <= began /\ ~Ended(l, began)]_vars

\* The abstract state behind the columns.
Promise == INSTANCE LinePromise WITH
  known <- {l \in Lines : Exists(l)},
  blocked <- {l \in Lines : manual[l]},
  serving <- {l \in Lines : inbound[l] = "enabled"}

\* The service keeps the abstract promise: only existing lines serve, and an
\* expired line that has gone dark stays dark until it is renewed.
KeepsPromise == Promise!Spec

\* A line whose window has ended goes dark and loses its inbound row, its
\* route and its client, or is given a new window, whatever crashes and failing
\* calls happen on the way: the next runs of the validity job pick up expiring
\* and expiry_failed lines again.
EndedLineIsCleaned == \A l \in Lines :
  (Exists(l) /\ Ended(l, now)) ~> (inbound[l] = "none" \/ ~Ended(l, now))

\* A scheduled line does not stay scheduled past its start: the job claims it,
\* or somebody edits, expires or deletes it.
DueLineIsTaken == \A l \in Lines :
  (status[l] = "scheduled" /\ validFrom[l] <= now) ~> status[l] # "scheduled"
=============================================================================
