------------------------------ MODULE NodeSync ------------------------------
(***************************************************************************)
(* The panel and one of its nodes (web/job/node_traffic_sync_job.go,       *)
(* web/service/inbound_node.go, web/runtime/remote.go and the edits of     *)
(* node inbounds in web/service).                                          *)
(*                                                                         *)
(* The panel keeps a row for each inbound of the node, the node keeps its  *)
(* own.  An edit commits the row, marks the node dirty and tries to push   *)
(* itself; the sync job pushes what is dirty, then adopts what the node    *)
(* reports.  Every request can fail before or after the node did its work. *)
(***************************************************************************)
EXTENDS Naturals, FiniteSets

CONSTANTS
  Inbounds,     \* tags of inbounds on the node
  Clients,      \* client e-mails
  Editors,      \* requests that edit the panel's rows
  Kinds,        \* the edits they make
  Creates,      \* the enable flags an inbound may be created with
  Selections,   \* what inbound_tags may be when the node is added
  NoInbound,    \* no row, no inbound, no fingerprint
  MaxStamp,     \* bound on the dirty marks
  MaxRemotes,   \* bound on the Remote objects made after the first
  MaxFaults     \* bound on failing calls, status changes, restarts, node updates
                \* and edits made at the node itself

ASSUME KindsAssumption ==
  Kinds \subseteq {"add", "delete", "detach", "disable", "toggle", "save", "create", "drop"}
ASSUME ChoicesAssumption == Creates \subseteq BOOLEAN /\ Selections \subseteq SUBSET Inbounds
ASSUME LimitsAssumption ==
  MaxStamp \in Nat /\ MaxRemotes \in Nat /\ MaxFaults \in Nat

Content == [on : BOOLEAN, client : [Clients -> {"none", "on", "off"}]]
ASSUME NoInboundAssumption == NoInbound \notin Content
Row == Content \union {NoInbound}
Rows == [Inbounds -> Row]
Remotes == 0..MaxRemotes
Empty == [i \in Inbounds |-> NoInbound]

VARIABLES
  central,  \* the panel's row of each inbound
  dirty,    \* nodes.config_dirty
  stamp,    \* nodes.config_dirty_at, counted instead of timed
  adopted,  \* nodes.inbounds_adopted_at is set
  allowed,  \* the tags managed: nodes.inbound_tags, or all in sync mode "all"
  online,   \* nodes.status as the heartbeat left it
  tomb,     \* e-mails with a live deletion tombstone
  remote,   \* the node's own inbounds
  gen,      \* the Remote the runtime manager hands out
  pushed,   \* pushedFP of each Remote
  job,      \* the sync job: step and local variables
  ed,       \* each editor: step and local variables
  owed,     \* history: inbounds edited and not offered to the node since
  fresh,    \* history: inbounds the running reconcile has dealt with
  faults

panel  == <<central, dirty, stamp, adopted, allowed, tomb, owed>>
wire   == <<remote, pushed>>
vars == <<panel, online, wire, gen, job, ed, fresh, faults>>

Idle == [pc |-> "idle", kind |-> "none", i |-> NoInbound, c |-> NoInbound,
         seen |-> NoInbound, rt |-> 0]
JobIdle == [pc |-> "idle", rt |-> 0, stamp |-> 0, adopted |-> FALSE, allowed |-> {},
            rows |-> Empty, tags |-> {}, failed |-> FALSE, snap |-> Empty, dirty |-> FALSE]

Has(row, c) == row # NoInbound /\ row.client[c] # "none"
Put(row, c, s) == IF row = NoInbound THEN row ELSE [row EXCEPT !.client[c] = s]
Tags(rows) == {i \in Inbounds : rows[i] # NoInbound}
Fault == faults < MaxFaults /\ faults' = faults + 1

-----------------------------------------------------------------------------
(* The panel's edits.  A client edit holds the inbound's mutation lock     *)
(* from its read to the end of its push; the others take no lock.          *)

Locked == {"add", "delete", "detach", "disable"}
LockFree(e, kind, i) == \A f \in Editors \ {e} :
  kind \in Locked /\ ed[f].pc \in {"write", "push"} /\ ed[f].kind \in Locked => ed[f].i # i

Applies(kind, i, c) == CASE
     kind = "add"    -> central[i] # NoInbound /\ ~Has(central[i], c)
  [] kind = "create" -> central[i] = NoInbound
  [] kind \in {"delete", "detach"} -> Has(central[i], c)
  [] kind = "disable" -> Has(central[i], c) /\ central[i].client[c] = "on"
  [] OTHER -> central[i] # NoInbound

\* Mutant: the tombstone is kept under the inbound.
BuriedByTag(kind, i, c) == IF kind = "delete" THEN tomb \union {i} ELSE tomb

\* Deleting a client starts with its tombstone.
Buried(kind, i, c) == IF kind = "delete" THEN tomb \union {c} ELSE tomb

\* The edit reads its row.
Read(e, kind, i, c) ==
  /\ ed[e].pc = "idle" /\ Applies(kind, i, c) /\ LockFree(e, kind, i)
  /\ ed' = [ed EXCEPT ![e] = [pc |-> "write", kind |-> kind, i |-> i, c |-> c,
                              seen |-> central[i], rt |-> gen]]
  /\ tomb' = Buried(kind, i, c)
  /\ UNCHANGED <<central, dirty, stamp, adopted, allowed, owed, online, wire, gen, job,
                 fresh, faults>>

\* A deletion goes on with the client's other inbounds; other edits end.
Left(o) == IF o.kind = "delete" THEN [Idle EXCEPT !.pc = "next", !.kind = o.kind, !.c = o.c]
           ELSE Idle

\* What a client edit makes of a row.
Edited(kind, row, c) ==
  Put(row, c, CASE kind = "add" -> "on" [] kind = "disable" -> "off" [] OTHER -> "none")

\* The row an edit leaves.  A client edit and UpdateInbound save the whole row
\* they read, which also brings a deleted row back; SetInboundEnable writes
\* one column; AddInbound saves a row without clients.
Written(o, on) == CASE
     o.kind \in Locked -> Edited(o.kind, o.seen, o.c)
  [] o.kind = "toggle" ->
       IF central[o.i] = NoInbound THEN NoInbound ELSE [central[o.i] EXCEPT !.on = ~o.seen.on]
  [] o.kind = "save"   -> [o.seen EXCEPT !.on = ~o.seen.on]
  [] o.kind = "create" -> [on |-> on, client |-> [c \in Clients |-> "none"]]
  [] OTHER -> NoInbound

\* The traffic writer runs one write at a time; a merge holds it from its reads
\* to its commit.
WriterFree == job.pc # "adopt"

\* Its transaction: row and dirty mark, for a client edit or a save through the
\* traffic writer.  An inbound created disabled does not
\* mark the node; one created or saved in selected mode is selected.
Write(e) == \E on \in Creates :
  LET o == ed[e]
      marks == o.kind # "create" \/ on
      pushes == o.kind \notin {"save", "create"} /\ online IN
  /\ o.pc = "write" /\ stamp < MaxStamp
  /\ o.kind \in Locked \union {"save"} => WriterFree
  /\ o.kind = "create" => central[o.i] = NoInbound
  /\ central' = [central EXCEPT ![o.i] = Written(o, on)]
  /\ dirty' = (dirty \/ marks)
  /\ stamp' = stamp + 1
  /\ allowed' = IF o.kind \in {"save", "create"} THEN allowed \union {o.i} ELSE allowed
  /\ owed' = owed \union {o.i}
  /\ fresh' = fresh \ {o.i}
  /\ ed' = [ed EXCEPT ![e] = IF pushes THEN [o EXCEPT !.pc = "push", !.rt = gen] ELSE Left(o)]
  /\ UNCHANGED <<adopted, tomb, online, wire, gen, job, faults>>

\* The node's rows after a push reached it: AddClient, DeleteClient (from every
\* inbound), DeleteUser, UpdateUser, UpdateInbound (which adds what is missing)
\* and DelInbound of runtime/remote.go.
PushedRows(o) == CASE
     o.kind = "delete" -> [i \in Inbounds |-> Put(remote[i], o.c, "none")]
  [] o.kind \in Locked \ {"delete"} -> [remote EXCEPT ![o.i] = Edited(o.kind, @, o.c)]
  [] o.kind = "toggle" -> [remote EXCEPT ![o.i] = [o.seen EXCEPT !.on = ~o.seen.on]]
  [] OTHER -> [remote EXCEPT ![o.i] = NoInbound]

\* The node refuses a client edit of an inbound or a client it does not have.
Refused(o) ==
  \/ o.kind \in {"add", "detach"} /\ remote[o.i] = NoInbound
  \/ o.kind = "disable" /\ ~Has(remote[o.i], o.c)

\* The fingerprint after a push that succeeded: advanced from the row before to
\* the row after by a client edit, set by a full payload, dropped by a deletion.
PushedMark(o) ==
  LET after == Edited(o.kind, o.seen, o.c) IN CASE
     o.kind \in Locked -> IF pushed[o.rt][o.i] = o.seen THEN after ELSE pushed[o.rt][o.i]
  [] o.kind = "toggle" -> [o.seen EXCEPT !.on = ~o.seen.on]
  [] OTHER -> NoInbound

Leave(e) == ed' = [ed EXCEPT ![e] = Left(ed[e])]

Push(e) ==
  LET o == ed[e] IN
  /\ o.pc = "push"
  /\ Leave(e)
  /\ \/ /\ ~Refused(o)
        /\ remote' = PushedRows(o)
        /\ pushed' = [pushed EXCEPT ![o.rt][o.i] = PushedMark(o)]
        /\ UNCHANGED faults
     \/ Refused(o) /\ UNCHANGED <<wire, faults>>
     \/ /\ Fault
        /\ remote' \in {remote, IF Refused(o) THEN remote ELSE PushedRows(o)}
        /\ UNCHANGED pushed
  /\ UNCHANGED <<panel, online, gen, job, fresh>>

NextInbound(e) ==
  LET c == ed[e].c
      left == {i \in Inbounds : Has(central[i], c)} IN
  /\ ed[e].pc = "next"
  /\ IF left = {} THEN ed' = [ed EXCEPT ![e] = Idle]
     ELSE \E i \in left : LockFree(e, "delete", i) /\
            ed' = [ed EXCEPT ![e] = [@ EXCEPT !.pc = "write", !.i = i, !.seen = central[i]]]
  /\ UNCHANGED <<panel, online, wire, gen, job, fresh, faults>>

\* AddInbound finds the tag taken.
Conflict(e) ==
  /\ ed[e].pc = "write" /\ ed[e].kind = "create" /\ central[ed[e].i] # NoInbound
  /\ Leave(e)
  /\ UNCHANGED <<panel, online, wire, gen, job, fresh, faults>>

\* UpdateFromRequest saves the node's settings, here with one tag more or less,
\* and marks the node and drops its Remote afterwards; a mark that fails is
\* logged and forgotten.
SaveNode(e) ==
  /\ ed[e].pc = "idle" /\ Fault /\ gen < MaxRemotes
  /\ ed' = [ed EXCEPT ![e].pc = "mark"]
  /\ \E i \in Inbounds : allowed' \in {allowed \union {i}, allowed \ {i}}
  /\ UNCHANGED <<central, dirty, stamp, adopted, tomb, owed, online, wire, gen, job, fresh>>

MarkNode(e) ==
  /\ ed[e].pc = "mark" /\ gen < MaxRemotes
  /\ ed' = [ed EXCEPT ![e] = Idle]
  /\ gen' = gen + 1
  /\ \/ stamp < MaxStamp /\ dirty' = TRUE /\ stamp' = stamp + 1
     \/ UNCHANGED <<dirty, stamp>>
  /\ UNCHANGED <<central, adopted, allowed, tomb, owed, online, wire, job, fresh, faults>>

-----------------------------------------------------------------------------
(* The sync job; one run at a time.                                        *)

jobUnchanged == <<online, gen, ed>>
JobTo(step) == job' = [JobIdle EXCEPT !.pc = step, !.allowed = job.allowed]

\* GetAll: the run works on the node row it loaded.
Load ==
  /\ job.pc = "idle" /\ online
  /\ job' = IF dirty THEN [JobIdle EXCEPT !.pc = "rows", !.rt = gen, !.stamp = stamp,
                                         !.adopted = adopted, !.allowed = allowed]
             ELSE [JobIdle EXCEPT !.pc = "fetch", !.allowed = allowed]
  /\ UNCHANGED <<panel, wire, fresh, faults, jobUnchanged>>

\* ReconcileNode reads the rows, then lists the node's tags.
ReadRows ==
  /\ job.pc = "rows"
  /\ job' = [job EXCEPT !.pc = "list", !.rows = central]
  /\ fresh' = Inbounds
  /\ UNCHANGED <<panel, wire, faults, jobUnchanged>>

ListTags ==
  /\ job.pc = "list"
  /\ \/ /\ job' = [job EXCEPT !.pc = "push", !.tags = Tags(remote)]
        /\ UNCHANGED <<faults, fresh>>
     \/ JobTo("fetch") /\ Fault /\ fresh' = {}
  /\ UNCHANGED <<panel, wire, jobUnchanged>>

\* The payload built for a node: without the clients that are disabled.
Built(row) == [row EXCEPT !.client = [c \in Clients |-> IF @[c] = "on" THEN "on" ELSE "none"]]

\* ReconcileInbound skips what the node has and the fingerprint proves.
Skips(i) == i \in job.tags /\ pushed[job.rt][i] = Built(job.rows[i])

Offer(i) ==
  /\ job.pc = "push" /\ job.rows[i] # NoInbound
  /\ \/ /\ Skips(i)
        /\ job' = [job EXCEPT !.rows[i] = NoInbound, !.tags = @ \ {i}]
        /\ UNCHANGED <<wire, fresh, faults>>
     \/ /\ ~Skips(i)
        /\ remote' = [remote EXCEPT ![i] = Built(job.rows[i])]
        /\ pushed' = [pushed EXCEPT ![job.rt][i] = Built(job.rows[i])]
        /\ job' = [job EXCEPT !.rows[i] = NoInbound, !.tags = @ \ {i}]
        /\ UNCHANGED <<fresh, faults>>
     \/ /\ ~Skips(i) /\ Fault
        /\ remote' \in {remote, [remote EXCEPT ![i] = Built(job.rows[i])]}
        /\ job' = [job EXCEPT !.rows[i] = NoInbound, !.tags = @ \ {i}, !.failed = TRUE]
        /\ fresh' = fresh \ {i}
        /\ UNCHANGED pushed
  /\ UNCHANGED <<panel, jobUnchanged>>

\* Mutant: no adoption guard.
SweptAnyway(i) == i \in job.allowed

\* Which of the undesired tags the panel may delete on the node.
Swept(i) == job.adopted /\ i \in job.allowed

\* The tags left once every row was offered are undesired.
Sweep(i) ==
  /\ job.pc = "push" /\ Tags(job.rows) = {} /\ i \in job.tags
  /\ \/ /\ remote' = IF Swept(i) THEN [remote EXCEPT ![i] = NoInbound] ELSE remote
        /\ pushed' = IF Swept(i) THEN [pushed EXCEPT ![job.rt][i] = NoInbound] ELSE pushed
        /\ job' = [job EXCEPT !.tags = @ \ {i}]
        /\ UNCHANGED <<fresh, faults>>
     \/ /\ Swept(i) /\ Fault
        /\ remote' \in {remote, [remote EXCEPT ![i] = NoInbound]}
        /\ job' = [job EXCEPT !.tags = @ \ {i}, !.failed = TRUE]
        /\ fresh' = fresh \ {i}
        /\ UNCHANGED pushed
  /\ UNCHANGED <<panel, jobUnchanged>>

\* Mutant: the mark is cleared whatever was marked since.
ClearDirtyAlways ==
  /\ job.pc = "push" /\ Tags(job.rows) = {} /\ job.tags = {}
  /\ JobTo("fetch")
  /\ dirty' = (dirty /\ job.failed)
  /\ owed' = IF job.failed THEN owed ELSE owed \ fresh
  /\ fresh' = {}
  /\ UNCHANGED <<central, stamp, adopted, allowed, tomb, wire, faults, jobUnchanged>>

\* Without an error the mark is cleared, unless it was set again since.
ClearDirty ==
  LET clears == ~job.failed /\ stamp = job.stamp IN
  /\ job.pc = "push" /\ Tags(job.rows) = {} /\ job.tags = {}
  /\ JobTo("fetch")
  /\ dirty' = (dirty /\ ~clears)
  /\ owed' = IF clears THEN owed \ fresh ELSE owed
  /\ fresh' = {}
  /\ UNCHANGED <<central, stamp, adopted, allowed, tomb, wire, faults, jobUnchanged>>

\* FetchTrafficSnapshot and FilterNodeSnapshot.  A node in trouble may report
\* no inbounds at all.
Fetch ==
  /\ job.pc = "fetch"
  /\ \/ /\ job' = [JobIdle EXCEPT !.pc = "state", !.snap =
                    [i \in Inbounds |-> IF i \in job.allowed THEN remote[i] ELSE NoInbound]]
        /\ UNCHANGED faults
     \/ Fault /\ job' = [JobIdle EXCEPT !.pc = "state"]
     \/ Fault /\ job' = JobIdle
  /\ UNCHANGED <<panel, wire, fresh, jobUnchanged>>

\* NodeSyncState, whose error is ignored and reads as clean.
ReadState ==
  /\ job.pc = "state"
  /\ \/ job' = [job EXCEPT !.pc = "merge", !.dirty = dirty] /\ UNCHANGED faults
     \/ Fault /\ job' = [job EXCEPT !.pc = "merge", !.dirty = FALSE]
  /\ UNCHANGED <<panel, wire, fresh, jobUnchanged>>

\* setRemoteTrafficLocked reads the panel's rows before its transaction.
ReadCentral ==
  /\ job.pc = "merge" /\ ~job.dirty
  /\ job' = [job EXCEPT !.pc = "adopt", !.rows = central]
  /\ UNCHANGED <<panel, wire, fresh, faults, jobUnchanged>>

\* Mutant: the snapshot is adopted verbatim.
AdoptedVerbatim(i) == job.snap[i]

\* Mutant: a known row keeps what the panel has.
AdoptedOnce(i) == IF job.rows[i] = NoInbound THEN job.snap[i] ELSE job.rows[i]

\* What a reported inbound becomes: without just-deleted clients if it is known.
Adopted(i) ==
  LET x == job.snap[i] IN
  IF job.rows[i] = NoInbound THEN x
  ELSE [x EXCEPT !.client = [c \in Clients |-> IF c \in tomb THEN "none" ELSE @[c]]]

\* The transaction for a node found clean: adopt what is reported, drop known
\* rows not reported, unless nothing is reported, and stamp the fingerprint of
\* rows that changed.  A row deleted since stays deleted, and one made since
\* keeps its tag (the copy under a prefixed tag is left out).
Merge ==
  LET kept == Tags(job.snap)
      known == Tags(job.rows)
      gone == IF kept = {} THEN {} ELSE known \ kept
      held == {i \in Inbounds : (i \in known) = (central[i] # NoInbound)} IN
  /\ job.pc = "adopt"
  /\ central' = [i \in Inbounds |-> IF i \in kept \intersect held THEN Adopted(i)
                                     ELSE IF i \in gone THEN NoInbound ELSE central[i]]
  /\ pushed' = [pushed EXCEPT ![gen] = [i \in Inbounds |->
       IF i \in kept \intersect known /\ job.rows[i] # Adopted(i) THEN Adopted(i) ELSE @[i]]]
  /\ JobTo("mark")
  /\ UNCHANGED <<dirty, stamp, adopted, allowed, tomb, owed, remote, fresh, faults, jobUnchanged>>

\* For a node found dirty only counters advance; a failing merge changes nothing.
MergeNothing ==
  /\ \/ job.pc = "merge" /\ job.dirty /\ UNCHANGED faults
     \/ job.pc \in {"merge", "adopt"} /\ Fault
  /\ job' = JobIdle
  /\ UNCHANGED <<panel, wire, fresh, jobUnchanged>>

\* MarkNodeInboundsAdopted.
MarkAdopted ==
  /\ job.pc = "mark"
  /\ adopted' = TRUE
  /\ job' = JobIdle
  /\ UNCHANGED <<central, dirty, stamp, allowed, tomb, owed, wire, fresh, faults, jobUnchanged>>

-----------------------------------------------------------------------------
(* The surroundings: heartbeat, tombstone expiry, the node's own admin, a  *)
(* restart of the panel, which empties its memory.                         *)

Heartbeat ==
  /\ \/ online /\ Fault
     \/ ~online /\ UNCHANGED faults
  /\ online' = ~online
  /\ UNCHANGED <<panel, wire, gen, job, ed, fresh>>

Expire(c) ==
  /\ c \in tomb
  /\ tomb' = tomb \ {c}
  /\ UNCHANGED <<central, dirty, stamp, adopted, allowed, owed, online, wire, gen, job, ed,
                 fresh, faults>>

LocalEdit(i, c) ==
  /\ Fault
  /\ \E x \in {NoInbound, [on |-> TRUE, client |-> [d \in Clients |-> "none"]],
                Put(remote[i], c, "on"), Put(remote[i], c, "none")} :
       x # remote[i] /\ remote' = [remote EXCEPT ![i] = x]
  /\ UNCHANGED <<panel, online, pushed, gen, job, ed, fresh>>

Restart ==
  /\ Fault /\ gen < MaxRemotes /\ gen' = gen + 1
  /\ job' = JobIdle /\ ed' = [e \in Editors |-> Idle] /\ tomb' = {}
  /\ fresh' = {}
  /\ UNCHANGED <<central, dirty, stamp, adopted, allowed, owed, online, wire>>

-----------------------------------------------------------------------------
(* A node that is added: its inbounds are there, the panel has none.       *)
Init ==
  /\ remote \in {rows \in Rows : \A i \in Inbounds : rows[i] # NoInbound =>
                  rows[i].on /\ \A c \in Clients : rows[i].client[c] # "off"}
  /\ allowed \in Selections
  /\ central = Empty /\ dirty = FALSE /\ stamp = 0 /\ adopted = FALSE
  /\ online = TRUE /\ tomb = {} /\ owed = {} /\ fresh = {}
  /\ gen = 0 /\ pushed = [g \in Remotes |-> Empty]
  /\ job = JobIdle /\ ed = [e \in Editors |-> Idle]
  /\ faults = 0

JobStep ==
  \/ Load \/ ReadRows \/ ListTags \/ (\E i \in Inbounds : Offer(i) \/ Sweep(i))
  \/ ClearDirty \/ Fetch \/ ReadState \/ ReadCentral \/ Merge \/ MergeNothing \/ MarkAdopted

EditStep(e) == Write(e) \/ Push(e) \/ NextInbound(e) \/ Conflict(e) \/ MarkNode(e)

Next ==
  \/ \E e \in Editors, kind \in Kinds, i \in Inbounds, c \in Clients : Read(e, kind, i, c)
  \/ \E e \in Editors : EditStep(e) \/ SaveNode(e)
  \/ JobStep \/ Heartbeat \/ Restart
  \/ \E c \in Clients : Expire(c)
  \/ \E i \in Inbounds, c \in Clients : LocalEdit(i, c)

Spec == Init /\ [][Next]_vars

(* The cron runs the job, a request that was read goes on, tombstones age, *)
(* and the heartbeat finds a node that answers.                            *)
Fairness ==
  /\ WF_vars(JobStep)
  /\ \A e \in Editors : WF_vars(EditStep(e))
  /\ \A c \in Clients : WF_vars(Expire(c))
  /\ WF_vars(Heartbeat /\ ~online)

FairSpec == Spec /\ Fairness

-----------------------------------------------------------------------------
(* Properties.                                                             *)

JobSteps == {"idle", "rows", "list", "push", "fetch", "state", "merge", "adopt", "mark"}

\* Every variable keeps its type.
TypeOK ==
  /\ central \in Rows /\ remote \in Rows /\ pushed \in [Remotes -> Rows]
  /\ {dirty, adopted, online} \subseteq BOOLEAN
  /\ {stamp, faults} \subseteq Nat /\ gen \in Remotes
  /\ {allowed, owed, fresh} \subseteq SUBSET Inbounds /\ tomb \subseteq Clients
  /\ job \in [pc : JobSteps, rt : Remotes, stamp : Nat, adopted : BOOLEAN,
              allowed : SUBSET Inbounds, rows : Rows, tags : SUBSET Inbounds,
              failed : BOOLEAN, snap : Rows, dirty : BOOLEAN]
  /\ ed \in [Editors -> [pc : {"idle", "write", "push", "next", "mark"}, kind : Kinds \union {"none"},
                        i : Inbounds \union {NoInbound}, c : Clients \union {NoInbound},
                        seen : Row, rt : Remotes]]

\* An edit the panel committed stays marked for the node until a reconcile
\* that read the row after it went through without an error: not lost to
\* an edit during the reconcile, a rejected inbound, or a restart.
EditsStayOwed == owed # {} => dirty

\* Before the first clean merge, and in selected mode outside the selection,
\* nothing but an administrator's own deletion takes an inbound off the node.
NodeKeepsItsOwn == [][\A i \in Inbounds :
  remote[i] # NoInbound /\ remote'[i] = NoInbound =>
    \/ adopted /\ i \in job.allowed
    \/ \E e \in Editors : ed[e].pc = "push" /\ ed[e].kind = "drop" /\ ed[e].i = i
    \/ job' = job /\ ed' = ed]_vars

\* While its tombstone lives, a client gone from a row the panel keeps comes
\* back only by an edit at the panel, however old the snapshots that arrive.
DeletedStaysOut == [][\A i \in Inbounds, c \in Clients :
  c \in tomb /\ central[i] # NoInbound /\ ~Has(central[i], c) /\ Has(central'[i], c)
    => stamp' # stamp]_vars

\* When edits and faults are over, panel and node agree on every inbound the
\* panel manages, unless the node reports nothing at all.
Settles == <>[](
  \/ \A i \in allowed : central[i] = remote[i]
  \/ \A i \in allowed : remote[i] = NoInbound)

\* A client that is disabled at the panel stays in the row: "the node's own
\* DB still carries a disabled client".
DisabledIsKept == [][\A i \in Inbounds, c \in Clients :
  central[i] # NoInbound /\ central[i].client[c] = "off" /\ ~Has(central'[i], c)
    => stamp' # stamp]_vars
=============================================================================
