# Relay Panel in TLA+

Relay Panel is a Go server, derived from 3x-ui, that manages *relay lines*: a
public entry on this server (a WebSocket path behind Nginx, a Reality port, a
Shadowsocks port), an Xray inbound, a residential exit, and a validity window
after which the line must go dark. This directory holds TLA+ models of the parts
of it whose correctness depends on order: the life of a line, the
reconciliation of the Xray core with the database, the serial database writer,
the synchronisation of a node with the panel, the bookkeeping of clients under
the traffic poll, the mtg processes of MTProto inbounds, and the hub that feeds
the browsers. TLC checks them on small instances and TLAPS proves the main safety
properties for every instance.

Paths below are relative to `src/internal/`. Nothing here changes the code.

## 1. Inventory

| Component | State it keeps | Operations | What is hard | What makes it correct |
|---|---|---|---|---|
| Managed lines (`web/service/line.go`, `line_validity.go`, `database/model/line.go`, `web/controller/line.go`) | `LineProfile` rows (status, type, configuration, validity window, manual-reenable mark), `LineOutbound`, the inbound `line-<id>-in`, outbound and rule in `xrayTemplateConfig`, managed client, Nginx site file | create, update, extend, get, upload a certificate, renew, apply, check, delete | no lock: requests and job runs interleave between transactions; probes of seconds between a read and a write; files that do not roll back | artifacts live and die with the line; no edit undone; no service outside the window |
| Preflights (`reality_preflight.go`, `line_bunny.go`) | a snapshot of the row they probed | probe through an isolated Xray, request a certificate | the row changes while they run | a stale result is refused |
| Validity job (`job/line_validity_job.go`) | none between runs | start due lines, expire ended ones | overlapping runs, crash between claim and cleanup, retries | every ended line goes dark and is cleaned |
| Xray service (`web/service/xray.go`, `xray/process.go`, `xray/hot_diff.go`, `job/check_xray_running_job.go`) | the process, its configuration snapshot, need-restart flag, manual-stop mark | restart, hot apply, stop, crash watch | callers of five kinds queue on one lock; partial hot apply; failing starts | the core converges to the database; a stop is respected |
| Local runtime (`web/runtime/local.go`, callers in `web/service/inbound.go`) | none | API calls to the core | they bypass the restart lock and the snapshot | falls back to the flag |
| Serial writer (`web/service/traffic_writer.go`) | queue, context, done channel, mutex | start, stop, submit | stop racing submit and start; full queue; drain | one writer, true answers, nobody waits for ever |
| Panel server (`web/web.go`, `main.go`) | cron, listeners | start, stop, SIGHUP restart | order of shutdown; `cron.Stop` does not wait for jobs | see the two rows above |
| Event bus (`eventbus/bus.go`) | bounded queues | publish, subscribe, stop | drops, re-subscription | order and mutual exclusion per subscriber |
| Tunnel monitor (`tunnelmonitor/monitor.go`) | failure count, last recovery | one probe step | failing recoveries | threshold and cooldown |
| Central management (`web/service/central_management.go`) | one row, an Nginx file, certificate directories, a firewall rule | apply, disable | roll back over four stores, concurrent applies | the row names what Nginx serves |
| Line subscriptions (`line_subscription.go`) | token row | get-or-create, rotate | read followed by write | one valid token |
| Node synchronisation (`web/job/node_traffic_sync_job.go`, `web/service/inbound_node.go`, `web/runtime/remote.go`, edits of node inbounds in `web/service`) | the panel's rows of a node's inbounds, dirty mark and stamp, adoption mark, selection, tombstones, fingerprints of what was pushed, the node's own rows | edits with an optimistic push, reconcile, fetch, merge, heartbeat | every call can fail before or after the node did its work; edits race the reconcile and the merge; snapshots are old when merged; memory is lost at a restart | no edit forgotten, no inbound swept that is not the panel's, deletions stay, both sides settle |
| Clients and traffic accounting (`web/service/client_crud.go`, `client_inbound_apply.go`, `client_link.go`, `client_bulk.go`, `inbound_traffic.go`, `inbound_disable.go`, `GetXrayConfig`) | a client's entry in each inbound's settings, links, one record, one accounting row, the core's users | create, attach, detach, update, delete, bulk delete, bulk enable, reset; the poll that counts, renews and disables | requests go inbound by inbound and keep what they read; the poll takes no lock; four stores written by different transactions | links and entries agree, nothing of a client is left behind, usage is not lost, the depleted go off |
| MTProto sidecars (`mtproto/manager.go`, `process.go`, `orphans_linux.go`, `web/service/inbound_mtproto.go`, `job/mtproto_job.go`, `web/runtime/local.go`) | one mtg process per inbound and, in memory, what each was started with and its last counters | the job reconciles and scrapes; edits drive one process after their commit; sweep at start, stop at shutdown | edits and the job act on rows read earlier; counters are written back after the process was replaced; a reload fails before or after its effect; processes outlive the panel's memory | the wanted processes run and no others, untouched clients keep their connections, no traffic counted twice |
| WebSocket hub (`web/websocket/hub.go`, `web/service/panel/websocket.go`) | the registry of clients, a channel of registrations and departures, a channel of messages, a Send channel per client | register, unregister, broadcast, fan-out, stop; two pumps per connection | bounded channels with drops; slow and vanished browsers; a loop that panics, backs off and gives up | nobody leaves the registry silently; departures do not overtake registrations; ended connections are hung up |
| Outbound subscriptions, subscription server, login, settings, notifications | inherited from 3x-ui | | | see section 8 |

How they interact: a request to `web/controller/line.go` calls `LineService`,
which changes rows and files; the handler then raises the need-restart flag
(apply, delete) or calls `RestartXray` (renew), as the validity job does. The
Xray service builds the wanted configuration from the rows. Client and inbound
mutations go through the serial writer and, after their commit, to the core's
API through the local runtime, or to a node through its `Remote`. The traffic
poll goes through the serial writer as well; `GetXrayConfig` polls before it
reads. A node is polled by the sync job, which pushes what is dirty and then
merges what the node reports. `PROJECT.json` lists the components with their
status and the hazards with their lines.

## 2. Modules

| Module | Models | Uses |
|---|---|---|
| `LinePromise` | abstract: which lines are known, blocked, serving | |
| `LineLifecycle` | lines, preflights, validity job | `LinePromise` (refinement) |
| `LineLifecycleProofs` | proofs about it | `LineLifecycle`, `TLAPS` |
| `XrayCore` | Xray service, process wrapper, watch job, the callers of a restart | |
| `XrayCoreProofs` | proofs about it | `XrayCore`, `TLAPS` |
| `WritePromise` | abstract: who asks for a write, was it executed, what was answered | |
| `TrafficWriter` | serial writer | `WritePromise` (refinement) |
| `TrafficWriterProofs` | proofs about it | `TrafficWriter`, `TLAPS` |
| `NodeSync` | the panel and one node | |
| `NodeSyncProofs` | proofs about it | `NodeSync`, `TLAPS` |
| `ClientBook` | clients on local inbounds, the traffic poll | |
| `ClientBookProofs` | proofs about it | `ClientBook`, `TLAPS` |
| `Sidecars` | the manager of mtg processes, its job, and the edits that reach it | |
| `SidecarsProofs` | proofs about it | `Sidecars`, `TLAPS` |
| `Hub` | the WebSocket hub and the pumps of its connections | |
| `HubProofs` | proofs about it | `Hub`, `TLAPS` |
| `MCLineLifecycle`, `MCXrayCore`, `MCTrafficWriter`, `MCNodeSync`, `MCClientBook`, `MCSidecars`, `MCHub` | names and symmetry for TLC | |

### LineLifecycle

A step is one statement or transaction of the code. SQLite is opened with
`_txlock=immediate` (`database/db.go:1966`), so transactions do not interleave;
everything a process read in an earlier step can be stale in a later one. The
transaction of an apply runs Nginx for seconds and is three steps
(`ApplyAdmit`, `ApplySite`, `ApplyCommit`): time passes in it and others read and
probe, but nobody writes a row before it ends (`Unlocked`; `began` is when it
looked at its line). `pc`, `op`, `tgt` and `seen` are the local state of a request
or a job run.

| Action | Code |
|---|---|
| `CreateLine`, `UpdateLine`, `UpdateLineValidity` | the functions of that name, one transaction each |
| `GetLine`, `ReadBack`, `WriteBack` | `GetLine`, as a request and as the tail of a creation, an edit, a renewal and an apply (of one that recorded its failure too): a configuration without the defaults of its type is written back by id |
| `StageCloudflareOriginCertificate`, `StageWrite` | the function of that name: the read, the upload named in the configuration that was read, written by id with the status left as it is |
| `RenewLine` | `RenewLine`; its closing `GetLine` and the apply that the handler adds follow |
| `ApplyRequest`, `ApplyRead`, `Preflight` | handler, first read and lifecycle check, probe |
| `ApplyAdmit`, `ApplySite`, `ApplyCommit` | the transaction of `ApplyLine`: the second look at the row, the Nginx site, the commit |
| `ApplyRefuse`, `ApplyFault`, `RecordApplyFailure`, `Finish` | lifecycle or staleness refusal, failure of a step; `finishLineApplyError`, also for a first read that fails at the database; the handler's last lines |
| `CheckRead`, `CheckWrite` | `checkLine(id, false)` and the write of `CheckLineWithInboundLatency` |
| `DeleteSite`, `DeleteCommit`, `DeleteFault` | `DeleteLine`: site, transaction, restored site |
| `JobBegin`, `JobClaim`, `JobSelectExpiring`, `JobQueryFault`, `JobEnd` | `ReconcileLineValidity` and the job around it |
| `JobExpire`, `JobDisable`, `JobRemoveSite`, `JobExpireCommit`, `JobExpireFault`, `JobRecordExpiryFailure` | `expireLine`, step by step |
| `Tick`, `Crash` | the clock; the panel killed and restarted, rows and files remaining |

What is abstracted:

- A plan is the type of a line and its `config_json`, which is what the user
  fills in (`settings`), the types whose defaults and generated values are in it
  (`filled`) and whether an uploaded certificate waits (`pending`). `Fill` adds
  defaults, `Promote` puts a waiting certificate to use, `NginxOn` says whether the
  configuration asks for Nginx, `AfterRead` what the code does differently by type.
  The exit proxy row counts through its `UpdatedAt` (`exitStamp`).
- A save names the settings and keeps a waiting certificate; the other keys that a
  client may send back as it read them earlier are left out.
- `Legacy` lines are there at the start and lack defaults, as an older version of the
  panel left them. Without them `GetLine` writes back only after a save that
  changes the type.
- Validation errors inside the transaction are faults; what they do is the same.
- `getLine`'s three reads are one step. So are `expireLine`'s read and its claim:
  nothing else can happen in between that the claim's `WHERE` would notice,
  except a finished expiry, and then the claim does nothing.
- A check reads inbound, template and site in one step. The verdict `warning`
  needs a hidden line type and is left out.
- Restoring a site after a failed deletion works.
- After a crash every process is idle, whatever it was doing.
- PostgreSQL, which locks rows and not the database, is not covered.
- `overwritten` is a history variable: lines whose configuration was stored by an
  upload or a write-back from a reading that was no longer true.

### XrayCore

`desired` is what `GetXrayConfig` would build, `core` what the process has
loaded, `known` the snapshot in `process.GetConfig()`. A handler is an inbound,
user, outbound or rule; `StaticParts` are the sections `ComputeHotDiff` refuses,
and `ApiHandlers` what API editors edit: inbounds and users, never outbounds,
rules or other sections. `dropped` is a history variable: a direct editor's
restart has failed, and none has succeeded since.
`FlagEditors` commit and flag (apply, delete, template save), `ApiEditors`
commit and call the core's API (inbound edits), `DirectEditors` commit and
restart (validity job, renewal). `Enter` to `StartCore` are the stretches of
`RestartXray` under the package lock; `PendingTick` and `WatchTick` the two cron
entries; `UserRestart` the forced restart, `StopXray` the stop. Abstracted: the
process wrapper's stop succeeds, replacing an inbound through the API is one
call, and every API call applies to one handler.

### TrafficWriter

Each start makes a *generation*: queue, context, done channel. `Submit`,
`InlineDone`, `Enqueue`, `QueueFull`, `Await` are the stretches of
`submitTrafficWrite`; `Take`, `Finish`, `Exit` the writer goroutine; `Start`,
`Cancel`, `Clear` starting and stopping. `mutex` is held over several steps only
by a submitter that waits for room. The five-second timer is a choice that is
open while the queue is full. A write that panics is recovered and answered,
like one that fails.

### NodeSync

One node. `central` is what the panel's rows say of it, `remote` what it has,
`job` and `ed` what the sync job and each edit have read;
every request between them is one step that succeeds, or fails before or after
the node did its work (`Fault`).

| Action | Code |
|---|---|
| `Read`, `Write`, `Push`, `NextInbound`, `Conflict` | an edit of a node inbound: the read under the client mutation lock, the transaction with the dirty mark, the push through `Remote`; the loop of a deletion over the client's inbounds; a create that finds its tag taken |
| `SaveNode`, `MarkNode` | `NodeService.UpdateFromRequest`: the node's row; then the dirty mark, whose failure is only logged, and its `Remote` dropped |
| `Load`, `ReadRows`, `ListTags`, `Offer`, `Sweep`, `ClearDirty` | the sync job's start and `ReconcileNode`, request by request |
| `Fetch`, `ReadState`, `ReadCentral`, `Merge`, `MergeNothing`, `MarkAdopted` | the snapshot, `NodeSyncState`, `setRemoteTrafficLocked` (the rows, which it reads before its transaction; the transaction, which writes from what was read), `MarkNodeInboundsAdopted` |
| `Heartbeat`, `Expire`, `LocalEdit`, `Restart` | status, the age of tombstones, the node's own administrator, a restart of the panel |

What is abstracted:

- A row is its enable flag and its clients; ports, settings and protocol fields
  are part of the row's identity only through the edits that change them.
- The dirty stamp is counted. In the code it is a time in milliseconds: two
  marks in one millisecond are not modelled.
- A request that timed out has been carried out or never will be; one that is
  still on its way and arrives later is not modelled.
- Sync mode "all" is `allowed = Inbounds`. A renamed inbound, host groups,
  client IPs and traffic counters are left out.
- Between the merge's reads and its commit the traffic writer is taken, so
  client edits and saves wait (`WriterFree`), while toggles, creations and
  deletions of inbounds do not. A row deleted in between stays deleted, and a row
  created in between keeps its tag: the copy the code then makes under a prefixed
  tag is left out, and a row deleted and created again counts as the same row.
- Saving the node's settings adds or removes one selected tag.
- A client edit and `UpdateInbound` save the row they read, and gorm's `Save`
  inserts a row that was deleted in between; `Written` says so.
- The error of `NodeSyncState` is ignored and reads as a clean node.
- An inbound created disabled does not mark the node dirty. `Creates` says with
  which flags inbounds are created; with `FALSE` in it `EditsStayOwed` is
  refuted, so the run and the theorem take `{TRUE}`.

### ClientBook

A client is in four places: `list` (the settings of each inbound), `link`
(`client_inbounds`), `record` (`clients`), `traffic` (`client_traffics`, whose
`inbound_id` is `owner`). `core` is what runs.

| Action | Code |
|---|---|
| `Create`, `Attach`, `Detach`, `Delete`, `Update`, `SetEnable`, `Reset` | the beginning of the functions of `client_crud.go` and `client_bulk.go`: read the record and the links |
| `Take` | the lock of one inbound, its settings read and the new ones computed |
| `Purge`, `Cut` | what `bulkDelInboundClients` does before it saves |
| `Commit`, `Api` | the transaction with `SyncInbound`, and the call of the core under the same lock |
| `FinishDelete`, `FinishSwitch`, `FinishRest`, `ResetRow` | the tail of a request |
| `ResetAll` | `ResetAllTraffics` |
| `TrafficJob`, `LoadPoll`, `Load` | `addTrafficLocked` (`Poll`) from the cron and from `GetXrayConfig`; the configuration read and loaded |

What is abstracted:

- A creation accepts an e-mail that exists with the same SubID, which puts the
  client on more inbounds.
- The poll logs what fails in it and goes on (`Rough`): a renewal or a disabling that
  stops at one of its statements, `SyncInbound` or the marking of entries failing
  for one inbound, a commit that fails. One such flaw per poll, and each is a fault.
- A created or updated client expires at a tick of `Expiries`.
- A request visits its inbounds in any order; the code's orders are among them.
- Left out: renaming, the bulk forms of attach, detach, create and adjust, the
  delayed start of a client (`adjustTraffics`), the forms that edit a local
  inbound as a whole, and the counters and limits of inbounds.
- Usage is counted up to `Quota`. Every client has the same quota and period.
- A bulk operation is made for one e-mail.
- `raced` is a history variable: clients that were added to an inbound while
  they were being deleted.

### Sidecars

`rows` and `off` are the tables (`off` the accounting rows that are switched
off), `procs` and `swept` the manager's memory, `mtg` what runs; `job` and `at`
hold where the job and each request are and what they have read.

| Action | Code |
|---|---|
| `ReadRows`, `ReadOff` | the two queries of `DesiredMtprotoInstances` |
| `Reconcile`, `EnsureNext` | `Reconcile`: sweep and stop, then one `ensureLocked` after the other, under the lock throughout (`LockFree`) |
| `Collect`, `Scrape`, `WriteBack`, `Finish` | `CollectTraffic`, process by process: copy, answer, counters back under the lock; the deltas go to the accounts |
| `Begin`, `CommitClient`, `CommitReset`, `CommitRow`, `CommitToggle`, `CommitDrop` | what an edit reads, and its transaction: a client edit, a reset of a client, `UpdateInbound` and `AddInbound`, `SetInboundEnable`, `DelInbound` |
| `Reread`, `Build`, `Push`, `Stop`, `Count` | `applyLocalMtproto`; `buildRuntimeInboundForAPI`; `Local.UpdateInbound`/`AddInbound` with `Ensure`; `Local.DelInbound`; the reset of `sqlite_sequence` |
| `Poll` | the traffic poll disabling or renewing a client, or disabling an inbound |
| `Use`, `Die`, `StopAll`, `Restart` | traffic through a process, its exit, shutdown of the panel, its crash and new start |

`Ensure` is `ensureLocked`: nothing, a reload of the secrets, or a restart,
by comparing fingerprints. What is abstracted:

- A row is its switch, the clients its settings enable, and a `struct` that
  stands for everything else that is in `structuralFingerprint`. A client's
  secret, tag and quota are its membership: a re-key is a removal and an addition.
- A failing call spends a fault: `PUT /secrets` that fails before or after mtg
  took the secrets ends in the restart, which replaces the process in either
  case, so the two are one outcome. An mtg without that endpoint is one whose
  reload fails.
- Stopping a process ends it; a stop that fails even after SIGKILL is left out.
  `wait` notices an exit at once.
- The lock on an inbound makes client edits of one inbound exclude each other;
  every other edit takes none.
- Saving or adding an inbound sets the accounts of the clients it lists to the
  switch each has there (`Relisted`).
- Which inbound a client's reset is applied to is chosen freely among those that
  enable it; the code takes the first.
- The run the panel starts itself (`web.go:337`) is over before the cron's first.
- `claimed` (traffic of a process that went to the accounts) and `touched`
  (clients that were not served all along, or whose inbound changed its
  structure) are history variables. `MaxUse` bounds the traffic of each client.

### Hub

`clients` is the registry, `ops` and `casts` are the two channels of the loop,
`sent` and `closed` say of each connection how full its Send channel is and
whether it is closed; `conn` and `writer` are the places of the handler with its
reader, and of the writer.

| Action | Code |
|---|---|
| `Connect`, `Register` | `HandleConnection`: the client is made, and waits to be queued; then both pumps run (`StartPumps`) |
| `ReadFails`, `Unregister` | the end of `readPump` and its deferred departure: queued, dropped after `enqueueTimeout`, or passed over when the hub is cancelled |
| `Write`, `HangUp`, `WriteFails` | `writePump`: a message, a closed Send channel, a failing write or ping |
| `Broadcast`, `Invalidate`, `Enqueue` | `Broadcast`, `broadcastInvalidate`, `enqueue` |
| `TakeOp`, `Fanout`, `Shutdown` | the cases of `runOnce` |
| `Panic`, `Resume` | the recovery of `runOnce`, and `Run`: back-off, giving up after `hubRestartAttempts`, cancelled during the back-off |
| `Stop` | `Stop` |

What is abstracted:

- A message has no contents; the channels of messages are numbers. An oversize
  message becomes an invalidation, which is enqueued in the same way. A throttled
  type and a marshalling error mean that nothing is sent.
- A panic strikes what has been taken from a channel and not yet acted on; the
  sections under the lock only touch maps and channels and cannot panic.
- A timeout is a choice that is open while the channel is full.
- A browser that reconnects is another connection.
- `lost` is a history variable: registrations and departures that a full channel
  or a panic swallowed.

## 3. Runs

| Run | Question | Instance |
|---|---|---|
| `LineSafety` | does what was built agree with what is stored, and does no apply undo an edit, when requests race? | 1 line without defaults, 2 requests that edit, read, upload, apply or delete, 2 types (one on Nginx, one with a probe), 1 choice of settings, clock 1..2, 1 fault |
| `LineOverlap` | do artifacts live and die together, does the service keep the abstract promise, and the window, when job runs overlap, and are due lines taken and ended ones darkened and cleaned? | 1 line, 1 type, 1 request that creates, extends, applies, checks, renews or deletes, 2 job runs, clock 1..2, 1 fault |
| `XrayConverges` | does the core follow the database? | 2 handlers (1 edited through the API), 1 flag editor, 1 API editor, all restarters but direct editors, 1 fault |
| `XrayMixed` | is the snapshot true, is a lagging core owed a restart, and is a stop respected, with every kind of caller? | 3 handlers (1 static, 1 edited through the API), one editor of each kind, 1 fault |
| `Writer` | single writer, promise to the callers kept, nobody stuck? | 3 submitters, 2 managers, queue of 1, 2 generations |
| `NodeSync` | is no edit forgotten, nothing swept that is not the panel's, nothing deleted resurrected, and do both sides settle? | 2 inbounds (one selected), 1 client, 1 editor with six kinds of edit, 2 dirty marks, 1 fault (a failing call, a status change, a restart, a save of the node's settings or an edit at the node) |
| `ClientEdits` | do entries, links and records agree, and do edits of different clients and of one client keep apart? | 2 inbounds, 2 clients, 2 requests that create or delete, each client on none or both inbounds at the start, 1 fault |
| `ClientPoll` | is usage kept and does a depleted client go off, with every operation beside the poll? | 2 inbounds, 1 client with a reset period, 1 request at a time (2 in all) of nine kinds, clock 0..1, 1 fault (a failing call or a flaw of a poll) |
| `Sidecars` | do the wanted processes run and no others, do bystanders keep their connections, is traffic counted once? | 1 inbound, 2 clients, 1 request of six kinds, 3 processes, 3 rows to save (two structures, one without clients), 2 edits (those of the poll included), 1 fault |
| `Hub` | does a browser that is read get the broadcasts or a hang-up, are departures in order, and is an ended connection hung up? | 2 connections, 1 publisher, 2 places for registrations and departures, 1 for messages, 2 in each Send channel, 2 attempts of the loop |

Why these bounds are enough to meet the interesting cases: lines share nothing
but the template document, which each transaction reads and writes as a whole,
so one line is enough for the properties of a line; the races are between two
processes on one row, and the instances have two or three. In `LineSafety` a save
that names the settings that are there already is still an edit: it changes type,
defaults or the waiting certificate, and the second lets two edits share a stamp.
Two ticks make a window that has begun, one that is open and one that has ended
reachable. One fault covers each failing call and each crash. Two handlers that can
be changed at run time let a hot apply break off half way; the static one of
`XrayMixed` forces restarts. Three submitters
fill a queue of one while the writer is busy and leave one waiting with the
mutex; two generations let a late stop meet the next writer. In `NodeSync` the
selected inbound and the other one are the two cases of the sweep and of the
filter, two marks let an edit come during a reconcile that works for the one
before, and the second `Remote` makes a fingerprint stale; the job and one
editor are the two parties of each race, as client edits of one inbound exclude
each other. In `ClientBook` two inbounds are needed for a deletion that fails on
one of them and for a renewal that finds the client twice; two requests of two
clients race for the settings of one inbound, two of one client race for its
record; a quota of one is used up by one poll, and a clock of two values lets a
client expire. In `Sidecars` the job and one request are the two parties of a
race and the poll is a third; one process is replaced while the scrape of another
is under way and a third is an orphan, and process ids are given again once
nothing refers to them; two clients are the one that is edited and the one that
must not notice, and traffic through one of them is enough to count it twice.
The same invariants also hold for two requests without faults and for two
inbounds with one edit. In `Hub` two connections with a registration and a
departure each overfill a channel of two, so departures are dropped; a Send
channel of two is filled by two broadcasts nobody writes out; two attempts are one
panic that is survived and one that ends the loop.

Requests, and the clients of `ClientEdits`, are interchangeable, so `LineSafety`
and `ClientEdits` use symmetry; runs with liveness properties use none.

### Runs that refute a statement of the repository

| Run | Statement | What the code does |
|---|---|---|
| `NodeDisabledLost` | `client_inbound_apply.go`: "the node's own DB still carries a disabled client" | a reconcile pushes the payload for the core, which has no disabled clients; the merge then adopts what the node reports, and the client is gone from the panel's row |
| `ClientRenewed` | `inbound_autorenew_test.go:12-13`: every expired client with a reset period is re-enabled | the entry is enabled in the first inbound only, and the record follows the last one: a client on two inbounds is counted as enabled and is off |

## 4. Properties

`LineLifecycle`
- `RuntimeFollowsLine`: inbound, route and client exist together, and only for
  a line that exists and has not expired.
- `PendingCheckIsDeployed`: what was built for a line in `pending_check` is what is
  stored, up to defaults that a read filled in since and a certificate uploaded
  since (`line.go:342-343`: it becomes active at the next apply). It excepts lines in
  `overwritten`: an upload or a write-back stores the configuration it read before,
  over an edit or an apply that came in between.
- `ApplyKeepsEdits`: an apply never stores an older plan over a newer one. The
  code compares the whole configuration besides `UpdatedAt`, which counts in
  seconds; the mutant that compares the stamp alone breaks the property.
- `EnabledOnlyWhileServable`: an inbound is enabled only by a transaction that began
  inside its window, and nobody moves the window or blocks the line while it runs.
  The window may end on its own before the commit; the job then finds the line.
- `KeepsPromise`: refinement of `LinePromise`.
- `EndedLineIsCleaned`: a line whose window has ended goes dark and loses its
  inbound, route and client, or gets a new window, through crashes and failures.
- `DueLineIsTaken`: a scheduled line is taken up at its start.

`XrayCore`
- `SnapshotIsCore`: outside the lock the snapshot is what the core runs, in
  everything nobody edits through the API (outside `ApiHandlers`).
- `StoppedStaysDown`: only a forced restart takes a user's stop back.
- `StaleIsOwed`: while nobody holds the lock, a core that runs something else than
  the database asks for, outside `ApiHandlers`, has a restart coming: the flag is up,
  or somebody is about to raise it or waits for the lock. It is the safety side of
  convergence. After a direct restart that failed (`dropped`) nothing is owed,
  which is what the code does.
- `RemovedHandlerIsCut`, `AddedHandlerRuns`: convergence outside `ApiHandlers`, and
  without direct editors.

`TrafficWriter`
- `OneWriter`: starts and stops that overlap leave one writer alive, the one the
  package variables name.
- `KeepsWritePromise`: refinement of `WritePromise`. A write is executed at most
  once and only while its caller waits, and the answer says whether it was; in
  particular `AnswerIsTrue` and `NothingAbandoned` hold, which the proofs use.
- `SubmitReturns`, `StopReturns`: nobody waits for ever.

`NodeSync`
- `EditsStayOwed`: an inbound edited at the panel and not yet offered to the node
  by a reconcile that read it later leaves the node dirty.
- `NodeKeepsItsOwn`: before the first clean merge, and outside the selection, the
  panel takes nothing off the node.
- `DeletedStaysOut`: while a tombstone lives no old snapshot brings the client
  back into a row the panel knows.
- `Settles`: when edits and faults are over, the rows of both sides agree, or the
  node reports nothing at all.

`ClientBook`
- `LinksFollowList`: a link has its record and its entry.
- `OrphansWereRaced`: an entry without a record is left only where the client was
  added to an inbound during its deletion; a deletion that fails half way keeps
  the record for its retry.
- `OthersAreKept`: an edit of one client changes nobody else's membership.
- `UsageIsKept`: usage is lost only by a reset, a renewal or a deletion.
- `DepletedGoesOff`: a client beyond quota or time does not stay enabled.

`Sidecars`
- `NoOrphans`: once leftovers are swept, every process that runs is the one its
  inbound is mapped to.
- `FingerprintIsTrue`: what the manager believes a running process serves is what
  it serves; otherwise `Ensure` would leave it alone for ever.
- `ConnectionsSurvive`: whatever other edits and the job do, a client that was
  served throughout keeps its process and its place in it, unless something
  fails or the panel was started anew. The mutant that deletes and adds, as the
  runtime does for inbounds of the core, breaks it.
- `ClaimedOnce`: no traffic of a process goes to the accounts twice.
- `Converges`: in the end exactly the wanted processes run, with what the tables
  say.

`Hub`
- `ServedOrHungUp`: while the hub is wanted, a connection that is read is in the
  registry, about to be, or being hung up; only a panic that swallows a
  registration leaves a browser connected and deaf.
- `StragglersTimedOut`: an entry whose connection has ended has its departure in
  the channel, or lost to a full channel, a panic or the end of the hub. The mutant
  that removes the client directly, which `hub.go:344-347` warns of, breaks it.
- `EndedIsHungUp`: a registered client whose connection has ended, or whose hub is
  stopped, is closed in the end, dropped departure or not: the broadcasts fill its
  Send channel and it is evicted. The exceptions are a hub that gave up and one
  that was cancelled while it backed off.

Each has a mutant of the code, next to the definition it changes, under which
TLC finds it violated; `PROJECT.json` pairs them.

## 5. Fairness

- Lines: the clock advances, each job run takes its next step (cron starts one
  every five seconds, `web.go:303`, and nothing blocks a run for ever; who waits for
  the database gets it sometime, a wait that times out being a fault), and a request
  under way goes on, so that every transaction ends. Users owe nothing. An end of a window that is reached
  when the last fault has been spent is served by the next run.
- Xray: the cron entries tick, begun work goes on, and each waiter for the lock
  gets it if it is free again and again (`SF` on `Enter`: Go mutexes do not starve
  a waiter). No fairness for `UserRestart`, `StopXray` and the editors' first
  steps.
- Nodes: the job runs (`NodeTrafficSyncJob` is a cron entry and skips a run only
  while one is under way), a request that has read its row goes on, tombstones
  age, and the heartbeat finds a node that answers. Nobody owes an edit, and
  faults are bounded.
- Clients: the cron polls, nothing else.
- Sidecars: the cron runs the job again and again (`web.go:336`; a run under way
  makes the next be skipped), and a request that has begun goes on. Nobody owes an
  edit, traffic, a death or a fault.
- Writer: the goroutine runs on, a submitter inside goes on; a stop that waits
  for the mutex gets it (`SF` on `Clear`). Nobody owes a start, a stop or a
  submit.
- Hub: `select` chooses at random among the channels that are ready, so it does not
  pass over one for ever; who waits for room in a channel is served in the order
  of waiting (`SF` on `Register`); a connection that one pump closed fails the
  other; a status is broadcast every two seconds (`web/controller/server.go:92`)
  and is not throttled. Nobody owes a connection, a stop or a panic.

## 6. Proofs

`TrafficWriterProofs` proves, for any submitters, managers, queue size and
number of generations, `TypeOK`, `OneWriter`, `AnswerIsTrue`,
`NothingAbandoned`, and that the specification implements `WritePromise`. None of
the three invariants after the first is inductive. The inductive
invariant `IInv` adds: generations are born in order, and only the newest can be
alive, and then the package variables name it (`GenerationsInv`); a submitter
about to enqueue holds the mutex and its generation cannot have ended
(`LockInv`); every request held by a queue or a goroutine belongs to a submitter
that waits for exactly that generation, once (`HeldInv`); a waiting submitter is
answered or held by a generation that is not done (`WaitInv`); and the count of
executions is the one the submitter's place allows (`RunsInv`). The refinement
needs all of it: that `Await` answers "ok" is `WaitInv` with the generations, that
`Finish` executes a write of somebody who waits, for the first time, is `HeldInv`,
and that a submitter who gives up was never executed is `RunsInv`.
`NobodyWaitsInVain` is what the liveness properties start from: a submitter that
waits has its answer or a living writer holds its write, the holder of the mutex
waits for a running writer, and a stop waits for a writer that is cancelled or done.

`LineLifecycleProofs` proves, for any lines, requests, overlapping job runs,
plans, times and faults, `TypeOK`, `RuntimeFollowsLine`,
`PendingCheckIsDeployed`, `EnabledOnlyWhileServable`, `ApplyKeepsEdits`, and that
the specification implements `LinePromise`. The inductive invariant adds that a
process inside an operation has a line as its target and, where it will return
to them, notes of it (`AimInv`); that at most one apply has its transaction open,
and what it saw when it began still holds (`TxInv`, which rests on `Unlocked` in
every writer); and that a line that is gone waits for no renewal and one that is
there has a plan (`OwnInv`). Types are split into the groups of variables that steps
leave alone together, and each action has a lemma of its own; the refinement
first shows which actions change nothing the promise sees. Beside the properties
of the runs, `QueriesFindAll` proves `QueriesMissNobody`: whatever races and
crashes brought a line there, one that waits for its start, one whose window has
ended with its inbound still there, and one whose expiry did not go through is
in the result of a query of the job. Its second invariant (`SelectInv`) is that
the columns a query selects by agree: a scheduled line has a start and is not
blocked, and a line in expiry is blocked.

`XrayCoreProofs` proves, for any handlers, callers of every kind and number of
faults, `TypeOK`, `SnapshotIsCore`, `StoppedStaysDown` and `StaleIsOwed`. The inductive invariant
adds that whoever is between `Enter` and `Leave` holds the lock (`LockInv`); that
no stop by hand is marked while somebody holds it, because entering takes the
mark back and `StopXray` waits for the same lock (`StopInv`); and how far the core
is from the snapshot at each step under the lock (`SnapInv`): equal while the
configuration is built and compared, and equal to the candidate up to the
handlers still to be changed during a hot apply. "Equal" is outside `ApiHandlers`
throughout (`Agree`): an edit through the API changes the core and not the snapshot,
so nothing can be said of the rest, and there are editors of every kind in these
theorems. For `StaleIsOwed` a second invariant (`OwedInv`) follows
the debt under the lock: the caller that has come in to serve it may be the only
one who knows of it until it has built the configuration; from then on an edit
that is not in the configuration has raised the flag, or is about to. The pending
restart, when it fails, leaves with the flag to be raised again.

`NodeSyncProofs` proves, for any inbounds, clients, editors, kinds of edit and
bounds, `TypeOK`, `NodeKeepsItsOwn`, `DeletedStaysOut` and, where inbounds are
created enabled (`Creates \subseteq {TRUE}`), `EditsStayOwed`. The inductive
invariant adds what an editor at work has read (`EdInv`) and relates the run to
the node row (`JobInv`): the stamp it works for is no newer than the node's, and
while they agree and nothing has failed, no edit has come since it read the rows.
That is what makes the compare-and-clear of the dirty mark safe.

`ClientBookProofs` proves, for any inbounds, clients, requests, operations,
quotas and periods, `TypeOK`, `LinksFollowList`, `UsageIsKept`, `OrphansWereRaced`
and `OthersAreKept`. The first layer of the inductive invariant is the types,
`LinksFollowList` and what a request holds between its steps (`ReqInv`): an
operation that writes an entry has one to write, and a request inside an inbound
knows the inbound and the settings it will save. `UsageIsKept` is an action
property; each action has a lemma that says which rows it may take usage from, and
the poll one that says it takes usage only from clients it renews.

The second layer (`MemberInv`) is about who is on which inbound. Every entry has
its link unless its client was added during its own deletion (`EntriesLinked`); two
requests inside an inbound are never inside the same one (`LocksApart`); and what a
request holds is true of the settings as they are now (`SoundInv`): but for its own
client, the settings it is going to save have lost orphans only and brought nobody
back (`RowTrue`), and a deletion that has not failed has every entry of its client
still before it (`Reaches`). `RowTrue` survives the steps of the others because
of the lock, and the poll because that changes entries and not who has one;
`OthersAreKept` is `RowTrue` at the commit, `OrphansWereRaced` is `Reaches` at the
end of a deletion.

`SidecarsProofs` proves, for any inbounds, clients, structures, requests,
processes and bounds, `TypeOK`, `NoOrphans`, `FingerprintIsTrue`, `ClaimedOnce`
and `ConnectionsSurvive`, in three layers. The first (`MInv`) adds to the types
that a manager that has not swept holds nothing and that no process is held for
two inbounds; then a process that is replaced is a process that is stopped. The
second (`ClaimInv`) bounds what was claimed of a process by the counters kept for
it, in its entry or in the snapshot of a scrape under way; a process that took
the place of the one in the snapshot has nothing claimed yet, which is why
foreign counters written back to it do no harm. The third (`KeepInv`) says that an
untouched client is in every row, wish and entry that the job, a request or the
manager holds, with the structure of today (`KRow`, `KJob`, `KAt`, `KProc`), so
that every `Ensure` leaves it alone or reloads around it.

`HubProofs` proves, for any connections and publishers, any capacities and any
number of attempts, `TypeOK`, `ServedOrHungUp` and `StragglersTimedOut`. The types
add that a loop that runs or backs off has an attempt left. The inductive
invariant adds that a registration is in the channel at most once, and not when
its client is registered already or has not asked yet, and that nothing a
connection queued stands before its registration (`OrderInv`); and it states
the property about stragglers also for connections whose registration is still
queued (`DepartInv`), since that is where an entry that outlives its connection
begins. `NothingSentAfterClose` says that the registry holds nobody whose Send
channel is closed: a client is never closed twice, and nothing is sent after the
close, so the recovery in `trySend` (`hub.go:246-253`) never has to help. (Only the
hub's own goroutine sends on these channels and closes them, so a fan-out is one
step of the model.)
Its invariant (`OpenInv`) covers the connections that are still on their way in, and
rests on the fact that a connection registers once.

Assumptions: the ASSUMEs in the modules (the special values are distinct from
the sets they stand beside, processes of different kinds are different), which
TLC evaluates for each instance.

## 7. Only model-checked

Liveness under fairness is beyond the prover: the liveness properties of
`LineLifecycle`, `XrayCore`, `TrafficWriter`, `NodeSync` (`Settles`),
`ClientBook` (`DepletedGoesOff`), `Sidecars` (`Converges`) and `Hub`
(`EndedIsHungUp`), and the violations, rest on the runs alone.
Most of them have a proved safety property beside them that says what the
convergence starts from: `QueriesMissNobody` (no line in need of the validity job
escapes its queries), `StaleIsOwed` (a lagging core has a restart coming),
`ServerIsThere` (whoever waits for the writer has one), `EditsStayOwed` (an edit
the node lacks leaves it dirty), `FingerprintIsTrue` (what the manager leaves alone
needs nothing) and `StragglersTimedOut`.

## 8. Not modelled

Most of the repository's lines format, parse, migrate or forward: generated text
(Nginx sites, share links, Clash YAML, subscription bodies), the Telegram bot and
the mailer, settings and translations, the schema migrations of `database/db.go`,
TLS and certificates, the network probes, the frontend and the install scripts.
They keep no state between requests, or one value that one statement replaces,
and a state machine of them would restate the code. That is why the mapped lines
are a small share of the whole: the map covers the parts whose order matters.
`PROJECT.json` gives each component left out with its reason.

Behaviour seen while modelling that no run states. Lines and the core:

- a line extended between the job's expiry query and its claim is expired all the
  same (`line_validity.go:181`), though the extension was answered with "running
  configuration unchanged" (`line_validity.go:90`);
- a check that was begun before an expiry writes its verdict by id
  (`line.go:997`), over `expiring` or `expiry_failed` too. If the window was
  extended between the job's query and its claim, and the disabling then fails or
  the panel dies, the line stays on air, marked for renewal by hand, and no query
  selects it again;
- a check that was begun before a re-scheduling edit overwrites `scheduled` with
  its verdict, and the job, which selects by status, then forgets the line;
- `ApplyLine` leaves a scheduled line alone at its first check, but the same
  rejection inside the transaction records `apply_failed`: an edit between the
  two that re-schedules the line loses its schedule;
- expiry chooses the site to remove by the row, not by what was built, so a line
  edited away from Nginx keeps its old site (`line_validity.go:222` logs that it
  is removed);
- the type is read before the transaction to decide on the probe and again inside
  it to decide what to build (`reality_preflight.go:27-29`: only after the round
  trip succeeds);
- `expiry_failed` is logged as "disabled first" also when disabling was the step
  that failed; the retry makes up for it (`EndedLineIsCleaned`);
- an upload and the write-back of `GetLine` store the configuration they read
  before (`line.go:305`, `line.go:367`), over an edit or an apply in between;
- a failing `RestartXray` in the validity job is only logged: with a direct
  editor and one fault `RemovedHandlerIsCut` does not hold in `XrayCore`, so
  `XrayConverges` has no direct editor;
- a hot apply compares with a snapshot that edits through the API leave behind,
  and the flag that would force a restart has been taken down by then;
- a crash between the job's claim and its apply leaves a line `pending_apply`;
- between cancel and drain a submit runs inline beside the traffic writer
  (`traffic_writer.go:115`: never concurrently with the poll); the database still
  serialises the two transactions.

Nodes:

- whether the node is dirty is read before the merge; an edit that commits in
  between is overwritten by the snapshot, and what is pushed later is the
  overwritten row (`node_dirty_test.go:14-17`: edits must survive). `Settles`
  holds all the same: both sides agree on the wrong row;
- an inbound created disabled does not mark the node dirty, and the next clean
  merge drops its row.

Clients:

- the poll may disable a client between the commit of an edit and the call that
  adds the user to the core, which then serves a depleted client until a restart;
- an edit saves the settings it read before the poll disabled another client of
  the inbound, and switches that entry and its record on again; only the
  accounting row stays off;
- `ResetAllTraffics` enables the accounting rows only; entries and records stay
  off;
- the last write of an update sets the record's enable flag after a poll that
  disabled it;
- a renewal at the very tick of the expiry adds no period; the client is disabled
  by the same poll and renewed by a later one;
- a deletion racing an attach leaves an entry without a record, or takes the
  accounting row of a client that lives on;
- `BulkDelete` removes the accounting row in a transaction of its own, before the
  one that saves the settings and may fail;
- what a poll took out of the core is lost when its transaction fails.

Sidecars:

- a job run that read the rows before an edit committed reconciles with them after
  the edit drove the process, and so undoes the edit until the next run: a deleted
  client is served again for up to ten seconds;
- `StopAll` does not wait for a run or a request under way, which starts the process
  again while the panel ends; the next start sweeps it (`NoOrphans`);
- the counters a process has when it is first scraped are taken as the base, so
  traffic before that is not counted (`ClaimedOnce` bounds from above only); the
  same happens to a client whose process is replaced;
- the run the panel starts itself is not part of the cron's chain: overlapping a
  scheduled one, both may claim the same traffic.

Live updates:

- a connection whose registration is queued, or made, when the hub stops is in no
  registry that `shutdown` closes. Its pumps go on pinging, and the HTTP server's
  shutdown does not close hijacked connections: after a restart of the panel inside
  the process (`main.go:128-147`) such a browser stays connected and gets nothing
  (`hub.go:360`: `Stop` closes all client connections);
- a hub that is cancelled while it backs off from a panic returns without
  `shutdown` (`hub.go:134`), with the same effect on every connection;
- a registration that a panic swallowed is not repeated (`ServedOrHungUp` excepts
  it);
- a hub that gave up takes nothing from its channels: once the one for
  registrations is full, `HandleConnection` waits until the panel stops;
- the last of several quick changes of a throttled type is not sent until the next
  broadcast of that type.

Left out of `Sidecars`: the quotas inside mtg (`ResetQuota`,
`resetAllMtprotoQuotas`), the SOCKS bridge of a routed inbound, and inbounds that
change their protocol.

## 9. Plan

1. Done: `LinePromise`, `LineLifecycle`, `XrayCore`, `WritePromise`, `TrafficWriter`, `NodeSync`,
   `ClientBook`, `Sidecars`, `Hub`, and proofs of all of them.
2. `LineServing`: the composition of a line with the Xray core. The apply
   handler decides on the restart flag by re-reading the line
   (`web/controller/line.go:193`), a run of the job whose second query fails owes a
   restart (`line_validity_job.go:24`); the property is that an applied line is
   loaded and an expired one is cut from the running core.
3. `EventBus`: bounded queues and re-subscription; "never concurrently with itself
   and in publication order" (`bus.go:138`).
4. `CentralManagement`: apply and disable over four stores, two concurrent
   applies, crashes. `SubscriptionToken`: get-or-create and rotation.
   `TunnelMonitor`: threshold and cooldown.
5. Proofs: the safety side of `Settles` and `Converges` (what a reconcile or a job
   run without failures leaves behind), and the safety part of `LineServing`.

## 10. Running it

    tlc -workers 2 -config LineSafety.cfg MCLineLifecycle.tla
    tlc -workers 2 -config LineOverlap.cfg MCLineLifecycle.tla
    tlc -workers 2 -config XrayMixed.cfg MCXrayCore.tla
    tlc -workers 2 -config XrayConverges.cfg MCXrayCore.tla
    tlc -workers 2 -config Writer.cfg MCTrafficWriter.tla
    tlc -workers 2 -config NodeSync.cfg MCNodeSync.tla
    tlc -workers 2 -config ClientEdits.cfg MCClientBook.tla
    tlc -workers 2 -config ClientPoll.cfg MCClientBook.tla
    tlc -workers 2 -config Sidecars.cfg MCSidecars.tla
    tlc -workers 2 -config Hub.cfg MCHub.tla
    tlapm LineLifecycleProofs.tla
    tlapm XrayCoreProofs.tla
    tlapm TrafficWriterProofs.tla
    tlapm NodeSyncProofs.tla
    tlapm ClientBookProofs.tla
    tlapm SidecarsProofs.tla
    tlapm HubProofs.tla

Every run takes between a few seconds and three minutes on two workers; `NodeSync` (3.0
million states), `LineSafety` (2.7 million) and `ClientEdits` (1.6 million) are the
largest beside `XrayMixed` (11 million, quickly made). The proofs take a few minutes each
at most.
