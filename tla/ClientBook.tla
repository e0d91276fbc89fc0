----------------------------- MODULE ClientBook -----------------------------
(***************************************************************************)
(* Clients, their quota and the traffic poll (web/service/client_crud.go,  *)
(* client_inbound_apply.go, client_link.go, client_bulk.go,                *)
(* inbound_traffic.go, inbound_disable.go, GetXrayConfig of xray.go).      *)
(*                                                                         *)
(* A client is written down in four places: an entry in the settings of    *)
(* each inbound it is on, a link to each of them, one record, and one      *)
(* accounting row.  Requests change them inbound by inbound under that     *)
(* inbound's mutation lock; the traffic poll changes them all in one       *)
(* transaction and takes no lock.  Transactions are serial.                *)
(***************************************************************************)
EXTENDS Naturals

CONSTANTS
  Inbounds,   \* local inbounds, numbered as their ids are ordered
  Clients,    \* e-mails
  Requests,   \* handlers at work at once
  Ops,        \* the operations they carry out
  Renewing,   \* clients with a reset period
  Places,     \* the sets of inbounds a client may be on at the start
  Nothing,    \* no entry, no record, no row
  Quota,      \* usage at which a client is cut off
  Period,     \* ticks a renewal adds
  Expiries,   \* the expiries a form may carry
  MaxTime,    \* bound on the clock
  MaxOps,     \* bound on the requests made
  MaxFaults   \* bound on failing transactions and core calls

Adds    == {"create", "attach"}
Deletes == {"delete", "bulkDelete"}
ASSUME SetsAssumption ==
  /\ Inbounds \subseteq Nat \ {0} /\ Renewing \subseteq Clients /\ Places \subseteq SUBSET Inbounds
  /\ Expiries \subseteq Nat
  /\ Ops \subseteq Adds \union Deletes \union {"detach", "update", "setEnable", "reset", "resetAll"}
\* As for any finite set of ids.
ASSUME OrderAssumption == \A I \in (SUBSET Inbounds) \ {{}} :
  (\E i \in I : \A j \in I : i <= j) /\ (\E i \in I : \A j \in I : j <= i)
ASSUME LimitsAssumption ==
  {Quota, Period, MaxTime, MaxOps, MaxFaults} \subseteq Nat /\ Quota > 0 /\ Period > 0

Entry == [on : BOOLEAN, exp : Nat]
Record == [id : Nat, on : BOOLEAN, exp : Nat]
Account == [on : BOOLEAN, exp : Nat, used : 0..Quota, owner : Inbounds]
ASSUME NothingAssumption == Nothing \notin Entry \union Record \union Account
Row == [Clients -> Entry \union {Nothing}]

VARIABLES
  list,     \* inbounds.settings: the entry of each client
  link,     \* client_inbounds
  record,   \* clients
  made,     \* how many records a client has had: its next id
  traffic,  \* client_traffics, with inbound_id as owner
  core,     \* the users of the running core
  restart,  \* a restart is owed
  loading,  \* GetXrayConfig has polled and is about to read
  req,      \* each request: step and local variables
  now, begun, faults,
  raced     \* history: clients added to an inbound during their deletion

book == <<list, link, record, made>>
vars == <<book, traffic, core, restart, loading, req, now, begun, faults, raced>>

Idle == [pc |-> "idle", op |-> "none", c |-> Nothing, id |-> 0, form |-> Nothing,
         keep |-> FALSE, left |-> {}, resets |-> {}, i |-> 0, row |-> Nothing,
         was |-> FALSE, drops |-> FALSE, live |-> FALSE, failed |-> FALSE]

Fault == faults < MaxFaults /\ faults' = faults + 1
On(x) == x # Nothing /\ x.on
Linked(c) == {i \in Inbounds : <<i, c>> \in link}
Hosts(rows, I, c) == {i \in I : rows[i][c] # Nothing}
Least(I) == CHOOSE i \in I : \A j \in I : i <= j
Greatest(I) == CHOOSE i \in I : \A j \in I : j <= i

-----------------------------------------------------------------------------
(* SyncInbound, for inbounds I in the order of their ids: links as the     *)
(* entries say, and each record as the last entry says.                    *)

\* Mutant: a link that has lost its entry stays.
SyncedLinksKept(rows, I) ==
  link \union {l \in I \X Clients : rows[l[1]][l[2]] # Nothing}

SyncedLinks(rows, I) ==
  {l \in link : l[1] \notin I} \union {l \in I \X Clients : rows[l[1]][l[2]] # Nothing}

SyncedRecords(rows, I) == [c \in Clients |->
  LET J == Hosts(rows, I, c) IN
  IF J = {} THEN record[c]
  ELSE [id  |-> IF record[c] = Nothing THEN made[c] + 1 ELSE record[c].id,
        on  |-> rows[Greatest(J)][c].on,
        exp |-> rows[Greatest(J)][c].exp]]

SyncedMade(rows, I) == [c \in Clients |->
  IF record[c] = Nothing /\ Hosts(rows, I, c) # {} THEN made[c] + 1 ELSE made[c]]

-----------------------------------------------------------------------------
(* The beginning of a request: it reads the record and the links.          *)

Order(op, c, I, form, keep) ==
  [pc |-> "next", op |-> op, c |-> c, id |-> IF record[c] = Nothing THEN 0 ELSE record[c].id,
   form |-> form, keep |-> keep, left |-> I, resets |-> {}, i |-> 0, row |-> Nothing,
   was |-> FALSE, drops |-> FALSE, live |-> FALSE, failed |-> FALSE]

Copy(c) == [on |-> record[c].on, exp |-> record[c].exp]

Begins(r, o) ==
  /\ req[r].pc = "idle" /\ begun < MaxOps /\ begun' = begun + 1
  /\ o.op \in Ops
  /\ req' = [req EXCEPT ![r] = o]
  /\ UNCHANGED <<book, traffic, core, restart, loading, now, faults, raced>>

\* Create always enables.  The e-mail is free, or that of a client with the same
\* subscription id, which may be on some of the inbounds already.
Create(r, c) == \E I \in (SUBSET Inbounds) \ {{}}, exp \in Expiries :
  Begins(r, Order("create", c, I, [on |-> TRUE, exp |-> exp], FALSE))

Attach(r, c) == \E I \in SUBSET (Inbounds \ Linked(c)) :
  record[c] # Nothing /\ I # {} /\ Begins(r, Order("attach", c, I, Copy(c), FALSE))

Detach(r, c) == \E I \in SUBSET Linked(c) :
  record[c] # Nothing /\ I # {} /\ Begins(r, Order("detach", c, I, Nothing, TRUE))

Delete(r, c) == \E op \in Deletes, keep \in BOOLEAN :
  record[c] # Nothing /\ Begins(r, Order(op, c, Linked(c), Nothing, keep))

Update(r, c) == \E on \in BOOLEAN, exp \in Expiries :
  record[c] # Nothing /\ Begins(r, Order("update", c, Linked(c), [on |-> on, exp |-> exp], FALSE))

\* BulkSetEnable.
SetEnable(r, c) == \E on \in BOOLEAN :
  record[c] # Nothing /\ Begins(r, Order("setEnable", c, Linked(c), [on |-> on, exp |-> 0], FALSE))

\* ResetTrafficByEmail: an update that enables, if the record is disabled, and
\* then a reset for each inbound.
Reset(r, c) ==
  /\ record[c] # Nothing
  /\ LET o == Order("reset", c, Linked(c), [on |-> TRUE, exp |-> record[c].exp], FALSE) IN
     Begins(r, [o EXCEPT !.resets = Linked(c), !.pc = IF record[c].on THEN "reset" ELSE "next"])

\* ResetAllTraffics touches the accounting rows only, and has the core restarted.
ResetAll ==
  /\ "resetAll" \in Ops /\ begun < MaxOps /\ begun' = begun + 1
  /\ traffic' = [c \in Clients |-> IF traffic[c] = Nothing THEN Nothing
                                   ELSE [traffic[c] EXCEPT !.on = TRUE, !.used = 0]]
  /\ restart' = TRUE
  /\ UNCHANGED <<book, core, loading, req, now, faults, raced>>

-----------------------------------------------------------------------------
(* One inbound of a request, under its mutation lock.                      *)

Held == {"purge", "cut", "commit", "api"}

\* Mutant: no lock.
LockFreeAlways(i) == i \in Inbounds

LockFree(i) == \A q \in Requests : req[q].pc \in Held => req[q].i # i

\* compactOrphans drops the entries without a record.
Compacted(row) == [c \in Clients |-> IF record[c] = Nothing THEN Nothing ELSE row[c]]

\* The settings a request is going to save.
NewRow(o, row) == CASE
     o.op \in Adds \union {"update", "reset"} -> [(IF o.op \in Adds THEN Compacted(row) ELSE row)
                                                    EXCEPT ![o.c] = o.form]
  [] o.op = "setEnable" -> [row EXCEPT ![o.c].on = o.form.on]
  [] OTHER -> [Compacted(row) EXCEPT ![o.c] = Nothing]

\* Nothing to do here: already added, already gone, already as wanted.
Skips(o, entry) == CASE
     o.op \in Adds -> entry # Nothing
  [] o.op \in {"update", "reset"} -> entry = o.form
  [] o.op = "setEnable" -> entry = Nothing \/ entry.on = o.form.on
  [] o.op = "bulkDelete" -> FALSE
  [] OTHER -> entry = Nothing

\* An update of an entry that is gone is an error and ends.
Fails(o, entry) == o.op \in {"update", "reset"} /\ entry = Nothing

\* It read who else has the e-mail and whether there is a row to remove.
Drops(o, i) ==
  /\ o.op \in Deletes /\ ~o.keep /\ traffic[o.c] # Nothing
  /\ \A j \in Inbounds \ {i} : list[j][o.c] = Nothing

Ended(o) == IF o.op = "reset" THEN [o EXCEPT !.pc = "reset", !.left = {}] ELSE Idle
Passed(o, i) == [o EXCEPT !.pc = "next", !.left = @ \ {i}, !.i = 0, !.row = Nothing,
                          !.was = FALSE, !.drops = FALSE, !.live = FALSE]

Take(r, i) ==
  LET o == req[r]
      entry == list[i][o.c]
      missed == entry = Nothing /\ o.op \in {"setEnable", "bulkDelete"}
      found == [o EXCEPT !.i = i, !.row = NewRow(o, list[i]), !.was = On(entry),
                         !.drops = entry # Nothing /\ Drops(o, i), !.live = On(traffic[o.c]),
                         !.failed = @ \/ missed] IN
  /\ o.pc = "next" /\ i \in o.left /\ LockFree(i)
  /\ req' = [req EXCEPT ![r] =
       IF Fails(o, entry) THEN Ended(o)
       ELSE IF Skips(o, entry) THEN [Passed(o, i) EXCEPT !.failed = o.failed \/ missed]
       ELSE [found EXCEPT !.pc = IF o.op # "bulkDelete" THEN "commit"
                                 ELSE IF found.drops THEN "purge" ELSE "cut"]]
  /\ UNCHANGED <<book, traffic, core, restart, loading, now, begun, faults, raced>>

\* BulkDelete removes the accounting row in a transaction of its own, ...
Purge(r) ==
  LET o == req[r] IN
  /\ o.pc = "purge"
  /\ \/ /\ traffic' = [traffic EXCEPT ![o.c] = Nothing]
        /\ req' = [req EXCEPT ![r].pc = "cut"]
        /\ UNCHANGED faults
     \/ /\ Fault
        /\ req' = [req EXCEPT ![r] = [o EXCEPT !.pc = "commit", !.failed = TRUE]]
        /\ UNCHANGED traffic
  /\ UNCHANGED <<book, core, restart, loading, now, begun, raced>>

\* A core call that fails has the core restarted.
Calls(changed) ==
  \/ core' = changed /\ UNCHANGED <<restart, faults>>
  \/ Fault /\ restart' = TRUE /\ core' \in {core, changed}

\* ... and the user from the core before it saves the settings.
Cut(r) ==
  LET o == req[r] IN
  /\ o.pc = "cut"
  /\ Calls(IF o.was /\ o.live THEN core \ {<<o.i, o.c>>} ELSE core)
  /\ req' = [req EXCEPT ![r].pc = "commit"]
  /\ UNCHANGED <<book, traffic, loading, now, begun, raced>>

\* Mutant: the row starts the usage afresh.
AccountedAfresh(o) == [on |-> o.form.on, exp |-> o.form.exp, owner |-> o.i, used |-> 0]

\* Mutant: the row is made without its inbound.
AccountedNowhere(o) ==
  [on |-> o.form.on, exp |-> o.form.exp, owner |-> 0,
   used |-> IF traffic[o.c] = Nothing THEN 0 ELSE traffic[o.c].used]

\* AddClientStat: the row is made, or all of it but the usage refreshed.
Accounted(o) ==
  [on |-> o.form.on, exp |-> o.form.exp, owner |-> o.i,
   used |-> IF traffic[o.c] = Nothing THEN 0 ELSE traffic[o.c].used]

NewAccount(o) == CASE
     o.op \in Adds -> Accounted(o)
  [] o.op \in {"update", "reset"} /\ traffic[o.c] # Nothing ->
       [traffic[o.c] EXCEPT !.on = o.form.on, !.exp = o.form.exp]
  [] o.op = "delete" /\ o.drops -> Nothing
  [] OTHER -> traffic[o.c]

Deleting(c) == \E q \in Requests : req[q].pc # "idle" /\ req[q].op \in Deletes /\ req[q].c = c

\* The transaction: accounting row, the settings computed before, SyncInbound.
\* When it fails a deletion and a bulk operation go on, the others end.
Commit(r) ==
  LET o == req[r]
      rows == [list EXCEPT ![o.i] = o.row] IN
  /\ o.pc = "commit"
  /\ \/ /\ traffic' = [traffic EXCEPT ![o.c] = NewAccount(o)]
        /\ list' = rows
        /\ link' = SyncedLinks(rows, {o.i})
        /\ record' = SyncedRecords(rows, {o.i})
        /\ made' = SyncedMade(rows, {o.i})
        /\ req' = [req EXCEPT ![r] = IF o.op = "bulkDelete" THEN Passed(o, o.i)
                                     ELSE [o EXCEPT !.pc = "api"]]
        /\ raced' = IF o.op \in Adds /\ Deleting(o.c) THEN raced \union {o.c} ELSE raced
        /\ UNCHANGED faults
     \/ /\ Fault
        /\ req' = [req EXCEPT ![r] =
             IF o.op \in Deletes \union {"setEnable"} THEN [Passed(o, o.i) EXCEPT !.failed = TRUE]
             ELSE Ended(o)]
        /\ UNCHANGED <<book, traffic, raced>>
  /\ UNCHANGED <<core, restart, loading, now, begun>>

\* After the commit the core is told, still under the lock.
Api(r) ==
  LET o == req[r]
      user == {<<o.i, o.c>>} IN
  /\ o.pc = "api"
  /\ Calls(IF o.form # Nothing /\ o.form.on THEN core \union user
           ELSE IF o.was THEN core \ user ELSE core)
  /\ req' = [req EXCEPT ![r] = Passed(o, o.i)]
  /\ UNCHANGED <<book, traffic, loading, now, begun, raced>>

-----------------------------------------------------------------------------
(* The end of a request.                                                   *)

Over(o) == o.pc = "next" /\ o.left = {}

\* Mutant: a deletion that failed somewhere removes the record all the same.
FinishDeleteAnyway(r) ==
  LET o == req[r]
      is == record[o.c] # Nothing /\ record[o.c].id = o.id IN
  /\ Over(o) /\ o.op \in Deletes
  /\ \/ /\ record' = IF is THEN [record EXCEPT ![o.c] = Nothing] ELSE record
        /\ link' = IF is THEN {l \in link : l[2] # o.c} ELSE link
        /\ traffic' = IF o.keep THEN traffic ELSE [traffic EXCEPT ![o.c] = Nothing]
        /\ UNCHANGED faults
     \/ Fault /\ UNCHANGED <<record, link, traffic>>
  /\ req' = [req EXCEPT ![r] = Idle]
  /\ UNCHANGED <<list, made, core, restart, loading, now, begun, raced>>

\* A deletion removes links, row and record, unless an inbound failed: then the
\* record stays so that the next attempt finds the leftovers.
FinishDelete(r) ==
  LET o == req[r]
      is == record[o.c] # Nothing /\ record[o.c].id = o.id IN
  /\ Over(o) /\ o.op \in Deletes
  /\ \/ /\ ~o.failed
        /\ record' = IF is THEN [record EXCEPT ![o.c] = Nothing] ELSE record
        /\ link' = IF is THEN {l \in link : l[2] # o.c} ELSE link
        /\ traffic' = IF o.keep THEN traffic ELSE [traffic EXCEPT ![o.c] = Nothing]
        /\ UNCHANGED faults
     \/ o.failed /\ UNCHANGED <<record, link, traffic, faults>>
     \/ ~o.failed /\ Fault /\ UNCHANGED <<record, link, traffic>>
  /\ req' = [req EXCEPT ![r] = Idle]
  /\ UNCHANGED <<list, made, core, restart, loading, now, begun, raced>>

\* Update writes the record's enable flag once more, by id; BulkSetEnable
\* writes record and accounting row, by e-mail.
FinishSwitch(r) ==
  LET o == req[r]
      rec == record[o.c] IN
  /\ Over(o) /\ o.op \in {"update", "reset", "setEnable"}
  /\ \/ /\ ~o.failed
        /\ record' = IF rec # Nothing /\ (o.op = "setEnable" \/ rec.id = o.id)
                     THEN [record EXCEPT ![o.c].on = o.form.on] ELSE record
        /\ traffic' = IF o.op = "setEnable" /\ traffic[o.c] # Nothing
                      THEN [traffic EXCEPT ![o.c].on = o.form.on] ELSE traffic
        /\ UNCHANGED faults
     \/ o.failed /\ UNCHANGED <<record, traffic, faults>>
     \/ ~o.failed /\ Fault /\ UNCHANGED <<record, traffic>>
  /\ req' = [req EXCEPT ![r] = Ended(o)]
  /\ UNCHANGED <<list, link, made, core, restart, loading, now, begun, raced>>

FinishRest(r) ==
  /\ Over(req[r]) /\ req[r].op \in Adds \union {"detach"}
  /\ req' = [req EXCEPT ![r] = Idle]
  /\ UNCHANGED <<book, traffic, core, restart, loading, now, begun, faults, raced>>

\* ResetClientTraffic for one inbound: the user is added if the row was off and
\* the entry is on; usage and row are reset.  Without inbounds, the row alone.
ResetRow(r) ==
  LET o == req[r]
      t == traffic[o.c] IN
  /\ o.pc = "reset"
  /\ IF t = Nothing
     THEN req' = [req EXCEPT ![r] = Idle] /\ UNCHANGED <<traffic, core, restart, faults>>
     ELSE /\ traffic' = [traffic EXCEPT ![o.c].on = TRUE, ![o.c].used = 0]
          /\ IF o.resets = {}
             THEN req' = [req EXCEPT ![r] = Idle] /\ UNCHANGED <<core, restart, faults>>
             ELSE LET i == Least(o.resets)
                      rest == o.resets \ {i} IN
                  /\ req' = [req EXCEPT ![r] = IF rest = {} THEN Idle
                                               ELSE [o EXCEPT !.resets = rest]]
                  /\ Calls(IF ~t.on /\ On(list[i][o.c]) THEN core \union {<<i, o.c>>} ELSE core)
  /\ UNCHANGED <<book, loading, now, begun, raced>>

-----------------------------------------------------------------------------
(* The traffic poll.                                                       *)

\* Mutant: expiry alone.
DepletedByTime(t) == On(t) /\ t.exp <= now

\* depletedCond: switched on, with the quota used up or the time over.
Depleted(t) == On(t) /\ (t.used >= Quota \/ t.exp <= now)

\* autoRenewClients: whole periods until the expiry is not before now.
Later(exp) == exp + Period * ((now - exp + Period - 1) \div Period)

\* addClientTraffic: the clients S have used something.
Counted(S) == [c \in Clients |->
  IF c \in S /\ traffic[c] # Nothing /\ traffic[c].used < Quota
  THEN [traffic[c] EXCEPT !.used = @ + 1] ELSE traffic[c]]

\* disableInvalidClients: the rows to switch off, ...
Spent(rows) == {c \in Clients : Depleted(rows[c])}

\* ... and markClientsDisabledInSettings: their entries, where they are linked.
SwitchedOff(rows, cut) == [i \in Inbounds |-> [c \in Clients |->
  IF <<i, c>> \in cut /\ rows[i][c] # Nothing THEN [rows[i][c] EXCEPT !.on = FALSE]
  ELSE rows[i][c]]]

\* The ways a poll can go.  Renewal and disabling each stop at a statement that
\* fails, SyncInbound or the marking can fail for one inbound, or the commit
\* fails; all of it is only logged, and what was written before is kept.
Smooth == [renews |-> "all", cuts |-> "all", commits |-> TRUE, unsynced |-> 0, unmarked |-> 0]
Rough ==
  {[Smooth EXCEPT !.renews = last] : last \in {"nothing", "entries", "accounts"}} \union
  {[Smooth EXCEPT !.cuts = last] : last \in {"nothing", "entries", "accounts"}} \union
  {[Smooth EXCEPT !.unsynced = i] : i \in Inbounds} \union
  {[Smooth EXCEPT !.unmarked = i] : i \in Inbounds} \union {[Smooth EXCEPT !.commits = FALSE]}

\* addTrafficLocked for the clients S that used something: count, renew, cut.
\* A renewed client that was off is switched on in the first inbound that has
\* it.  The core is called before the transaction commits.  Only what there is
\* to do can fail.
PollGoes(S, way) ==
  LET counted == Counted(S)
      due == {c \in Renewing : counted[c] # Nothing /\ counted[c].exp <= now /\ Linked(c) # {}}
      I == IF way.renews = "nothing" THEN {} ELSE UNION {Linked(c) : c \in due}
      ren == {c \in due : Hosts(list, I, c) # {}}
      wake == {<<Least(Hosts(list, I, c)), c>> : c \in {d \in ren : ~counted[d].on}}
      rows == [i \in Inbounds |-> [c \in Clients |->
        IF i \in I /\ c \in ren /\ list[i][c] # Nothing
        THEN [on |-> list[i][c].on \/ <<i, c>> \in wake, exp |-> Later(counted[c].exp)]
        ELSE list[i][c]]]
      renewed == [c \in Clients |->
        IF c \in ren /\ way.renews # "entries"
        THEN [counted[c] EXCEPT !.on = TRUE, !.used = 0, !.exp = Later(@)]
        ELSE counted[c]]
      links == SyncedLinks(list, I \ {way.unsynced})
      records == SyncedRecords(rows, I \ {way.unsynced})
      spent == IF way.cuts = "nothing" THEN {} ELSE Spent(renewed)
      cut == {l \in links : l[2] \in spent}
      marked == {l \in cut : l[1] # way.unmarked}
      off == IF way.cuts = "entries" THEN {} ELSE spent
      offRecords == IF way.cuts = "all" THEN spent ELSE {}
      users == (core \union (IF way.renews = "all" THEN wake ELSE {})) \ cut IN
  /\ \/ way = Smooth /\ Calls(users)
     \/ /\ way # Smooth /\ Fault
        /\ due # {} \/ (way.renews = "all" /\ way.unsynced = 0)
        /\ Spent(renewed) # {} \/ (way.cuts = "all" /\ way.unmarked = 0)
        /\ core' = users /\ UNCHANGED restart
  /\ IF way.commits
     THEN /\ traffic' = [c \in Clients |-> IF c \in off THEN [renewed[c] EXCEPT !.on = FALSE]
                                           ELSE renewed[c]]
          /\ list' = SwitchedOff(rows, marked)
          /\ record' = [c \in Clients |-> IF c \in offRecords /\ records[c] # Nothing
                                          THEN [records[c] EXCEPT !.on = FALSE] ELSE records[c]]
          /\ made' = SyncedMade(list, I \ {way.unsynced})
          /\ link' = links
     ELSE UNCHANGED <<book, traffic>>

Poll(S) == \E way \in {Smooth} \union (IF faults < MaxFaults THEN Rough ELSE {}) : PollGoes(S, way)

\* The cron job: what the core counted is taken out of it and booked.
TrafficJob ==
  /\ UNCHANGED <<loading, req, now, begun, raced>>
  /\ \E S \in SUBSET {l[2] : l \in core} : Poll(S)

\* GetXrayConfig polls without traffic, then reads.
LoadPoll ==
  /\ ~loading /\ loading' = TRUE
  /\ Poll({})
  /\ UNCHANGED <<req, now, begun, raced>>

\* Linked clients whose record is on, unless the row says no; the rows of an
\* inbound are those that name it as owner.
Wanted == {l \in link :
  /\ On(record[l[2]])
  /\ traffic[l[2]] # Nothing /\ traffic[l[2]].owner = l[1] => traffic[l[2]].on}

Load ==
  /\ loading /\ loading' = FALSE
  /\ core' = Wanted /\ restart' = FALSE
  /\ UNCHANGED <<book, traffic, req, now, begun, faults, raced>>

Tick ==
  /\ now < MaxTime /\ now' = now + 1
  /\ UNCHANGED <<book, traffic, core, restart, loading, req, begun, faults, raced>>

-----------------------------------------------------------------------------
(* A panel with some clients, each on some inbounds, enabled and unused.   *)
Init ==
  /\ \E at \in [Clients -> Places] :
       LET owner == [c \in Clients |-> Greatest(at[c])]
           there == {c \in Clients : at[c] # {}} IN
       /\ list = [i \in Inbounds |-> [c \in Clients |->
            IF i \in at[c] THEN [on |-> TRUE, exp |-> 1] ELSE Nothing]]
       /\ link = {l \in Inbounds \X Clients : l[1] \in at[l[2]]}
       /\ core = link
       /\ record = [c \in Clients |->
            IF c \in there THEN [id |-> 1, on |-> TRUE, exp |-> 1] ELSE Nothing]
       /\ traffic = [c \in Clients |-> IF c \in there
            THEN [on |-> TRUE, exp |-> 1, used |-> 0, owner |-> owner[c]] ELSE Nothing]
       /\ made = [c \in Clients |-> IF c \in there THEN 1 ELSE 0]
  /\ raced = {} /\ restart = FALSE /\ loading = FALSE
  /\ req = [r \in Requests |-> Idle]
  /\ now = 0 /\ begun = 0 /\ faults = 0

Begin(r, c) ==
  \/ Create(r, c) \/ Attach(r, c) \/ Detach(r, c) \/ Delete(r, c)
  \/ Update(r, c) \/ SetEnable(r, c) \/ Reset(r, c)

Step(r) ==
  \/ \E i \in Inbounds : Take(r, i)
  \/ Purge(r) \/ Cut(r) \/ Commit(r) \/ Api(r)
  \/ FinishDelete(r) \/ FinishSwitch(r) \/ FinishRest(r) \/ ResetRow(r)

Next ==
  \/ \E r \in Requests, c \in Clients : Begin(r, c)
  \/ \E r \in Requests : Step(r)
  \/ ResetAll \/ TrafficJob \/ LoadPoll \/ Load \/ Tick

Spec == Init /\ [][Next]_vars

(* The cron polls. *)
Fairness == WF_vars(TrafficJob)

FairSpec == Spec /\ Fairness

-----------------------------------------------------------------------------
(* Properties.                                                             *)

Steps == {"idle", "next", "purge", "cut", "commit", "api", "reset"}

\* Every variable keeps its type.
TypeOK ==
  /\ list \in [Inbounds -> Row]
  /\ {link, core} \subseteq SUBSET (Inbounds \X Clients)
  /\ record \in [Clients -> Record \union {Nothing}]
  /\ traffic \in [Clients -> Account \union {Nothing}]
  /\ made \in [Clients -> Nat] /\ raced \subseteq Clients
  /\ {restart, loading} \subseteq BOOLEAN
  /\ {now, begun, faults} \subseteq Nat
  /\ req \in [Requests ->
       [pc : Steps, op : Ops \union {"none"}, c : Clients \union {Nothing}, id : Nat,
        form : Entry \union {Nothing}, keep : BOOLEAN, left : SUBSET Inbounds,
        resets : SUBSET Inbounds, i : Inbounds \union {0}, row : Row \union {Nothing},
        was : BOOLEAN, drops : BOOLEAN, live : BOOLEAN, failed : BOOLEAN]]

\* A link always has its record, and an entry in that inbound's settings.
LinksFollowList == \A l \in link : record[l[2]] # Nothing /\ list[l[1]][l[2]] # Nothing

\* An entry without a record is left only where a client was added to an
\* inbound while it was being deleted: a deletion that failed half way keeps
\* the record, so that its retry finds every entry.
OrphansWereRaced == \A i \in Inbounds, c \in Clients :
  list[i][c] # Nothing /\ record[c] = Nothing => c \in raced

\* Whoever edits one client of an inbound neither drops another client from it
\* nor brings a removed one back, whatever overlaps.
OthersAreKept == [][\A i \in Inbounds, c \in Clients :
  (list[i][c] = Nothing) # (list'[i][c] = Nothing) =>
     \/ record[c] = Nothing \/ c \in raced
     \/ \E r \in Requests : req[r].pc = "commit" /\ req[r].i = i /\ req[r].c = c /\ req'[r] # req[r]]_vars

\* Counted usage is lost only by a reset, a renewal or a deletion, also when a
\* client is attached, detached, edited or disabled at that moment.
UsageIsKept == [][\A c \in Clients :
  traffic[c] # Nothing /\ (traffic'[c] = Nothing \/ traffic'[c].used < traffic[c].used) =>
     \/ Deleting(c) \/ traffic[c].exp <= now
     \/ \E r \in Requests : req[r].pc = "reset" /\ req[r].c = c /\ req'[r] # req[r]
     \/ begun' # begun]_vars

\* A client that has used up its quota or its time does not stay switched on in
\* the accounts.
DepletedGoesOff == \A c \in Clients :
  []<>(On(traffic[c]) => traffic[c].used < Quota /\ traffic[c].exp > now)

\* After a renewal "every expired client with reset>0 must get a fresh future
\* expiry, zeroed usage and re-enabled state": on wherever it was renewed.
RenewedEverywhere == [][\A c \in Clients :
  On(traffic'[c]) /\ traffic[c] # Nothing /\ traffic'[c].exp > traffic[c].exp
    /\ ~traffic[c].on /\ req' = req
  => On(record'[c])]_vars
=============================================================================
