--------------------------- MODULE NodeSyncProofs ---------------------------
(***************************************************************************)
(* For any inbounds, clients, editors and bounds: an edit stays owed to    *)
(* the node, the node keeps what is not the panel's, and what was deleted  *)
(* stays out while its tombstone lives.                                    *)
(***************************************************************************)
EXTENDS NodeSync, TLAPS

(* TypeOK, by the groups of variables that steps leave alone together.     *)
RowsType == central \in Rows /\ remote \in Rows /\ pushed \in [Remotes -> Rows]
MarksType ==
  /\ dirty \in BOOLEAN /\ adopted \in BOOLEAN /\ online \in BOOLEAN
  /\ stamp \in Nat /\ faults \in Nat /\ gen \in Remotes
SetsType ==
  /\ allowed \subseteq Inbounds /\ owed \subseteq Inbounds /\ fresh \subseteq Inbounds
  /\ tomb \subseteq Clients
JobRecord ==
  [pc : JobSteps, rt : Remotes, stamp : Nat, adopted : BOOLEAN, allowed : SUBSET Inbounds,
   rows : Rows, tags : SUBSET Inbounds, failed : BOOLEAN, snap : Rows, dirty : BOOLEAN]
EdRecord ==
  [pc : {"idle", "write", "push", "next", "mark"}, kind : Kinds \union {"none"},
   i : Inbounds \union {NoInbound}, c : Clients \union {NoInbound}, seen : Row, rt : Remotes]
EdsType == ed \in [Editors -> EdRecord]

(* An editor at work knows its inbound and its client, and saw a row if it *)
(* is going to write that row back.                                        *)
AtWork(o) ==
  /\ o.pc \in {"write", "push", "next"} => o.c \in Clients /\ o.kind \in Kinds
  /\ o.pc \in {"write", "push"} =>
       /\ o.i \in Inbounds
       /\ o.kind \in {"toggle", "save"} => o.seen \in Content
  /\ o.pc = "push" => o.kind \notin {"save", "create"}
EdInv == \A e \in Editors : AtWork(ed[e])

(* The stamp a reconcile works for is no newer than the node's, and while  *)
(* they agree and nothing failed, no edit has come since its rows were     *)
(* read.  A node once adopted stays adopted.                               *)
JobInv ==
  /\ job.pc \in {"rows", "list", "push"} => job.stamp <= stamp
  /\ job.pc \in {"list", "push"} /\ job.stamp = stamp /\ ~job.failed => fresh = Inbounds
  /\ job.pc \in {"rows", "list", "push"} /\ job.adopted => adopted

Types == RowsType /\ MarksType /\ SetsType /\ job \in JobRecord /\ EdsType
IInv == Types /\ EdInv /\ JobInv

-----------------------------------------------------------------------------
(* Rows: what every operator on them returns.                              *)
LEMMA PutType == ASSUME NEW row \in Row, NEW c, NEW s \in {"none", "on", "off"}
                 PROVE  Put(row, c, s) \in Row /\ (row = NoInbound <=> Put(row, c, s) = NoInbound)
  BY NoInboundAssumption DEF Put, Row, Content

LEMMA EditedType == ASSUME NEW kind, NEW row \in Row, NEW c
                    PROVE  /\ Edited(kind, row, c) \in Row
                           /\ row = NoInbound <=> Edited(kind, row, c) = NoInbound
<1>1. (CASE kind = "add" -> "on" [] kind = "disable" -> "off" [] OTHER -> "none")
        \in {"none", "on", "off"}
  OBVIOUS
<1> QED BY <1>1, PutType DEF Edited

LEMMA SwitchedType == ASSUME NEW row \in Content, NEW b \in BOOLEAN
                      PROVE  [row EXCEPT !.on = b] \in Content
  BY DEF Content

LEMMA BuiltType == ASSUME NEW row \in Content PROVE Built(row) \in Content
  BY DEF Content, Built

LEMMA ContentIsRow == ASSUME NEW row \in Content PROVE row \in Row /\ row # NoInbound
  BY NoInboundAssumption DEF Row

LEMMA EmptyType == Empty \in Rows /\ NoInbound \in Row /\ \A i \in Inbounds : Empty[i] = NoInbound
  BY DEF Empty, Rows, Row

LEMMA RowsAt == ASSUME NEW rows \in Rows, NEW i \in Inbounds
                PROVE  rows[i] \in Row /\ (rows[i] # NoInbound => rows[i] \in Content)
  BY DEF Rows, Row

LEMMA RowsPut == ASSUME NEW rows \in Rows, NEW i \in Inbounds, NEW row \in Row
                 PROVE  [rows EXCEPT ![i] = row] \in Rows
  BY DEF Rows

LEMMA WrittenType == ASSUME RowsType, NEW o \in EdRecord, AtWork(o), o.pc = "write",
                            NEW on \in BOOLEAN
                     PROVE  Written(o, on) \in Row
<1>1. CASE o.kind \in Locked
  BY <1>1, EditedType DEF Written, EdRecord, Locked
<1>2. CASE o.kind = "toggle"
  <2>1. o.i \in Inbounds /\ o.seen \in Content
    BY <1>2 DEF AtWork
  <2>2. central[o.i] \in Row /\ (central[o.i] # NoInbound => central[o.i] \in Content)
    BY <2>1, RowsAt DEF RowsType
  <2>3. (~o.seen.on) \in BOOLEAN
    OBVIOUS
  <2>4. central[o.i] # NoInbound => [central[o.i] EXCEPT !.on = ~o.seen.on] \in Row
    BY <2>2, <2>3, SwitchedType, ContentIsRow
  <2> QED BY <1>2, <2>2, <2>4, EmptyType DEF Written, Locked
<1>3. CASE o.kind = "save"
  <2>1. o.seen \in Content /\ (~o.seen.on) \in BOOLEAN
    BY <1>3 DEF AtWork
  <2> QED BY <1>3, <2>1, SwitchedType, ContentIsRow DEF Written, Locked
<1>4. CASE o.kind = "create"
  <2>1. [on |-> on, client |-> [c \in Clients |-> "none"]] \in Content
    BY DEF Content
  <2> QED BY <1>4, <2>1, ContentIsRow DEF Written, Locked
<1>5. CASE o.kind \notin Locked \union {"toggle", "save", "create"}
  BY <1>5, EmptyType DEF Written
<1> QED BY <1>1, <1>2, <1>3, <1>4, <1>5

LEMMA PushedRowsType == ASSUME RowsType, NEW o \in EdRecord, AtWork(o), o.pc = "push"
  PROVE /\ PushedRows(o) \in Rows
        /\ \A j \in Inbounds : remote[j] # NoInbound /\ PushedRows(o)[j] = NoInbound =>
             o.kind \notin Locked \union {"toggle"} /\ o.i = j
<1>1. o.i \in Inbounds /\ o.seen \in Row /\ remote \in Rows
  BY DEF AtWork, EdRecord, RowsType
<1>2. CASE o.kind = "delete"
  <2>1. PushedRows(o) = [i \in Inbounds |-> Put(remote[i], o.c, "none")]
    BY <1>2 DEF PushedRows, Locked
  <2>2. \A i \in Inbounds : /\ Put(remote[i], o.c, "none") \in Row
                            /\ remote[i] = NoInbound <=> Put(remote[i], o.c, "none") = NoInbound
    <3> SUFFICES ASSUME NEW i \in Inbounds
                 PROVE  /\ Put(remote[i], o.c, "none") \in Row
                        /\ remote[i] = NoInbound <=> Put(remote[i], o.c, "none") = NoInbound
      OBVIOUS
    <3>1. remote[i] \in Row
      BY <1>1, RowsAt
    <3> QED BY <3>1, PutType
  <2>3. PushedRows(o) \in Rows
    BY <2>1, <2>2 DEF Rows
  <2>4. \A j \in Inbounds : PushedRows(o)[j] = Put(remote[j], o.c, "none")
    BY <2>1
  <2> QED BY <2>2, <2>3, <2>4
<1>3. CASE o.kind \in Locked \ {"delete"}
  <2>1. PushedRows(o) = [remote EXCEPT ![o.i] = Edited(o.kind, remote[o.i], o.c)]
    BY <1>3 DEF PushedRows, Locked
  <2>2. /\ Edited(o.kind, remote[o.i], o.c) \in Row
        /\ remote[o.i] = NoInbound <=> Edited(o.kind, remote[o.i], o.c) = NoInbound
    BY <1>1, RowsAt, EditedType
  <2> QED BY <1>1, <2>1, <2>2 DEF Rows
<1>4. CASE o.kind = "toggle"
  <2>1. PushedRows(o) = [remote EXCEPT ![o.i] = [o.seen EXCEPT !.on = ~o.seen.on]]
    BY <1>4 DEF PushedRows, Locked
  <2>2. o.seen \in Content /\ (~o.seen.on) \in BOOLEAN
    BY <1>4 DEF AtWork
  <2>3. [o.seen EXCEPT !.on = ~o.seen.on] \in Row /\ [o.seen EXCEPT !.on = ~o.seen.on] # NoInbound
    BY <2>2, SwitchedType, ContentIsRow
  <2> QED BY <1>1, <2>1, <2>3 DEF Rows
<1>5. CASE o.kind \notin Locked \union {"toggle"}
  <2>1. PushedRows(o) = [remote EXCEPT ![o.i] = NoInbound]
    BY <1>5 DEF PushedRows, Locked
  <2> QED BY <1>1, <1>5, <2>1, EmptyType DEF Rows
<1> QED BY <1>2, <1>3, <1>4, <1>5

LEMMA PushedMarkType == ASSUME RowsType, NEW o \in EdRecord, AtWork(o), o.pc = "push"
                        PROVE  PushedMark(o) \in Row
<1>1. o.i \in Inbounds /\ o.seen \in Row /\ o.rt \in Remotes
  BY DEF AtWork, EdRecord
<1>2. CASE o.kind \in Locked
  <2>1. Edited(o.kind, o.seen, o.c) \in Row
    BY <1>1, EditedType
  <2>2. pushed[o.rt][o.i] \in Row
    BY <1>1 DEF RowsType, Rows
  <2> QED BY <1>2, <2>1, <2>2 DEF PushedMark, Locked
<1>3. CASE o.kind = "toggle"
  <2>1. o.seen \in Content /\ (~o.seen.on) \in BOOLEAN
    BY <1>3 DEF AtWork
  <2> QED BY <1>3, <2>1, SwitchedType, ContentIsRow DEF PushedMark, Locked
<1>4. CASE o.kind \notin Locked \union {"toggle"}
  BY <1>4, EmptyType DEF PushedMark
<1> QED BY <1>2, <1>3, <1>4

LEMMA AdoptedType == ASSUME NEW i \in Inbounds, RowsType, job \in JobRecord, job.snap[i] # NoInbound
                     PROVE  Adopted(i) \in Content
<1>1. job.snap[i] \in Content
  BY RowsAt DEF JobRecord
<1>2. [job.snap[i] EXCEPT !.client = [c \in Clients |-> IF c \in tomb THEN "none" ELSE @[c]]]
        \in Content
  BY <1>1 DEF Content
<1> QED BY <1>1, <1>2 DEF Adopted

-----------------------------------------------------------------------------
(* Every step keeps the invariant.                                         *)
LEMMA JobIdleType == JobIdle \in JobRecord
  BY EmptyType, LimitsAssumption DEF JobIdle, JobRecord, JobSteps, Remotes

LEMMA JobToType == ASSUME NEW step \in JobSteps, job \in JobRecord, JobTo(step)
                   PROVE  job' \in JobRecord /\ job'.pc = step
<1>1. job.allowed \in SUBSET Inbounds
  BY DEF JobRecord
<1>2. [JobIdle EXCEPT !.pc = step, !.allowed = job.allowed] \in JobRecord
  BY <1>1, JobIdleType DEF JobRecord
<1>3. [JobIdle EXCEPT !.pc = step, !.allowed = job.allowed].pc = step
  BY DEF JobIdle
<1> QED BY <1>2, <1>3 DEF JobTo

LEMMA Initially == Init => IInv
<1> SUFFICES ASSUME Init PROVE IInv
  OBVIOUS
<1>1. RowsType
  BY EmptyType DEF Init, RowsType, Rows
<1>2. MarksType
  <2>1. dirty = FALSE /\ adopted = FALSE /\ online = TRUE /\ stamp = 0 /\ faults = 0 /\ gen = 0
    BY Zenon DEF Init
  <2>2. 0 \in Remotes
    BY LimitsAssumption DEF Remotes
  <2> QED BY <2>1, <2>2 DEF MarksType
<1>3. SetsType
  BY ChoicesAssumption DEF Init, SetsType
<1>4. job \in JobRecord /\ job.pc = "idle"
  BY JobIdleType DEF Init, JobIdle
<1>5. Idle \in EdRecord /\ AtWork(Idle)
  BY EmptyType, LimitsAssumption DEF Idle, EdRecord, AtWork, Remotes
<1>6. EdsType /\ EdInv
  BY <1>5 DEF Init, EdsType, EdInv
<1> QED BY <1>1, <1>2, <1>3, <1>4, <1>6 DEF IInv, Types, JobInv

LEMMA LeftType == ASSUME NEW o \in EdRecord, AtWork(o), o.pc \in {"write", "push", "next"}
                  PROVE  Left(o) \in EdRecord /\ AtWork(Left(o))
<1> DEFINE next == [Idle EXCEPT !.pc = "next", !.kind = o.kind, !.c = o.c]
<1>1. Idle \in EdRecord /\ AtWork(Idle)
  BY EmptyType, LimitsAssumption DEF Idle, EdRecord, AtWork, Remotes
<1>2. o.kind \in Kinds /\ o.c \in Clients
  BY DEF EdRecord, AtWork
<1>3. next \in EdRecord
  BY <1>1, <1>2 DEF EdRecord
<1>4. AtWork(next)
  BY <1>2 DEF Idle, AtWork
<1> QED BY <1>1, <1>3, <1>4 DEF Left

LEMMA ReadStep == ASSUME NEW e \in Editors, NEW kind \in Kinds, NEW i \in Inbounds, NEW c \in Clients,
                         IInv, Read(e, kind, i, c)
                  PROVE  IInv'
<1> DEFINE o == [pc |-> "write", kind |-> kind, i |-> i, c |-> c, seen |-> central[i], rt |-> gen]
<1>1. RowsType' /\ MarksType' /\ (job \in JobRecord)' /\ JobInv'
  BY DEF Read, IInv, Types, RowsType, MarksType, wire, JobInv
<1>2. SetsType'
  BY DEF Read, IInv, Types, SetsType, Buried
<1>3. central[i] \in Row /\ (central[i] # NoInbound => central[i] \in Content)
  BY RowsAt DEF IInv, Types, RowsType
<1>4. o \in EdRecord
  BY <1>3 DEF IInv, Types, MarksType, EdRecord
<1>5. AtWork(o)
  BY <1>3 DEF AtWork, Read, Applies
<1>6. ed' = [ed EXCEPT ![e] = o]
  BY DEF Read
<1>7. EdsType' /\ EdInv'
  BY <1>4, <1>5, <1>6 DEF IInv, Types, EdsType, EdInv
<1> QED BY <1>1, <1>2, <1>7 DEF IInv, Types

LEMMA WriteStep == ASSUME NEW e \in Editors, IInv, Write(e) PROVE IInv' /\ stamp' = stamp + 1
<1> DEFINE o == ed[e]
<1>1. o \in EdRecord /\ AtWork(o) /\ o.pc = "write" /\ o.i \in Inbounds
  BY DEF Write, IInv, Types, EdsType, EdInv, AtWork
<1>2. PICK on \in Creates :
        /\ central' = [central EXCEPT ![o.i] = Written(o, on)]
        /\ dirty' = (dirty \/ o.kind # "create" \/ on)
        /\ ed' = [ed EXCEPT ![e] = IF o.kind \notin {"save", "create"} /\ online
                                   THEN [o EXCEPT !.pc = "push", !.rt = gen] ELSE Left(o)]
  BY DEF Write
<1>3. /\ stamp' = stamp + 1 /\ fresh' = fresh \ {o.i} /\ owed' = owed \union {o.i}
      /\ allowed' = IF o.kind \in {"save", "create"} THEN allowed \union {o.i} ELSE allowed
      /\ UNCHANGED <<adopted, tomb, online, wire, gen, job, faults>>
  BY DEF Write
<1>4. Written(o, on) \in Row
  BY <1>1, WrittenType, ChoicesAssumption DEF IInv, Types
<1>5. RowsType'
  BY <1>1, <1>2, <1>3, <1>4, RowsPut DEF IInv, Types, RowsType, wire
<1>6. MarksType'
  <2>1. dirty' \in BOOLEAN
    BY <1>2
  <2> QED BY <1>3, <2>1 DEF IInv, Types, MarksType
<1>7. SetsType'
  BY <1>1, <1>3 DEF IInv, Types, SetsType
<1>8. EdsType' /\ EdInv'
  <2> DEFINE p == [o EXCEPT !.pc = "push", !.rt = gen]
  <2>1. p \in EdRecord
    BY <1>1 DEF IInv, Types, MarksType, EdRecord
  <2>2. o.kind \notin {"save", "create"} => AtWork(p)
    BY <1>1 DEF EdRecord, AtWork
  <2>3. Left(o) \in EdRecord /\ AtWork(Left(o))
    BY <1>1, LeftType
  <2> QED BY <1>2, <2>1, <2>2, <2>3 DEF IInv, Types, EdsType, EdInv
<1>9. JobInv'
  BY <1>3 DEF IInv, Types, JobInv, JobRecord, MarksType
<1> QED BY <1>3, <1>5, <1>6, <1>7, <1>8, <1>9 DEF IInv, Types

LEMMA PushStep == ASSUME NEW e \in Editors, IInv, Push(e) PROVE IInv'
<1> DEFINE o == ed[e]
<1>1. o \in EdRecord /\ AtWork(o) /\ o.pc = "push" /\ o.i \in Inbounds /\ o.rt \in Remotes
  BY DEF Push, IInv, Types, EdsType, EdInv, AtWork, EdRecord
<1>2. PushedRows(o) \in Rows /\ PushedMark(o) \in Row
  BY <1>1, PushedRowsType, PushedMarkType DEF IInv, Types
<1>3. [pushed EXCEPT ![o.rt][o.i] = PushedMark(o)] \in [Remotes -> Rows]
  BY <1>1, <1>2 DEF IInv, Types, RowsType, Rows
<1>4. remote' \in {remote, PushedRows(o)} /\ pushed' \in {pushed, [pushed EXCEPT ![o.rt][o.i] = PushedMark(o)]}
      /\ central' = central
  BY DEF Push, wire, panel
<1>5. RowsType'
  BY <1>2, <1>3, <1>4 DEF IInv, Types, RowsType
<1>6. MarksType' /\ SetsType'
  BY DEF Push, panel, Fault, IInv, Types, MarksType, SetsType
<1>7. Left(o) \in EdRecord /\ AtWork(Left(o))
  BY <1>1, LeftType
<1>8. EdsType' /\ EdInv'
  BY <1>7 DEF Push, Leave, IInv, Types, EdsType, EdInv
<1>9. (job \in JobRecord)' /\ JobInv'
  BY DEF Push, panel, IInv, Types, JobInv
<1> QED BY <1>5, <1>6, <1>8, <1>9 DEF IInv, Types

LEMMA NextInboundStep == ASSUME NEW e \in Editors, IInv, NextInbound(e) PROVE IInv'
<1> DEFINE o == ed[e]
<1>1. o \in EdRecord /\ AtWork(o) /\ o.pc = "next" /\ o.c \in Clients
  BY DEF NextInbound, IInv, Types, EdsType, EdInv, AtWork
<1>2. RowsType' /\ MarksType' /\ SetsType' /\ (job \in JobRecord)' /\ JobInv'
  BY DEF NextInbound, panel, wire, IInv, Types, RowsType, MarksType, SetsType, JobInv
<1>3. Idle \in EdRecord /\ AtWork(Idle)
  BY EmptyType, LimitsAssumption DEF Idle, EdRecord, AtWork, Remotes
<1>4. ASSUME NEW i \in Inbounds, central[i] # NoInbound
      PROVE  LET p == [o EXCEPT !.pc = "write", !.i = i, !.seen = central[i]]
             IN  p \in EdRecord /\ AtWork(p)
  <2>1. central[i] \in Row /\ central[i] \in Content
    BY <1>4, RowsAt DEF IInv, Types, RowsType
  <2> QED BY <1>1, <2>1 DEF EdRecord, AtWork
<1>5. \/ ed' = [ed EXCEPT ![e] = Idle]
      \/ \E i \in Inbounds : /\ central[i] # NoInbound
           /\ ed' = [ed EXCEPT ![e] = [o EXCEPT !.pc = "write", !.i = i, !.seen = central[i]]]
  BY DEF NextInbound, Has, IInv, Types, EdsType
<1>6. EdsType' /\ EdInv'
  BY <1>3, <1>4, <1>5 DEF IInv, Types, EdsType, EdInv
<1> QED BY <1>2, <1>6 DEF IInv, Types

LEMMA ConflictStep == ASSUME NEW e \in Editors, IInv, Conflict(e) PROVE IInv'
<1>1. ed[e] \in EdRecord /\ AtWork(ed[e]) /\ ed[e].pc = "write"
  BY DEF Conflict, IInv, Types, EdsType, EdInv
<1>2. Left(ed[e]) \in EdRecord /\ AtWork(Left(ed[e]))
  BY <1>1, LeftType
<1>3. RowsType' /\ MarksType' /\ SetsType' /\ (job \in JobRecord)' /\ JobInv'
  BY DEF Conflict, panel, wire, IInv, Types, RowsType, MarksType, SetsType, JobInv
<1>4. EdsType' /\ EdInv'
  BY <1>2 DEF Conflict, Leave, IInv, Types, EdsType, EdInv
<1> QED BY <1>3, <1>4 DEF IInv, Types

LEMMA SaveNodeStep == ASSUME NEW e \in Editors, IInv, SaveNode(e) PROVE IInv'
<1>1. RowsType' /\ MarksType' /\ (job \in JobRecord)' /\ JobInv'
  BY DEF SaveNode, Fault, wire, IInv, Types, RowsType, MarksType, JobInv
<1>2. SetsType'
  <2>1. PICK i \in Inbounds : allowed' \in {allowed \union {i}, allowed \ {i}}
    BY DEF SaveNode
  <2>2. allowed' \subseteq Inbounds
    BY <2>1 DEF IInv, Types, SetsType
  <2> QED BY <2>2 DEF SaveNode, IInv, Types, SetsType
<1>3. ed[e] \in EdRecord /\ ed[e].pc = "idle"
  BY DEF SaveNode, IInv, Types, EdsType
<1>4. [ed[e] EXCEPT !.pc = "mark"] \in EdRecord /\ AtWork([ed[e] EXCEPT !.pc = "mark"])
  BY <1>3 DEF EdRecord, AtWork
<1>5. ed' = [ed EXCEPT ![e] = [ed[e] EXCEPT !.pc = "mark"]]
  BY DEF SaveNode
<1>6. EdsType' /\ EdInv'
  BY <1>4, <1>5 DEF IInv, Types, EdsType, EdInv
<1> QED BY <1>1, <1>2, <1>6 DEF IInv, Types

LEMMA MarkNodeStep == ASSUME NEW e \in Editors, IInv, MarkNode(e) PROVE IInv'
<1>1. RowsType' /\ SetsType' /\ (job \in JobRecord)'
  BY DEF MarkNode, wire, IInv, Types, RowsType, SetsType
<1>2. MarksType'
  <2>1. gen' \in Remotes
    BY LimitsAssumption DEF MarkNode, IInv, Types, MarksType, Remotes
  <2>2. dirty' \in BOOLEAN /\ stamp' \in Nat
    <3>1. CASE dirty' = TRUE /\ stamp' = stamp + 1
      BY <3>1 DEF IInv, Types, MarksType
    <3>2. CASE dirty' = dirty /\ stamp' = stamp
      BY <3>2 DEF IInv, Types, MarksType
    <3> QED BY <3>1, <3>2 DEF MarkNode
  <2> QED BY <2>1, <2>2 DEF MarkNode, IInv, Types, MarksType
<1>3. Idle \in EdRecord /\ AtWork(Idle)
  BY EmptyType, LimitsAssumption DEF Idle, EdRecord, AtWork, Remotes
<1>4. EdsType' /\ EdInv'
  BY <1>3 DEF MarkNode, IInv, Types, EdsType, EdInv
<1>5. JobInv'
  BY DEF MarkNode, IInv, Types, JobInv, JobRecord, MarksType
<1> QED BY <1>1, <1>2, <1>4, <1>5 DEF IInv, Types

(* The steps of the job leave the editors and the panel's marks alone.     *)
LEMMA JobStays == ASSUME IInv, jobUnchanged' = jobUnchanged PROVE EdsType' /\ EdInv'
  BY DEF IInv, Types, EdsType, EdInv, jobUnchanged

LEMMA Resting == ASSUME job'.pc \notin {"rows", "list", "push"} PROVE JobInv'
  BY DEF JobInv

LEMMA LoadStep == ASSUME IInv, Load PROVE IInv'
<1>1. RowsType' /\ MarksType' /\ SetsType'
  BY DEF Load, panel, wire, jobUnchanged, IInv, Types, RowsType, MarksType, SetsType
<1>2. EdsType' /\ EdInv'
  BY JobStays DEF Load
<1>3. JobIdle \in JobRecord /\ gen \in Remotes /\ stamp \in Nat /\ adopted \in BOOLEAN
      /\ allowed \in SUBSET Inbounds
  BY JobIdleType DEF IInv, Types, MarksType, SetsType
<1>4. CASE dirty
  <2>1. job' = [JobIdle EXCEPT !.pc = "rows", !.rt = gen, !.stamp = stamp,
                               !.adopted = adopted, !.allowed = allowed]
    BY <1>4 DEF Load
  <2>2. job' \in JobRecord
    BY <1>3, <2>1 DEF JobRecord, JobSteps
  <2>3. job'.pc = "rows" /\ job'.stamp = stamp
    BY <2>1 DEF JobIdle
  <2>4. JobInv'
    BY <1>1, <1>3, <2>3 DEF Load, panel, JobInv
  <2> QED BY <1>1, <1>2, <2>2, <2>4 DEF IInv, Types
<1>5. CASE ~dirty
  <2>1. job' = [JobIdle EXCEPT !.pc = "fetch", !.allowed = allowed]
    BY <1>5 DEF Load
  <2>2. job' \in JobRecord
    BY <1>3, <2>1 DEF JobRecord, JobSteps
  <2>3. JobInv'
    BY <2>1, Resting DEF JobIdle
  <2> QED BY <1>1, <1>2, <2>2, <2>3 DEF IInv, Types
<1> QED BY <1>4, <1>5

LEMMA ReadRowsStep == ASSUME IInv, ReadRows PROVE IInv'
<1>1. RowsType' /\ MarksType' /\ SetsType'
  BY DEF ReadRows, panel, wire, jobUnchanged, IInv, Types, RowsType, MarksType, SetsType
<1>2. EdsType' /\ EdInv'
  BY JobStays DEF ReadRows
<1>3. (job \in JobRecord)'
  BY DEF ReadRows, IInv, Types, RowsType, JobRecord, JobSteps
<1>4. JobInv'
  BY DEF ReadRows, panel, IInv, Types, JobRecord, JobInv
<1> QED BY <1>1, <1>2, <1>3, <1>4 DEF IInv, Types

LEMMA ListTagsStep == ASSUME IInv, ListTags PROVE IInv'
<1>1. RowsType' /\ MarksType' /\ SetsType'
  BY DEF ListTags, Fault, panel, wire, jobUnchanged, IInv, Types, RowsType, MarksType, SetsType
<1>2. EdsType' /\ EdInv'
  BY JobStays DEF ListTags
<1>3. CASE JobTo("fetch")
  <2>1. job' \in JobRecord /\ JobInv'
    BY <1>3, JobToType, Resting DEF IInv, Types, JobSteps
  <2> QED BY <1>1, <1>2, <2>1 DEF IInv, Types
<1>4. CASE job' = [job EXCEPT !.pc = "push", !.tags = Tags(remote)] /\ fresh' = fresh
  <2>1. job' \in JobRecord
    BY <1>4 DEF IInv, Types, JobRecord, JobSteps, Tags
  <2>2. JobInv'
    BY <1>4 DEF ListTags, panel, IInv, Types, JobRecord, JobInv
  <2> QED BY <1>1, <1>2, <2>1, <2>2 DEF IInv, Types
<1> QED BY <1>3, <1>4 DEF ListTags

LEMMA OfferStep == ASSUME NEW i \in Inbounds, IInv, Offer(i) PROVE IInv'
<1> DEFINE row == Built(job.rows[i])
<1>1. job.rows[i] \in Content /\ row \in Row /\ job.rt \in Remotes /\ NoInbound \in Row
  BY RowsAt, BuiltType, ContentIsRow, EmptyType DEF Offer, IInv, Types, JobRecord
<1>2. /\ remote' \in {remote, [remote EXCEPT ![i] = row]}
      /\ pushed' \in {pushed, [pushed EXCEPT ![job.rt][i] = row]}
      /\ central' = central
  BY DEF Offer, panel, wire
<1>3. RowsType'
  BY <1>1, <1>2 DEF IInv, Types, RowsType, Rows
<1>4. fresh' \in {fresh, fresh \ {i}} /\ faults' \in {faults, faults + 1}
  BY DEF Offer, Fault
<1>5. MarksType' /\ SetsType'
  BY <1>4 DEF Offer, panel, jobUnchanged, IInv, Types, MarksType, SetsType
<1>6. EdsType' /\ EdInv'
  BY JobStays DEF Offer
<1>7. \/ job' = [job EXCEPT !.rows[i] = NoInbound, !.tags = @ \ {i}] /\ fresh' = fresh
      \/ job' = [job EXCEPT !.rows[i] = NoInbound, !.tags = @ \ {i}, !.failed = TRUE]
  BY DEF Offer
<1>8. (job \in JobRecord)'
  <2>1. job \in JobRecord /\ job.rows \in Rows
    BY DEF IInv, Types, JobRecord
  <2>2. [job.rows EXCEPT ![i] = NoInbound] \in Rows
    BY <1>1, <2>1, RowsPut
  <2>3. [job EXCEPT !.rows = [job.rows EXCEPT ![i] = NoInbound], !.tags = @ \ {i}] \in JobRecord
    BY <2>1, <2>2 DEF JobRecord
  <2>4. [job EXCEPT !.rows = [job.rows EXCEPT ![i] = NoInbound], !.tags = @ \ {i}, !.failed = TRUE]
          \in JobRecord
    BY <2>1, <2>2 DEF JobRecord
  <2> QED BY <1>7, <2>3, <2>4
<1>9. JobInv'
  BY <1>7 DEF Offer, panel, IInv, Types, JobRecord, JobInv
<1> QED BY <1>3, <1>5, <1>6, <1>8, <1>9 DEF IInv, Types

LEMMA SweepStep == ASSUME NEW i \in Inbounds, IInv, Sweep(i) PROVE IInv'
<1>1. job.rt \in Remotes /\ NoInbound \in Row
  BY EmptyType DEF IInv, Types, JobRecord
<1>2. /\ remote' \in {remote, [remote EXCEPT ![i] = NoInbound]}
      /\ pushed' \in {pushed, [pushed EXCEPT ![job.rt][i] = NoInbound]}
      /\ central' = central
  BY DEF Sweep, panel, wire
<1>3. RowsType'
  BY <1>1, <1>2 DEF IInv, Types, RowsType, Rows
<1>4. fresh' \in {fresh, fresh \ {i}} /\ faults' \in {faults, faults + 1}
  BY DEF Sweep, Fault
<1>5. MarksType' /\ SetsType'
  BY <1>4 DEF Sweep, panel, jobUnchanged, IInv, Types, MarksType, SetsType
<1>6. EdsType' /\ EdInv'
  BY JobStays DEF Sweep
<1>7. \/ job' = [job EXCEPT !.tags = @ \ {i}] /\ fresh' = fresh
      \/ job' = [job EXCEPT !.tags = @ \ {i}, !.failed = TRUE]
  BY DEF Sweep
<1>8. (job \in JobRecord)'
  BY <1>7 DEF IInv, Types, JobRecord
<1>9. JobInv'
  BY <1>7 DEF Sweep, panel, IInv, Types, JobRecord, JobInv
<1> QED BY <1>3, <1>5, <1>6, <1>8, <1>9 DEF IInv, Types

LEMMA ClearDirtyStep == ASSUME IInv, ClearDirty PROVE IInv'
<1>1. RowsType' /\ EdsType' /\ EdInv'
  BY JobStays DEF ClearDirty, wire, IInv, Types, RowsType
<1>2. MarksType'
  <2>1. dirty' \in BOOLEAN
    BY DEF ClearDirty
  <2> QED BY <2>1 DEF ClearDirty, jobUnchanged, IInv, Types, MarksType
<1>3. SetsType'
  BY DEF ClearDirty, IInv, Types, SetsType
<1>4. job' \in JobRecord /\ JobInv'
  BY JobToType, Resting DEF ClearDirty, IInv, Types, JobSteps
<1> QED BY <1>1, <1>2, <1>3, <1>4 DEF IInv, Types

LEMMA FetchStep == ASSUME IInv, Fetch PROVE IInv'
<1> DEFINE snap == [i \in Inbounds |-> IF i \in job.allowed THEN remote[i] ELSE NoInbound]
<1>1. RowsType' /\ MarksType' /\ SetsType' /\ EdsType' /\ EdInv'
  BY JobStays DEF Fetch, Fault, panel, wire, jobUnchanged, IInv, Types, RowsType, MarksType, SetsType
<1>2. snap \in Rows
  BY RowsAt, EmptyType DEF IInv, Types, RowsType, Rows
<1>3. job' \in {JobIdle, [JobIdle EXCEPT !.pc = "state"], [JobIdle EXCEPT !.pc = "state", !.snap = snap]}
  BY DEF Fetch
<1>4. (job \in JobRecord)'
  <2>1. [JobIdle EXCEPT !.pc = "state"] \in JobRecord
    BY JobIdleType DEF JobRecord, JobSteps
  <2>2. [JobIdle EXCEPT !.pc = "state", !.snap = snap] \in JobRecord
    BY <1>2, JobIdleType DEF JobRecord, JobSteps
  <2> QED BY <1>3, <2>1, <2>2, JobIdleType
<1>5. JobInv'
  <2>1. JobIdle.pc = "idle"
    BY DEF JobIdle
  <2>2. [JobIdle EXCEPT !.pc = "state"].pc = "state"
    BY DEF JobIdle
  <2>3. [JobIdle EXCEPT !.pc = "state", !.snap = snap].pc = "state"
    BY DEF JobIdle
  <2> QED BY <1>3, <2>1, <2>2, <2>3, Resting
<1> QED BY <1>1, <1>4, <1>5 DEF IInv, Types

LEMMA ReadStateStep == ASSUME IInv, ReadState PROVE IInv'
<1>1. RowsType' /\ MarksType' /\ SetsType' /\ EdsType' /\ EdInv'
  BY JobStays DEF ReadState, Fault, panel, wire, jobUnchanged, IInv, Types, RowsType, MarksType, SetsType
<1>2. job' \in {[job EXCEPT !.pc = "merge", !.dirty = dirty], [job EXCEPT !.pc = "merge", !.dirty = FALSE]}
  BY DEF ReadState
<1>3. (job \in JobRecord)'
  <2>1. job \in JobRecord /\ dirty \in BOOLEAN
    BY DEF IInv, Types, MarksType
  <2>2. ASSUME NEW b \in BOOLEAN PROVE [job EXCEPT !.pc = "merge", !.dirty = b] \in JobRecord
    BY <2>1 DEF JobRecord, JobSteps
  <2> QED BY <1>2, <2>1, <2>2
<1>4. JobInv'
  BY <1>2, Resting DEF IInv, Types, JobRecord
<1> QED BY <1>1, <1>3, <1>4 DEF IInv, Types

LEMMA ReadCentralStep == ASSUME IInv, ReadCentral PROVE IInv'
<1>1. RowsType' /\ MarksType' /\ SetsType' /\ EdsType' /\ EdInv'
  BY JobStays DEF ReadCentral, panel, wire, jobUnchanged, IInv, Types, RowsType, MarksType, SetsType
<1>2. job' = [job EXCEPT !.pc = "adopt", !.rows = central]
  BY DEF ReadCentral
<1>3. (job \in JobRecord)' /\ job'.pc = "adopt"
  BY <1>2 DEF IInv, Types, RowsType, JobRecord, JobSteps
<1>4. JobInv'
  BY <1>3, Resting
<1> QED BY <1>1, <1>3, <1>4 DEF IInv, Types

LEMMA MergeStep == ASSUME IInv, Merge PROVE IInv'
<1> DEFINE kept == Tags(job.snap)
           known == Tags(job.rows)
           gone == IF kept = {} THEN {} ELSE known \ kept
           held == {i \in Inbounds : (i \in known) = (central[i] # NoInbound)}
           stamps == [i \in Inbounds |-> IF i \in kept \intersect known /\ job.rows[i] # Adopted(i)
                                         THEN Adopted(i) ELSE pushed[gen][i]]
<1>1. \A i \in kept : Adopted(i) \in Row
  BY AdoptedType, ContentIsRow DEF IInv, Types, Tags
<1>2. central \in Rows /\ NoInbound \in Row
  BY EmptyType DEF IInv, Types, RowsType
<1>3. central' = [i \in Inbounds |-> IF i \in kept \intersect held THEN Adopted(i)
                                     ELSE IF i \in gone THEN NoInbound ELSE central[i]]
  BY DEF Merge
<1>4. central' \in Rows
  <2> HIDE DEF kept, gone, held
  <2> QED BY <1>1, <1>2, <1>3 DEF Rows
<1>5. stamps \in Rows
  <2>1. \A i \in Inbounds : pushed[gen][i] \in Row
    BY DEF IInv, Types, RowsType, MarksType, Rows
  <2> HIDE DEF kept, known
  <2> QED BY <1>1, <2>1 DEF Rows
<1>6. pushed' = [pushed EXCEPT ![gen] = stamps]
  BY DEF Merge
<1>7. RowsType'
  BY <1>4, <1>5, <1>6 DEF Merge, IInv, Types, RowsType
<1>8. MarksType' /\ SetsType' /\ EdsType' /\ EdInv'
  BY JobStays DEF Merge, jobUnchanged, IInv, Types, MarksType, SetsType
<1>9. job' \in JobRecord /\ JobInv'
  BY JobToType, Resting DEF Merge, IInv, Types, JobSteps
<1> QED BY <1>7, <1>8, <1>9 DEF IInv, Types

LEMMA MergeNothingStep == ASSUME IInv, MergeNothing PROVE IInv'
<1>1. RowsType' /\ MarksType' /\ SetsType' /\ EdsType' /\ EdInv'
  BY JobStays DEF MergeNothing, Fault, panel, wire, jobUnchanged, IInv, Types, RowsType, MarksType,
     SetsType
<1>2. job' \in JobRecord /\ JobInv'
  BY JobIdleType, Resting DEF MergeNothing, JobIdle
<1> QED BY <1>1, <1>2 DEF IInv, Types

LEMMA MarkAdoptedStep == ASSUME IInv, MarkAdopted PROVE IInv'
<1>1. RowsType' /\ MarksType' /\ SetsType' /\ EdsType' /\ EdInv'
  BY JobStays DEF MarkAdopted, wire, jobUnchanged, IInv, Types, RowsType, MarksType, SetsType
<1>2. job' \in JobRecord /\ JobInv'
  BY JobIdleType, Resting DEF MarkAdopted, JobIdle
<1> QED BY <1>1, <1>2 DEF IInv, Types

LEMMA HeartbeatStep == ASSUME IInv, Heartbeat PROVE IInv'
<1>1. online' \in BOOLEAN /\ faults' \in Nat
  BY DEF Heartbeat, Fault, IInv, Types, MarksType
<1> QED BY <1>1 DEF Heartbeat, panel, wire, IInv, Types, RowsType, MarksType, SetsType, EdsType,
           EdInv, JobInv

LEMMA ExpireStep == ASSUME NEW c \in Clients, IInv, Expire(c) PROVE IInv'
  BY DEF Expire, wire, IInv, Types, RowsType, MarksType, SetsType, EdsType, EdInv, JobInv

LEMMA LocalEditStep == ASSUME NEW i \in Inbounds, NEW c \in Clients, IInv, LocalEdit(i, c)
                       PROVE  IInv'
<1>1. PICK x \in {NoInbound, [on |-> TRUE, client |-> [d \in Clients |-> "none"]],
                  Put(remote[i], c, "on"), Put(remote[i], c, "none")} :
        remote' = [remote EXCEPT ![i] = x]
  BY DEF LocalEdit
<1>2. remote[i] \in Row
  BY RowsAt DEF IInv, Types, RowsType
<1>3. Put(remote[i], c, "on") \in Row /\ Put(remote[i], c, "none") \in Row
  BY <1>2, PutType
<1>4. [on |-> TRUE, client |-> [d \in Clients |-> "none"]] \in Row
  BY ContentIsRow DEF Content
<1>5. x \in Row
  BY <1>3, <1>4, EmptyType
<1>6. RowsType'
  BY <1>1, <1>5, RowsPut DEF LocalEdit, panel, IInv, Types, RowsType
<1>7. faults' \in Nat
  BY DEF LocalEdit, Fault, IInv, Types, MarksType
<1> QED BY <1>6, <1>7 DEF LocalEdit, panel, IInv, Types, MarksType, SetsType, EdsType, EdInv, JobInv

LEMMA RestartStep == ASSUME IInv, Restart PROVE IInv'
<1>1. RowsType' /\ SetsType'
  BY DEF Restart, wire, IInv, Types, RowsType, SetsType
<1>2. MarksType'
  BY LimitsAssumption DEF Restart, Fault, IInv, Types, MarksType, Remotes
<1>3. Idle \in EdRecord /\ AtWork(Idle)
  BY EmptyType, LimitsAssumption DEF Idle, EdRecord, AtWork, Remotes
<1>4. EdsType' /\ EdInv'
  BY <1>3 DEF Restart, EdsType, EdInv
<1>5. job' \in JobRecord /\ JobInv'
  BY JobIdleType, Resting DEF Restart, JobIdle
<1> QED BY <1>1, <1>2, <1>4, <1>5 DEF IInv, Types

LEMMA Step == IInv /\ [Next]_vars => IInv'
<1> SUFFICES ASSUME IInv, [Next]_vars PROVE IInv'
  OBVIOUS
<1>1. ASSUME NEW e \in Editors, NEW kind \in Kinds, NEW i \in Inbounds, NEW c \in Clients,
             Read(e, kind, i, c) PROVE IInv'
  BY <1>1, ReadStep
<1>2. ASSUME NEW e \in Editors, EditStep(e) \/ SaveNode(e) PROVE IInv'
  BY <1>2, WriteStep, PushStep, NextInboundStep, ConflictStep, SaveNodeStep, MarkNodeStep
     DEF EditStep
<1>3. CASE JobStep
  <2>1. ASSUME NEW i \in Inbounds, Offer(i) \/ Sweep(i) PROVE IInv'
    BY <2>1, OfferStep, SweepStep
  <2> QED BY <1>3, <2>1, LoadStep, ReadRowsStep, ListTagsStep, ClearDirtyStep, FetchStep,
             ReadStateStep, ReadCentralStep, MergeStep, MergeNothingStep, MarkAdoptedStep DEF JobStep
<1>4. ASSUME NEW c \in Clients, Expire(c) PROVE IInv'
  BY <1>4, ExpireStep
<1>5. ASSUME NEW i \in Inbounds, NEW c \in Clients, LocalEdit(i, c) PROVE IInv'
  BY <1>5, LocalEditStep
<1>6. CASE UNCHANGED vars
  BY <1>6 DEF vars, panel, wire, IInv, Types, RowsType, MarksType, SetsType, EdsType, EdInv, JobInv
<1> QED BY <1>1, <1>2, <1>3, <1>4, <1>5, <1>6, HeartbeatStep, RestartStep DEF Next

LEMMA Inductive == Spec => []IInv
  BY Initially, Step, PTL DEF Spec

(* Every variable keeps its type.                                          *)
THEOREM TypeCorrect == Spec => []TypeOK
<1>1. IInv => TypeOK
  BY DEF IInv, Types, RowsType, MarksType, SetsType, JobRecord, EdsType, EdRecord, TypeOK
<1> QED BY <1>1, Inductive, PTL

-----------------------------------------------------------------------------
(* Where inbounds are created enabled, an edit the panel committed stays   *)
(* marked for the node until a reconcile that read the row after it went   *)
(* through without an error.                                               *)
THEOREM EditsOwed == ASSUME Creates \subseteq {TRUE} PROVE Spec => []EditsStayOwed
<1>1. Init => EditsStayOwed
  BY DEF Init, EditsStayOwed
<1>2. IInv /\ EditsStayOwed /\ [Next]_vars => EditsStayOwed'
  <2> SUFFICES ASSUME IInv, EditsStayOwed, [Next]_vars PROVE EditsStayOwed'
    OBVIOUS
  <2>1. CASE UNCHANGED <<dirty, owed>>
    BY <2>1 DEF EditsStayOwed
  <2>2. ASSUME NEW e \in Editors, Write(e) PROVE EditsStayOwed'
    BY <2>2 DEF Write, EditsStayOwed
  <2>3. ASSUME NEW e \in Editors, SaveNode(e) \/ MarkNode(e) PROVE EditsStayOwed'
    BY <2>3 DEF SaveNode, MarkNode, EditsStayOwed
  <2>4. CASE ClearDirty
    <3>1. CASE job.stamp = stamp /\ ~job.failed
      <4>1. owed \subseteq fresh
        BY <2>4, <3>1 DEF ClearDirty, IInv, Types, SetsType, JobInv
      <4>2. owed' = {}
        BY <2>4, <3>1, <4>1 DEF ClearDirty
      <4> QED BY <4>2 DEF EditsStayOwed
    <3>2. CASE ~(job.stamp = stamp /\ ~job.failed)
      <4>1. owed' = owed /\ dirty' = dirty
        BY <2>4, <3>2 DEF ClearDirty, IInv, Types, MarksType
      <4> QED BY <4>1 DEF EditsStayOwed
    <3> QED BY <3>1, <3>2
  <2>5. ASSUME NEW e \in Editors, NEW kind \in Kinds, NEW i \in Inbounds, NEW c \in Clients,
               Read(e, kind, i, c) PROVE EditsStayOwed'
    BY <2>1, <2>5 DEF Read
  <2>6. ASSUME NEW e \in Editors, Push(e) \/ NextInbound(e) \/ Conflict(e) PROVE EditsStayOwed'
    BY <2>1, <2>6 DEF Push, NextInbound, Conflict, panel
  <2>7. ASSUME NEW i \in Inbounds, Offer(i) \/ Sweep(i) PROVE EditsStayOwed'
    BY <2>1, <2>7 DEF Offer, Sweep, panel
  <2>8. CASE Load \/ ReadRows \/ ListTags \/ Fetch \/ ReadState \/ ReadCentral \/ MergeNothing
    BY <2>1, <2>8 DEF Load, ReadRows, ListTags, Fetch, ReadState, ReadCentral, MergeNothing, panel
  <2>9. CASE Merge \/ MarkAdopted \/ Heartbeat \/ Restart
    BY <2>1, <2>9 DEF Merge, MarkAdopted, Heartbeat, Restart, panel
  <2>10. ASSUME NEW c \in Clients, Expire(c) PROVE EditsStayOwed'
    BY <2>1, <2>10 DEF Expire
  <2>11. ASSUME NEW i \in Inbounds, NEW c \in Clients, LocalEdit(i, c) PROVE EditsStayOwed'
    BY <2>1, <2>11 DEF LocalEdit, panel
  <2>12. CASE UNCHANGED vars
    BY <2>1, <2>12 DEF vars, panel
  <2> QED BY <2>2, <2>3, <2>4, <2>5, <2>6, <2>7, <2>8, <2>9, <2>10, <2>11, <2>12
          DEF Next, JobStep, EditStep
<1> QED BY <1>1, <1>2, Inductive, PTL DEF Spec

(* Before the first clean merge, and outside the selection, only an        *)
(* administrator's own deletion takes an inbound off the node.             *)
THEOREM NodeKeepsOwn == Spec => NodeKeepsItsOwn
<1> DEFINE Kept == \A i \in Inbounds :
     remote[i] # NoInbound /\ remote'[i] = NoInbound =>
       \/ adopted /\ i \in job.allowed
       \/ \E e \in Editors : ed[e].pc = "push" /\ ed[e].kind = "drop" /\ ed[e].i = i
       \/ job' = job /\ ed' = ed
<1>1. IInv /\ [Next]_vars => [Kept]_vars
  <2> SUFFICES ASSUME IInv, Next PROVE Kept
    OBVIOUS
  <2>1. CASE remote' = remote
    BY <2>1
  <2>2. ASSUME NEW e \in Editors, Push(e) PROVE Kept
    <3>1. ed[e] \in EdRecord /\ AtWork(ed[e]) /\ ed[e].pc = "push"
      BY <2>2 DEF Push, IInv, Types, EdsType, EdInv
    <3>2. remote' = remote \/ remote' = PushedRows(ed[e])
      BY <2>2 DEF Push, wire
    <3>3. \A j \in Inbounds : remote[j] # NoInbound /\ PushedRows(ed[e])[j] = NoInbound =>
            ed[e].kind \notin Locked \union {"toggle"} /\ ed[e].i = j
      BY <3>1, PushedRowsType DEF IInv, Types
    <3>4. ed[e].kind \in Kinds /\ ed[e].kind \notin {"save", "create"}
      BY <3>1 DEF AtWork
    <3> QED BY <3>1, <3>2, <3>3, <3>4, KindsAssumption DEF Locked
  <2>3. ASSUME NEW k \in Inbounds, Offer(k) PROVE Kept
    <3>1. Built(job.rows[k]) # NoInbound
      BY <2>3, RowsAt, BuiltType, ContentIsRow DEF Offer, IInv, Types, JobRecord
    <3>2. remote' = remote \/ remote' = [remote EXCEPT ![k] = Built(job.rows[k])]
      BY <2>3 DEF Offer, wire
    <3> QED BY <3>1, <3>2 DEF IInv, Types, RowsType, Rows
  <2>4. ASSUME NEW k \in Inbounds, Sweep(k) PROVE Kept
    <3>1. job.pc = "push"
      BY <2>4 DEF Sweep
    <3>2. remote' = remote \/ (Swept(k) /\ remote' = [remote EXCEPT ![k] = NoInbound])
      BY <2>4 DEF Sweep
    <3>3. Swept(k) => adopted /\ k \in job.allowed
      BY <3>1 DEF Swept, IInv, JobInv
    <3> QED BY <3>2, <3>3 DEF IInv, Types, RowsType, Rows
  <2>5. CASE Load \/ ReadRows \/ ListTags \/ ClearDirty \/ Fetch \/ ReadState \/ ReadCentral \/ Merge
             \/ MergeNothing \/ MarkAdopted
    BY <2>1, <2>5 DEF Load, ReadRows, ListTags, ClearDirty, Fetch, ReadState, ReadCentral, Merge,
       MergeNothing, MarkAdopted, wire
  <2>6. ASSUME NEW i \in Inbounds, NEW c \in Clients, LocalEdit(i, c) PROVE Kept
    BY <2>6 DEF LocalEdit
  <2>7. CASE Heartbeat \/ Restart
    BY <2>1, <2>7 DEF Heartbeat, Restart, wire
  <2>8. ASSUME NEW e \in Editors, NEW kind \in Kinds, NEW i \in Inbounds, NEW c \in Clients,
               Read(e, kind, i, c) PROVE Kept
    BY <2>1, <2>8 DEF Read, wire
  <2>9. ASSUME NEW e \in Editors,
               Write(e) \/ NextInbound(e) \/ Conflict(e) \/ SaveNode(e) \/ MarkNode(e) PROVE Kept
    BY <2>1, <2>9 DEF Write, NextInbound, Conflict, SaveNode, MarkNode, wire
  <2>10. ASSUME NEW c \in Clients, Expire(c) PROVE Kept
    BY <2>1, <2>10 DEF Expire, wire
  <2> QED BY <2>2, <2>3, <2>4, <2>5, <2>6, <2>7, <2>8, <2>9, <2>10 DEF Next, JobStep, EditStep
<1> QED BY <1>1, Inductive, PTL DEF Spec, NodeKeepsItsOwn

(* While its tombstone lives, a client gone from a row the panel keeps     *)
(* comes back only by an edit at the panel.                                *)
THEOREM DeletedOut == Spec => DeletedStaysOut
<1> DEFINE Out == \A i \in Inbounds, c \in Clients :
     c \in tomb /\ central[i] # NoInbound /\ ~Has(central[i], c) /\ Has(central'[i], c)
       => stamp' # stamp
<1>1. IInv /\ [Next]_vars => [Out]_vars
  <2> SUFFICES ASSUME IInv, Next PROVE Out
    OBVIOUS
  <2>1. CASE central' = central
    BY <2>1
  <2>2. ASSUME NEW e \in Editors, Write(e) PROVE Out
    BY <2>2, WriteStep DEF IInv, Types, MarksType
  <2>3. CASE Merge
    <3> SUFFICES ASSUME NEW i \in Inbounds, NEW c \in tomb, central[i] # NoInbound, ~Has(central[i], c)
                 PROVE  ~Has(central'[i], c)
      OBVIOUS
    <3>1. CASE central'[i] \in {central[i], NoInbound}
      BY <3>1 DEF Has
    <3>2. CASE i \in Tags(job.snap) /\ job.rows[i] # NoInbound /\ central'[i] = Adopted(i)
      <4>1. job.snap[i] \in Content /\ c \in Clients
        BY <3>2, RowsAt DEF Tags, IInv, Types, JobRecord, SetsType
      <4>2. Adopted(i) = [job.snap[i] EXCEPT !.client =
                           [d \in Clients |-> IF d \in tomb THEN "none" ELSE job.snap[i].client[d]]]
        BY <3>2 DEF Adopted
      <4>3. Adopted(i).client[c] = "none"
        BY <4>1, <4>2 DEF Content
      <4> QED BY <3>2, <4>3 DEF Has
    <3> QED BY <2>3, <3>1, <3>2 DEF Merge, Tags
  <2>4. ASSUME NEW i \in Inbounds, Offer(i) \/ Sweep(i) PROVE Out
    BY <2>1, <2>4 DEF Offer, Sweep, panel
  <2>5. CASE Load \/ ReadRows \/ ListTags \/ ClearDirty \/ Fetch \/ ReadState \/ ReadCentral
             \/ MergeNothing \/ MarkAdopted
    BY <2>1, <2>5 DEF Load, ReadRows, ListTags, ClearDirty, Fetch, ReadState, ReadCentral,
       MergeNothing, MarkAdopted, panel
  <2>6. ASSUME NEW i \in Inbounds, NEW c \in Clients, LocalEdit(i, c) PROVE Out
    BY <2>1, <2>6 DEF LocalEdit, panel
  <2>7. CASE Heartbeat \/ Restart
    BY <2>1, <2>7 DEF Heartbeat, Restart, panel
  <2>8. ASSUME NEW e \in Editors, NEW kind \in Kinds, NEW i \in Inbounds, NEW c \in Clients,
               Read(e, kind, i, c) PROVE Out
    BY <2>1, <2>8 DEF Read
  <2>9. ASSUME NEW e \in Editors,
               Push(e) \/ NextInbound(e) \/ Conflict(e) \/ SaveNode(e) \/ MarkNode(e) PROVE Out
    BY <2>1, <2>9 DEF Push, NextInbound, Conflict, SaveNode, MarkNode, panel
  <2>10. ASSUME NEW c \in Clients, Expire(c) PROVE Out
    BY <2>1, <2>10 DEF Expire
  <2> QED BY <2>2, <2>3, <2>4, <2>5, <2>6, <2>7, <2>8, <2>9, <2>10 DEF Next, JobStep, EditStep
<1> QED BY <1>1, Inductive, PTL DEF Spec, DeletedStaysOut
=============================================================================
