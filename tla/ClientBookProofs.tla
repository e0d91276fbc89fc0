-------------------------- MODULE ClientBookProofs --------------------------
(***************************************************************************)
(* For any inbounds, clients, requests, quota and bounds: links follow the *)
(* settings, counted usage is lost only on purpose, a deletion leaves no   *)
(* entry behind, and an edit of one client moves no other.                 *)
(***************************************************************************)
EXTENDS ClientBook, TLAPS

(* TypeOK, by the groups of variables that steps leave alone together.     *)
Rows == [Inbounds -> Row]
Records == [Clients -> Record \union {Nothing}]
Accounts == [Clients -> Account \union {Nothing}]
BookType ==
  /\ list \in Rows /\ link \subseteq Inbounds \X Clients
  /\ record \in Records /\ made \in [Clients -> Nat]
RestType ==
  /\ core \subseteq Inbounds \X Clients /\ restart \in BOOLEAN /\ loading \in BOOLEAN
  /\ now \in Nat /\ begun \in Nat /\ faults \in Nat /\ raced \subseteq Clients
Request ==
  [pc : Steps, op : Ops \union {"none"}, c : Clients \union {Nothing}, id : Nat,
   form : Entry \union {Nothing}, keep : BOOLEAN, left : SUBSET Inbounds,
   resets : SUBSET Inbounds, i : Inbounds \union {0}, row : Row \union {Nothing},
   was : BOOLEAN, drops : BOOLEAN, live : BOOLEAN, failed : BOOLEAN]
Types == BookType /\ traffic \in Accounts /\ RestType /\ req \in [Requests -> Request]

(* A request at work knows its client, what it is going to write, and,     *)
(* where it holds a lock, the inbound and the settings it will save.       *)
AtWork(o) ==
  /\ o.pc # "idle" => o.c \in Clients /\ o.op \in Ops
  /\ o.pc # "idle" /\ o.op \in Adds \union {"update", "reset", "setEnable"} => o.form \in Entry
  /\ o.pc \in Held => o.i \in Inbounds /\ o.row \in Row
  /\ o.pc \in {"purge", "cut"} => o.op = "bulkDelete"
ReqInv == \A r \in Requests : AtWork(req[r])

IInv == Types /\ ReqInv /\ LinksFollowList

-----------------------------------------------------------------------------
(* What the helpers return.                                                *)
LEMMA NothingElse == /\ \A x \in Entry : x # Nothing
                     /\ \A x \in Record : x # Nothing
                     /\ \A x \in Account : x # Nothing
  BY NothingAssumption

LEMMA LeastIn == ASSUME NEW I \in SUBSET Inbounds, I # {} PROVE Least(I) \in I
  BY OrderAssumption DEF Least

LEMMA GreatestIn == ASSUME NEW I \in SUBSET Inbounds, I # {} PROVE Greatest(I) \in I
  BY OrderAssumption DEF Greatest

LEMMA RowsAt == ASSUME NEW rows \in Rows, NEW i \in Inbounds, NEW c \in Clients
                PROVE  /\ rows[i] \in Row /\ rows[i][c] \in Entry \union {Nothing}
                       /\ rows[i][c] # Nothing => rows[i][c] \in Entry
  BY DEF Rows, Row

LEMMA SyncedLinksType ==
  ASSUME NEW rows \in Rows, NEW I \in SUBSET Inbounds, link \subseteq Inbounds \X Clients
  PROVE  /\ SyncedLinks(rows, I) \subseteq Inbounds \X Clients
         /\ \A l \in SyncedLinks(rows, I) :
              \/ l \in link /\ l[1] \notin I
              \/ l[1] \in I /\ l[2] \in Clients /\ rows[l[1]][l[2]] # Nothing
         /\ \A i \in Inbounds, c \in Clients :
              rows[i][c] # Nothing /\ (i \in I \/ <<i, c>> \in link) => <<i, c>> \in SyncedLinks(rows, I)
<1>1. SyncedLinks(rows, I) \subseteq Inbounds \X Clients
  BY DEF SyncedLinks
<1>2. \A l \in SyncedLinks(rows, I) :
        \/ l \in link /\ l[1] \notin I
        \/ l[1] \in I /\ l[2] \in Clients /\ rows[l[1]][l[2]] # Nothing
  BY DEF SyncedLinks
<1>3. ASSUME NEW i \in Inbounds, NEW c \in Clients, rows[i][c] # Nothing, i \in I \/ <<i, c>> \in link
      PROVE  <<i, c>> \in SyncedLinks(rows, I)
  BY <1>3 DEF SyncedLinks
<1> QED BY <1>1, <1>2, <1>3

LEMMA SyncedRecordsType ==
  ASSUME NEW rows \in Rows, NEW I \in SUBSET Inbounds, record \in Records, made \in [Clients -> Nat]
  PROVE  /\ SyncedRecords(rows, I) \in Records
         /\ SyncedMade(rows, I) \in [Clients -> Nat]
         /\ \A c \in Clients : record[c] # Nothing => SyncedRecords(rows, I)[c] # Nothing
         /\ \A c \in Clients, i \in I : rows[i][c] # Nothing => SyncedRecords(rows, I)[c] # Nothing
<1> DEFINE new(c) == LET J == Hosts(rows, I, c) IN
             [id  |-> IF record[c] = Nothing THEN made[c] + 1 ELSE record[c].id,
              on  |-> rows[Greatest(J)][c].on,
              exp |-> rows[Greatest(J)][c].exp]
<1>1. \A c \in Clients : SyncedRecords(rows, I)[c] = IF Hosts(rows, I, c) = {} THEN record[c] ELSE new(c)
  BY DEF SyncedRecords
<1>2. ASSUME NEW c \in Clients, Hosts(rows, I, c) # {} PROVE new(c) \in Record
  <2> DEFINE k == Greatest(Hosts(rows, I, c))
  <2>1. k \in Inbounds /\ rows[k][c] # Nothing
    <3>1. Hosts(rows, I, c) \in SUBSET Inbounds
      BY DEF Hosts
    <3>2. k \in Hosts(rows, I, c)
      BY <1>2, <3>1, GreatestIn
    <3> QED BY <3>1, <3>2 DEF Hosts
  <2>2. rows[k][c] \in Entry
    BY <2>1, RowsAt
  <2>3. record[c] = Nothing \/ record[c] \in Record
    BY DEF Records
  <2>4. made[c] + 1 \in Nat
    OBVIOUS
  <2> QED BY <2>2, <2>3, <2>4 DEF Entry, Record
<1>3. SyncedRecords(rows, I) \in Records
  <2>1. \A c \in Clients : SyncedRecords(rows, I)[c] \in Record \union {Nothing}
    BY <1>1, <1>2 DEF Records
  <2> QED BY <2>1 DEF SyncedRecords, Records
<1>4. SyncedMade(rows, I) \in [Clients -> Nat]
  BY DEF SyncedMade
<1>5. \A c \in Clients : record[c] # Nothing => SyncedRecords(rows, I)[c] # Nothing
  BY <1>1, <1>2, NothingElse
<1>6. \A c \in Clients, i \in I : rows[i][c] # Nothing => SyncedRecords(rows, I)[c] # Nothing
  <2>1. \A c \in Clients, i \in I : rows[i][c] # Nothing => Hosts(rows, I, c) # {}
    BY DEF Hosts
  <2> QED BY <1>1, <1>2, <2>1, NothingElse
<1> QED BY <1>3, <1>4, <1>5, <1>6

LEMMA IdleType == Idle \in Request /\ AtWork(Idle) /\ Idle.pc = "idle"
  BY DEF Idle, Request, AtWork, Steps, Held

LEMMA PassedType == ASSUME NEW o \in Request, NEW i, AtWork(o), o.pc # "idle"
                    PROVE  Passed(o, i) \in Request /\ AtWork(Passed(o, i))
<1>1. Passed(o, i) \in Request
  BY DEF Passed, Request, Steps
<1>2. AtWork(Passed(o, i))
  BY DEF Passed, Request, AtWork, Held
<1> QED BY <1>1, <1>2

LEMMA FailedType == ASSUME NEW o \in Request, AtWork(o), NEW b \in BOOLEAN
                    PROVE  [o EXCEPT !.failed = b] \in Request /\ AtWork([o EXCEPT !.failed = b])
<1>1. [o EXCEPT !.failed = b] \in Request
  BY DEF Request
<1>2. AtWork([o EXCEPT !.failed = b])
  BY DEF Request, AtWork
<1> QED BY <1>1, <1>2

LEMMA EndedType == ASSUME NEW o \in Request, AtWork(o), o.pc # "idle"
                   PROVE  Ended(o) \in Request /\ AtWork(Ended(o))
<1>1. [o EXCEPT !.pc = "reset", !.left = {}] \in Request
  BY DEF Request, Steps
<1>2. AtWork([o EXCEPT !.pc = "reset", !.left = {}])
  BY DEF Request, AtWork, Held
<1> QED BY <1>1, <1>2, IdleType DEF Ended

LEMMA CompactedType == ASSUME NEW row \in Row PROVE Compacted(row) \in Row
  BY DEF Compacted, Row

LEMMA NewRowType == ASSUME NEW o \in Request, AtWork(o), o.pc # "idle", NEW row \in Row,
                           o.op = "setEnable" => row[o.c] # Nothing
                    PROVE  NewRow(o, row) \in Row
<1>1. o.c \in Clients /\ Compacted(row) \in Row
  BY CompactedType DEF AtWork
<1>2. CASE o.op \in Adds \union {"update", "reset"}
  BY <1>1, <1>2 DEF AtWork, NewRow, Row, Adds
<1>3. CASE o.op = "setEnable"
  <2>1. row[o.c] \in Entry /\ o.form \in Entry
    BY <1>1, <1>3 DEF AtWork, Row
  <2>2. [row[o.c] EXCEPT !.on = o.form.on] \in Entry
    BY <2>1 DEF Entry
  <2> QED BY <1>1, <1>3, <2>2 DEF NewRow, Row, Adds
<1>4. CASE o.op \notin Adds \union {"update", "reset", "setEnable"}
  BY <1>1, <1>4 DEF NewRow, Row
<1> QED BY <1>2, <1>3, <1>4

LEMMA NewAccountType == ASSUME NEW o \in Request, AtWork(o), o.pc \in Held, traffic \in Accounts
                        PROVE  NewAccount(o) \in Account \union {Nothing}
<1>1. o.c \in Clients /\ o.i \in Inbounds /\ traffic[o.c] \in Account \union {Nothing}
  BY DEF AtWork, Held, Accounts
<1>2. 0 \in 0..Quota
  BY LimitsAssumption
<1>3. CASE o.op \in Adds
  <2>1. o.form \in Entry
    BY <1>3 DEF AtWork, Held
  <2>2. Accounted(o) \in Account
    BY <1>1, <1>2, <2>1 DEF Accounted, Account, Entry
  <2> QED BY <1>3, <2>2 DEF NewAccount, Adds
<1>4. CASE o.op \in {"update", "reset"} /\ traffic[o.c] # Nothing
  <2>1. o.form \in Entry
    BY <1>4 DEF AtWork, Held
  <2>2. [traffic[o.c] EXCEPT !.on = o.form.on, !.exp = o.form.exp] \in Account
    BY <1>1, <1>4, <2>1 DEF Account, Entry
  <2> QED BY <1>4, <2>2 DEF NewAccount, Adds
<1>5. CASE o.op \notin Adds /\ ~(o.op \in {"update", "reset"} /\ traffic[o.c] # Nothing)
  BY <1>1, <1>5 DEF NewAccount
<1> QED BY <1>3, <1>4, <1>5

LEMMA LaterType == ASSUME NEW exp \in Nat, now \in Nat, exp <= now PROVE Later(exp) \in Nat
<1>1. Period \in Nat \ {0} /\ now - exp + Period - 1 \in Nat
  BY LimitsAssumption
<1>2. ASSUME NEW a \in Nat, NEW b \in Nat \ {0} PROVE a \div b \in Nat
  OBVIOUS
<1>3. ASSUME NEW a \in Nat, NEW b \in Nat PROVE a * b \in Nat
  OBVIOUS
<1>4. Period * ((now - exp + Period - 1) \div Period) \in Nat
  BY <1>1, <1>2, <1>3
<1> QED BY <1>4 DEF Later

-----------------------------------------------------------------------------
(* Every step keeps the invariant.                                         *)
LEMMA Initially == Init => IInv
<1> SUFFICES ASSUME Init PROVE IInv
  OBVIOUS
<1>1. PICK at \in [Clients -> Places] :
       /\ list = [i \in Inbounds |-> [c \in Clients |->
            IF i \in at[c] THEN [on |-> TRUE, exp |-> 1] ELSE Nothing]]
       /\ link = {l \in Inbounds \X Clients : l[1] \in at[l[2]]}
       /\ core = link
       /\ record = [c \in Clients |-> IF c \in {d \in Clients : at[d] # {}}
            THEN [id |-> 1, on |-> TRUE, exp |-> 1] ELSE Nothing]
       /\ traffic = [c \in Clients |-> IF c \in {d \in Clients : at[d] # {}}
            THEN [on |-> TRUE, exp |-> 1, used |-> 0,
                  owner |-> [d \in Clients |-> Greatest(at[d])][c]] ELSE Nothing]
       /\ made = [c \in Clients |-> IF c \in {d \in Clients : at[d] # {}} THEN 1 ELSE 0]
  BY DEF Init
<1>2. /\ raced = {} /\ restart = FALSE /\ loading = FALSE
      /\ req = [r \in Requests |-> Idle] /\ now = 0 /\ begun = 0 /\ faults = 0
  BY Zenon DEF Init
<1>3. [on |-> TRUE, exp |-> 1] \in Entry /\ [id |-> 1, on |-> TRUE, exp |-> 1] \in Record
  BY DEF Entry, Record
<1>4. list \in Rows
  BY <1>1, <1>3 DEF Rows, Row
<1>5. BookType
  BY <1>1, <1>3, <1>4 DEF BookType, Records
<1>6. traffic \in Accounts
  <2>1. ASSUME NEW c \in Clients, at[c] # {}
        PROVE  [on |-> TRUE, exp |-> 1, used |-> 0, owner |-> Greatest(at[c])] \in Account
    <3>1. Greatest(at[c]) \in Inbounds
      BY <1>1, <2>1, SetsAssumption, GreatestIn
    <3> QED BY <3>1, LimitsAssumption DEF Account
  <2> QED BY <1>1, <2>1 DEF Accounts
<1>7. RestType
  BY <1>1, <1>2 DEF RestType
<1>8. req \in [Requests -> Request] /\ ReqInv
  BY <1>2, IdleType DEF ReqInv
<1>9. LinksFollowList
  <2>1. \A c \in Clients, i \in Inbounds : i \in at[c] => record[c] # Nothing /\ list[i][c] # Nothing
    BY <1>1, <1>3, NothingElse
  <2> QED BY <1>1, <2>1 DEF LinksFollowList
<1> QED BY <1>5, <1>6, <1>7, <1>8, <1>9 DEF IInv, Types

(* A request that moves on, in a step that leaves the book alone.          *)
LEMMA ReqMoves == ASSUME IInv, NEW r \in Requests, NEW o \in Request, AtWork(o),
                         req' = [req EXCEPT ![r] = o]
                  PROVE  (req \in [Requests -> Request])' /\ ReqInv'
  BY DEF IInv, Types, ReqInv

LEMMA BookStays == ASSUME IInv, UNCHANGED book PROVE BookType' /\ LinksFollowList'
  BY DEF IInv, Types, book, BookType, LinksFollowList

LEMMA OrderType ==
  ASSUME IInv, NEW op \in Ops, NEW c \in Clients, NEW I \in SUBSET Inbounds, NEW form \in Entry \union {Nothing},
         NEW keep \in BOOLEAN, op \in Adds \union {"update", "reset", "setEnable"} => form \in Entry
  PROVE  /\ Order(op, c, I, form, keep) \in Request /\ AtWork(Order(op, c, I, form, keep))
         /\ Order(op, c, I, form, keep).pc = "next" /\ Order(op, c, I, form, keep).op = op
<1>1. (IF record[c] = Nothing THEN 0 ELSE record[c].id) \in Nat
  BY DEF IInv, Types, BookType, Records, Record
<1>2. Order(op, c, I, form, keep) \in Request
  BY <1>1 DEF Order, Request, Steps
<1>3. AtWork(Order(op, c, I, form, keep))
  BY DEF Order, AtWork, Held
<1>4. Order(op, c, I, form, keep).pc = "next" /\ Order(op, c, I, form, keep).op = op
  BY DEF Order
<1> QED BY <1>2, <1>3, <1>4

LEMMA BeginsStep == ASSUME IInv, NEW r \in Requests, NEW o \in Request, AtWork(o), Begins(r, o)
                    PROVE  IInv'
<1>1. BookType' /\ LinksFollowList'
  BY BookStays DEF Begins
<1>2. (traffic \in Accounts)' /\ RestType'
  BY DEF Begins, IInv, Types, RestType
<1>3. (req \in [Requests -> Request])' /\ ReqInv'
  BY ReqMoves DEF Begins
<1> QED BY <1>1, <1>2, <1>3 DEF IInv, Types

LEMMA LinkedType == ASSUME NEW c PROVE Linked(c) \in SUBSET Inbounds
  BY DEF Linked

LEMMA BeginStep == ASSUME IInv, NEW r \in Requests, NEW c \in Clients, Begin(r, c) PROVE IInv'
<1>1. ASSUME NEW on \in BOOLEAN, NEW exp \in Nat PROVE [on |-> on, exp |-> exp] \in Entry
  BY DEF Entry
<1>2. Expiries \subseteq Nat /\ 0 \in Nat
  BY SetsAssumption
<1>3. CASE Create(r, c)
  <2>1. PICK I \in (SUBSET Inbounds) \ {{}}, exp \in Expiries :
          Begins(r, Order("create", c, I, [on |-> TRUE, exp |-> exp], FALSE))
    BY <1>3 DEF Create
  <2>2. "create" \in Ops
    BY <2>1 DEF Begins, Order
  <2> QED BY <1>1, <1>2, <2>1, <2>2, OrderType, BeginsStep
<1>4. CASE Attach(r, c)
  <2>1. PICK I \in SUBSET (Inbounds \ Linked(c)) :
          record[c] # Nothing /\ Begins(r, Order("attach", c, I, Copy(c), FALSE))
    BY <1>4 DEF Attach
  <2>2. "attach" \in Ops
    BY <2>1 DEF Begins, Order
  <2>3. Copy(c) \in Entry
    BY <2>1 DEF Copy, IInv, Types, BookType, Records, Record, Entry
  <2>4. I \in SUBSET Inbounds
    OBVIOUS
  <2> QED BY <2>1, <2>2, <2>3, <2>4, OrderType, BeginsStep
<1>5. CASE Detach(r, c)
  <2>1. PICK I \in SUBSET Linked(c) : Begins(r, Order("detach", c, I, Nothing, TRUE))
    BY <1>5 DEF Detach
  <2>2. "detach" \in Ops /\ "detach" \notin Adds \union {"update", "reset", "setEnable"}
    BY <2>1 DEF Begins, Order, Adds
  <2>3. I \in SUBSET Inbounds
    BY LinkedType
  <2> QED BY <2>1, <2>2, <2>3, OrderType, BeginsStep
<1>6. CASE Delete(r, c)
  <2>1. PICK op \in Deletes, keep \in BOOLEAN : Begins(r, Order(op, c, Linked(c), Nothing, keep))
    BY <1>6 DEF Delete
  <2>2. op \in Ops /\ op \notin Adds \union {"update", "reset", "setEnable"}
    BY <2>1 DEF Begins, Order, Adds, Deletes
  <2> QED BY <2>1, <2>2, LinkedType, OrderType, BeginsStep
<1>7. CASE Update(r, c)
  <2>1. PICK on \in BOOLEAN, exp \in Expiries :
          Begins(r, Order("update", c, Linked(c), [on |-> on, exp |-> exp], FALSE))
    BY <1>7 DEF Update
  <2>2. "update" \in Ops
    BY <2>1 DEF Begins, Order
  <2> QED BY <1>1, <1>2, <2>1, <2>2, LinkedType, OrderType, BeginsStep
<1>8. CASE SetEnable(r, c)
  <2>1. PICK on \in BOOLEAN : Begins(r, Order("setEnable", c, Linked(c), [on |-> on, exp |-> 0], FALSE))
    BY <1>8 DEF SetEnable
  <2>2. "setEnable" \in Ops
    BY <2>1 DEF Begins, Order
  <2> QED BY <1>1, <1>2, <2>1, <2>2, LinkedType, OrderType, BeginsStep
<1>9. CASE Reset(r, c)
  <2>1. PICK o : /\ o = Order("reset", c, Linked(c), [on |-> TRUE, exp |-> record[c].exp], FALSE)
                 /\ record[c] # Nothing
                 /\ Begins(r, [o EXCEPT !.resets = Linked(c),
                                       !.pc = IF record[c].on THEN "reset" ELSE "next"])
    BY <1>9 DEF Reset
  <2>2. \A step : [o EXCEPT !.resets = Linked(c), !.pc = step].op = "reset"
    BY <2>1 DEF Order
  <2>3. "reset" \in Ops
    BY <2>1, <2>2 DEF Begins
  <2>4. [on |-> TRUE, exp |-> record[c].exp] \in Entry
    BY <1>1, <2>1 DEF IInv, Types, BookType, Records, Record
  <2>5. o \in Request /\ AtWork(o) /\ o.pc = "next"
    <3>1. record[c].id \in Nat /\ Linked(c) \in SUBSET Inbounds
      BY <2>1, LinkedType DEF IInv, Types, BookType, Records, Record
    <3>2. o \in Request /\ o.pc = "next"
      BY <2>1, <2>3, <2>4, <3>1 DEF Order, Request, Steps
    <3>3. AtWork(o)
      BY <2>1, <2>3, <2>4 DEF Order, AtWork, Held
    <3> QED BY <3>2, <3>3
  <2>6. ASSUME NEW step \in {"reset", "next"}
        PROVE  LET p == [o EXCEPT !.resets = Linked(c), !.pc = step]
               IN  p \in Request /\ AtWork(p)
    <3>1. [o EXCEPT !.resets = Linked(c), !.pc = step] \in Request
      BY <2>5, LinkedType DEF Request, Steps
    <3>2. AtWork([o EXCEPT !.resets = Linked(c), !.pc = step])
      BY <2>5 DEF Request, AtWork, Held
    <3> QED BY <3>1, <3>2
  <2> QED BY <2>1, <2>6, BeginsStep
<1> QED BY <1>3, <1>4, <1>5, <1>6, <1>7, <1>8, <1>9 DEF Begin

LEMMA ResetAllStep == ASSUME IInv, ResetAll PROVE IInv'
<1>1. BookType' /\ LinksFollowList'
  BY BookStays DEF ResetAll
<1>2. (traffic \in Accounts)'
  <2>1. \A x \in Account : [x EXCEPT !.on = TRUE, !.used = 0] \in Account
    <3>1. 0 \in 0..Quota
      BY LimitsAssumption
    <3> QED BY <3>1 DEF Account
  <2>2. \A c \in Clients : traffic[c] = Nothing \/ traffic[c] \in Account
    BY DEF IInv, Types, Accounts
  <2> QED BY <2>1, <2>2 DEF ResetAll, Accounts
<1>3. RestType'
  <2>1. restart' = TRUE /\ begun' = begun + 1 /\ UNCHANGED <<core, loading, now, faults, raced>>
    BY DEF ResetAll
  <2> QED BY <2>1 DEF IInv, Types, RestType
<1>4. (req \in [Requests -> Request])' /\ ReqInv'
  BY DEF ResetAll, IInv, Types, ReqInv
<1> QED BY <1>1, <1>2, <1>3, <1>4 DEF IInv, Types

LEMMA TakeStep == ASSUME IInv, NEW r \in Requests, NEW i \in Inbounds, Take(r, i) PROVE IInv'
<1> DEFINE o == req[r]
           entry == list[i][o.c]
           missed == entry = Nothing /\ o.op \in {"setEnable", "bulkDelete"}
           found == [o EXCEPT !.i = i, !.row = NewRow(o, list[i]), !.was = On(entry),
                              !.drops = entry # Nothing /\ Drops(o, i), !.live = On(traffic[o.c]),
                              !.failed = @ \/ missed]
           step == IF o.op # "bulkDelete" THEN "commit" ELSE IF found.drops THEN "purge" ELSE "cut"
           next == IF Fails(o, entry) THEN Ended(o)
                   ELSE IF Skips(o, entry) THEN [Passed(o, i) EXCEPT !.failed = o.failed \/ missed]
                   ELSE [found EXCEPT !.pc = step]
<1>1. BookType' /\ LinksFollowList' /\ (traffic \in Accounts)' /\ RestType'
  <2>1. UNCHANGED <<book, traffic, core, restart, loading, now, begun, faults, raced>>
    BY DEF Take
  <2>2. BookType' /\ LinksFollowList'
    BY <2>1, BookStays
  <2> QED BY <2>1, <2>2 DEF IInv, Types, RestType
<1>2. o \in Request /\ AtWork(o) /\ o.pc = "next" /\ o.c \in Clients
  BY DEF Take, IInv, Types, ReqInv, AtWork
<1>3. Ended(o) \in Request /\ AtWork(Ended(o))
  BY <1>2, EndedType
<1>4. LET p == [Passed(o, i) EXCEPT !.failed = o.failed \/ missed] IN p \in Request /\ AtWork(p)
  <2>1. Passed(o, i) \in Request /\ AtWork(Passed(o, i))
    BY <1>2, PassedType
  <2>2. (o.failed \/ missed) \in BOOLEAN
    OBVIOUS
  <2> QED BY <2>1, <2>2, FailedType
<1>5. ~Skips(o, entry) => LET p == [found EXCEPT !.pc = step] IN p \in Request /\ AtWork(p)
  <2> SUFFICES ASSUME ~Skips(o, entry)
               PROVE  LET p == [found EXCEPT !.pc = step] IN p \in Request /\ AtWork(p)
    OBVIOUS
  <2>1. list[i] \in Row
    BY DEF IInv, Types, BookType, Rows
  <2>2. o.op = "setEnable" => list[i][o.c] # Nothing
    BY DEF Skips, Adds
  <2>3. NewRow(o, list[i]) \in Row
    BY <1>2, <2>1, <2>2, NewRowType
  <2>4. On(entry) \in BOOLEAN /\ On(traffic[o.c]) \in BOOLEAN
    <3>1. entry \in Entry \union {Nothing} /\ traffic[o.c] \in Account \union {Nothing}
      BY <1>2, <2>1 DEF Row, IInv, Types, Accounts
    <3> QED BY <3>1 DEF On, Entry, Account
  <2>5. (entry # Nothing /\ Drops(o, i)) \in BOOLEAN /\ (o.failed \/ missed) \in BOOLEAN
    OBVIOUS
  <2>6. step \in {"commit", "purge", "cut"} /\ (step # "commit" => o.op = "bulkDelete")
    OBVIOUS
  <2> HIDE DEF step
  <2>7. PICK row \in Row, was \in BOOLEAN, drops \in BOOLEAN, live \in BOOLEAN, failed \in BOOLEAN :
          /\ row = NewRow(o, list[i]) /\ was = On(entry) /\ live = On(traffic[o.c])
          /\ drops = (entry # Nothing /\ Drops(o, i)) /\ failed = (o.failed \/ missed)
    BY <2>3, <2>4, <2>5
  <2> DEFINE q == [o EXCEPT !.i = i, !.row = row, !.was = was, !.drops = drops, !.live = live,
                            !.failed = failed]
             p == [q EXCEPT !.pc = step]
  <2>8. [found EXCEPT !.pc = step] = p
    BY <2>7
  <2>9. q \in Request /\ q.i = i /\ q.row = row /\ q.c = o.c /\ q.op = o.op /\ q.form = o.form
    <3>1. \A x \in Request : [x EXCEPT !.i = i, !.row = row] \in Request
      BY DEF Request
    <3>2. \A x \in Request : [x EXCEPT !.was = was, !.drops = drops] \in Request
      BY DEF Request
    <3>3. \A x \in Request : [x EXCEPT !.live = live, !.failed = failed] \in Request
      BY DEF Request
    <3> DEFINE x == [o EXCEPT !.i = i, !.row = row]
               y == [x EXCEPT !.was = was, !.drops = drops]
               z == [y EXCEPT !.live = live, !.failed = failed]
    <3>4. z \in Request
      BY <1>2, <3>1, <3>2, <3>3
    <3>5. q = z
      OBVIOUS
    <3>6. q.i = i /\ q.row = row /\ q.c = o.c /\ q.op = o.op /\ q.form = o.form
      BY <1>2 DEF Request
    <3> QED BY <3>4, <3>5, <3>6
  <2> HIDE DEF q
  <2>10. p \in Request
    BY <2>6, <2>9 DEF Request, Steps
  <2>11. p.pc = step /\ p.i = i /\ p.row = row /\ p.c = o.c /\ p.op = o.op /\ p.form = o.form
    BY <2>9 DEF Request
  <2>12. AtWork(p)
    BY <1>2, <2>6, <2>11 DEF AtWork, Held
  <2> HIDE DEF p
  <2> QED BY <2>8, <2>10, <2>12
<1>6. req' = [req EXCEPT ![r] = next]
  BY DEF Take
<1>7. next \in Request /\ AtWork(next)
  BY <1>3, <1>4, <1>5
<1> HIDE DEF next
<1>8. (req \in [Requests -> Request])' /\ ReqInv'
  BY <1>6, <1>7, ReqMoves
<1> QED BY <1>1, <1>8 DEF IInv, Types

(* A request on its way from one step to the next.                         *)
LEMMA PcType == ASSUME NEW o \in Request, AtWork(o), NEW pc \in Steps, o.pc # "idle", pc # "idle",
                       pc \in Held => o.pc \in Held, pc \notin {"purge", "cut"} \/ o.op = "bulkDelete"
                PROVE  [o EXCEPT !.pc = pc] \in Request /\ AtWork([o EXCEPT !.pc = pc])
<1>1. [o EXCEPT !.pc = pc] \in Request
  BY DEF Request
<1>2. AtWork([o EXCEPT !.pc = pc])
  BY DEF Request, AtWork
<1> QED BY <1>1, <1>2

LEMMA CallsType == ASSUME RestType, NEW users \in SUBSET (Inbounds \X Clients), Calls(users)
                   PROVE  core' \subseteq Inbounds \X Clients /\ restart' \in BOOLEAN /\ faults' \in Nat
<1>1. CASE core' = users /\ UNCHANGED <<restart, faults>>
  BY <1>1 DEF RestType
<1>2. CASE Fault /\ restart' = TRUE /\ core' \in {core, users}
  <2>1. faults' \in Nat
    BY <1>2 DEF Fault, RestType
  <2>2. core' \subseteq Inbounds \X Clients
    BY <1>2 DEF RestType
  <2> QED BY <1>2, <2>1, <2>2
<1> QED BY <1>1, <1>2 DEF Calls

LEMMA CallsRest == ASSUME RestType, NEW users \in SUBSET (Inbounds \X Clients), Calls(users),
                          UNCHANGED <<now, begun, raced>>, loading' \in BOOLEAN
                   PROVE  RestType'
  BY CallsType DEF RestType

LEMMA AccountDropped == ASSUME traffic \in Accounts, NEW c,
                               traffic' \in {traffic, [traffic EXCEPT ![c] = Nothing]}
                        PROVE  (traffic \in Accounts)'
  BY DEF Accounts

LEMMA PurgeStep == ASSUME IInv, NEW r \in Requests, Purge(r) PROVE IInv'
<1> DEFINE o == req[r]
<1>1. o \in Request /\ AtWork(o) /\ o.pc = "purge" /\ o.op = "bulkDelete"
  BY DEF Purge, IInv, Types, ReqInv, AtWork
<1>2. BookType' /\ LinksFollowList'
  BY BookStays DEF Purge
<1>3. (traffic \in Accounts)'
  BY AccountDropped DEF Purge, IInv, Types
<1>4. RestType'
  BY DEF Purge, Fault, IInv, Types, RestType
<1>5. [o EXCEPT !.pc = "cut"] \in Request /\ AtWork([o EXCEPT !.pc = "cut"])
  BY <1>1, PcType DEF Steps, Held
<1>6. LET p == [o EXCEPT !.pc = "commit", !.failed = TRUE] IN p \in Request /\ AtWork(p)
  <2>1. [o EXCEPT !.pc = "commit", !.failed = TRUE] \in Request
    BY <1>1 DEF Request, Steps
  <2>2. AtWork([o EXCEPT !.pc = "commit", !.failed = TRUE])
    BY <1>1 DEF Request, AtWork, Held
  <2> QED BY <2>1, <2>2
<1>7. \/ req' = [req EXCEPT ![r] = [o EXCEPT !.pc = "cut"]]
      \/ req' = [req EXCEPT ![r] = [o EXCEPT !.pc = "commit", !.failed = TRUE]]
  BY DEF Purge
<1>8. (req \in [Requests -> Request])' /\ ReqInv'
  BY <1>5, <1>6, <1>7, ReqMoves
<1> QED BY <1>2, <1>3, <1>4, <1>8 DEF IInv, Types

LEMMA CutStep == ASSUME IInv, NEW r \in Requests, Cut(r) PROVE IInv'
<1> DEFINE o == req[r]
           users == IF o.was /\ o.live THEN core \ {<<o.i, o.c>>} ELSE core
<1>1. o \in Request /\ AtWork(o) /\ o.pc = "cut" /\ o.op = "bulkDelete"
  BY DEF Cut, IInv, Types, ReqInv, AtWork
<1>2. BookType' /\ LinksFollowList'
  BY BookStays DEF Cut
<1>3. users \in SUBSET (Inbounds \X Clients)
  BY DEF IInv, Types, RestType
<1>4. Calls(users) /\ UNCHANGED <<traffic, loading, now, begun, raced>>
  BY DEF Cut
<1>5. RestType' /\ (traffic \in Accounts)'
  BY <1>3, <1>4, CallsRest DEF IInv, Types, RestType
<1>6. [o EXCEPT !.pc = "commit"] \in Request /\ AtWork([o EXCEPT !.pc = "commit"])
  BY <1>1, PcType DEF Steps, Held
<1>7. req' = [req EXCEPT ![r] = [o EXCEPT !.pc = "commit"]]
  BY DEF Cut
<1>8. (req \in [Requests -> Request])' /\ ReqInv'
  BY <1>6, <1>7, ReqMoves
<1> QED BY <1>2, <1>5, <1>8 DEF IInv, Types

LEMMA ApiStep == ASSUME IInv, NEW r \in Requests, Api(r) PROVE IInv'
<1> DEFINE o == req[r]
           user == {<<o.i, o.c>>}
           users == IF o.form # Nothing /\ o.form.on THEN core \union user
                    ELSE IF o.was THEN core \ user ELSE core
<1>1. o \in Request /\ AtWork(o) /\ o.pc = "api" /\ o.i \in Inbounds /\ o.c \in Clients
  BY DEF Api, IInv, Types, ReqInv, AtWork, Held
<1>2. BookType' /\ LinksFollowList'
  BY BookStays DEF Api
<1>3. users \in SUBSET (Inbounds \X Clients)
  BY <1>1 DEF IInv, Types, RestType
<1>4. Calls(users) /\ UNCHANGED <<traffic, loading, now, begun, raced>>
  BY DEF Api
<1> HIDE DEF users
<1>5. RestType' /\ (traffic \in Accounts)'
  BY <1>3, <1>4, CallsRest DEF IInv, Types, RestType
<1>6. Passed(o, o.i) \in Request /\ AtWork(Passed(o, o.i))
  BY <1>1, PassedType
<1>7. req' = [req EXCEPT ![r] = Passed(o, o.i)]
  BY DEF Api
<1>8. (req \in [Requests -> Request])' /\ ReqInv'
  BY <1>6, <1>7, ReqMoves
<1> QED BY <1>2, <1>5, <1>8 DEF IInv, Types

LEMMA CommitStep == ASSUME IInv, NEW r \in Requests, Commit(r) PROVE IInv'
<1> DEFINE o == req[r]
           rows == [list EXCEPT ![o.i] = o.row]
<1>1. o \in Request /\ AtWork(o) /\ o.pc = "commit" /\ o.i \in Inbounds /\ o.c \in Clients /\ o.row \in Row
  BY DEF Commit, IInv, Types, ReqInv, AtWork, Held
<1>2. RestType'
  <2>1. /\ faults' = faults \/ faults' = faults + 1
        /\ raced' \in {raced, raced \union {o.c}}
        /\ UNCHANGED <<core, restart, loading, now, begun>>
    BY DEF Commit, Fault
  <2> QED BY <1>1, <2>1 DEF IInv, Types, RestType
<1>3. Passed(o, o.i) \in Request /\ AtWork(Passed(o, o.i))
  BY <1>1, PassedType
<1>4. CASE UNCHANGED <<book, traffic>> /\
           req' = [req EXCEPT ![r] =
             IF o.op \in Deletes \union {"setEnable"} THEN [Passed(o, o.i) EXCEPT !.failed = TRUE]
             ELSE Ended(o)]
  <2>1. BookType' /\ LinksFollowList' /\ (traffic \in Accounts)'
    BY <1>4, BookStays DEF IInv, Types
  <2>2. LET p == [Passed(o, o.i) EXCEPT !.failed = TRUE] IN p \in Request /\ AtWork(p)
    BY <1>3, FailedType
  <2>3. Ended(o) \in Request /\ AtWork(Ended(o))
    BY <1>1, EndedType
  <2>4. (req \in [Requests -> Request])' /\ ReqInv'
    BY <1>4, <2>2, <2>3, ReqMoves
  <2> QED BY <1>2, <2>1, <2>4 DEF IInv, Types
<1>5. CASE /\ traffic' = [traffic EXCEPT ![o.c] = NewAccount(o)]
           /\ list' = rows
           /\ link' = SyncedLinks(rows, {o.i})
           /\ record' = SyncedRecords(rows, {o.i})
           /\ made' = SyncedMade(rows, {o.i})
           /\ req' = [req EXCEPT ![r] = IF o.op = "bulkDelete" THEN Passed(o, o.i)
                                        ELSE [o EXCEPT !.pc = "api"]]
  <2>1. rows \in Rows /\ {o.i} \in SUBSET Inbounds
    BY <1>1 DEF IInv, Types, BookType, Rows
  <2>2. link \subseteq Inbounds \X Clients /\ record \in Records /\ made \in [Clients -> Nat]
    BY DEF IInv, Types, BookType
  <2>3. /\ SyncedLinks(rows, {o.i}) \subseteq Inbounds \X Clients
        /\ \A l \in SyncedLinks(rows, {o.i}) :
             \/ l \in link /\ l[1] \notin {o.i}
             \/ l[1] \in {o.i} /\ l[2] \in Clients /\ rows[l[1]][l[2]] # Nothing
    BY <2>1, <2>2, SyncedLinksType
  <2>4. /\ SyncedRecords(rows, {o.i}) \in Records
        /\ SyncedMade(rows, {o.i}) \in [Clients -> Nat]
        /\ \A c \in Clients : record[c] # Nothing => SyncedRecords(rows, {o.i})[c] # Nothing
        /\ \A c \in Clients, i \in {o.i} : rows[i][c] # Nothing => SyncedRecords(rows, {o.i})[c] # Nothing
    BY <2>1, <2>2, SyncedRecordsType
  <2>5. BookType'
    BY <1>5, <2>1, <2>3, <2>4 DEF BookType
  <2>6. LinksFollowList'
    <3> SUFFICES ASSUME NEW l \in link'
                 PROVE  record'[l[2]] # Nothing /\ list'[l[1]][l[2]] # Nothing
      BY DEF LinksFollowList
    <3>1. CASE l \in link /\ l[1] # o.i
      <4>1. record[l[2]] # Nothing /\ list[l[1]][l[2]] # Nothing /\ l[2] \in Clients
        BY <3>1, <2>2 DEF IInv, LinksFollowList
      <4>2. list'[l[1]] = list[l[1]]
        BY <1>5, <3>1, <2>2 DEF IInv, Types, BookType, Rows
      <4> QED BY <1>5, <2>4, <4>1, <4>2
    <3>2. CASE l[1] = o.i /\ l[2] \in Clients /\ rows[l[1]][l[2]] # Nothing
      BY <1>5, <2>4, <3>2
    <3> QED BY <1>5, <2>3, <3>1, <3>2
  <2>7. (traffic \in Accounts)'
    <3>1. NewAccount(o) \in Account \union {Nothing}
      BY <1>1, NewAccountType DEF Held, IInv, Types
    <3> QED BY <1>5, <3>1 DEF IInv, Types, Accounts
  <2>8. [o EXCEPT !.pc = "api"] \in Request /\ AtWork([o EXCEPT !.pc = "api"])
    BY <1>1, PcType DEF Steps, Held
  <2>9. (req \in [Requests -> Request])' /\ ReqInv'
    BY <1>3, <1>5, <2>8, ReqMoves
  <2> QED BY <1>2, <2>5, <2>6, <2>7, <2>9 DEF IInv, Types
<1> QED BY <1>4, <1>5 DEF Commit

LEMMA FinishDeleteStep == ASSUME IInv, NEW r \in Requests, FinishDelete(r) PROVE IInv'
<1> DEFINE o == req[r]
<1>1. (req \in [Requests -> Request])' /\ ReqInv'
  BY IdleType, ReqMoves DEF FinishDelete
<1>2. RestType'
  BY DEF FinishDelete, Fault, IInv, Types, RestType
<1>3. CASE UNCHANGED <<record, link, traffic>>
  <2>1. UNCHANGED book
    BY <1>3 DEF FinishDelete, book
  <2> QED BY <1>1, <1>2, <1>3, <2>1, BookStays DEF IInv, Types
<1>4. CASE /\ record' \in {record, [record EXCEPT ![o.c] = Nothing]}
           /\ record' = record => link' = link
           /\ record' # record => link' = {l \in link : l[2] # o.c}
           /\ traffic' \in {traffic, [traffic EXCEPT ![o.c] = Nothing]}
  <2>1. list' = list /\ made' = made
    BY DEF FinishDelete
  <2>2. BookType'
    BY <1>4, <2>1 DEF IInv, Types, BookType, Records
  <2>3. (traffic \in Accounts)'
    BY <1>4, AccountDropped DEF IInv, Types
  <2>4. LinksFollowList'
    <3> SUFFICES ASSUME NEW l \in link'
                 PROVE  record'[l[2]] # Nothing /\ list'[l[1]][l[2]] # Nothing
      BY DEF LinksFollowList
    <3>1. l \in link /\ record[l[2]] # Nothing /\ list[l[1]][l[2]] # Nothing
      BY <1>4 DEF IInv, LinksFollowList
    <3>2. record' # record => l[2] # o.c
      BY <1>4
    <3>3. record'[l[2]] = record[l[2]]
      BY <1>4, <3>2 DEF IInv, Types, BookType, Records
    <3> QED BY <2>1, <3>1, <3>3
  <2> QED BY <1>1, <1>2, <2>2, <2>3, <2>4 DEF IInv, Types
<1>5. \/ UNCHANGED <<record, link, traffic>>
      \/ /\ record' \in {record, [record EXCEPT ![o.c] = Nothing]}
         /\ record' = record => link' = link
         /\ record' # record => link' = {l \in link : l[2] # o.c}
         /\ traffic' \in {traffic, [traffic EXCEPT ![o.c] = Nothing]}
  <2> DEFINE is == record[o.c] # Nothing /\ record[o.c].id = o.id
  <2>1. CASE UNCHANGED <<record, link, traffic>>
    BY <2>1
  <2>2. CASE /\ record' = IF is THEN [record EXCEPT ![o.c] = Nothing] ELSE record
             /\ link' = IF is THEN {l \in link : l[2] # o.c} ELSE link
             /\ traffic' = IF o.keep THEN traffic ELSE [traffic EXCEPT ![o.c] = Nothing]
    <3>1. is => record' # record
      <4>1. o.c \in Clients
        BY DEF FinishDelete, Over, IInv, ReqInv, AtWork
      <4> QED BY <2>2, <4>1 DEF IInv, Types, BookType, Records
    <3> QED BY <2>2, <3>1
  <2> QED BY <2>1, <2>2 DEF FinishDelete
<1> QED BY <1>3, <1>4, <1>5

LEMMA FinishSwitchStep == ASSUME IInv, NEW r \in Requests, FinishSwitch(r) PROVE IInv'
<1> DEFINE o == req[r]
<1>1. o \in Request /\ AtWork(o) /\ o.pc # "idle" /\ o.c \in Clients /\ o.form \in Entry
  BY DEF FinishSwitch, Over, IInv, Types, ReqInv, AtWork
<1>2. (req \in [Requests -> Request])' /\ ReqInv'
  BY <1>1, EndedType, ReqMoves DEF FinishSwitch
<1>3. RestType'
  BY DEF FinishSwitch, Fault, IInv, Types, RestType
<1>4. /\ record' = record \/ (record[o.c] # Nothing /\ record' = [record EXCEPT ![o.c].on = o.form.on])
      /\ traffic' = traffic \/ (traffic[o.c] # Nothing /\ traffic' = [traffic EXCEPT ![o.c].on = o.form.on])
      /\ UNCHANGED <<list, link, made>>
  BY DEF FinishSwitch
<1>5. \A x \in Record : [x EXCEPT !.on = o.form.on] \in Record
  BY <1>1 DEF Record, Entry
<1>6. \A x \in Account : [x EXCEPT !.on = o.form.on] \in Account
  BY <1>1 DEF Account, Entry
<1>7. record' \in Records /\ \A c \in Clients : record[c] # Nothing => record'[c] # Nothing
  BY <1>1, <1>4, <1>5, NothingElse DEF IInv, Types, BookType, Records
<1>8. (traffic \in Accounts)'
  BY <1>1, <1>4, <1>6 DEF IInv, Types, Accounts
<1>9. BookType'
  BY <1>4, <1>7 DEF IInv, Types, BookType
<1>10. LinksFollowList'
  BY <1>4, <1>7 DEF IInv, Types, BookType, LinksFollowList
<1> QED BY <1>2, <1>3, <1>8, <1>9, <1>10 DEF IInv, Types

LEMMA FinishRestStep == ASSUME IInv, NEW r \in Requests, FinishRest(r) PROVE IInv'
<1>1. (req \in [Requests -> Request])' /\ ReqInv'
  BY IdleType, ReqMoves DEF FinishRest
<1>2. BookType' /\ LinksFollowList'
  BY BookStays DEF FinishRest
<1>3. (traffic \in Accounts)' /\ RestType'
  BY DEF FinishRest, IInv, Types, RestType
<1> QED BY <1>1, <1>2, <1>3 DEF IInv, Types

LEMMA ResetRowStep == ASSUME IInv, NEW r \in Requests, ResetRow(r) PROVE IInv'
<1> DEFINE o == req[r]
           i == Least(o.resets)
           rest == o.resets \ {i}
           users == IF ~traffic[o.c].on /\ On(list[i][o.c]) THEN core \union {<<i, o.c>>} ELSE core
<1>1. o \in Request /\ AtWork(o) /\ o.pc = "reset" /\ o.c \in Clients
  BY DEF ResetRow, IInv, Types, ReqInv, AtWork
<1>2. BookType' /\ LinksFollowList'
  BY BookStays DEF ResetRow
<1>3. (traffic \in Accounts)'
  <2>1. \A x \in Account : [x EXCEPT !.on = TRUE, !.used = 0] \in Account
    <3>1. 0 \in 0..Quota
      BY LimitsAssumption
    <3> QED BY <3>1 DEF Account
  <2>2. traffic[o.c] \in Account \union {Nothing}
    BY <1>1 DEF IInv, Types, Accounts
  <2>3. \/ traffic' = traffic
        \/ traffic[o.c] # Nothing /\ traffic' = [traffic EXCEPT ![o.c] = [@ EXCEPT !.on = TRUE, !.used = 0]]
    BY DEF ResetRow
  <2> QED BY <1>1, <2>1, <2>2, <2>3 DEF IInv, Types, Accounts
<1>4. RestType'
  <2>1. CASE UNCHANGED <<core, restart, faults>>
    BY <2>1 DEF ResetRow, IInv, Types, RestType
  <2>2. CASE o.resets # {} /\ Calls(users)
    <3>1. i \in Inbounds
      BY <1>1, <2>2, LeastIn DEF Request
    <3>2. users \in SUBSET (Inbounds \X Clients)
      BY <1>1, <3>1 DEF IInv, Types, RestType
    <3> HIDE DEF users
    <3>3. UNCHANGED <<now, begun, raced>> /\ loading' \in BOOLEAN
      BY DEF ResetRow, IInv, Types, RestType
    <3> QED BY <2>2, <3>2, <3>3, CallsRest DEF IInv, Types
  <2> QED BY <2>1, <2>2 DEF ResetRow
<1>5. [o EXCEPT !.resets = rest] \in Request /\ AtWork([o EXCEPT !.resets = rest])
  <2>1. rest \in SUBSET Inbounds
    BY <1>1 DEF Request
  <2> HIDE DEF rest
  <2>2. [o EXCEPT !.resets = rest] \in Request
    BY <1>1, <2>1 DEF Request
  <2>3. AtWork([o EXCEPT !.resets = rest])
    BY <1>1 DEF Request, AtWork
  <2> QED BY <2>2, <2>3
<1>6. \/ req' = [req EXCEPT ![r] = Idle]
      \/ req' = [req EXCEPT ![r] = [o EXCEPT !.resets = rest]]
  BY DEF ResetRow
<1> HIDE DEF rest
<1>7. (req \in [Requests -> Request])' /\ ReqInv'
  BY <1>5, <1>6, IdleType, ReqMoves
<1> QED BY <1>2, <1>3, <1>4, <1>7 DEF IInv, Types

LEMMA LoadStep == ASSUME IInv, Load PROVE IInv'
<1>1. BookType' /\ LinksFollowList'
  BY BookStays DEF Load
<1>2. core' \subseteq Inbounds \X Clients
  BY DEF Load, Wanted, IInv, Types, BookType
<1>3. RestType'
  BY <1>2 DEF Load, IInv, Types, RestType
<1>4. (traffic \in Accounts)' /\ (req \in [Requests -> Request])' /\ ReqInv'
  BY DEF Load, IInv, Types, ReqInv
<1> QED BY <1>1, <1>3, <1>4 DEF IInv, Types

LEMMA TickStep == ASSUME IInv, Tick PROVE IInv'
<1>1. BookType' /\ LinksFollowList'
  BY BookStays DEF Tick
<1>2. RestType'
  BY DEF Tick, IInv, Types, RestType
<1>3. (traffic \in Accounts)' /\ (req \in [Requests -> Request])' /\ ReqInv'
  BY DEF Tick, IInv, Types, ReqInv
<1> QED BY <1>1, <1>2, <1>3 DEF IInv, Types

(* The poll loses usage only to a renewal, that is after the expiry.       *)
LEMMA PollStep ==
  ASSUME IInv, NEW S, Poll(S), UNCHANGED <<req, now, begun, raced>>, loading' \in BOOLEAN
  PROVE  /\ IInv'
         /\ \A c \in Clients : traffic[c] # Nothing =>
              traffic'[c] # Nothing /\ (traffic'[c].used >= traffic[c].used \/ traffic[c].exp <= now)
         /\ \A i \in Inbounds, c \in Clients : list[i][c] = Nothing <=> list'[i][c] = Nothing
         /\ \A i \in Inbounds, c \in Clients :
              list[i][c] # Nothing /\ <<i, c>> \in link => <<i, c>> \in link'
<1>1. PICK way \in {Smooth} \union Rough : PollGoes(S, way)
  BY DEF Poll
<1> DEFINE
     counted == [c \in Clients |->
       IF c \in S /\ traffic[c] # Nothing /\ traffic[c].used < Quota
       THEN [traffic[c] EXCEPT !.used = @ + 1] ELSE traffic[c]]
     due == {c \in Renewing : /\ counted[c] # Nothing /\ counted[c].exp <= now
                              /\ Linked(c) # {}}
     I == IF way.renews = "nothing" THEN {} ELSE UNION {Linked(c) : c \in due}
     ren == {c \in due : Hosts(list, I, c) # {}}
     wake == {<<Least(Hosts(list, I, c)), c>> : c \in {d \in ren : ~counted[d].on}}
     rows == [i \in Inbounds |-> [c \in Clients |->
       IF i \in I /\ c \in ren /\ list[i][c] # Nothing
       THEN [on |-> list[i][c].on \/ <<i, c>> \in wake, exp |-> Later(counted[c].exp)]
       ELSE list[i][c]]]
     renewed == [c \in Clients |->
       IF c \in ren /\ way.renews # "entries"
       THEN [counted[c] EXCEPT !.on = TRUE, !.used = 0, !.exp = Later(@)]
       ELSE counted[c]]
     synced == I \ {way.unsynced}
     links == SyncedLinks(list, synced)
     records == SyncedRecords(rows, synced)
     spent == IF way.cuts = "nothing" THEN {} ELSE {c \in Clients : Depleted(renewed[c])}
     cut == {l \in links : l[2] \in spent}
     marked == {l \in cut : l[1] # way.unmarked}
     off == IF way.cuts = "entries" THEN {} ELSE spent
     offRecords == IF way.cuts = "all" THEN spent ELSE {}
     Written ==
       /\ traffic' = [c \in Clients |-> IF c \in off THEN [renewed[c] EXCEPT !.on = FALSE]
                                        ELSE renewed[c]]
       /\ list' = [i \in Inbounds |-> [c \in Clients |->
            IF <<i, c>> \in marked /\ rows[i][c] # Nothing THEN [rows[i][c] EXCEPT !.on = FALSE]
            ELSE rows[i][c]]]
       /\ record' = [c \in Clients |-> IF c \in offRecords /\ records[c] # Nothing
                                       THEN [records[c] EXCEPT !.on = FALSE] ELSE records[c]]
       /\ made' = SyncedMade(list, synced)
       /\ link' = links
     users == (core \union (IF way.renews = "all" THEN wake ELSE {})) \ cut
<1>2. Written \/ UNCHANGED <<book, traffic>>
  BY <1>1, Zenon DEF PollGoes, Counted, Spent, SwitchedOff
<1>3. \/ Calls(users)
      \/ Fault /\ core' = users /\ UNCHANGED restart
  <2>1. \/ way = Smooth /\ Calls(users)
        \/ /\ way # Smooth /\ Fault
           /\ due # {} \/ (way.renews = "all" /\ way.unsynced = 0)
           /\ {c \in Clients : Depleted(renewed[c])} # {} \/ (way.cuts = "all" /\ way.unmarked = 0)
           /\ core' = users /\ UNCHANGED restart
    BY <1>1, Zenon DEF PollGoes, Counted, Spent
  <2> HIDE DEF users
  <2> QED BY <2>1
<1>4. /\ list \in Rows /\ link \subseteq Inbounds \X Clients /\ record \in Records
      /\ made \in [Clients -> Nat] /\ traffic \in Accounts /\ core \subseteq Inbounds \X Clients /\ now \in Nat
  BY DEF IInv, Types, BookType, RestType
<1>5. Quota \in Nat /\ 0 \in 0..Quota
  BY LimitsAssumption
<1>6. ASSUME NEW c \in Clients
      PROVE  /\ counted[c] \in Account \union {Nothing}
             /\ traffic[c] = Nothing <=> counted[c] = Nothing
             /\ traffic[c] # Nothing => counted[c].used >= traffic[c].used /\ counted[c].exp = traffic[c].exp
  <2>1. counted[c] = IF c \in S /\ traffic[c] # Nothing /\ traffic[c].used < Quota
                     THEN [traffic[c] EXCEPT !.used = @ + 1] ELSE traffic[c]
    OBVIOUS
  <2>2. traffic[c] \in Account \union {Nothing}
    BY <1>4 DEF Accounts
  <2>3. \A x \in Account : x.used < Quota =>
          /\ [x EXCEPT !.used = @ + 1] \in Account
          /\ [x EXCEPT !.used = @ + 1].used >= x.used /\ [x EXCEPT !.used = @ + 1].exp = x.exp
    BY <1>5 DEF Account
  <2>4. \A x \in Account : x.used >= x.used
    BY <1>5 DEF Account
  <2> QED BY <2>1, <2>2, <2>3, <2>4, NothingElse
<1> HIDE DEF counted
<1>7. due \subseteq Clients /\ I \in SUBSET Inbounds /\ ren \subseteq due
  <2>1. \A c : Linked(c) \in SUBSET Inbounds
    BY LinkedType
  <2> QED BY <2>1, SetsAssumption
<1>8. \A c \in due : counted[c] \in Account /\ counted[c].exp <= now
  BY <1>6, <1>7
<1> HIDE DEF due, I
<1>9. wake \subseteq Inbounds \X Clients
  <2>1. ASSUME NEW c \in ren PROVE Least(Hosts(list, I, c)) \in Inbounds
    <3>1. Hosts(list, I, c) \in SUBSET Inbounds /\ Hosts(list, I, c) # {}
      BY <1>7 DEF Hosts
    <3> QED BY <3>1, LeastIn
  <2> QED BY <1>7, <2>1
<1> HIDE DEF wake
<1>10. \A c \in due : Later(counted[c].exp) \in Nat
  BY <1>4, <1>8, LaterType DEF Account
<1>11. ASSUME NEW i \in Inbounds, NEW c \in Clients
      PROVE  /\ rows[i][c] \in Entry \union {Nothing}
             /\ list[i][c] = Nothing <=> rows[i][c] = Nothing
  <2>1. list[i][c] \in Entry \union {Nothing}
    BY <1>4, RowsAt
  <2>2. CASE i \in I /\ c \in ren /\ list[i][c] # Nothing
    <3>1. rows[i][c] = [on |-> list[i][c].on \/ <<i, c>> \in wake, exp |-> Later(counted[c].exp)]
      BY <2>2
    <3>2. (list[i][c].on \/ <<i, c>> \in wake) \in BOOLEAN
      OBVIOUS
    <3>3. rows[i][c] \in Entry
      BY <1>7, <1>10, <2>2, <3>1, <3>2 DEF Entry
    <3> QED BY <2>2, <3>3, NothingElse
  <2>3. CASE ~(i \in I /\ c \in ren /\ list[i][c] # Nothing)
    <3>1. rows[i][c] = list[i][c]
      BY <2>3
    <3> QED BY <2>1, <3>1
  <2> QED BY <2>2, <2>3
<1>12. rows \in Rows
  BY <1>11 DEF Rows, Row
<1>13. ASSUME NEW c \in Clients
       PROVE  /\ renewed[c] \in Account \union {Nothing}
              /\ traffic[c] # Nothing =>
                   renewed[c] # Nothing /\ (renewed[c].used >= traffic[c].used \/ traffic[c].exp <= now)
  <2>1. CASE c \in ren /\ way.renews # "entries"
    <3>1. renewed[c] = [counted[c] EXCEPT !.on = TRUE, !.used = 0, !.exp = Later(counted[c].exp)]
      BY <2>1
    <3>2. counted[c] \in Account /\ Later(counted[c].exp) \in Nat /\ counted[c].exp <= now
      BY <1>7, <1>8, <1>10, <2>1
    <3>3. renewed[c] \in Account
      BY <1>5, <3>1, <3>2 DEF Account
    <3> QED BY <1>6, <3>2, <3>3, NothingElse
  <2>2. CASE ~(c \in ren /\ way.renews # "entries")
    <3>1. renewed[c] = counted[c]
      BY <2>2
    <3> QED BY <1>6, <3>1
  <2> QED BY <2>1, <2>2
<1> HIDE DEF renewed, rows, ren
<1>14. synced \in SUBSET Inbounds
  BY <1>7
<1> HIDE DEF synced
<1>15. /\ links \subseteq Inbounds \X Clients
       /\ \A l \in links : \/ l \in link /\ l[1] \notin synced
                           \/ l[1] \in synced /\ l[2] \in Clients /\ list[l[1]][l[2]] # Nothing
       /\ \A i \in Inbounds, c \in Clients :
            list[i][c] # Nothing /\ <<i, c>> \in link => <<i, c>> \in links
  BY <1>4, <1>14, SyncedLinksType
<1>16. /\ records \in Records
       /\ \A c \in Clients : record[c] # Nothing => records[c] # Nothing
       /\ \A c \in Clients, i \in synced : rows[i][c] # Nothing => records[c] # Nothing
  BY <1>4, <1>14, <1>12, SyncedRecordsType
<1>17. SyncedMade(list, synced) \in [Clients -> Nat]
  BY <1>4, <1>14, SyncedRecordsType
<1> HIDE DEF links, records
<1>18. \A c \in spent : c \in Clients /\ renewed[c] # Nothing
  BY DEF Depleted, On
<1>19. off \subseteq spent /\ offRecords \subseteq spent
  OBVIOUS
<1> HIDE DEF spent, off, offRecords, marked
<1>20. ASSUME Written
       PROVE  /\ BookType' /\ LinksFollowList' /\ (traffic \in Accounts)'
              /\ \A c \in Clients : traffic[c] # Nothing =>
                   traffic'[c] # Nothing /\ (traffic'[c].used >= traffic[c].used \/ traffic[c].exp <= now)
              /\ \A i \in Inbounds, c \in Clients : list[i][c] = Nothing <=> list'[i][c] = Nothing
              /\ \A i \in Inbounds, c \in Clients :
                   list[i][c] # Nothing /\ <<i, c>> \in link => <<i, c>> \in link'
  <2>1. /\ (traffic \in Accounts)'
         /\ \A c \in Clients : traffic[c] # Nothing =>
              traffic'[c] # Nothing /\ (traffic'[c].used >= traffic[c].used \/ traffic[c].exp <= now)
    <3> SUFFICES ASSUME NEW c \in Clients
                 PROVE  /\ traffic'[c] \in Account \union {Nothing}
                        /\ traffic[c] # Nothing => traffic'[c] # Nothing /\
                             (traffic'[c].used >= traffic[c].used \/ traffic[c].exp <= now)
      BY <1>20 DEF Accounts
    <3>1. CASE c \in off
      <4>1. traffic'[c] = [renewed[c] EXCEPT !.on = FALSE] /\ renewed[c] \in Account
        BY <1>20, <1>13, <1>18, <1>19, <3>1
      <4>2. traffic'[c] \in Account /\ traffic'[c].used = renewed[c].used
        BY <4>1 DEF Account
      <4> QED BY <1>13, <4>2, NothingElse
    <3>2. CASE c \notin off
      <4>1. traffic'[c] = renewed[c]
        BY <1>20, <3>2
      <4> QED BY <1>13, <4>1
    <3> QED BY <3>1, <3>2
  <2>2. /\ list' \in Rows
         /\ \A i \in Inbounds, c \in Clients : list[i][c] = Nothing <=> list'[i][c] = Nothing
    <3>1. ASSUME NEW i \in Inbounds, NEW c \in Clients
          PROVE  /\ list'[i][c] \in Entry \union {Nothing}
                 /\ list[i][c] = Nothing <=> list'[i][c] = Nothing
      <4>1. CASE <<i, c>> \in marked /\ rows[i][c] # Nothing
        <5>1. list'[i][c] = [rows[i][c] EXCEPT !.on = FALSE] /\ rows[i][c] \in Entry
          BY <1>20, <1>11, <4>1
        <5>2. list'[i][c] \in Entry
          BY <5>1 DEF Entry
        <5> QED BY <1>11, <4>1, <5>2, NothingElse
      <4>2. CASE ~(<<i, c>> \in marked /\ rows[i][c] # Nothing)
        <5>1. list'[i][c] = rows[i][c]
          BY <1>20, <4>2
        <5> QED BY <1>11, <5>1
      <4> QED BY <4>1, <4>2
    <3>2. list' \in Rows
      BY <1>20, <3>1 DEF Rows, Row
    <3> QED BY <3>1, <3>2
  <2>3. record' \in Records /\ \A c \in Clients : records[c] # Nothing => record'[c] # Nothing
    <3>1. \A x \in Record : [x EXCEPT !.on = FALSE] \in Record
      BY DEF Record
    <3>2. \A c \in Clients : records[c] \in Record \union {Nothing}
      BY <1>16 DEF Records
    <3>3. \A c \in Clients : record'[c] = IF c \in offRecords /\ records[c] # Nothing
                                          THEN [records[c] EXCEPT !.on = FALSE] ELSE records[c]
      BY <1>20
    <3>4. \A c \in Clients : record'[c] \in Record \union {Nothing} /\ (records[c] # Nothing => record'[c] # Nothing)
      BY <3>1, <3>2, <3>3, NothingElse
    <3> QED BY <1>20, <3>4 DEF Records
  <2>4. BookType'
    BY <1>20, <1>15, <1>17, <2>2, <2>3 DEF BookType
  <2>5. LinksFollowList'
    <3> SUFFICES ASSUME NEW l \in link'
                 PROVE  record'[l[2]] # Nothing /\ list'[l[1]][l[2]] # Nothing
      BY DEF LinksFollowList
    <3>1. l[1] \in Inbounds /\ l[2] \in Clients /\ l \in links
      BY <1>20, <1>15
    <3>2. CASE l \in link
      BY <1>16, <2>2, <2>3, <3>1, <3>2 DEF IInv, LinksFollowList
    <3>3. CASE l[1] \in synced /\ list[l[1]][l[2]] # Nothing
      BY <1>11, <1>16, <2>2, <2>3, <3>1, <3>3
    <3> QED BY <1>15, <3>1, <3>2, <3>3
  <2>6. link' = links
    BY <1>20
  <2> QED BY <1>15, <2>1, <2>2, <2>4, <2>5, <2>6
<1>21. users \in SUBSET (Inbounds \X Clients)
  BY <1>4, <1>9
<1> HIDE DEF users
<1>22. RestType'
  <2>1. CASE Calls(users)
    BY <1>21, <2>1, CallsRest DEF IInv, Types
  <2>2. CASE Fault /\ core' = users /\ UNCHANGED restart
    BY <1>21, <2>2 DEF Fault, IInv, Types, RestType
  <2> QED BY <1>3, <2>1, <2>2
<1>23. (req \in [Requests -> Request])' /\ ReqInv'
  BY DEF IInv, Types, ReqInv
<1>24. ASSUME UNCHANGED <<book, traffic>>
       PROVE  /\ BookType' /\ LinksFollowList' /\ (traffic \in Accounts)'
              /\ \A c \in Clients : traffic[c] # Nothing =>
                   traffic'[c] # Nothing /\ traffic'[c].used >= traffic[c].used
              /\ UNCHANGED <<list, link>>
  <2>1. BookType' /\ LinksFollowList'
    BY <1>24, BookStays
  <2>2. \A x \in Account : x.used >= x.used
    BY <1>5 DEF Account
  <2>3. \A c \in Clients : traffic[c] # Nothing => traffic'[c].used >= traffic[c].used
    BY <1>4, <1>24, <2>2 DEF Accounts
  <2> QED BY <1>4, <1>24, <2>1, <2>3 DEF book
<1> HIDE DEF Written
<1> QED BY <1>2, <1>22, <1>23, <1>24, <1>20 DEF IInv, Types

LEMMA TrafficJobStep == ASSUME IInv, TrafficJob PROVE IInv'
<1>1. PICK S \in SUBSET {l[2] : l \in core} : Poll(S) /\ UNCHANGED <<loading, req, now, begun, raced>>
  BY DEF TrafficJob
<1>2. loading' \in BOOLEAN
  BY <1>1 DEF IInv, Types, RestType
<1> QED BY <1>1, <1>2, PollStep

LEMMA LoadPollStep == ASSUME IInv, LoadPoll PROVE IInv'
<1>1. Poll({}) /\ UNCHANGED <<req, now, begun, raced>> /\ loading' \in BOOLEAN
  BY DEF LoadPoll
<1> QED BY <1>1, PollStep

LEMMA NextStep == IInv /\ [Next]_vars => IInv'
<1> SUFFICES ASSUME IInv, [Next]_vars PROVE IInv'
  OBVIOUS
<1>1. ASSUME NEW r \in Requests, NEW c \in Clients, Begin(r, c) PROVE IInv'
  BY <1>1, BeginStep
<1>2. ASSUME NEW r \in Requests, Step(r) PROVE IInv'
  BY <1>2, TakeStep, PurgeStep, CutStep, CommitStep, ApiStep, FinishDeleteStep, FinishSwitchStep,
     FinishRestStep, ResetRowStep DEF Step
<1>3. CASE UNCHANGED vars
  <2>1. UNCHANGED book
    BY <1>3 DEF vars
  <2> QED BY <1>3, <2>1, BookStays DEF vars, IInv, Types, RestType, ReqInv
<1> QED BY <1>1, <1>2, <1>3, ResetAllStep, TrafficJobStep, LoadPollStep, LoadStep, TickStep DEF Next

LEMMA Inductive == Spec => []IInv
  BY Initially, NextStep, PTL DEF Spec

-----------------------------------------------------------------------------
(* Every variable keeps its type.                                          *)
THEOREM TypeCorrect == Spec => []TypeOK
<1>1. IInv => TypeOK
  BY DEF IInv, Types, BookType, RestType, Rows, Records, Accounts, Request, TypeOK
<1> QED BY <1>1, Inductive, PTL

(* A link always has its record, and an entry in that inbound's settings.  *)
THEOREM LinksFollow == Spec => []LinksFollowList
<1>1. IInv => LinksFollowList
  BY DEF IInv
<1> QED BY <1>1, Inductive, PTL

-----------------------------------------------------------------------------
(* Which steps keep the usage of every client, and the excuse of the rest. *)
Lost(c) == traffic[c] # Nothing /\ (traffic'[c] = Nothing \/ traffic'[c].used < traffic[c].used)
Excuse(c) ==
  \/ Deleting(c) \/ traffic[c].exp <= now
  \/ \E r \in Requests : req[r].pc = "reset" /\ req[r].c = c /\ req'[r] # req[r]
  \/ begun' # begun
Kept == \A c \in Clients : Lost(c) => Excuse(c)

LEMMA AccountAt == ASSUME IInv, NEW c \in Clients, traffic[c] # Nothing
                   PROVE  traffic[c] \in Account /\ traffic[c].used \in Nat /\ Quota \in Nat
<1>1. traffic[c] \in Account /\ Quota \in Nat
  BY LimitsAssumption DEF IInv, Types, Accounts
<1>2. 0..Quota \subseteq Nat
  OBVIOUS
<1> QED BY <1>1, <1>2 DEF Account

LEMMA KeptAt ==
  ASSUME IInv, NEW d \in Clients, NEW t, Excuse(d) \/ traffic[d] = Nothing \/ (t # Nothing /\ t.used = traffic[d].used),
         traffic' = [traffic EXCEPT ![d] = t]
  PROVE  Kept
<1> SUFFICES ASSUME NEW c \in Clients, Lost(c) PROVE Excuse(c)
  BY DEF Kept
<1>1. traffic[c].used \in Nat
  BY AccountAt DEF Lost
<1>2. traffic \in Accounts
  BY DEF IInv, Types
<1>3. CASE c # d
  <2>1. traffic'[c] = traffic[c]
    BY <1>2, <1>3 DEF Accounts
  <2> QED BY <1>1, <2>1 DEF Lost
<1>4. CASE c = d
  <2>1. traffic'[c] = t
    BY <1>2, <1>4 DEF Accounts
  <2> QED BY <1>1, <1>4, <2>1 DEF Lost
<1> QED BY <1>3, <1>4

LEMMA KeptStays == ASSUME IInv, UNCHANGED traffic PROVE Kept
<1> SUFFICES ASSUME NEW c \in Clients, Lost(c) PROVE FALSE
  BY DEF Kept
<1>1. traffic[c].used \in Nat
  BY AccountAt DEF Lost
<1> QED BY <1>1 DEF Lost

LEMMA KeptDeleting == ASSUME IInv, NEW r \in Requests, req[r].pc # "idle", req[r].op \in Deletes
                      PROVE  req[r].c \in Clients /\ Excuse(req[r].c)
  BY DEF IInv, ReqInv, AtWork, Excuse, Deleting

LEMMA CommitKeeps == ASSUME IInv, NEW r \in Requests, Commit(r) PROVE Kept
<1> DEFINE o == req[r]
<1>1. o.pc = "commit" /\ o.c \in Clients /\ o.op \in Ops /\ o.pc # "idle"
  BY DEF Commit, IInv, ReqInv, AtWork
<1>2. CASE UNCHANGED traffic
  BY <1>2, KeptStays
<1>3. CASE traffic' = [traffic EXCEPT ![o.c] = NewAccount(o)]
  <2>1. CASE o.op \in Deletes
    BY <1>1, <1>3, <2>1, KeptAt, KeptDeleting
  <2>2. CASE o.op \in Adds
    <3>1. NewAccount(o) = Accounted(o)
      BY <2>2 DEF NewAccount, Adds
    <3>2. o \in Request /\ o.i \in Inbounds /\ o.form \in Entry
      BY <1>1, <2>2 DEF IInv, Types, ReqInv, AtWork, Held
    <3>3. traffic[o.c] # Nothing => NewAccount(o).used = traffic[o.c].used
      BY <3>1 DEF Accounted
    <3>4. NewAccount(o) # Nothing
      <4>1. traffic[o.c] # Nothing => traffic[o.c].used \in 0..Quota
        BY <1>1, AccountAt DEF Account
      <4>2. 0 \in 0..Quota
        BY LimitsAssumption
      <4>3. Accounted(o) \in Account
        BY <3>2, <4>1, <4>2 DEF Accounted, Account, Entry
      <4> QED BY <3>1, <4>3, NothingElse
    <3> QED BY <1>1, <1>3, <3>3, <3>4, KeptAt
  <2>3. CASE o.op \in {"update", "reset"} /\ traffic[o.c] # Nothing
    <3>1. NewAccount(o) = [traffic[o.c] EXCEPT !.on = o.form.on, !.exp = o.form.exp]
      BY <2>3 DEF NewAccount, Adds
    <3>2. o.form \in Entry
      BY <1>1, <2>3 DEF IInv, ReqInv, AtWork
    <3>3. NewAccount(o) \in Account /\ NewAccount(o).used = traffic[o.c].used
      BY <1>1, <2>3, <3>1, <3>2, AccountAt DEF Account, Entry
    <3> QED BY <1>1, <1>3, <3>3, KeptAt, NothingElse
  <2>4. CASE o.op \notin Adds \union Deletes /\ ~(o.op \in {"update", "reset"} /\ traffic[o.c] # Nothing)
    <3>1. NewAccount(o) = traffic[o.c]
      BY <2>4 DEF NewAccount, Deletes
    <3> QED BY <1>1, <1>3, <3>1, KeptAt
  <2> QED BY <2>1, <2>2, <2>3, <2>4
<1> QED BY <1>2, <1>3 DEF Commit

LEMMA FinishDeleteKeeps == ASSUME IInv, NEW r \in Requests, FinishDelete(r) PROVE Kept
<1>1. req[r].pc # "idle" /\ req[r].op \in Deletes
  BY DEF FinishDelete, Over
<1>2. \/ UNCHANGED traffic
      \/ traffic' = [traffic EXCEPT ![req[r].c] = Nothing]
  BY DEF FinishDelete
<1> QED BY <1>1, <1>2, KeptAt, KeptStays, KeptDeleting

LEMMA PurgeKeeps == ASSUME IInv, NEW r \in Requests, Purge(r) PROVE Kept
<1>1. req[r].pc # "idle" /\ req[r].op \in Deletes
  BY DEF Purge, IInv, ReqInv, AtWork, Deletes
<1>2. \/ UNCHANGED traffic
      \/ traffic' = [traffic EXCEPT ![req[r].c] = Nothing]
  BY DEF Purge
<1> QED BY <1>1, <1>2, KeptAt, KeptStays, KeptDeleting

LEMMA FinishSwitchKeeps == ASSUME IInv, NEW r \in Requests, FinishSwitch(r) PROVE Kept
<1> DEFINE o == req[r]
<1>1. o.c \in Clients /\ o.op \in {"update", "reset", "setEnable"} /\ o.pc # "idle"
  BY DEF FinishSwitch, Over, IInv, ReqInv, AtWork
<1>2. CASE traffic[o.c] # Nothing /\ traffic' = [traffic EXCEPT ![o.c].on = o.form.on]
  <2> DEFINE t == [traffic[o.c] EXCEPT !.on = o.form.on]
  <2>1. o.form \in Entry
    BY <1>1 DEF IInv, ReqInv, AtWork
  <2>2. t \in Account /\ t.used = traffic[o.c].used
    BY <1>1, <1>2, <2>1, AccountAt DEF Account, Entry
  <2>3. traffic' = [traffic EXCEPT ![o.c] = t]
    BY <1>2
  <2> QED BY <1>1, <2>2, <2>3, KeptAt, NothingElse
<1>3. CASE UNCHANGED traffic
  BY <1>3, KeptStays
<1> QED BY <1>2, <1>3 DEF FinishSwitch

LEMMA ResetRowKeeps == ASSUME IInv, NEW r \in Requests, ResetRow(r) PROVE Kept
<1> DEFINE o == req[r]
          i == Least(o.resets)
          rest == o.resets \ {i}
          t == [traffic[o.c] EXCEPT !.on = TRUE, !.used = 0]
<1>1. o.c \in Clients /\ o.pc = "reset" /\ o.pc # "idle" /\ o \in Request
  BY DEF ResetRow, IInv, Types, ReqInv, AtWork
<1>2. req \in [Requests -> Request]
  BY DEF IInv, Types
<1>3. \/ req' = [req EXCEPT ![r] = Idle]
      \/ o.resets # {} /\ req' = [req EXCEPT ![r] = [o EXCEPT !.resets = rest]]
  BY DEF ResetRow
<1>4. UNCHANGED traffic \/ traffic' = [traffic EXCEPT ![o.c] = t]
  BY DEF ResetRow
<1> HIDE DEF t
<1>5. CASE req' = [req EXCEPT ![r] = Idle]
  <2>1. req'[r] = Idle /\ Idle.pc = "idle"
    BY <1>2, <1>5, IdleType
  <2>2. req'[r] # req[r]
    BY <1>1, <2>1
  <2>3. Excuse(o.c)
    BY <1>1, <2>2 DEF Excuse
  <2> QED BY <1>1, <1>4, <2>3, KeptAt, KeptStays
<1>6. CASE o.resets # {} /\ req' = [req EXCEPT ![r] = [o EXCEPT !.resets = rest]]
  <2>1. i \in o.resets
    BY <1>1, <1>6, LeastIn DEF Request
  <2> HIDE DEF i
  <2>2. rest # o.resets
    BY <2>1
  <2> HIDE DEF rest
  <2>3. req'[r].resets = rest
    BY <1>1, <1>2, <1>6 DEF Request
  <2>4. Excuse(o.c)
    BY <1>1, <2>2, <2>3 DEF Excuse
  <2> QED BY <1>1, <1>4, <2>4, KeptAt, KeptStays
<1> QED BY <1>3, <1>5, <1>6

LEMMA PollKeeps == ASSUME IInv, TrafficJob \/ LoadPoll PROVE Kept
<1>1. PICK S : Poll(S) /\ UNCHANGED <<req, now, begun, raced>> /\ (loading' = loading \/ loading' = TRUE)
  BY DEF TrafficJob, LoadPoll
<1>2. loading' \in BOOLEAN
  BY <1>1 DEF IInv, Types, RestType
<1>3. \A c \in Clients : traffic[c] # Nothing =>
        traffic'[c] # Nothing /\ (traffic'[c].used >= traffic[c].used \/ traffic[c].exp <= now)
  BY <1>1, <1>2, PollStep
<1>4. IInv'
  BY <1>1, <1>2, PollStep
<1> SUFFICES ASSUME NEW c \in Clients, Lost(c) PROVE Excuse(c)
  BY DEF Kept
<1>5. traffic[c].used \in Nat
  BY AccountAt DEF Lost
<1>6. traffic'[c].used \in Nat
  <2>1. traffic'[c] \in Account /\ 0..Quota \subseteq Nat
    BY <1>3, <1>4, LimitsAssumption DEF Lost, IInv, Types, Accounts
  <2> QED BY <2>1 DEF Account
<1> QED BY <1>3, <1>5, <1>6 DEF Lost, Excuse

LEMMA NextKeeps == IInv /\ [Next]_vars => Kept
<1> SUFFICES ASSUME IInv, [Next]_vars PROVE Kept
  OBVIOUS
<1>1. ASSUME NEW r \in Requests, NEW c \in Clients, Begin(r, c) PROVE Kept
  <2>1. UNCHANGED traffic
    BY <1>1 DEF Begin, Begins, Create, Attach, Detach, Delete, Update, SetEnable, Reset
  <2> QED BY <2>1, KeptStays
<1>2. ASSUME NEW r \in Requests, Step(r) PROVE Kept
  <2>1. CASE UNCHANGED traffic
    BY <2>1, KeptStays
  <2>2. CASE (\E i \in Inbounds : Take(r, i)) \/ Cut(r) \/ Api(r) \/ FinishRest(r)
    <3>1. UNCHANGED traffic
      BY <2>2 DEF Take, Cut, Api, FinishRest
    <3> QED BY <2>1, <3>1
  <2> QED BY <1>2, <2>2, PurgeKeeps, CommitKeeps, FinishDeleteKeeps, FinishSwitchKeeps, ResetRowKeeps
          DEF Step
<1>3. CASE ResetAll
  <2>1. begun' = begun + 1
    BY <1>3 DEF ResetAll
  <2>2. begun \in Nat
    BY DEF IInv, Types, RestType
  <2>3. begun' # begun
    BY <2>1, <2>2
  <2> QED BY <2>3 DEF Kept, Excuse
<1>4. CASE Load \/ Tick \/ UNCHANGED vars
  <2>1. UNCHANGED traffic
    BY <1>4 DEF Load, Tick, vars
  <2> QED BY <2>1, KeptStays
<1> QED BY <1>1, <1>2, <1>3, <1>4, PollKeeps DEF Next

(* Counted usage is lost only by a reset, a renewal or a deletion.         *)
THEOREM UsageKept == Spec => UsageIsKept
<1>1. IInv /\ [Next]_vars => [\A c \in Clients :
        traffic[c] # Nothing /\ (traffic'[c] = Nothing \/ traffic'[c].used < traffic[c].used) =>
          \/ Deleting(c) \/ traffic[c].exp <= now
          \/ \E r \in Requests : req[r].pc = "reset" /\ req[r].c = c /\ req'[r] # req[r]
          \/ begun' # begun]_vars
  BY NextKeeps DEF Kept, Lost, Excuse
<1> QED BY <1>1, Inductive, PTL DEF Spec, UsageIsKept

-----------------------------------------------------------------------------
(* Who is on which inbound.  Membership is compared between settings by    *)
(* which clients have an entry in them.                                    *)
SameMembers(rows, other) == \A i \in Inbounds, c \in Clients :
  rows[i][c] = Nothing <=> other[i][c] = Nothing

(* An entry has its link, unless its client was added during a deletion.   *)
EntriesLinked == \A i \in Inbounds, c \in Clients :
  list[i][c] # Nothing => <<i, c>> \in link \/ c \in raced

(* An inbound is locked by one request at a time.                          *)
LocksApart == \A q, r \in Requests :
  q # r /\ req[q].pc \in Held /\ req[r].pc \in Held => req[q].i # req[r].i

(* The settings a request is going to save have nobody in them who is not  *)
(* in the inbound now, and have lost only orphans, but for its own client. *)
Saving == {"purge", "cut", "commit"}
RowTrue(o, rows, races) ==
  /\ \A c \in Clients \ {o.c} :
       /\ o.row[c] # Nothing => rows[o.i][c] # Nothing
       /\ o.row[c] = Nothing /\ rows[o.i][c] # Nothing => c \in races
  /\ o.op \in {"update", "reset", "setEnable"} => o.row[o.c] # Nothing /\ rows[o.i][o.c] # Nothing
  /\ o.op \notin Adds \union {"update", "reset", "setEnable"} => o.row[o.c] = Nothing

(* A deletion that has not failed is going to visit every entry there is;  *)
(* the one whose removal it is telling the core is gone.                   *)
Reaches(o, rows, races) ==
  o.pc # "idle" /\ o.op \in Deletes /\ ~o.failed /\ o.c \notin races =>
    \A i \in Inbounds : rows[i][o.c] # Nothing => i \in o.left /\ ~(o.pc = "api" /\ i = o.i)

Sound(o, rows, races) == (o.pc \in Saving => RowTrue(o, rows, races)) /\ Reaches(o, rows, races)
SoundInv == \A r \in Requests : Sound(req[r], list, raced)

MemberInv == EntriesLinked /\ LocksApart /\ SoundInv

LEMMA NoOrphansButRaced == ASSUME IInv, EntriesLinked PROVE OrphansWereRaced
<1> SUFFICES ASSUME NEW i \in Inbounds, NEW c \in Clients, list[i][c] # Nothing, <<i, c>> \in link
             PROVE  record[c] # Nothing
  BY DEF OrphansWereRaced, EntriesLinked
<1> QED BY DEF IInv, LinksFollowList

LEMMA SoundStays ==
  ASSUME NEW o, AtWork(o), NEW rows, NEW other, NEW races, NEW more,
         Sound(o, rows, races), SameMembers(rows, other), races \subseteq more
  PROVE  Sound(o, other, more)
<1>1. o.pc \in Saving => RowTrue(o, other, more)
  <2> SUFFICES ASSUME o.pc \in Saving PROVE RowTrue(o, other, more)
    OBVIOUS
  <2>1. o.i \in Inbounds /\ o.c \in Clients
    BY DEF AtWork, Held, Saving
  <2> QED BY <2>1 DEF Sound, RowTrue, SameMembers
<1>2. Reaches(o, other, more)
  <2>1. o.pc # "idle" => o.c \in Clients
    BY DEF AtWork
  <2> QED BY <2>1 DEF Sound, Reaches, SameMembers
<1> QED BY <1>1, <1>2 DEF Sound

(* A step of no request, or of one that does not touch the settings.       *)
LEMMA MembersStay ==
  ASSUME IInv, MemberInv, UNCHANGED <<req, raced>>, SameMembers(list, list'), EntriesLinked'
  PROVE  MemberInv'
<1>1. LocksApart'
  BY DEF MemberInv, LocksApart
<1>2. ASSUME NEW r \in Requests PROVE Sound(req'[r], list', raced')
  <2>1. AtWork(req[r]) /\ Sound(req[r], list, raced)
    BY DEF IInv, ReqInv, MemberInv, SoundInv
  <2>2. Sound(req[r], list', raced)
    BY <2>1, SoundStays
  <2> QED BY <2>2
<1> QED BY <1>1, <1>2 DEF MemberInv, SoundInv

LEMMA MembersMove ==
  ASSUME IInv, MemberInv, NEW r \in Requests, NEW o, Sound(o, list, raced),
         o.pc \in Held => (req[r].pc \in Held /\ o.i = req[r].i) \/ LockFree(o.i),
         req' = [req EXCEPT ![r] = o], UNCHANGED <<list, raced>>, EntriesLinked'
  PROVE  MemberInv'
<1>1. \A q \in Requests : req'[q] = IF q = r THEN o ELSE req[q]
  BY DEF IInv, Types
<1>2. LocksApart'
  <2>1. LocksApart
    BY DEF MemberInv
  <2>2. \A q \in Requests : q # r /\ req[q].pc \in Held /\ o.pc \in Held => req[q].i # o.i
    BY <2>1 DEF LocksApart, LockFree
  <2> QED BY <1>1, <2>1, <2>2 DEF LocksApart
<1>3. ASSUME NEW q \in Requests PROVE Sound(req'[q], list', raced')
  <2>1. Sound(req'[q], list, raced)
    BY <1>1 DEF MemberInv, SoundInv
  <2> QED BY <2>1
<1> QED BY <1>2, <1>3 DEF MemberInv, SoundInv

LEMMA LinkedStays == ASSUME MemberInv, UNCHANGED <<list, link, raced>> PROVE EntriesLinked'
  BY DEF MemberInv, EntriesLinked

LEMMA IdleSound == Sound(Idle, list, raced) /\ Idle.pc \notin Held
  BY DEF Sound, Reaches, Idle, Saving, Held

LEMMA MembersInit == Init => MemberInv
<1> SUFFICES ASSUME Init PROVE MemberInv
  OBVIOUS
<1>1. PICK at \in [Clients -> Places] :
       /\ list = [i \in Inbounds |-> [c \in Clients |->
            IF i \in at[c] THEN [on |-> TRUE, exp |-> 1] ELSE Nothing]]
       /\ link = {l \in Inbounds \X Clients : l[1] \in at[l[2]]}
  BY DEF Init
<1>2. req = [r \in Requests |-> Idle]
  BY DEF Init
<1>3. EntriesLinked
  BY <1>1 DEF EntriesLinked
<1>4. LocksApart /\ SoundInv
  BY <1>2, IdleSound DEF LocksApart, SoundInv
<1> QED BY <1>3, <1>4 DEF MemberInv

LEMMA BeginMembers == ASSUME IInv, MemberInv, NEW r \in Requests, NEW c \in Clients, Begin(r, c)
                      PROVE  MemberInv'
<1>1. ASSUME NEW o, Begins(r, o), o.pc \in {"next", "reset"}, Reaches(o, list, raced) PROVE MemberInv'
  <2>1. req' = [req EXCEPT ![r] = o] /\ UNCHANGED <<list, link, raced>>
    BY <1>1 DEF Begins, book
  <2>2. Sound(o, list, raced) /\ o.pc \notin Held
    BY <1>1 DEF Sound, Saving, Held
  <2> QED BY <2>1, <2>2, LinkedStays, MembersMove
<1>2. \A op, I, form, keep : LET o == Order(op, c, I, form, keep) IN
        o.pc = "next" /\ o.op = op /\ o.c = c /\ o.left = I
  BY DEF Order
<1>3. CASE Delete(r, c)
  <2>1. PICK op \in Deletes, keep \in BOOLEAN : Begins(r, Order(op, c, Linked(c), Nothing, keep))
    BY <1>3 DEF Delete
  <2>2. \A i \in Inbounds : list[i][c] # Nothing /\ c \notin raced => i \in Linked(c)
    BY DEF MemberInv, EntriesLinked, Linked
  <2>3. Reaches(Order(op, c, Linked(c), Nothing, keep), list, raced)
    BY <1>2, <2>2 DEF Reaches
  <2> QED BY <1>1, <1>2, <2>1, <2>3
<1>4. ASSUME NEW op, NEW I, NEW form, NEW keep, op \notin Deletes,
             Begins(r, Order(op, c, I, form, keep))
      PROVE  MemberInv'
  <2>1. Reaches(Order(op, c, I, form, keep), list, raced)
    BY <1>2, <1>4 DEF Reaches
  <2> QED BY <1>1, <1>2, <1>4, <2>1
<1>5. CASE Create(r, c) \/ Attach(r, c) \/ Detach(r, c) \/ Update(r, c) \/ SetEnable(r, c)
  <2>1. \A op \in {"create", "attach", "detach", "update", "setEnable"} : op \notin Deletes
    BY DEF Deletes
  <2>2. \E op \in {"create", "attach", "detach", "update", "setEnable"} :
          \E I, form, keep : Begins(r, Order(op, c, I, form, keep))
    BY <1>5 DEF Create, Attach, Detach, Update, SetEnable
  <2> QED BY <1>4, <2>1, <2>2
<1>6. CASE Reset(r, c)
  <2> DEFINE o == Order("reset", c, Linked(c), [on |-> TRUE, exp |-> record[c].exp], FALSE)
  <2>1. PICK step \in {"reset", "next"} : Begins(r, [o EXCEPT !.resets = Linked(c), !.pc = step])
    BY <1>6 DEF Reset
  <2> DEFINE p == [o EXCEPT !.resets = Linked(c), !.pc = step]
  <2>2. p.pc = step /\ p.op = "reset"
    BY DEF Order
  <2> HIDE DEF p
  <2>3. Reaches(p, list, raced)
    BY <2>2 DEF Reaches, Deletes
  <2> QED BY <1>1, <2>1, <2>2, <2>3 DEF p
<1> QED BY <1>3, <1>5, <1>6 DEF Begin

(* What a request has on saving is true of the inbound it has just read.   *)
LEMMA NewRowTrue ==
  ASSUME IInv, MemberInv, NEW o \in Request, AtWork(o), o.pc # "idle", NEW i \in Inbounds,
         ~Fails(o, list[i][o.c]), ~Skips(o, list[i][o.c]),
         NEW p, p.i = i, p.c = o.c, p.op = o.op, p.row = NewRow(o, list[i])
  PROVE  RowTrue(p, list, raced)
<1> DEFINE row == list[i]
<1>1. o.c \in Clients /\ row \in Row
  BY DEF AtWork, IInv, Types, BookType, Rows
<1>2. ASSUME NEW c \in Clients, Compacted(row)[c] # row[c] PROVE Compacted(row)[c] = Nothing /\ c \in raced
  <2>1. Compacted(row)[c] = IF record[c] = Nothing THEN Nothing ELSE row[c]
    BY DEF Compacted
  <2>2. record[c] = Nothing /\ list[i][c] # Nothing
    BY <1>2, <2>1
  <2> QED BY <2>1, <2>2, NoOrphansButRaced DEF MemberInv, OrphansWereRaced
<1>3. ASSUME NEW c \in Clients, c # o.c PROVE NewRow(o, row)[c] \in {row[c], Compacted(row)[c]}
  BY <1>1, <1>3 DEF NewRow, Row, Compacted
<1>4. ASSUME NEW c \in Clients \ {p.c}
      PROVE  /\ p.row[c] # Nothing => list[p.i][c] # Nothing
             /\ p.row[c] = Nothing /\ list[p.i][c] # Nothing => c \in raced
  BY <1>2, <1>3
<1>5. CASE o.op \in {"update", "reset"}
  <2>1. NewRow(o, row)[o.c] = o.form /\ row[o.c] # Nothing
    BY <1>1, <1>5 DEF NewRow, Row, Adds, Fails
  <2>2. o.form # Nothing
    BY <1>5, NothingElse DEF AtWork
  <2> QED BY <1>4, <1>5, <2>1, <2>2 DEF RowTrue, Adds
<1>6. CASE o.op = "setEnable"
  <2>1. row[o.c] # Nothing /\ row[o.c] \in Entry /\ o.form \in Entry
    BY <1>1, <1>6 DEF Skips, Adds, Row, AtWork
  <2>2. [row[o.c] EXCEPT !.on = o.form.on] \in Entry
    BY <2>1 DEF Entry
  <2>3. NewRow(o, row)[o.c] # Nothing
    BY <1>1, <1>6, <2>2, NothingElse DEF NewRow, Row, Adds
  <2> QED BY <1>4, <1>6, <2>1, <2>3 DEF RowTrue, Adds
<1>7. CASE o.op \in Adds
  BY <1>4, <1>7 DEF RowTrue, Adds
<1>8. CASE o.op \notin Adds \union {"update", "reset", "setEnable"}
  <2>1. NewRow(o, row)[o.c] = Nothing
    BY <1>1, <1>8 DEF NewRow, Compacted
  <2> QED BY <1>4, <1>8, <2>1 DEF RowTrue
<1> QED BY <1>5, <1>6, <1>7, <1>8

(* The fields of a request that goes on, stops short, or has read its row. *)
LEMMA PassedFields == ASSUME NEW o \in Request, NEW i, NEW b
                      PROVE  LET p == [Passed(o, i) EXCEPT !.failed = b] IN
                             /\ p.pc = "next" /\ p.op = o.op /\ p.c = o.c /\ p.left = o.left \ {i} /\ p.failed = b
  BY DEF Passed, Request

LEMMA EndedSound == ASSUME NEW o \in Request, o.op \notin Deletes
                    PROVE  Sound(Ended(o), list, raced) /\ Ended(o).pc \notin Held
<1>1. CASE o.op = "reset"
  <2>1. Ended(o).pc = "reset" /\ Ended(o).op = "reset"
    BY <1>1 DEF Ended, Request
  <2> QED BY <2>1 DEF Sound, Reaches, Saving, Held, Deletes
<1>2. CASE o.op # "reset"
  BY <1>2, IdleSound DEF Ended
<1> QED BY <1>1, <1>2

LEMMA FoundFields ==
  ASSUME NEW o \in Request, NEW i, NEW row, NEW was, NEW drops, NEW live, NEW failed, NEW step
  PROVE  LET p == [[o EXCEPT !.i = i, !.row = row, !.was = was, !.drops = drops, !.live = live,
                             !.failed = failed] EXCEPT !.pc = step] IN
         /\ p.pc = step /\ p.i = i /\ p.row = row /\ p.failed = failed
         /\ p.op = o.op /\ p.c = o.c /\ p.left = o.left
  BY DEF Request

LEMMA TakeMembers == ASSUME IInv, MemberInv, NEW r \in Requests, NEW i \in Inbounds, Take(r, i)
                     PROVE  MemberInv'
<1> DEFINE o == req[r]
           entry == list[i][o.c]
           missed == entry = Nothing /\ o.op \in {"setEnable", "bulkDelete"}
           found == [o EXCEPT !.i = i, !.row = NewRow(o, list[i]), !.was = On(entry),
                              !.drops = entry # Nothing /\ Drops(o, i), !.live = On(traffic[o.c]),
                              !.failed = @ \/ missed]
           step == IF o.op # "bulkDelete" THEN "commit" ELSE IF found.drops THEN "purge" ELSE "cut"
           next == IF Fails(o, entry) THEN Ended(o)
                   ELSE IF Skips(o, entry) THEN [Passed(o, i) EXCEPT !.failed = o.failed \/ missed]
                   ELSE [found EXCEPT !.pc = step]
<1>1. req' = [req EXCEPT ![r] = next] /\ UNCHANGED <<list, link, raced>>
  BY DEF Take, book
<1>2. o \in Request /\ AtWork(o) /\ o.pc = "next" /\ o.pc # "idle" /\ LockFree(i) /\ Sound(o, list, raced)
  BY DEF Take, IInv, Types, ReqInv, MemberInv, SoundInv
<1>3. EntriesLinked'
  BY <1>1, LinkedStays
<1>4. CASE Fails(o, entry)
  <2>1. next = Ended(o) /\ o.op \notin Deletes
    BY <1>4 DEF Fails, Deletes
  <2>2. Sound(next, list, raced) /\ next.pc \notin Held
    BY <1>2, <2>1, EndedSound
  <2> HIDE DEF next
  <2> QED BY <1>1, <1>3, <2>2, MembersMove
<1>5. CASE ~Fails(o, entry) /\ Skips(o, entry)
  <2>1. PICK failed : failed = (o.failed \/ missed)
    OBVIOUS
  <2>2. next = [Passed(o, i) EXCEPT !.failed = failed]
    BY <1>5, <2>1
  <2> HIDE DEF next
  <2>3. next.pc = "next" /\ next.op = o.op /\ next.c = o.c /\ next.left = o.left \ {i} /\ next.failed = failed
    BY <1>2, <2>2, PassedFields
  <2>4. Reaches(next, list, raced)
    <3> SUFFICES ASSUME o.op \in Deletes, ~failed, o.c \notin raced, NEW j \in Inbounds, list[j][o.c] # Nothing
                 PROVE  j \in o.left \ {i}
      BY <2>3 DEF Reaches
    <3>1. entry = Nothing
      BY <1>5 DEF Skips, Deletes, Adds
    <3>2. ~o.failed
      BY <2>1
    <3>3. j \in o.left
      BY <1>2, <3>2 DEF Sound, Reaches
    <3> QED BY <3>1, <3>3
  <2>5. Sound(next, list, raced) /\ next.pc \notin Held
    BY <2>3, <2>4 DEF Sound, Saving, Held
  <2> QED BY <1>1, <1>3, <2>5, MembersMove
<1>6. CASE ~Fails(o, entry) /\ ~Skips(o, entry)
  <2>1. PICK row, was, drops, live, failed :
          /\ row = NewRow(o, list[i]) /\ was = On(entry) /\ live = On(traffic[o.c])
          /\ drops = (entry # Nothing /\ Drops(o, i)) /\ failed = (o.failed \/ missed)
    OBVIOUS
  <2>2. step \in Saving
    BY DEF Saving
  <2> HIDE DEF step
  <2>3. next = [[o EXCEPT !.i = i, !.row = row, !.was = was, !.drops = drops, !.live = live,
                          !.failed = failed] EXCEPT !.pc = step]
    BY <1>6, <2>1
  <2> HIDE DEF next
  <2>4. /\ next.pc = step /\ next.i = i /\ next.row = row /\ next.failed = failed
        /\ next.op = o.op /\ next.c = o.c /\ next.left = o.left
    BY <1>2, <2>3, FoundFields
  <2>5. RowTrue(next, list, raced)
    BY <1>2, <1>6, <2>1, <2>4, NewRowTrue
  <2>6. Reaches(next, list, raced)
    <3>1. ~failed => ~o.failed
      BY <2>1
    <3> QED BY <1>2, <2>4, <2>2, <3>1 DEF Sound, Reaches, Saving
  <2>7. Sound(next, list, raced)
    BY <2>5, <2>6 DEF Sound
  <2> QED BY <1>1, <1>2, <1>3, <2>4, <2>7, MembersMove
<1> QED BY <1>4, <1>5, <1>6

(* A request that moves on to a later step for the same inbound.           *)
LEMMA LaterSound ==
  ASSUME IInv, MemberInv, NEW r \in Requests, NEW o, o.pc \in Saving, Reaches(req[r], list, raced),
         req[r].pc \in Saving, o.i = req[r].i, o.row = req[r].row, o.c = req[r].c, o.op = req[r].op,
         o.left = req[r].left, ~o.failed => ~req[r].failed, req' = [req EXCEPT ![r] = o],
         UNCHANGED <<list, link, raced>>
  PROVE  MemberInv'
<1>1. Sound(req[r], list, raced) /\ AtWork(req[r])
  BY DEF MemberInv, SoundInv, IInv, ReqInv
<1>2. Sound(o, list, raced)
  BY <1>1 DEF Sound, RowTrue, Reaches, Saving
<1>3. EntriesLinked'
  BY LinkedStays
<1> QED BY <1>2, <1>3, MembersMove DEF Saving, Held

LEMMA PurgeMembers == ASSUME IInv, MemberInv, NEW r \in Requests, Purge(r) PROVE MemberInv'
<1> DEFINE o == req[r]
<1>1. o \in Request /\ o.pc \in Saving /\ Reaches(o, list, raced)
  BY DEF Purge, IInv, Types, MemberInv, SoundInv, Sound, Saving
<1>2. PICK p \in {[o EXCEPT !.pc = "cut"], [o EXCEPT !.pc = "commit", !.failed = TRUE]} :
        req' = [req EXCEPT ![r] = p] /\ UNCHANGED <<list, link, raced>>
  BY DEF Purge, book
<1>3. /\ p.pc \in Saving /\ p.i = o.i /\ p.row = o.row /\ p.c = o.c /\ p.op = o.op /\ p.left = o.left
      /\ ~p.failed => ~o.failed
  BY <1>1 DEF Request, Saving
<1> QED BY <1>1, <1>2, <1>3, LaterSound

LEMMA CutMembers == ASSUME IInv, MemberInv, NEW r \in Requests, Cut(r) PROVE MemberInv'
<1> DEFINE o == req[r]
           p == [o EXCEPT !.pc = "commit"]
<1>1. o \in Request /\ o.pc \in Saving /\ Reaches(o, list, raced)
  BY DEF Cut, IInv, Types, MemberInv, SoundInv, Sound, Saving
<1>2. req' = [req EXCEPT ![r] = p] /\ UNCHANGED <<list, link, raced>>
  BY DEF Cut, book
<1>3. /\ p.pc \in Saving /\ p.i = o.i /\ p.row = o.row /\ p.c = o.c /\ p.op = o.op /\ p.left = o.left
      /\ ~p.failed => ~o.failed
  BY <1>1 DEF Request, Saving
<1> QED BY <1>1, <1>2, <1>3, LaterSound

(* What a commit saves: only its own client changes inbounds, but for      *)
(* orphans, and it holds the lock of the inbound.                          *)
LEMMA Saved ==
  ASSUME IInv, MemberInv, NEW r \in Requests, req[r].pc = "commit"
  PROVE  LET o == req[r] IN
         /\ o.i \in Inbounds
         /\ \A j \in Inbounds : [list EXCEPT ![o.i] = o.row][j] = IF j = o.i THEN o.row ELSE list[j]
         /\ \A c \in Clients \ {o.c} :
              /\ o.row[c] # Nothing => list[o.i][c] # Nothing
              /\ o.row[c] = Nothing /\ list[o.i][c] # Nothing => c \in raced
         /\ o.op \in Deletes => o.row[o.c] = Nothing
         /\ o.row[o.c] # Nothing /\ list[o.i][o.c] = Nothing => o.op \in Adds
<1> DEFINE o == req[r]
<1>1. RowTrue(o, list, raced) /\ o.i \in Inbounds
  BY DEF MemberInv, SoundInv, Sound, Saving, IInv, ReqInv, AtWork, Held
<1>2. \A j \in Inbounds : [list EXCEPT ![o.i] = o.row][j] = IF j = o.i THEN o.row ELSE list[j]
  BY DEF IInv, Types, BookType, Rows
<1>3. o.op \in Deletes => o.op \notin Adds \union {"update", "reset", "setEnable"}
  BY DEF Deletes, Adds
<1> QED BY <1>1, <1>2, <1>3 DEF RowTrue

LEMMA CommitMembers == ASSUME IInv, MemberInv, NEW r \in Requests, Commit(r) PROVE MemberInv'
<1> DEFINE o == req[r]
           rows == [list EXCEPT ![o.i] = o.row]
<1>1. /\ o \in Request /\ AtWork(o) /\ o.pc = "commit" /\ o.pc \in Held /\ o.pc # "idle"
      /\ o.i \in Inbounds /\ o.c \in Clients /\ o.row \in Row /\ Sound(o, list, raced)
  BY DEF Commit, IInv, Types, ReqInv, AtWork, Held, MemberInv, SoundInv
<1>2. CASE UNCHANGED <<list, link, raced>> /\
           req' = [req EXCEPT ![r] =
             IF o.op \in Deletes \union {"setEnable"} THEN [Passed(o, o.i) EXCEPT !.failed = TRUE]
             ELSE Ended(o)]
  <2>1. EntriesLinked'
    BY <1>2, LinkedStays
  <2>2. CASE o.op \in Deletes \union {"setEnable"}
    <3> DEFINE p == [Passed(o, o.i) EXCEPT !.failed = TRUE]
    <3>1. p.pc = "next" /\ p.failed = TRUE
      BY <1>1, PassedFields
    <3>2. req' = [req EXCEPT ![r] = p]
      BY <1>2, <2>2
    <3> HIDE DEF p
    <3>3. Sound(p, list, raced) /\ p.pc \notin Held
      BY <3>1 DEF Sound, Reaches, Saving, Held
    <3> QED BY <1>2, <2>1, <3>2, <3>3, MembersMove
  <2>3. CASE o.op \notin Deletes \union {"setEnable"}
    <3>1. Sound(Ended(o), list, raced) /\ Ended(o).pc \notin Held
      BY <1>1, <2>3, EndedSound
    <3> QED BY <1>2, <2>1, <2>3, <3>1, MembersMove
  <2> QED BY <2>2, <2>3
<1>3. CASE /\ list' = rows /\ link' = SyncedLinks(rows, {o.i})
           /\ req' = [req EXCEPT ![r] = IF o.op = "bulkDelete" THEN Passed(o, o.i)
                                        ELSE [o EXCEPT !.pc = "api"]]
           /\ raced' = IF o.op \in Adds /\ Deleting(o.c) THEN raced \union {o.c} ELSE raced
  <2>1. rows \in Rows /\ {o.i} \in SUBSET Inbounds /\ link \subseteq Inbounds \X Clients
    BY <1>1 DEF IInv, Types, BookType, Rows
  <2>2. raced \subseteq raced'
    BY <1>3
  <2>3. ASSUME NEW j \in Inbounds, NEW c \in Clients
        PROVE  /\ rows[j][c] # Nothing /\ list[j][c] = Nothing => c = o.c /\ o.op \in Adds
               /\ j = o.i /\ c = o.c /\ o.op \in Deletes => rows[j][c] = Nothing
    <3>1. rows[j] = IF j = o.i THEN o.row ELSE list[j]
      BY <1>1, Saved
    <3>2. /\ c # o.c /\ o.row[c] # Nothing => list[o.i][c] # Nothing
          /\ o.op \in Deletes => o.row[o.c] = Nothing
          /\ o.row[o.c] # Nothing /\ list[o.i][o.c] = Nothing => o.op \in Adds
      BY <1>1, Saved
    <3> HIDE DEF rows
    <3> QED BY <3>1, <3>2
  <2>4. EntriesLinked'
    <3> SUFFICES ASSUME NEW j \in Inbounds, NEW c \in Clients, rows[j][c] # Nothing, c \notin raced
                 PROVE  <<j, c>> \in SyncedLinks(rows, {o.i})
      BY <1>3, <2>2 DEF EntriesLinked
    <3>1. CASE j = o.i
      BY <2>1, <3>1, SyncedLinksType
    <3>2. CASE j # o.i
      <4>1. <<j, c>> \in link
        BY <1>1, <3>2, Saved DEF MemberInv, EntriesLinked
      <4> QED BY <2>1, <4>1, SyncedLinksType
    <3> QED BY <3>1, <3>2
  <2>5. PICK p : /\ req' = [req EXCEPT ![r] = p] /\ p.pc \in {"next", "api"} /\ p.op = o.op /\ p.c = o.c
                 /\ p.left \in {o.left, o.left \ {o.i}} /\ p.failed = o.failed /\ (p.pc = "api" => p.i = o.i)
    <3>1. CASE o.op = "bulkDelete"
      <4>1. LET p == Passed(o, o.i) IN
              p.pc = "next" /\ p.op = o.op /\ p.c = o.c /\ p.left = o.left \ {o.i} /\ p.failed = o.failed
        BY <1>1 DEF Passed, Request
      <4> QED BY <1>3, <3>1, <4>1
    <3>2. CASE o.op # "bulkDelete"
      <4>1. LET p == [o EXCEPT !.pc = "api"] IN
              p.pc = "api" /\ p.op = o.op /\ p.c = o.c /\ p.left = o.left /\ p.failed = o.failed /\ p.i = o.i
        BY <1>1 DEF Request
      <4> QED BY <1>3, <3>2, <4>1
    <3> QED BY <3>1, <3>2
  <2>6. \A q \in Requests : req'[q] = IF q = r THEN p ELSE req[q]
    BY <2>5 DEF IInv, Types
  <2>7. LocksApart'
    <3>1. p.pc \in Held => p.i = o.i
      BY <2>5 DEF Held
    <3>2. LocksApart
      BY DEF MemberInv
    <3> QED BY <1>1, <2>6, <3>1, <3>2 DEF LocksApart
  <2>8. Sound(p, rows, raced')
    <3>1. Reaches(p, rows, raced')
      <4> SUFFICES ASSUME o.op \in Deletes, ~o.failed, o.c \notin raced', NEW j \in Inbounds, rows[j][o.c] # Nothing
                   PROVE  j \in o.left \ {o.i}
        BY <2>5 DEF Reaches
      <4>1. j # o.i /\ list[j][o.c] # Nothing
        BY <1>1, <2>3 DEF Adds, Deletes
      <4>2. j \in o.left
        BY <1>1, <2>2, <4>1 DEF Sound, Reaches
      <4> QED BY <4>1, <4>2
    <3> QED BY <2>5, <3>1 DEF Sound, Saving
  <2>9. ASSUME NEW q \in Requests, q # r PROVE Sound(req[q], rows, raced')
    <3> DEFINE d == req[q]
    <3>1. Sound(d, list, raced) /\ AtWork(d)
      BY DEF MemberInv, SoundInv, IInv, ReqInv
    <3>2. d.pc \in Saving => RowTrue(d, rows, raced')
      <4> SUFFICES ASSUME d.pc \in Saving PROVE RowTrue(d, rows, raced')
        OBVIOUS
      <4>1. d.i # o.i /\ d.i \in Inbounds
        BY <1>1, <2>9, <3>1 DEF MemberInv, LocksApart, AtWork, Saving, Held
      <4>2. rows[d.i] = list[d.i]
        BY <1>1, <4>1 DEF IInv, Types, BookType, Rows
      <4> QED BY <2>2, <3>1, <4>2 DEF Sound, RowTrue
    <3>3. Reaches(d, rows, raced')
      <4> SUFFICES ASSUME d.pc # "idle", d.op \in Deletes, ~d.failed, d.c \notin raced',
                          NEW j \in Inbounds, rows[j][d.c] # Nothing
                   PROVE  j \in d.left /\ ~(d.pc = "api" /\ j = d.i)
        BY DEF Reaches
      <4>1. d.c \in Clients
        BY <3>1 DEF AtWork
      <4>2. list[j][d.c] # Nothing
        <5> SUFFICES ASSUME list[j][d.c] = Nothing PROVE FALSE
          OBVIOUS
        <5>1. d.c = o.c /\ o.op \in Adds
          BY <2>3, <4>1
        <5>2. Deleting(o.c)
          BY <5>1 DEF Deleting
        <5> QED BY <1>3, <5>1, <5>2
      <4> QED BY <2>2, <3>1, <4>2 DEF Sound, Reaches
    <3> QED BY <3>2, <3>3 DEF Sound
  <2>10. SoundInv'
    BY <1>3, <2>6, <2>8, <2>9 DEF SoundInv
  <2> QED BY <2>4, <2>7, <2>10 DEF MemberInv
<1> QED BY <1>2, <1>3 DEF Commit, book

LEMMA ApiMembers == ASSUME IInv, MemberInv, NEW r \in Requests, Api(r) PROVE MemberInv'
<1> DEFINE o == req[r]
           p == Passed(o, o.i)
<1>1. o \in Request /\ o.pc = "api" /\ Reaches(o, list, raced)
  BY DEF Api, IInv, Types, MemberInv, SoundInv, Sound
<1>2. req' = [req EXCEPT ![r] = p] /\ UNCHANGED <<list, link, raced>>
  BY DEF Api, book
<1>3. p.pc = "next" /\ p.op = o.op /\ p.c = o.c /\ p.left = o.left \ {o.i} /\ p.failed = o.failed
  BY <1>1 DEF Passed, Request
<1> HIDE DEF p
<1>4. Sound(p, list, raced) /\ p.pc \notin Held
  BY <1>1, <1>3 DEF Sound, Reaches, Saving, Held
<1>5. EntriesLinked'
  BY <1>2, LinkedStays
<1> QED BY <1>2, <1>4, <1>5, MembersMove

(* A deletion that removes the links has visited every entry.              *)
LEMMA FinishDeleteMembers == ASSUME IInv, MemberInv, NEW r \in Requests, FinishDelete(r) PROVE MemberInv'
<1> DEFINE o == req[r]
<1>1. o.pc = "next" /\ o.left = {} /\ o.op \in Deletes /\ Reaches(o, list, raced)
  BY DEF FinishDelete, Over, MemberInv, SoundInv, Sound
<1>2. req' = [req EXCEPT ![r] = Idle] /\ UNCHANGED <<list, raced>>
  BY DEF FinishDelete
<1>3. EntriesLinked'
  <2>1. CASE link' = link
    BY <1>2, <2>1, LinkedStays
  <2>2. CASE ~o.failed /\ link' = {l \in link : l[2] # o.c}
    <3> SUFFICES ASSUME NEW i \in Inbounds, NEW c \in Clients, list[i][c] # Nothing, c \notin raced
                 PROVE  <<i, c>> \in link'
      BY <1>2 DEF EntriesLinked
    <3>1. c # o.c
      BY <1>1, <2>2 DEF Reaches
    <3>2. <<i, c>> \in link
      BY DEF MemberInv, EntriesLinked
    <3> QED BY <2>2, <3>1, <3>2
  <2> QED BY <2>1, <2>2 DEF FinishDelete
<1> QED BY <1>2, <1>3, IdleSound, MembersMove

LEMMA FinishSwitchMembers == ASSUME IInv, MemberInv, NEW r \in Requests, FinishSwitch(r) PROVE MemberInv'
<1> DEFINE o == req[r]
<1>1. o \in Request /\ o.op \notin Deletes
  BY DEF FinishSwitch, IInv, Types, Deletes
<1>2. req' = [req EXCEPT ![r] = Ended(o)] /\ UNCHANGED <<list, link, raced>>
  BY DEF FinishSwitch
<1>3. Sound(Ended(o), list, raced) /\ Ended(o).pc \notin Held
  BY <1>1, EndedSound
<1>4. EntriesLinked'
  BY <1>2, LinkedStays
<1> QED BY <1>2, <1>3, <1>4, MembersMove

LEMMA FinishRestMembers == ASSUME IInv, MemberInv, NEW r \in Requests, FinishRest(r) PROVE MemberInv'
<1>1. req' = [req EXCEPT ![r] = Idle] /\ UNCHANGED <<list, link, raced>>
  BY DEF FinishRest, book
<1>2. EntriesLinked'
  BY <1>1, LinkedStays
<1> QED BY <1>1, <1>2, IdleSound, MembersMove

LEMMA ResetRowMembers == ASSUME IInv, MemberInv, NEW r \in Requests, ResetRow(r) PROVE MemberInv'
<1> DEFINE o == req[r]
<1>1. o \in Request /\ o.pc = "reset" /\ Reaches(o, list, raced)
  BY DEF ResetRow, IInv, Types, MemberInv, SoundInv, Sound
<1>2. UNCHANGED <<list, link, raced>>
  BY DEF ResetRow, book
<1>3. EntriesLinked'
  BY <1>2, LinkedStays
<1>4. CASE req' = [req EXCEPT ![r] = Idle]
  BY <1>2, <1>3, <1>4, IdleSound, MembersMove
<1>5. ASSUME NEW rest, req' = [req EXCEPT ![r] = [o EXCEPT !.resets = rest]] PROVE MemberInv'
  <2> DEFINE p == [o EXCEPT !.resets = rest]
  <2>1. p.pc = "reset" /\ p.op = o.op /\ p.c = o.c /\ p.left = o.left /\ p.failed = o.failed
    BY <1>1 DEF Request
  <2> HIDE DEF p
  <2>2. Sound(p, list, raced) /\ p.pc \notin Held
    BY <1>1, <2>1 DEF Sound, Reaches, Saving, Held
  <2> QED BY <1>2, <1>3, <1>5, <2>2, MembersMove DEF p
<1>6. \/ req' = [req EXCEPT ![r] = Idle]
      \/ \E rest : req' = [req EXCEPT ![r] = [o EXCEPT !.resets = rest]]
  BY DEF ResetRow
<1> QED BY <1>4, <1>5, <1>6

(* The poll switches entries on and off; who is where it leaves alone.     *)
LEMMA PollMembers == ASSUME IInv, TrafficJob \/ LoadPoll
                     PROVE  SameMembers(list, list') /\ UNCHANGED <<req, raced>> /\
                              \A i \in Inbounds, c \in Clients :
                                list[i][c] # Nothing /\ <<i, c>> \in link => <<i, c>> \in link'
<1>1. PICK S : Poll(S) /\ UNCHANGED <<req, now, begun, raced>> /\ (loading' = loading \/ loading' = TRUE)
  BY DEF TrafficJob, LoadPoll
<1>2. loading' \in BOOLEAN
  BY <1>1 DEF IInv, Types, RestType
<1> QED BY <1>1, <1>2, PollStep DEF SameMembers

LEMMA MembersStep == IInv /\ MemberInv /\ [Next]_vars => MemberInv'
<1> SUFFICES ASSUME IInv, MemberInv, [Next]_vars PROVE MemberInv'
  OBVIOUS
<1>1. ASSUME NEW r \in Requests, NEW c \in Clients, Begin(r, c) PROVE MemberInv'
  BY <1>1, BeginMembers
<1>2. ASSUME NEW r \in Requests, Step(r) PROVE MemberInv'
  BY <1>2, TakeMembers, PurgeMembers, CutMembers, CommitMembers, ApiMembers, FinishDeleteMembers,
     FinishSwitchMembers, FinishRestMembers, ResetRowMembers DEF Step
<1>3. CASE TrafficJob \/ LoadPoll
  <2>1. /\ SameMembers(list, list') /\ UNCHANGED <<req, raced>>
        /\ \A i \in Inbounds, c \in Clients :
             list[i][c] # Nothing /\ <<i, c>> \in link => <<i, c>> \in link'
    BY <1>3, PollMembers
  <2>2. EntriesLinked'
    BY <2>1 DEF MemberInv, EntriesLinked, SameMembers
  <2> QED BY <2>1, <2>2, MembersStay
<1>4. CASE ResetAll \/ Load \/ Tick \/ UNCHANGED vars
  <2>1. UNCHANGED <<list, link, raced, req>>
    BY <1>4 DEF ResetAll, Load, Tick, vars, book
  <2>2. EntriesLinked' /\ SameMembers(list, list')
    BY <2>1, LinkedStays DEF SameMembers
  <2> QED BY <2>1, <2>2, MembersStay
<1> QED BY <1>1, <1>2, <1>3, <1>4 DEF Next

LEMMA MembersAlways == Spec => [](IInv /\ MemberInv)
<1>1. Init => IInv /\ MemberInv
  BY Initially, MembersInit
<1>2. IInv /\ MemberInv /\ [Next]_vars => (IInv /\ MemberInv)'
  BY NextStep, MembersStep
<1> QED BY <1>1, <1>2, PTL DEF Spec

(* A deletion leaves no entry without a record, even if it failed half way *)
(* or ran beside every other request, unless its client was added to an    *)
(* inbound meanwhile.                                                      *)
THEOREM OrphansRaced == Spec => []OrphansWereRaced
<1>1. IInv /\ MemberInv => OrphansWereRaced
  BY NoOrphansButRaced DEF MemberInv
<1> QED BY <1>1, MembersAlways, PTL

(* Which steps move a client in or out of an inbound.                      *)
Moved(i, c) == (list[i][c] = Nothing) # (list'[i][c] = Nothing)
Mover(i, c) ==
  \/ record[c] = Nothing \/ c \in raced
  \/ \E r \in Requests : req[r].pc = "commit" /\ req[r].i = i /\ req[r].c = c /\ req'[r] # req[r]
OnlyMovers == \A i \in Inbounds, c \in Clients : Moved(i, c) => Mover(i, c)

LEMMA CommitMoves == ASSUME IInv, MemberInv, NEW r \in Requests, Commit(r) PROVE OnlyMovers
<1> DEFINE o == req[r]
<1> SUFFICES ASSUME NEW i \in Inbounds, NEW c \in Clients, Moved(i, c) PROVE Mover(i, c)
  BY DEF OnlyMovers
<1>1. o \in Request /\ o.pc = "commit" /\ req \in [Requests -> Request]
  BY DEF Commit, IInv, Types
<1>2. list' = [list EXCEPT ![o.i] = o.row]
  BY DEF Commit, Moved, book
<1>3. /\ list'[i] = IF i = o.i THEN o.row ELSE list[i]
      /\ c # o.c => /\ o.row[c] # Nothing => list[o.i][c] # Nothing
                    /\ o.row[c] = Nothing /\ list[o.i][c] # Nothing => c \in raced
  BY <1>1, <1>2, Saved
<1>4. i = o.i
  BY <1>3 DEF Moved
<1>5. CASE c # o.c
  BY <1>3, <1>4, <1>5 DEF Moved, Mover
<1>6. CASE c = o.c
  <2>1. \A j : Passed(o, j).pc = "next" /\ [Passed(o, j) EXCEPT !.failed = TRUE].pc = "next"
    BY <1>1 DEF Passed, Request
  <2>2. Ended(o).pc \in {"reset", "idle"} /\ [o EXCEPT !.pc = "api"].pc = "api"
    BY <1>1, IdleType DEF Ended, Request
  <2>3. PICK p : req' = [req EXCEPT ![r] = p] /\ p.pc # "commit"
    BY <2>1, <2>2 DEF Commit
  <2>4. req'[r] # req[r]
    BY <1>1, <2>3
  <2> QED BY <1>1, <1>4, <1>6, <2>4 DEF Mover
<1> QED BY <1>5, <1>6

LEMMA NextMoves == IInv /\ MemberInv /\ [Next]_vars => OnlyMovers
<1> SUFFICES ASSUME IInv, MemberInv, [Next]_vars PROVE OnlyMovers
  OBVIOUS
<1>1. CASE SameMembers(list, list')
  BY <1>1 DEF SameMembers, OnlyMovers, Moved
<1>2. CASE list' = list
  BY <1>1, <1>2 DEF SameMembers
<1>3. ASSUME NEW r \in Requests, NEW c \in Clients, Begin(r, c) PROVE list' = list
  BY <1>3 DEF Begin, Begins, Create, Attach, Detach, Delete, Update, SetEnable, Reset, book
<1>4. ASSUME NEW r \in Requests, Step(r), ~Commit(r) PROVE list' = list
  BY <1>4 DEF Step, Take, Purge, Cut, Api, FinishDelete, FinishSwitch, FinishRest, ResetRow, book
<1>5. CASE TrafficJob \/ LoadPoll
  BY <1>1, <1>5, PollMembers
<1>6. CASE ResetAll \/ Load \/ Tick \/ UNCHANGED vars
  BY <1>2, <1>6 DEF ResetAll, Load, Tick, vars, book
<1> QED BY <1>2, <1>3, <1>4, <1>5, <1>6, CommitMoves DEF Next

(* Whoever edits one client of an inbound neither drops another client     *)
(* from it nor brings a removed one back: the settings a request saves are *)
(* still true when it saves them.                                          *)
THEOREM OthersKept == Spec => OthersAreKept
<1>1. IInv /\ MemberInv /\ [Next]_vars => [\A i \in Inbounds, c \in Clients :
        (list[i][c] = Nothing) # (list'[i][c] = Nothing) =>
          \/ record[c] = Nothing \/ c \in raced
          \/ \E r \in Requests : req[r].pc = "commit" /\ req[r].i = i /\ req[r].c = c /\ req'[r] # req[r]]_vars
  BY NextMoves DEF OnlyMovers, Moved, Mover
<1> QED BY <1>1, MembersAlways, PTL DEF Spec, OthersAreKept
=============================================================================
