----------------------------- MODULE HubProofs -----------------------------
(***************************************************************************)
(* For any connections, publishers and queue lengths: who is connected is  *)
(* served or hung up, what is left in the registry met a full channel or a *)
(* panic, and nobody is sent to, or closed again, after he was closed.     *)
(***************************************************************************)
EXTENDS Hub, TLAPS

(* TypeOK, in parts, with the attempts left while the loop is wanted.      *)
LoopType ==
  /\ run \in {"loop", "pause", "down", "quit"} /\ crashes \in 0..Attempts /\ done \in BOOLEAN
  /\ run \in {"loop", "pause"} => crashes < Attempts
QueueType == ops \in Seq(Operations) /\ Len(ops) <= OpsQueue /\ casts \in 0..CastQueue
SetsType ==
  /\ clients \subseteq Clients /\ open \subseteq Clients /\ closed \subseteq Clients
  /\ lost \subseteq Operations
PumpType ==
  /\ conn \in [Clients -> {"new", "register", "read", "unregister", "gone"}]
  /\ writer \in [Clients -> {"none", "pump", "gone"}]
  /\ sent \in [Clients -> 0..SendQueue]
  /\ pub \in [Publishers -> {"idle", "enqueue"}]
Types == LoopType /\ QueueType /\ SetsType /\ PumpType

(* A registration is queued once, after the connection was made and before *)
(* it is known; a departure is queued behind it, by a reader that ended.   *)
Early(c) == conn[c] \in {"new", "register"}
QueuedOnce(c) ==
  /\ Op("register", c) \in Pending => ~Early(c) /\ c \notin clients
  /\ Op("unregister", c) \in Pending => conn[c] = "gone"
  /\ Early(c) => c \notin clients
InOrder(c) == \A i, j \in DOMAIN ops :
  ops[i].c = c /\ ops[j] = Op("register", c) => j <= i
OrderInv == \A c \in Clients : QueuedOnce(c) /\ InOrder(c)

(* Stragglers, those included whose registration is still queued.          *)
Departed(c) ==
  (conn[c] = "gone" /\ (c \in clients \/ Op("register", c) \in Pending)) =>
    done \/ Op("unregister", c) \in Pending \union lost
DepartInv == \A c \in Clients : Departed(c)

IInv == Types /\ OrderInv /\ DepartInv /\ ServedOrHungUp

-----------------------------------------------------------------------------
(* What an operation joining or leaving the channel does to it.            *)
LEMMA OpIs == \A k, l, c, d : (Op(k, c) = Op(l, d)) <=> (k = l /\ c = d)
<1> TAKE k, l, c, d
<1>1. Op(k, c).kind = k /\ Op(k, c).c = c /\ Op(l, d).kind = l /\ Op(l, d).c = d
  BY DEF Op
<1> QED BY <1>1

LEMMA OpType == ASSUME NEW c \in Clients
                PROVE  /\ Op("register", c) \in Operations /\ Op("unregister", c) \in Operations
                       /\ Op("register", c).c = c /\ Op("unregister", c).c = c
  BY DEF Op, Operations

LEMMA Joined ==
  ASSUME QueueType, NEW o \in Operations, ops' = Append(ops, o)
  PROVE  /\ ops' \in Seq(Operations) /\ Len(ops') = Len(ops) + 1
         /\ Pending' = Pending \union {o}
         /\ DOMAIN ops' = DOMAIN ops \union {Len(ops) + 1} /\ DOMAIN ops = 1..Len(ops)
         /\ ops'[Len(ops) + 1] = o /\ \A i \in DOMAIN ops : ops'[i] = ops[i]
<1>1. ops \in Seq(Operations) /\ Len(ops) \in Nat
  BY DEF QueueType
<1>2. ops' \in Seq(Operations) /\ Len(ops') = Len(ops) + 1
  BY <1>1
<1>3. DOMAIN ops' = DOMAIN ops \union {Len(ops) + 1} /\ DOMAIN ops = 1..Len(ops)
  BY <1>1, <1>2
<1>4. ops'[Len(ops) + 1] = o /\ \A i \in DOMAIN ops : ops'[i] = ops[i]
  BY <1>1, <1>3
<1>5. Pending' = Pending \union {o}
  <2>1. ASSUME NEW x \in Pending' PROVE x \in Pending \union {o}
    <3>1. PICK i \in DOMAIN ops' : x = ops'[i]
      BY <2>1 DEF Pending
    <3>2. CASE i \in DOMAIN ops
      <4>1. x = ops[i]
        BY <1>4, <3>1, <3>2
      <4> QED BY <3>2, <4>1 DEF Pending
    <3>3. CASE i \notin DOMAIN ops
      BY <1>3, <1>4, <3>1, <3>3
    <3> QED BY <3>2, <3>3
  <2>2. ASSUME NEW x \in Pending PROVE x \in Pending'
    <3>1. PICK i \in DOMAIN ops : x = ops[i]
      BY <2>2 DEF Pending
    <3>2. i \in DOMAIN ops' /\ x = ops'[i]
      BY <1>3, <1>4, <3>1
    <3> QED BY <3>2 DEF Pending
  <2>3. o \in Pending'
    <3>1. Len(ops) + 1 \in DOMAIN ops' /\ o = ops'[Len(ops) + 1]
      BY <1>3, <1>4
    <3> QED BY <3>1 DEF Pending
  <2> QED BY <2>1, <2>2, <2>3
<1> QED BY <1>2, <1>3, <1>4, <1>5

LEMMA Left ==
  ASSUME QueueType, ops # <<>>, ops' = Tail(ops)
  PROVE  /\ ops' \in Seq(Operations) /\ Len(ops') <= OpsQueue
         /\ Head(ops) \in Operations /\ Head(ops) \in Pending
         /\ Pending = Pending' \union {Head(ops)}
         /\ 1 \in DOMAIN ops /\ Head(ops) = ops[1]
         /\ \A i \in DOMAIN ops' : i + 1 \in DOMAIN ops /\ ops'[i] = ops[i + 1] /\ i \in Nat \ {0}
<1>1. ops \in Seq(Operations) /\ Len(ops) \in Nat \ {0} /\ OpsQueue \in Nat
  BY QueueAssumption DEF QueueType
<1>2. ops' \in Seq(Operations) /\ Len(ops') = Len(ops) - 1 /\ Head(ops) = ops[1] /\ ops[1] \in Operations
  BY <1>1
<1>3. DOMAIN ops = 1..Len(ops) /\ DOMAIN ops' = 1..(Len(ops) - 1)
  BY <1>1, <1>2
<1>4. \A i \in DOMAIN ops' : i + 1 \in DOMAIN ops /\ ops'[i] = ops[i + 1] /\ i \in Nat \ {0}
  BY <1>1, <1>2, <1>3
<1>5. \A k \in DOMAIN ops : k = 1 \/ (k - 1 \in DOMAIN ops' /\ ops'[k - 1] = ops[k])
  BY <1>1, <1>2, <1>3
<1>6. 1 \in DOMAIN ops
  BY <1>1, <1>3
<1>7. Pending = Pending' \union {Head(ops)}
  <2>1. \A o \in Pending : o \in Pending' \union {Head(ops)}
    BY <1>2, <1>5 DEF Pending
  <2>2. \A o \in Pending' : o \in Pending
    BY <1>4 DEF Pending
  <2>3. Head(ops) \in Pending
    BY <1>2, <1>6 DEF Pending
  <2> QED BY <2>1, <2>2, <2>3
<1>8. Len(ops') <= OpsQueue
  BY <1>1, <1>2 DEF QueueType
<1> QED BY <1>2, <1>4, <1>6, <1>7, <1>8

\* The operation that is taken was the only registration of its connection,
\* and no registration is left behind a departure.
LEMMA TakenIsFirst ==
  ASSUME Types, OrderInv, ops # <<>>, ops' = Tail(ops)
  PROVE  Op("register", Head(ops).c) \notin Pending'
<1> DEFINE c == Head(ops).c
<1>1. c \in Clients
  BY Left DEF Types, Operations
<1>2. SUFFICES ASSUME NEW i \in DOMAIN ops', ops'[i] = Op("register", c) PROVE FALSE
  BY DEF Pending
<1>3. 1 \in DOMAIN ops /\ ops[1].c = c /\ i + 1 \in DOMAIN ops /\ ops[i + 1] = Op("register", c) /\ i \in Nat \ {0}
  BY <1>2, Left DEF Types
<1>4. i + 1 <= 1
  BY <1>1, <1>3 DEF OrderInv, InOrder
<1> QED BY <1>3, <1>4

\* The order of the channel survives a step that does not touch it, or takes
\* its first operation.
LEMMA OrderKept ==
  ASSUME Types, OrderInv, NEW c \in Clients,
         UNCHANGED ops \/ (ops # <<>> /\ ops' = Tail(ops))
  PROVE  InOrder(c)' /\ Pending' \subseteq Pending
<1>1. CASE UNCHANGED ops
  BY <1>1 DEF OrderInv, InOrder, Pending
<1>2. CASE ops # <<>> /\ ops' = Tail(ops)
  <2>1. SUFFICES ASSUME NEW i \in DOMAIN ops', NEW j \in DOMAIN ops',
                        ops'[i].c = c, ops'[j] = Op("register", c)
                 PROVE  j <= i
    BY <1>2, Left DEF InOrder, Types
  <2>2. /\ i \in Nat /\ j \in Nat /\ i + 1 \in DOMAIN ops /\ j + 1 \in DOMAIN ops
        /\ ops[i + 1].c = c /\ ops[j + 1] = Op("register", c)
    BY <1>2, <2>1, Left DEF Types
  <2>3. j + 1 <= i + 1
    BY <2>2 DEF OrderInv, InOrder
  <2> QED BY <2>2, <2>3
<1> QED BY <1>1, <1>2

-----------------------------------------------------------------------------
LEMMA InitInv == Init => IInv
<1> SUFFICES ASSUME Init PROVE IInv
  OBVIOUS
<1>1. Types
  <2>1. /\ OpsQueue \in Nat \ {0} /\ CastQueue \in Nat \ {0}
        /\ SendQueue \in Nat \ {0} /\ Attempts \in Nat \ {0}
    BY QueueAssumption
  <2>2. ops \in Seq(Operations) /\ Len(ops) = 0
    BY DEF Init
  <2>3. QueueType
    BY <2>1, <2>2 DEF Init, QueueType
  <2>4. run = "loop" /\ crashes \in 0..Attempts /\ crashes < Attempts /\ SetsType
    BY <2>1 DEF Init, SetsType
  <2>6. done \in BOOLEAN
    BY Zenon DEF Init
  <2>5. PumpType
    BY <2>1 DEF Init, PumpType
  <2> QED BY <2>3, <2>4, <2>5, <2>6 DEF Types, LoopType
<1>2. Pending = {}
  BY DEF Init, Pending
<1>3. OrderInv /\ DepartInv /\ ServedOrHungUp
  BY <1>2 DEF Init, OrderInv, QueuedOnce, InOrder, Early, DepartInv, Departed, ServedOrHungUp
<1> QED BY <1>1, <1>3 DEF IInv

(* Steps that neither queue, take nor lose an operation: clients leave the  *)
(* registry only closed, and a connection takes at most its first step or   *)
(* stops being read.                                                        *)
Shrinks ==
  /\ clients' \subseteq clients /\ clients \subseteq clients' \union closed'
  /\ closed \subseteq closed'
  /\ done => done'
StepsOn(d) ==
  \/ conn'[d] = conn[d]
  \/ conn[d] = "new" /\ conn'[d] = "register"
  \/ conn[d] = "read" /\ conn'[d] = "unregister"

LEMMA QuietStep ==
  ASSUME IInv, Types', UNCHANGED <<ops, lost>>, Shrinks, \A d \in Clients : StepsOn(d)
  PROVE  IInv'
<1> USE DEF Shrinks, StepsOn
<1>0. done \in BOOLEAN /\ done' \in BOOLEAN
  BY DEF IInv, Types, LoopType
<1>1. Pending' = Pending
  BY DEF Pending
<1>2. OrderInv'
  <2> SUFFICES ASSUME NEW d \in Clients PROVE QueuedOnce(d)' /\ InOrder(d)'
    BY DEF OrderInv
  <2>1. InOrder(d)'
    BY OrderKept DEF IInv
  <2>2. QueuedOnce(d)
    BY DEF IInv, OrderInv
  <2>3. QueuedOnce(d)'
    BY <1>1, <2>2 DEF QueuedOnce, Early
  <2> QED BY <2>1, <2>3
<1>3. DepartInv'
  <2> SUFFICES ASSUME NEW d \in Clients, conn'[d] = "gone",
                      d \in clients' \/ Op("register", d) \in Pending', ~done'
               PROVE  Op("unregister", d) \in (Pending \union lost)'
    BY DEF DepartInv, Departed
  <2>1. conn[d] = "gone" /\ (d \in clients \/ Op("register", d) \in Pending) /\ ~done
    BY <1>0, <1>1
  <2>2. Op("unregister", d) \in Pending \union lost
    BY <2>1 DEF IInv, DepartInv, Departed
  <2> QED BY <1>1, <2>2
<1>4. ServedOrHungUp'
  <2> SUFFICES ASSUME NEW d \in Clients, conn'[d] = "read", ~done'
               PROVE  \/ d \in clients' \/ d \in closed'
                      \/ Op("register", d) \in (Pending \union lost)'
    BY DEF ServedOrHungUp
  <2>1. conn[d] = "read" /\ ~done
    BY <1>0
  <2>2. d \in clients \/ d \in closed \/ Op("register", d) \in Pending \union lost
    BY <2>1 DEF IInv, ServedOrHungUp
  <2> QED BY <1>1, <2>2
<1> QED BY <1>2, <1>3, <1>4 DEF IInv

LEMMA PumpStep ==
  ASSUME NEW c \in Clients, IInv,
         Connect(c) \/ ReadFails(c) \/ Write(c) \/ HangUp(c) \/ WriteFails(c)
  PROVE  IInv'
<1> USE DEF hub, pumps, WriterEnds
<1>0. Types /\ SendQueue \in Nat
  BY QueueAssumption DEF IInv
<1>1. CASE Connect(c) \/ ReadFails(c)
  <2>1. Types'
    BY <1>0, <1>1 DEF Connect, ReadFails, Types, LoopType, QueueType, SetsType, PumpType
  <2>2. UNCHANGED <<ops, lost>> /\ Shrinks
    BY <1>1 DEF Connect, ReadFails, Shrinks
  <2>3. \A d \in Clients : StepsOn(d)
    BY <1>0, <1>1 DEF Connect, ReadFails, StepsOn, Types, PumpType
  <2> QED BY <2>1, <2>2, <2>3, QuietStep
<1>2. CASE Write(c) \/ HangUp(c) \/ WriteFails(c)
  <2>1. LoopType' /\ QueueType' /\ SetsType'
    BY <1>0, <1>2 DEF Write, HangUp, WriteFails, Types, LoopType, QueueType, SetsType
  <2>2. PumpType'
    <3>1. CASE Write(c)
      <4>1. sent[c] \in 0..SendQueue /\ sent[c] > 0
        BY <1>0, <3>1 DEF Write, Types, PumpType
      <4>2. sent[c] - 1 \in 0..SendQueue
        BY <1>0, <4>1
      <4> QED BY <1>0, <3>1, <4>2 DEF Write, Types, PumpType
    <3>2. CASE HangUp(c) \/ WriteFails(c)
      BY <1>0, <3>2 DEF HangUp, WriteFails, Types, PumpType
    <3> QED BY <1>2, <3>1, <3>2
  <2>3. UNCHANGED <<ops, lost, conn>> /\ Shrinks
    BY <1>2 DEF Write, HangUp, WriteFails, Shrinks
  <2>4. \A d \in Clients : StepsOn(d)
    BY <2>3 DEF StepsOn
  <2>5. Types'
    BY <2>1, <2>2 DEF Types
  <2> QED BY <2>3, <2>4, <2>5, QuietStep
<1> QED BY <1>1, <1>2

LEMMA PublisherStep == ASSUME NEW b \in Publishers, IInv, Publisher(b) PROVE IInv'
<1> USE DEF hub, pumps
<1>0. Types /\ CastQueue \in Nat
  BY QueueAssumption DEF IInv
<1>1. UNCHANGED <<hub, ops, pumps, sent, closed, lost>>
  BY DEF Publisher, Broadcast, Invalidate, Enqueue
<1>2. casts' \in 0..CastQueue
  BY <1>0 DEF Publisher, Broadcast, Invalidate, Enqueue, Types, QueueType
<1>3. pub' \in [Publishers -> {"idle", "enqueue"}]
  BY <1>0 DEF Publisher, Broadcast, Invalidate, Enqueue, Types, PumpType
<1>4. Types'
  BY <1>0, <1>1, <1>2, <1>3 DEF Types, LoopType, QueueType, SetsType, PumpType
<1>5. UNCHANGED <<ops, lost>> /\ Shrinks /\ \A d \in Clients : StepsOn(d)
  BY <1>1 DEF Shrinks, StepsOn
<1> QED BY <1>4, <1>5, QuietStep

LEMMA QuietLoopStep == ASSUME IInv, Fanout \/ Shutdown \/ Resume \/ Stop PROVE IInv'
<1> USE DEF hub, pumps
<1>0. Types /\ CastQueue \in Nat /\ SendQueue \in Nat
  BY QueueAssumption DEF IInv
<1>1. UNCHANGED <<crashes, ops, pumps, pub, lost>>
  BY DEF Fanout, Shutdown, Resume, Stop
<1>2. /\ clients' \subseteq clients /\ clients \subseteq clients' \union closed'
      /\ closed \subseteq closed' /\ closed' \subseteq closed \union clients
      /\ done' \in BOOLEAN
      /\ done => done'
  BY <1>0 DEF Fanout, Shutdown, Resume, Stop, Dead, Types, LoopType
<1>3. LoopType'
  BY <1>0 DEF Fanout, Shutdown, Resume, Stop, Types, LoopType
<1>4. casts' \in 0..CastQueue
  BY <1>0 DEF Fanout, Shutdown, Resume, Stop, Types, QueueType
<1>5. sent' \in [Clients -> 0..SendQueue]
  <2>1. CASE Fanout
    <3>1. \A c \in clients \ Dead : c \in Clients /\ sent[c] \in 0..SendQueue /\ ~(sent[c] >= SendQueue)
      BY <1>0 DEF Dead, Types, PumpType, SetsType
    <3>2. \A c \in clients \ Dead : sent[c] + 1 \in 0..SendQueue
      BY <1>0, <3>1
    <3> QED BY <1>0, <2>1, <3>2 DEF Fanout, Types, PumpType
  <2>2. CASE Shutdown \/ Resume \/ Stop
    BY <1>0, <2>2 DEF Shutdown, Resume, Stop, Types, PumpType
  <2> QED BY <2>1, <2>2
<1>6. Types'
  BY <1>0, <1>1, <1>2, <1>3, <1>4, <1>5 DEF Types, QueueType, SetsType, PumpType
<1>7. UNCHANGED <<ops, lost>> /\ \A d \in Clients : StepsOn(d)
  BY <1>1 DEF StepsOn
<1>8. Shrinks
  BY <1>0, <1>2 DEF Shrinks, Types, LoopType
<1> QED BY <1>6, <1>7, <1>8, QuietStep

(* Steps that queue, take or lose an operation.                            *)
LEMMA RegisterStep == ASSUME NEW c \in Clients, IInv, Register(c) PROVE IInv'
<1> USE DEF hub
<1> DEFINE o == Op("register", c)
<1>0. Types /\ OrderInv /\ DepartInv /\ ServedOrHungUp /\ QueueType
  BY DEF IInv, Types
<1>1. /\ UNCHANGED <<run, crashes, done, clients, casts, open, sent, closed, pub, lost>>
      /\ conn[c] = "register" /\ StartPumps(c)
  BY DEF Register
<1>2. o \in Operations /\ o.c = c
  BY OpType
<1>3. \A d \in Clients : conn'[d] = IF d = c THEN "read" ELSE conn[d]
  BY <1>0, <1>1 DEF StartPumps, Types, PumpType
<1>4. conn' \in [Clients -> {"new", "register", "read", "unregister", "gone"}]
      /\ writer' \in [Clients -> {"none", "pump", "gone"}]
  BY <1>0, <1>1 DEF StartPumps, Types, PumpType
<1>5. o \notin Pending /\ Op("unregister", c) \notin Pending /\ c \notin clients
  BY <1>0, <1>1 DEF OrderInv, QueuedOnce, Early
<1>6. \A i \in DOMAIN ops : ops[i].c # c
  <2> SUFFICES ASSUME NEW i \in DOMAIN ops, ops[i].c = c PROVE FALSE
    OBVIOUS
  <2>1. ops[i] \in Pending /\ ops[i] \in Operations
    BY <1>0 DEF Pending, QueueType
  <2>2. ops[i] = Op("register", c) \/ ops[i] = Op("unregister", c)
    BY <2>1 DEF Operations, Op
  <2> QED BY <1>5, <2>1, <2>2
<1>7. CASE Len(ops) < OpsQueue /\ ops' = Append(ops, o)
  <2>1. /\ ops' \in Seq(Operations) /\ Len(ops') = Len(ops) + 1 /\ Pending' = Pending \union {o}
        /\ DOMAIN ops' = DOMAIN ops \union {Len(ops) + 1} /\ DOMAIN ops = 1..Len(ops)
        /\ ops'[Len(ops) + 1] = o /\ \A i \in DOMAIN ops : ops'[i] = ops[i]
    BY <1>0, <1>2, <1>7, Joined
  <2>2. QueueType'
    BY <1>0, <1>1, <1>7, <2>1, QueueAssumption DEF QueueType
  <2>3. Types'
    BY <1>0, <1>1, <1>4, <2>2 DEF Types, LoopType, SetsType, PumpType
  <2>4. \A d \in Clients : /\ Op("register", d) \in Pending' => d = c \/ Op("register", d) \in Pending
                           /\ Op("unregister", d) \in Pending' => Op("unregister", d) \in Pending
    BY <2>1, OpIs
  <2>5. OrderInv'
    <3> SUFFICES ASSUME NEW d \in Clients PROVE QueuedOnce(d)' /\ InOrder(d)'
      BY DEF OrderInv
    <3>1. QueuedOnce(d)'
      <4>1. QueuedOnce(d)
        BY <1>0 DEF OrderInv
      <4> QED BY <1>1, <1>3, <1>5, <2>4, <4>1 DEF QueuedOnce, Early
    <3>2. InOrder(d)'
      <4> SUFFICES ASSUME NEW i \in DOMAIN ops', NEW j \in DOMAIN ops',
                          ops'[i].c = d, ops'[j] = Op("register", d)
                   PROVE  j <= i
        BY DEF InOrder
      <4>1. Len(ops) \in Nat
        BY <1>0 DEF QueueType
      <4>2. CASE d = c
        BY <1>2, <1>6, <2>1, <4>1, <4>2 DEF Op
      <4>3. CASE d # c
        <5>1. i \in DOMAIN ops /\ j \in DOMAIN ops
          BY <1>2, <2>1, <4>3, OpIs
        <5> QED BY <1>0, <2>1, <5>1 DEF OrderInv, InOrder
      <4> QED BY <4>2, <4>3
    <3> QED BY <3>1, <3>2
  <2>6. DepartInv'
    BY <1>0, <1>1, <1>3, <2>1, <2>4 DEF DepartInv, Departed
  <2>7. ServedOrHungUp'
    BY <1>0, <1>1, <1>3, <2>1 DEF ServedOrHungUp
  <2> QED BY <2>3, <2>5, <2>6, <2>7 DEF IInv
<1>8. CASE done /\ UNCHANGED ops
  <2>1. Pending' = Pending
    BY <1>8 DEF Pending
  <2>2. Types'
    BY <1>0, <1>1, <1>4, <1>8 DEF Types, LoopType, QueueType, SetsType, PumpType
  <2>3. OrderInv'
    <3> SUFFICES ASSUME NEW d \in Clients PROVE QueuedOnce(d)' /\ InOrder(d)'
      BY DEF OrderInv
    <3>1. QueuedOnce(d)'
      BY <1>0, <1>1, <1>3, <1>5, <2>1 DEF OrderInv, QueuedOnce, Early
    <3>2. InOrder(d)'
      BY <1>0, <1>8, OrderKept
    <3> QED BY <3>1, <3>2
  <2>4. DepartInv' /\ ServedOrHungUp'
    BY <1>0, <1>1, <1>3, <1>8, <2>1 DEF DepartInv, Departed, ServedOrHungUp
  <2> QED BY <2>2, <2>3, <2>4 DEF IInv
<1> QED BY <1>7, <1>8 DEF Register

LEMMA UnregisterStep == ASSUME NEW c \in Clients, IInv, Unregister(c) PROVE IInv'
<1> USE DEF hub
<1> DEFINE o == Op("unregister", c)
<1>0. Types /\ OrderInv /\ DepartInv /\ ServedOrHungUp /\ QueueType
  BY DEF IInv, Types
<1>1. /\ UNCHANGED <<run, crashes, done, clients, casts, writer, sent, closed, pub>>
      /\ conn[c] = "unregister" /\ conn' = [conn EXCEPT ![c] = "gone"] /\ open' = open \ {c}
  BY DEF Unregister, ReaderEnds
<1>2. o \in Operations /\ o.c = c
  BY OpType
<1>3. /\ \A d \in Clients : conn'[d] = IF d = c THEN "gone" ELSE conn[d]
      /\ conn' \in [Clients -> {"new", "register", "read", "unregister", "gone"}]
  BY <1>0, <1>1 DEF Types, PumpType
<1>4. \/ /\ Len(ops) < OpsQueue /\ ops' = Append(ops, o) /\ UNCHANGED lost
      \/ /\ UNCHANGED ops /\ (done \/ o \in lost')
         /\ lost \subseteq lost' /\ lost' \subseteq lost \union {o}
  BY DEF Unregister
<1>5. /\ QueueType' /\ Pending \subseteq Pending' /\ Pending' \subseteq Pending \union {o}
      /\ done \/ o \in Pending' \/ o \in lost'
      /\ lost \subseteq lost' /\ lost' \subseteq Operations
  <2>1. CASE Len(ops) < OpsQueue /\ ops' = Append(ops, o) /\ UNCHANGED lost
    <3>1. ops' \in Seq(Operations) /\ Len(ops') = Len(ops) + 1 /\ Pending' = Pending \union {o}
      BY <1>0, <1>2, <2>1, Joined
    <3> QED BY <1>0, <1>1, <2>1, <3>1, QueueAssumption DEF QueueType, Types, SetsType
  <2>2. CASE UNCHANGED ops /\ (done \/ o \in lost') /\ lost \subseteq lost' /\ lost' \subseteq lost \union {o}
    BY <1>0, <1>1, <1>2, <2>2 DEF QueueType, Pending, Types, SetsType
  <2> QED BY <1>4, <2>1, <2>2
<1>6. Types'
  BY <1>0, <1>1, <1>3, <1>5 DEF Types, LoopType, SetsType, PumpType
<1>7. \A d \in Clients : /\ Op("register", d) \in Pending' <=> Op("register", d) \in Pending
                         /\ Op("unregister", d) \in Pending' => d = c \/ Op("unregister", d) \in Pending
  BY <1>5, OpIs
<1>8. OrderInv'
  <2> SUFFICES ASSUME NEW d \in Clients PROVE QueuedOnce(d)' /\ InOrder(d)'
    BY DEF OrderInv
  <2>1. QueuedOnce(d) /\ InOrder(d)
    BY <1>0 DEF OrderInv
  <2>2. QueuedOnce(d)'
    BY <1>1, <1>3, <1>7, <2>1 DEF QueuedOnce, Early
  <2>3. CASE UNCHANGED ops
    BY <1>0, <2>2, <2>3, OrderKept
  <2>4. CASE ops' = Append(ops, o)
    <3> SUFFICES ASSUME NEW i \in DOMAIN ops', NEW j \in DOMAIN ops',
                        ops'[i].c = d, ops'[j] = Op("register", d)
                 PROVE  j <= i
      BY <2>2 DEF InOrder
    <3>1. /\ DOMAIN ops' = DOMAIN ops \union {Len(ops) + 1} /\ DOMAIN ops = 1..Len(ops) /\ Len(ops) \in Nat
          /\ ops'[Len(ops) + 1] = o /\ \A k \in DOMAIN ops : ops'[k] = ops[k]
      BY <1>0, <1>2, <2>4, Joined DEF QueueType
    <3>2. j \in DOMAIN ops
      BY <3>1, OpIs
    <3>3. CASE i \in DOMAIN ops
      BY <2>1, <3>1, <3>2, <3>3 DEF InOrder
    <3>4. CASE i = Len(ops) + 1
      BY <3>1, <3>2, <3>4
    <3> QED BY <3>1, <3>3, <3>4
  <2> QED BY <1>4, <2>3, <2>4
<1>9. DepartInv'
  <2> SUFFICES ASSUME NEW d \in Clients PROVE Departed(d)'
    BY DEF DepartInv
  <2>1. CASE d = c
    BY <1>1, <1>5, <2>1 DEF Departed
  <2>2. CASE d # c
    BY <1>0, <1>1, <1>3, <1>5, <1>7, <2>2 DEF DepartInv, Departed
  <2> QED BY <2>1, <2>2
<1>10. ServedOrHungUp'
  BY <1>0, <1>1, <1>3, <1>5, <1>7 DEF ServedOrHungUp
<1> QED BY <1>6, <1>8, <1>9, <1>10 DEF IInv

\* The order, for a step that takes the first operation; what becomes of it
\* is for the cases to say.
LEMMA TakenOrder ==
  ASSUME IInv, ops # <<>>, ops' = Tail(ops), UNCHANGED conn,
         \A d \in Clients : d \in clients' => d \in clients \/ Head(ops) = Op("register", d)
  PROVE  OrderInv'
<1> SUFFICES ASSUME NEW d \in Clients PROVE QueuedOnce(d)' /\ InOrder(d)'
  BY DEF OrderInv
<1>0. Types /\ OrderInv /\ QueuedOnce(d)
  BY DEF IInv, OrderInv
<1>1. InOrder(d)' /\ Pending' \subseteq Pending
  BY <1>0, OrderKept
<1>2. Head(ops) \in Pending
  BY <1>0, Left DEF Types
<1>3. Head(ops) = Op("register", d) => Op("register", d) \notin Pending'
  <2> SUFFICES ASSUME Head(ops) = Op("register", d) PROVE Op("register", d) \notin Pending'
    OBVIOUS
  <2>1. Head(ops).c = d
    BY OpType
  <2> QED BY <1>0, <2>1, TakenIsFirst
<1>4. QueuedOnce(d)'
  BY <1>0, <1>1, <1>2, <1>3 DEF QueuedOnce, Early
<1> QED BY <1>1, <1>4

LEMMA TakeOpStep == ASSUME IInv, TakeOp PROVE IInv'
<1> USE DEF pumps
<1> DEFINE o == Head(ops)
<1> DEFINE c == o.c
<1>0. Types /\ OrderInv /\ DepartInv /\ ServedOrHungUp /\ QueueType
  BY DEF IInv, Types
<1>1. /\ ops # <<>> /\ ops' = Tail(ops)
      /\ UNCHANGED <<run, crashes, done, casts, conn, writer, open, sent, pub, lost>>
  BY DEF TakeOp
<1>2. /\ ops' \in Seq(Operations) /\ Len(ops') <= OpsQueue /\ o \in Operations
      /\ o \in Pending /\ Pending = Pending' \union {o}
  BY <1>0, <1>1, Left
<1>3. c \in Clients /\ (o = Op("register", c) \/ o = Op("unregister", c))
  BY <1>2 DEF Operations, Op
<1>4. \/ o = Op("register", c) /\ clients' = clients \union {c} /\ UNCHANGED closed
      \/ o = Op("unregister", c) /\ clients' = clients \ {c} /\ closed' = closed \union ({c} \intersect clients)
  <2>1. \A k \in {"register", "unregister"} : o = Op(k, c) => o.kind = k
    BY DEF Op
  <2> QED BY <1>3, <2>1 DEF TakeOp
<1>5. Types'
  <2>1. QueueType' /\ LoopType' /\ PumpType'
    BY <1>0, <1>1, <1>2 DEF Types, QueueType, LoopType, PumpType
  <2>2. SetsType'
    BY <1>0, <1>1, <1>3, <1>4 DEF Types, SetsType
  <2> QED BY <2>1, <2>2 DEF Types
<1>6. OrderInv'
  BY <1>1, <1>4, TakenOrder
<1>7. \A d \in Clients :
        /\ Op("register", d) \in Pending => Op("register", d) \in Pending' \/ (d = c /\ o = Op("register", c))
        /\ Op("unregister", d) \in Pending => Op("unregister", d) \in Pending' \/ (d = c /\ o = Op("unregister", c))
        /\ Op("register", d) \in Pending' => d # c
  <2>1. Op("register", c) \notin Pending'
    BY <1>0, <1>1, TakenIsFirst
  <2> QED BY <1>2, <1>3, <2>1, OpIs
<1>8. Op("register", c) # Op("unregister", c)
  BY OpIs
<1>9. DepartInv'
  <2> SUFFICES ASSUME NEW d \in Clients PROVE Departed(d)'
    BY DEF DepartInv
  <2>1. Departed(d)
    BY <1>0 DEF DepartInv
  <2>2. CASE d # c
    BY <1>1, <1>2, <1>4, <1>7, <2>1, <2>2 DEF Departed
  <2>3. CASE d = c /\ o = Op("register", c)
    BY <1>1, <1>2, <1>7, <1>8, <2>1, <2>3 DEF Departed
  <2>4. CASE d = c /\ o = Op("unregister", c)
    BY <1>4, <1>7, <1>8, <2>4 DEF Departed
  <2> QED BY <1>3, <2>2, <2>3, <2>4
<1>10. ServedOrHungUp'
  <2> SUFFICES ASSUME NEW d \in Clients, conn[d] = "read", ~done
               PROVE  \/ d \in clients' \/ d \in closed'
                      \/ Op("register", d) \in (Pending \union lost)'
    BY <1>1 DEF ServedOrHungUp
  <2>1. d \in clients \/ d \in closed \/ Op("register", d) \in Pending \union lost
    BY <1>0 DEF ServedOrHungUp
  <2>2. closed \subseteq closed' /\ clients \subseteq clients' \union closed'
    BY <1>4
  <2>3. CASE Op("register", d) \in Pending
    BY <1>4, <1>7, <1>8, <2>3
  <2> QED BY <1>1, <2>1, <2>2, <2>3
<1> QED BY <1>5, <1>6, <1>9, <1>10 DEF IInv

LEMMA PanicStep == ASSUME IInv, Panic PROVE IInv'
<1> USE DEF pumps
<1>0. Types /\ OrderInv /\ DepartInv /\ ServedOrHungUp /\ QueueType
  BY DEF IInv, Types
<1>1. UNCHANGED <<done, clients, conn, writer, open, sent, closed, pub>>
  BY DEF Panic
<1>2. LoopType'
  <2>1. Attempts \in Nat /\ crashes \in Nat /\ crashes < Attempts /\ done \in BOOLEAN
    BY <1>0, QueueAssumption DEF Panic, Types, LoopType
  <2>2. crashes' = crashes + 1 /\ run' = IF crashes' < Attempts THEN "pause" ELSE "down"
    BY DEF Panic
  <2>3. crashes' \in 0..Attempts /\ run' \in {"pause", "down"} /\ (run' = "pause" => crashes' < Attempts)
    BY <2>1, <2>2
  <2> QED BY <1>1, <2>1, <2>3 DEF LoopType
<1>3. CASE ops # <<>> /\ ops' = Tail(ops) /\ lost' = lost \union {Head(ops)} /\ UNCHANGED casts
  <2>1. /\ ops' \in Seq(Operations) /\ Len(ops') <= OpsQueue /\ Head(ops) \in Operations
        /\ Pending = Pending' \union {Head(ops)}
    BY <1>0, <1>3, Left
  <2>2. Types'
    BY <1>0, <1>1, <1>2, <1>3, <2>1 DEF Types, QueueType, SetsType, PumpType
  <2>3. OrderInv'
    BY <1>1, <1>3, TakenOrder
  <2>4. (Pending \union lost)' = Pending \union lost /\ Pending' \subseteq Pending
    BY <1>3, <2>1
  <2>5. DepartInv'
    BY <1>0, <1>1, <2>4 DEF DepartInv, Departed
  <2>6. ServedOrHungUp'
    BY <1>0, <1>1, <2>4 DEF ServedOrHungUp
  <2> QED BY <2>2, <2>3, <2>5, <2>6 DEF IInv
<1>4. CASE casts > 0 /\ casts' = casts - 1 /\ UNCHANGED <<ops, lost>>
  <2>1. casts' \in 0..CastQueue
    BY <1>0, <1>4, QueueAssumption DEF QueueType
  <2>2. Types'
    BY <1>0, <1>1, <1>2, <1>4, <2>1 DEF Types, QueueType, SetsType, PumpType
  <2>3. Shrinks /\ \A d \in Clients : StepsOn(d)
    BY <1>1 DEF Shrinks, StepsOn
  <2> QED BY <1>4, <2>2, <2>3, QuietStep
<1> QED BY <1>3, <1>4 DEF Panic

LEMMA StutterStep == ASSUME IInv, UNCHANGED vars PROVE IInv'
<1> USE DEF vars, hub, pumps
<1>1. Types'
  BY DEF IInv, Types, LoopType, QueueType, SetsType, PumpType
<1>2. UNCHANGED <<ops, lost>> /\ Shrinks /\ \A d \in Clients : StepsOn(d)
  BY DEF Shrinks, StepsOn
<1> QED BY <1>1, <1>2, QuietStep

LEMMA NextInv == IInv /\ [Next]_vars => IInv'
<1> SUFFICES ASSUME IInv, [Next]_vars PROVE IInv'
  OBVIOUS
<1>1. ASSUME NEW c \in Clients, Connection(c) PROVE IInv'
  BY <1>1, PumpStep, RegisterStep, UnregisterStep DEF Connection
<1>2. ASSUME NEW b \in Publishers, Publisher(b) PROVE IInv'
  BY <1>2, PublisherStep
<1>3. CASE Loop
  BY <1>3, TakeOpStep, QuietLoopStep, PanicStep DEF Loop
<1>4. CASE Stop
  BY <1>4, QuietLoopStep
<1>5. CASE UNCHANGED vars
  BY <1>5, StutterStep
<1> QED BY <1>1, <1>2, <1>3, <1>4, <1>5 DEF Next

LEMMA Invariance == Spec => []IInv
  BY InitInv, NextInv, PTL DEF Spec

(* TypeOK, for any numbers and lengths: no channel overflows, and the loop  *)
(* runs at most Attempts times.                                            *)
THEOREM TypeCorrect == Spec => []TypeOK
<1>1. IInv => TypeOK
  BY DEF IInv, Types, LoopType, QueueType, SetsType, PumpType, TypeOK
<1> QED BY <1>1, Invariance, PTL

(* ServedOrHungUp: until the hub is stopped nobody stays connected unserved *)
(* except by a registration lost in a panic.                               *)
THEOREM ServedAlways == Spec => []ServedOrHungUp
<1>1. IInv => ServedOrHungUp
  BY DEF IInv
<1> QED BY <1>1, Invariance, PTL

(* StragglersTimedOut: the registry keeps a connection that has ended only  *)
(* when its departure is queued, met a full channel, or a panic.           *)
THEOREM StragglersAlways == Spec => []StragglersTimedOut
<1>1. IInv => StragglersTimedOut
  <2> SUFFICES ASSUME IInv, NEW c \in clients, conn[c] = "gone"
               PROVE  done \/ Op("unregister", c) \in Pending \union lost
    BY DEF StragglersTimedOut
  <2>1. c \in Clients
    BY DEF IInv, Types, SetsType
  <2> QED BY <2>1 DEF IInv, DepartInv, Departed
<1> QED BY <1>1, Invariance, PTL

-----------------------------------------------------------------------------
(* A channel that is closed belongs to nobody who is in the registry or on *)
(* the way there, so no client is closed twice or sent to afterwards.      *)
Comes(c) == c \in clients \/ Early(c) \/ Op("register", c) \in Pending
OpenInv == \A c \in Clients : Comes(c) => c \notin closed

\* Only who leaves the registry is closed, and each connection comes once.
ClosesLeavers == closed' \subseteq closed \union (clients \ clients')
ComesOnce == \A c \in Clients :
  /\ c \in clients' => Comes(c)
  /\ Early(c)' => Early(c)
  /\ Op("register", c) \in Pending' => Early(c) \/ Op("register", c) \in Pending

LEMMA OpenKept == ASSUME IInv, OpenInv, ClosesLeavers, ComesOnce PROVE OpenInv'
<1> SUFFICES ASSUME NEW c \in Clients, Comes(c)', c \in closed' PROVE FALSE
  BY DEF OpenInv
<1>1. Comes(c) /\ c \notin closed
  BY DEF ComesOnce, Comes, OpenInv
<1>2. c \in clients /\ c \notin clients'
  BY <1>1 DEF ClosesLeavers
<1>3. ~Early(c) /\ Op("register", c) \notin Pending
  BY <1>2 DEF IInv, OrderInv, QueuedOnce
<1> QED BY <1>2, <1>3 DEF ComesOnce, Comes

LEMMA ConnectionOpens == ASSUME NEW c \in Clients, IInv, OpenInv, Connection(c) PROVE OpenInv'
<1> USE DEF hub, pumps, WriterEnds, ReaderEnds, StartPumps
<1>0. Types /\ QueueType
  BY DEF IInv, Types
<1>1. UNCHANGED <<clients, closed>>
  BY DEF Connection, Connect, Register, ReadFails, Unregister, Write, HangUp, WriteFails
<1>2. \A d \in Clients : Early(d)' => Early(d)
  BY <1>0 DEF Connection, Connect, Register, ReadFails, Unregister, Write, HangUp, WriteFails,
     Early, Types, PumpType
<1>3. ASSUME NEW d \in Clients, Op("register", d) \in Pending'
      PROVE  Early(d) \/ Op("register", d) \in Pending
  <2>1. CASE UNCHANGED ops
    BY <1>3, <2>1 DEF Pending
  <2>2. CASE ops' = Append(ops, Op("register", c)) /\ Early(c)
    <3>1. Pending' = Pending \union {Op("register", c)}
      BY <1>0, <2>2, OpType, Joined
    <3> QED BY <1>3, <2>2, <3>1, OpIs
  <2>3. CASE ops' = Append(ops, Op("unregister", c))
    <3>1. Pending' = Pending \union {Op("unregister", c)}
      BY <1>0, <2>3, OpType, Joined
    <3> QED BY <1>3, <3>1, OpIs
  <2> QED BY <2>1, <2>2, <2>3
      DEF Connection, Connect, Register, ReadFails, Unregister, Write, HangUp, WriteFails, Early
<1> QED BY <1>1, <1>2, <1>3, OpenKept DEF ClosesLeavers, ComesOnce, Comes

LEMMA LoopOpens == ASSUME IInv, OpenInv, Loop PROVE OpenInv'
<1>0. Types /\ QueueType
  BY DEF IInv, Types
<1>1. \A d \in Clients : Early(d)' => Early(d)
  BY DEF Loop, TakeOp, Fanout, Shutdown, Panic, Resume, pumps, Early
<1>2. UNCHANGED ops \/ (ops # <<>> /\ ops' = Tail(ops))
  BY DEF Loop, TakeOp, Fanout, Shutdown, Panic, Resume
<1>3. Pending' \subseteq Pending
  BY <1>0, <1>2, Left DEF Pending
<1>4. ClosesLeavers
  BY <1>0 DEF Loop, TakeOp, Fanout, Shutdown, Panic, Resume, Dead, ClosesLeavers, Types, SetsType
<1>5. ASSUME NEW d \in Clients, d \in clients' PROVE Comes(d)
  <2>1. CASE TakeOp
    <3>1. Head(ops) \in Pending /\ Head(ops) \in Operations
      BY <1>0, <2>1, Left DEF TakeOp
    <3>2. d \in clients \/ (Head(ops).kind = "register" /\ Head(ops).c = d)
      BY <1>5, <2>1 DEF TakeOp
    <3>3. Head(ops).kind = "register" /\ Head(ops).c = d => Head(ops) = Op("register", d)
      BY <3>1 DEF Operations, Op
    <3> QED BY <3>1, <3>2, <3>3 DEF Comes
  <2>2. CASE Fanout \/ Shutdown \/ Panic \/ Resume
    BY <1>5, <2>2 DEF Fanout, Shutdown, Panic, Resume, Comes
  <2> QED BY <2>1, <2>2 DEF Loop
<1> QED BY <1>1, <1>3, <1>4, <1>5, OpenKept DEF ComesOnce

ListedAreOpen == clients \intersect closed = {}

(* The client of a connection is closed at most once, and nothing is put   *)
(* into its Send channel afterwards, whatever is evicted, shut down or     *)
(* taken off in whatever order: the recover of trySend never has to help.  *)
THEOREM NothingSentAfterClose == Spec => []ListedAreOpen
<1>1. Init => OpenInv
  BY DEF Init, OpenInv
<1>2. IInv /\ OpenInv /\ [Next]_vars => OpenInv'
  <2> SUFFICES ASSUME IInv, OpenInv, [Next]_vars PROVE OpenInv'
    OBVIOUS
  <2>1. CASE Stop \/ UNCHANGED vars \/ \E b \in Publishers : Publisher(b)
    <3>1. UNCHANGED <<ops, clients, closed, conn>>
      BY <2>1 DEF Stop, vars, hub, pumps, Publisher, Broadcast, Invalidate, Enqueue
    <3> QED BY <3>1 DEF OpenInv, Comes, Early, Pending
  <2> QED BY <2>1, ConnectionOpens, LoopOpens DEF Next
<1>3. IInv /\ OpenInv => ListedAreOpen
  BY DEF ListedAreOpen, IInv, Types, SetsType, OpenInv, Comes
<1> QED BY <1>1, <1>2, <1>3, Invariance, PTL DEF Spec
=============================================================================
