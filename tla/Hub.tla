-------------------------------- MODULE Hub --------------------------------
(***************************************************************************)
(* Live updates for the browsers (web/websocket/hub.go) and the two pumps  *)
(* of each connection (web/service/panel/websocket.go).                    *)
(*                                                                         *)
(* One goroutine owns the registry and serves two channels, one with       *)
(* registrations and departures, one with messages.  Every connection has  *)
(* a reader, which notices that the browser left, and a writer, which      *)
(* empties the Send channel of the connection.  What a message says does   *)
(* not matter here, so channels of messages are numbers.                   *)
(***************************************************************************)
EXTENDS Naturals, Sequences

CONSTANTS
  Clients,      \* connections, each with a Client of its own
  Publishers,   \* goroutines that broadcast
  OpsQueue,     \* hubOpsQueue
  CastQueue,    \* hubBroadcastQueue
  SendQueue,    \* clientSendQueue
  Attempts      \* hubRestartAttempts

ASSUME QueueAssumption == {OpsQueue, CastQueue, SendQueue, Attempts} \subseteq Nat \ {0}

VARIABLES
  run,      \* the goroutine of Run: loop, pause (backing off), down (gave up), quit
  crashes,  \* panics of its loop so far
  done,     \* h.ctx is cancelled
  clients,  \* h.clients
  ops,      \* h.ops
  casts,    \* messages in h.broadcast
  conn,     \* each connection: new, register, read, unregister, gone
  writer,   \* its writePump: none, pump, gone
  open,     \* connections neither pump has closed
  sent,     \* messages in the Send channel
  closed,   \* connections whose Send channel is closed
  pub,      \* publishers: idle, enqueue
  lost      \* history: the operations that never reached the registry

hub == <<run, crashes, done, clients>>
pumps == <<conn, writer, open>>
vars == <<hub, ops, casts, pumps, sent, closed, pub, lost>>

Op(kind, c) == [kind |-> kind, c |-> c]
Operations == [kind : {"register", "unregister"}, c : Clients]
Pending == {ops[i] : i \in DOMAIN ops}

-----------------------------------------------------------------------------
(* HandleConnection: Register, then both pumps.                            *)

Connect(c) ==
  /\ conn[c] = "new"
  /\ conn' = [conn EXCEPT ![c] = "register"]
  /\ open' = open \union {c}
  /\ UNCHANGED <<hub, ops, casts, writer, sent, closed, pub, lost>>

StartPumps(c) ==
  /\ conn' = [conn EXCEPT ![c] = "read"]
  /\ writer' = [writer EXCEPT ![c] = "pump"]

\* There is no timeout: the handler waits for room or for the end of the hub.
Register(c) ==
  /\ conn[c] = "register"
  /\ \/ Len(ops) < OpsQueue /\ ops' = Append(ops, Op("register", c))
     \/ done /\ UNCHANGED ops
  /\ StartPumps(c)
  /\ UNCHANGED <<hub, casts, open, sent, closed, pub, lost>>

-----------------------------------------------------------------------------
(* readPump.                                                               *)

\* The browser left, its pong is late, or the writer closed the connection.
ReadFails(c) ==
  /\ conn[c] = "read"
  /\ conn' = [conn EXCEPT ![c] = "unregister"]
  /\ UNCHANGED <<hub, ops, casts, writer, open, sent, closed, pub, lost>>

ReaderEnds(c) ==
  /\ conn' = [conn EXCEPT ![c] = "gone"]
  /\ open' = open \ {c}

\* Mutant: the connection takes itself off the registry.
UnregisterDirect(c) ==
  /\ conn[c] = "unregister"
  /\ clients' = clients \ {c}
  /\ closed' = closed \union ({c} \intersect clients)
  /\ ReaderEnds(c)
  /\ UNCHANGED <<run, crashes, done, ops, casts, writer, sent, pub, lost>>

Unregister(c) ==
  /\ conn[c] = "unregister"
  /\ \/ Len(ops) < OpsQueue /\ ops' = Append(ops, Op("unregister", c)) /\ UNCHANGED lost
     \/ done /\ UNCHANGED <<ops, lost>>
     \* enqueueTimeout
     \/ /\ Len(ops) >= OpsQueue
        /\ lost' = lost \union {Op("unregister", c)}
        /\ UNCHANGED ops
  /\ ReaderEnds(c)
  /\ UNCHANGED <<hub, casts, writer, sent, closed, pub>>

-----------------------------------------------------------------------------
(* writePump.                                                              *)

WriterEnds(c) ==
  /\ writer' = [writer EXCEPT ![c] = "gone"]
  /\ open' = open \ {c}

Write(c) ==
  /\ writer[c] = "pump" /\ c \in open /\ sent[c] > 0
  /\ sent' = [sent EXCEPT ![c] = @ - 1]
  /\ UNCHANGED <<hub, ops, casts, pumps, closed, pub, lost>>

\* The Send channel is empty and closed.
HangUp(c) ==
  /\ writer[c] = "pump" /\ c \in closed /\ sent[c] = 0
  /\ WriterEnds(c)
  /\ UNCHANGED <<hub, ops, casts, conn, sent, closed, pub, lost>>

\* A message or a ping cannot be written, in wsWriteWait at the latest.
WriteFails(c) ==
  /\ writer[c] = "pump"
  /\ WriterEnds(c)
  /\ UNCHANGED <<hub, ops, casts, conn, sent, closed, pub, lost>>

-----------------------------------------------------------------------------
(* Broadcast and BroadcastInvalidate.                                      *)

\* With no client, or when the type is throttled, nothing happens.
Broadcast(b) ==
  /\ pub[b] = "idle" /\ clients # {}
  /\ pub' = [pub EXCEPT ![b] = "enqueue"]
  /\ UNCHANGED <<hub, ops, casts, pumps, sent, closed, lost>>

Invalidate(b) ==
  /\ pub[b] = "idle"
  /\ pub' = [pub EXCEPT ![b] = "enqueue"]
  /\ UNCHANGED <<hub, ops, casts, pumps, sent, closed, lost>>

\* A message is dropped at the end of the hub and when the queue stays full.
Enqueue(b) ==
  /\ pub[b] = "enqueue"
  /\ \/ casts < CastQueue /\ casts' = casts + 1
     \/ (done \/ casts >= CastQueue) /\ UNCHANGED casts
  /\ pub' = [pub EXCEPT ![b] = "idle"]
  /\ UNCHANGED <<hub, ops, pumps, sent, closed, lost>>

-----------------------------------------------------------------------------
(* runOnce: one of its channels that is ready, or the end.                 *)

TakeOp ==
  LET c == Head(ops).c IN
  /\ run = "loop" /\ ops # <<>>
  /\ ops' = Tail(ops)
  /\ \/ /\ Head(ops).kind = "register"
        /\ clients' = clients \union {c}
        /\ UNCHANGED closed
     \/ /\ Head(ops).kind = "unregister"
        /\ clients' = clients \ {c}
        /\ closed' = closed \union ({c} \intersect clients)
  /\ UNCHANGED <<run, crashes, done, casts, pumps, sent, pub, lost>>

\* trySend fails on a full channel, and would on a closed one.
Dead == {c \in clients : c \in closed \/ sent[c] >= SendQueue}

\* Mutant: a full client is skipped.
FanoutPatient ==
  /\ run = "loop" /\ casts > 0
  /\ casts' = casts - 1
  /\ sent' = [c \in Clients |-> IF c \in clients \ Dead THEN sent[c] + 1 ELSE sent[c]]
  /\ UNCHANGED <<hub, ops, pumps, closed, pub, lost>>

\* Mutant: a full client is dropped, its channel is not closed.
FanoutForgets ==
  /\ run = "loop" /\ casts > 0
  /\ casts' = casts - 1
  /\ sent' = [c \in Clients |-> IF c \in clients \ Dead THEN sent[c] + 1 ELSE sent[c]]
  /\ clients' = clients \ Dead
  /\ UNCHANGED <<run, crashes, done, ops, pumps, closed, pub, lost>>

Fanout ==
  /\ run = "loop" /\ casts > 0
  /\ casts' = casts - 1
  /\ sent' = [c \in Clients |-> IF c \in clients \ Dead THEN sent[c] + 1 ELSE sent[c]]
  /\ clients' = clients \ Dead
  /\ closed' = closed \union Dead
  /\ UNCHANGED <<run, crashes, done, ops, pumps, pub, lost>>

Shutdown ==
  /\ run = "loop" /\ done
  /\ run' = "quit"
  /\ clients' = {}
  /\ closed' = closed \union clients
  /\ UNCHANGED <<crashes, done, ops, casts, pumps, sent, pub, lost>>

\* Mutant: the attempt that failed is not counted in.
PanicOnceMore ==
  /\ run = "loop"
  /\ \/ /\ ops # <<>> /\ ops' = Tail(ops)
        /\ lost' = lost \union {Head(ops)}
        /\ UNCHANGED casts
     \/ casts > 0 /\ casts' = casts - 1 /\ UNCHANGED <<ops, lost>>
  /\ crashes' = crashes + 1
  /\ run' = IF crashes < Attempts THEN "pause" ELSE "down"
  /\ UNCHANGED <<done, clients, pumps, sent, closed, pub>>

\* What was being handled is lost; the sections under the lock cannot panic.
Panic ==
  /\ run = "loop"
  /\ \/ /\ ops # <<>> /\ ops' = Tail(ops)
        /\ lost' = lost \union {Head(ops)}
        /\ UNCHANGED casts
     \/ casts > 0 /\ casts' = casts - 1 /\ UNCHANGED <<ops, lost>>
  /\ crashes' = crashes + 1
  /\ run' = IF crashes' < Attempts THEN "pause" ELSE "down"
  /\ UNCHANGED <<done, clients, pumps, sent, closed, pub>>

\* A hub that is cancelled while it backs off returns without shutdown.
Resume ==
  /\ run = "pause"
  /\ run' = "loop" \/ (done /\ run' = "quit")
  /\ UNCHANGED <<crashes, done, clients, ops, casts, pumps, sent, closed, pub, lost>>

Stop ==
  /\ ~done
  /\ done' = TRUE
  /\ UNCHANGED <<run, crashes, clients, ops, casts, pumps, sent, closed, pub, lost>>

-----------------------------------------------------------------------------
Init ==
  /\ run = "loop" /\ crashes = 0 /\ done = FALSE /\ clients = {}
  /\ ops = <<>> /\ casts = 0
  /\ conn = [c \in Clients |-> "new"]
  /\ writer = [c \in Clients |-> "none"]
  /\ open = {} /\ closed = {} /\ lost = {}
  /\ sent = [c \in Clients |-> 0]
  /\ pub = [b \in Publishers |-> "idle"]

Connection(c) ==
  \/ Connect(c) \/ Register(c)
  \/ ReadFails(c) \/ Unregister(c)
  \/ Write(c) \/ HangUp(c) \/ WriteFails(c)

Publisher(b) == Broadcast(b) \/ Invalidate(b) \/ Enqueue(b)

Loop == TakeOp \/ Fanout \/ Shutdown \/ Panic \/ Resume

Next ==
  \/ \E c \in Clients : Connection(c)
  \/ \E b \in Publishers : Publisher(b)
  \/ Loop
  \/ Stop

Spec == Init /\ [][Next]_vars

\* A closed connection fails its pumps; the status ticker broadcasts every
\* two seconds; select does not pass over a ready channel for ever, and who
\* waits for room in a channel is served in turn.
FairSpec ==
  /\ Spec
  /\ WF_vars(TakeOp) /\ WF_vars(Fanout) /\ WF_vars(Shutdown) /\ WF_vars(Resume)
  /\ \A c \in Clients :
       /\ SF_vars(Register(c))
       /\ WF_vars(c \notin open /\ ReadFails(c)) /\ WF_vars(Unregister(c))
       /\ WF_vars(Write(c)) /\ WF_vars(HangUp(c))
       /\ WF_vars(c \notin open /\ WriteFails(c))
  /\ \A b \in Publishers : WF_vars(Broadcast(b)) /\ WF_vars(Enqueue(b))

-----------------------------------------------------------------------------
\* Every variable keeps its type, no channel holds more than its capacity, and
\* the loop is tried no more than hubRestartAttempts times.
TypeOK ==
  /\ run \in {"loop", "pause", "down", "quit"} /\ crashes \in 0..Attempts /\ done \in BOOLEAN
  /\ clients \subseteq Clients /\ open \subseteq Clients /\ closed \subseteq Clients
  /\ ops \in Seq(Operations) /\ Len(ops) <= OpsQueue
  /\ casts \in 0..CastQueue
  /\ conn \in [Clients -> {"new", "register", "read", "unregister", "gone"}]
  /\ writer \in [Clients -> {"none", "pump", "gone"}]
  /\ sent \in [Clients -> 0..SendQueue]
  /\ pub \in [Publishers -> {"idle", "enqueue"}]
  /\ lost \subseteq Operations

\* While the hub is wanted, a browser whose connection is being read gets
\* the broadcasts, is about to, or is being hung up: a client leaves the
\* registry only together with its Send channel.  Only a registration that a
\* panic swallowed leaves a browser connected and deaf.
ServedOrHungUp == \A c \in Clients :
  (conn[c] = "read" /\ ~done) =>
    \/ c \in clients \/ c \in closed
    \/ Op("register", c) \in Pending \union lost

\* What stays in the registry after its connection ended is about to be
\* taken off, or its departure met a full channel or a panic: departures
\* follow registrations through one channel and never overtake them.
StragglersTimedOut == \A c \in clients :
  conn[c] = "gone" => done \/ Op("unregister", c) \in Pending \union lost

\* The hub gave up, or was cancelled while it backed off.
Abandoned == run = "down" \/ (run = "quit" /\ clients # {})

Over(c) == c \in closed /\ conn[c] = "gone" /\ writer[c] = "gone"

\* A registered client whose connection ended, be its departure dropped or
\* not, or whose hub is stopped, is hung up in the end: a straggler is evicted
\* when its Send channel has filled, and then both pumps have returned.
EndedIsHungUp == \A c \in Clients :
  (c \in clients /\ (conn[c] = "gone" \/ done)) ~> (Over(c) \/ Abandoned)
=============================================================================
