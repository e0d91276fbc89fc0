------------------------ MODULE TrafficWriterProofs ------------------------
(***************************************************************************)
(* For any number of submitters, managers and writer generations and any   *)
(* queue size, every accepted write is executed exactly once before its    *)
(* writer ends, no second writer is ever alive, and submitTrafficWrite     *)
(* keeps the promise WritePromise states of it.                            *)
(***************************************************************************)
EXTENDS TrafficWriter, TLAPS

(* The writer of generation g has p's write in its hands.                  *)
InQueue(g, p) == \E i \in 1..Len(queue[g]) : queue[g][i] = p
Holds(g, p) == busy[g] = p \/ InQueue(g, p)

(* Generations are born in order, only the current one lives, and one that *)
(* is not alive has nothing in its hands.                                  *)
GenerationsInv ==
  /\ cur <= started
  /\ \A g \in Generations : phase[g] = "unborn" <=> g > started
  /\ OneWriter
  /\ \A g \in Generations : ~Live(g) => busy[g] = Nobody /\ queue[g] = <<>>
  /\ \A m \in Managers : mpc[m] = "drain" => mgen[m] \in 1..started

(* The lock outlives a step only for a submitter that waits for room at    *)
(* the running writer: no stop can come in between.                        *)
LockInv == \A p \in Submitters :
  /\ spc[p] = "enqueue" <=> mutex = p
  /\ spc[p] = "enqueue" => cur # 0 /\ sgen[p] = cur /\ phase[cur] = "running"

(* A write in a writer's hands is there once, and has not been executed.   *)
HeldInv == \A g \in Generations :
  /\ \A p \in Submitters : Holds(g, p) =>
       spc[p] = "wait" /\ sgen[p] = g /\ runs[p] = 0 /\ p \notin answered
  /\ \A i \in 1..Len(queue[g]) : queue[g][i] # busy[g]
  /\ \A i, j \in 1..Len(queue[g]) : queue[g][i] = queue[g][j] => i = j

(* A waiting caller's write is answered or in the hands of its writer.     *)
WaitInv == \A p \in Submitters : spc[p] = "wait" =>
  sgen[p] \in Generations /\ (p \in answered \/ Holds(sgen[p], p))

(* How often a write has been executed, by what its caller does.           *)
RunsInv == \A p \in Submitters :
  /\ p \in answered => spc[p] = "wait" /\ runs[p] = 1
  /\ spc[p] \in {"enqueue", "inline"} => runs[p] = 0

IInv ==
  /\ TypeOK /\ GenerationsInv /\ LockInv /\ HeldInv /\ WaitInv /\ RunsInv
  /\ AnswerIsTrue /\ NothingAbandoned

-----------------------------------------------------------------------------
LEMMA Initially == Init => IInv
BY ProcessAssumption, BoundsAssumption
DEF Init, IInv, TypeOK, Phases, GenerationsInv, OneWriter, Live, LockInv, HeldInv, Holds,
    InQueue, WaitInv, RunsInv, AnswerIsTrue, NothingAbandoned, Generations

(* A step that leaves channels and writers alone moves no write.           *)
LEMMA SameHands ==
  ASSUME UNCHANGED <<queue, busy>>, NEW g \in Generations, NEW p \in Submitters
  PROVE  Holds(g, p)' <=> Holds(g, p)
BY DEF Holds, InQueue

LEMMA SubmitStep == ASSUME NEW p \in Submitters, IInv, Submit(p) PROVE IInv'
<1> USE ProcessAssumption, BoundsAssumption
        DEF Submit, writers, managers
<1>1. TypeOK'
  BY DEF IInv, TypeOK, Phases
<1>2. GenerationsInv'
  BY DEF IInv, TypeOK, GenerationsInv, OneWriter, Live
<1>3. LockInv'
  BY DEF IInv, TypeOK, LockInv, RunsInv
<1>4. HeldInv'
  <2> SUFFICES ASSUME NEW g \in Generations, NEW q \in Submitters, Holds(g, q)
      PROVE  (spc[q] = "wait" /\ sgen[q] = g /\ runs[q] = 0 /\ q \notin answered)'
    BY SameHands DEF IInv, HeldInv
  <2>1. spc[q] = "wait" /\ sgen[q] = g /\ runs[q] = 0 /\ q \notin answered
    BY DEF IInv, HeldInv
  <2> QED BY <2>1 DEF IInv, TypeOK
<1>5. WaitInv'
  BY SameHands DEF IInv, TypeOK, WaitInv
<1>6. RunsInv'
  BY DEF IInv, TypeOK, RunsInv
<1>7. AnswerIsTrue'
  BY DEF IInv, TypeOK, RunsInv, AnswerIsTrue
<1>8. NothingAbandoned'
  BY DEF IInv, TypeOK, NothingAbandoned
<1> QED BY <1>1, <1>2, <1>3, <1>4, <1>5, <1>6, <1>7, <1>8 DEF IInv

LEMMA InlineDoneStep == ASSUME NEW p \in Submitters, IInv, InlineDone(p) PROVE IInv'
<1> USE ProcessAssumption, BoundsAssumption
        DEF InlineDone, Return, writers, managers
<1>1. TypeOK'
  <2>1. runs[p] = 0
    BY DEF IInv, RunsInv
  <2> QED BY <2>1 DEF IInv, TypeOK, Phases
<1>2. GenerationsInv'
  BY DEF IInv, TypeOK, GenerationsInv, OneWriter, Live
<1>3. LockInv'
  BY DEF IInv, TypeOK, LockInv
<1>4. HeldInv'
  <2> SUFFICES ASSUME NEW g \in Generations, NEW q \in Submitters, Holds(g, q)
      PROVE  (spc[q] = "wait" /\ sgen[q] = g /\ runs[q] = 0 /\ q \notin answered)'
    BY SameHands DEF IInv, HeldInv
  <2>1. spc[q] = "wait" /\ sgen[q] = g /\ runs[q] = 0 /\ q \notin answered
    BY DEF IInv, HeldInv
  <2> QED BY <2>1 DEF IInv, TypeOK
<1>5. WaitInv'
  BY SameHands DEF IInv, TypeOK, WaitInv
<1>6. RunsInv'
  BY DEF IInv, TypeOK, RunsInv
<1>7. AnswerIsTrue'
  BY DEF IInv, TypeOK, RunsInv, AnswerIsTrue
<1>8. NothingAbandoned'
  BY DEF IInv, TypeOK, NothingAbandoned
<1> QED BY <1>1, <1>2, <1>3, <1>4, <1>5, <1>6, <1>7, <1>8 DEF IInv

LEMMA EnqueueStep == ASSUME NEW p \in Submitters, IInv, Enqueue(p) PROVE IInv'
<1> USE ProcessAssumption, BoundsAssumption
        DEF Enqueue, managers
<1>1. TypeOK'
  <2>1. sgen[p] \in Generations
    BY DEF IInv, TypeOK, LockInv, Generations
  <2> QED BY <2>1 DEF IInv, TypeOK, Phases
<1>2. GenerationsInv'
  BY DEF IInv, TypeOK, GenerationsInv, OneWriter, Live, LockInv, Generations
<1>3. LockInv'
  BY DEF IInv, TypeOK, LockInv
<1>4. HeldInv'
  <2> DEFINE g == sgen[p]
  <2>1. g \in Generations /\ cur = g /\ phase[g] = "running"
    BY DEF IInv, TypeOK, LockInv, Generations
  <2>2. \A h \in Generations : ~Holds(h, p)
    BY DEF IInv, HeldInv
  <2>3. ASSUME NEW h \in Generations, h # g, NEW q \in Submitters
        PROVE  Holds(h, q)' <=> Holds(h, q)
    BY <2>1, <2>3 DEF Holds, InQueue, IInv, TypeOK
  <2>4. /\ Len(queue'[g]) = Len(queue[g]) + 1 /\ Len(queue[g]) \in Nat
        /\ queue'[g][Len(queue[g]) + 1] = p
        /\ \A i \in 1..Len(queue[g]) : queue'[g][i] = queue[g][i]
    BY <2>1 DEF IInv, TypeOK
  <2>5. \A q \in Submitters : Holds(g, q)' <=> Holds(g, q) \/ q = p
    BY <2>4 DEF Holds, InQueue
  <2>6. p \notin answered /\ runs[p] = 0
    BY DEF IInv, RunsInv
  <2>7. ASSUME NEW h \in Generations
        PROVE  /\ \A i \in 1..Len(queue'[h]) : queue'[h][i] # busy'[h]
               /\ \A i, j \in 1..Len(queue'[h]) : queue'[h][i] = queue'[h][j] => i = j
    <3>1. CASE h = g
      BY <3>1, <2>1, <2>2, <2>4 DEF IInv, HeldInv, Holds, InQueue
    <3>2. CASE h # g
      BY <3>2, <2>1 DEF IInv, TypeOK, HeldInv
    <3> QED BY <3>1, <3>2
  <2>8. ASSUME NEW h \in Generations, NEW q \in Submitters, Holds(h, q)'
        PROVE  (spc[q] = "wait" /\ sgen[q] = h /\ runs[q] = 0 /\ q \notin answered)'
    <3>1. CASE Holds(h, q)
      <4>1. q # p BY <3>1, <2>2
      <4> QED BY <3>1, <4>1 DEF IInv, TypeOK, HeldInv
    <3>2. CASE q = p /\ h = g
      BY <3>2, <2>6 DEF IInv, TypeOK
    <3> QED BY <2>8, <3>1, <3>2, <2>3, <2>5
  <2> QED BY <2>7, <2>8 DEF HeldInv
<1>5. WaitInv'
  <2> DEFINE g == sgen[p]
  <2>1. g \in Generations /\ cur = g /\ phase[g] = "running"
    BY DEF IInv, TypeOK, LockInv, Generations
  <2>3. ASSUME NEW h \in Generations, h # g, NEW q \in Submitters
        PROVE  Holds(h, q)' <=> Holds(h, q)
    BY <2>1, <2>3 DEF Holds, InQueue, IInv, TypeOK
  <2>4. /\ Len(queue'[g]) = Len(queue[g]) + 1 /\ Len(queue[g]) \in Nat
        /\ queue'[g][Len(queue[g]) + 1] = p
        /\ \A i \in 1..Len(queue[g]) : queue'[g][i] = queue[g][i]
    BY <2>1 DEF IInv, TypeOK
  <2>5. \A q \in Submitters : Holds(g, q)' <=> Holds(g, q) \/ q = p
    BY <2>4 DEF Holds, InQueue
  <2> QED BY <2>1, <2>3, <2>5 DEF IInv, TypeOK, WaitInv
<1>6. RunsInv'
  BY DEF IInv, TypeOK, RunsInv
<1>7. AnswerIsTrue'
  BY DEF IInv, TypeOK, RunsInv, AnswerIsTrue
<1>8. NothingAbandoned'
  BY DEF IInv, TypeOK, NothingAbandoned
<1> QED BY <1>1, <1>2, <1>3, <1>4, <1>5, <1>6, <1>7, <1>8 DEF IInv

LEMMA QueueFullStep == ASSUME NEW p \in Submitters, IInv, QueueFull(p) PROVE IInv'
<1> USE ProcessAssumption, BoundsAssumption
        DEF QueueFull, Return, writers, managers
<1>1. TypeOK'
  BY DEF IInv, TypeOK, Phases
<1>2. GenerationsInv'
  BY DEF IInv, TypeOK, GenerationsInv, OneWriter, Live
<1>3. LockInv'
  BY DEF IInv, TypeOK, LockInv
<1>4. HeldInv'
  <2> SUFFICES ASSUME NEW g \in Generations, NEW q \in Submitters, Holds(g, q)
      PROVE  (spc[q] = "wait" /\ sgen[q] = g /\ runs[q] = 0 /\ q \notin answered)'
    BY SameHands DEF IInv, HeldInv
  <2>1. spc[q] = "wait" /\ sgen[q] = g /\ runs[q] = 0 /\ q \notin answered
    BY DEF IInv, HeldInv
  <2> QED BY <2>1 DEF IInv, TypeOK
<1>5. WaitInv'
  BY SameHands DEF IInv, TypeOK, WaitInv
<1>6. RunsInv'
  BY DEF IInv, TypeOK, RunsInv
<1>7. AnswerIsTrue'
  BY DEF IInv, TypeOK, RunsInv, AnswerIsTrue
<1>8. NothingAbandoned'
  BY DEF IInv, TypeOK, NothingAbandoned
<1> QED BY <1>1, <1>2, <1>3, <1>4, <1>5, <1>6, <1>7, <1>8 DEF IInv

(* The second select of submitTrafficWrite never takes its default branch. *)
LEMMA AwaitAnswered == ASSUME NEW p \in Submitters, IInv, Await(p) PROVE p \in answered
<1> SUFFICES ASSUME p \notin answered PROVE FALSE
  OBVIOUS
<1>1. sgen[p] \in Generations /\ phase[sgen[p]] = "done" /\ Holds(sgen[p], p)
  BY DEF Await, IInv, WaitInv
<1>2. busy[sgen[p]] = Nobody /\ queue[sgen[p]] = <<>>
  BY <1>1 DEF IInv, GenerationsInv, Live
<1> QED BY <1>1, <1>2, ProcessAssumption DEF Holds, InQueue

LEMMA AwaitStep == ASSUME NEW p \in Submitters, IInv, Await(p) PROVE IInv'
<1> USE ProcessAssumption, BoundsAssumption
        DEF Await, Return, writers, managers
<1>1. TypeOK'
  <2>1. p \in answered BY AwaitAnswered
  <2> QED BY <2>1 DEF IInv, TypeOK, Phases
<1>2. GenerationsInv'
  BY DEF IInv, TypeOK, GenerationsInv, OneWriter, Live
<1>3. LockInv'
  BY DEF IInv, TypeOK, LockInv
<1>4. HeldInv'
  <2> SUFFICES ASSUME NEW g \in Generations, NEW q \in Submitters, Holds(g, q)
      PROVE  (spc[q] = "wait" /\ sgen[q] = g /\ runs[q] = 0 /\ q \notin answered)'
    BY SameHands DEF IInv, HeldInv
  <2>1. spc[q] = "wait" /\ sgen[q] = g /\ runs[q] = 0 /\ q \notin answered
    BY DEF IInv, HeldInv
  <2>2. q # p
    BY <2>1, AwaitAnswered
  <2> QED BY <2>1, <2>2 DEF IInv, TypeOK
<1>5. WaitInv'
  BY SameHands DEF IInv, TypeOK, WaitInv
<1>6. RunsInv'
  BY DEF IInv, TypeOK, RunsInv
<1>7. AnswerIsTrue'
  <2>1. p \in answered BY AwaitAnswered
  <2> QED BY <2>1 DEF IInv, TypeOK, RunsInv, AnswerIsTrue
<1>8. NothingAbandoned'
  <2>1. p \in answered BY AwaitAnswered
  <2> QED BY <2>1 DEF IInv, TypeOK, NothingAbandoned
<1> QED BY <1>1, <1>2, <1>3, <1>4, <1>5, <1>6, <1>7, <1>8 DEF IInv

LEMMA TakeStep == ASSUME NEW g \in Generations, IInv, Take(g) PROVE IInv'
<1> USE ProcessAssumption, BoundsAssumption
        DEF Take, submitters, managers
<1>1. TypeOK'
  BY DEF IInv, TypeOK, Phases
<1>2. GenerationsInv'
  BY DEF IInv, TypeOK, GenerationsInv, OneWriter, Live
<1>3. LockInv'
  BY DEF IInv, TypeOK, LockInv
<1>4. HeldInv'
  <2>1. /\ Len(queue'[g]) = Len(queue[g]) - 1 /\ Len(queue[g]) \in Nat /\ Len(queue[g]) > 0
        /\ busy'[g] = queue[g][1]
        /\ \A i \in 1..Len(queue'[g]) : queue'[g][i] = queue[g][i + 1]
    BY DEF IInv, TypeOK
  <2>2. ASSUME NEW h \in Generations, NEW q \in Submitters
        PROVE  Holds(h, q)' <=> Holds(h, q)
    <3>1. CASE h = g
      <4>1. Holds(g, q)' => Holds(g, q)
        BY <2>1 DEF Holds, InQueue
      <4>2. ASSUME Holds(g, q) PROVE Holds(g, q)'
        <5>1. PICK i \in 1..Len(queue[g]) : queue[g][i] = q
          BY <4>2, ProcessAssumption DEF Holds, InQueue
        <5>2. CASE i = 1
          BY <5>1, <5>2, <2>1 DEF Holds
        <5>3. CASE i # 1
          <6>1. i - 1 \in 1..Len(queue'[g]) /\ queue'[g][i - 1] = q
            BY <5>1, <5>3, <2>1
          <6> QED BY <6>1 DEF Holds, InQueue
        <5> QED BY <5>2, <5>3
      <4> QED BY <3>1, <4>1, <4>2
    <3>2. CASE h # g
      BY <3>2 DEF Holds, InQueue, IInv, TypeOK
    <3> QED BY <3>1, <3>2
  <2>3. ASSUME NEW h \in Generations
        PROVE  /\ \A i \in 1..Len(queue'[h]) : queue'[h][i] # busy'[h]
               /\ \A i, j \in 1..Len(queue'[h]) : queue'[h][i] = queue'[h][j] => i = j
    <3>1. CASE h = g
      <4>1. \A i, j \in 1..Len(queue[g]) : queue[g][i] = queue[g][j] => i = j
        BY DEF IInv, HeldInv
      <4>2. \A i \in 1..Len(queue'[g]) : i + 1 \in 1..Len(queue[g]) /\ 1 \in 1..Len(queue[g])
        BY <2>1
      <4> QED BY <3>1, <4>1, <4>2, <2>1
    <3>2. CASE h # g
      BY <3>2 DEF IInv, TypeOK, HeldInv
    <3> QED BY <3>1, <3>2
  <2> QED BY <2>2, <2>3 DEF IInv, HeldInv
<1>5. WaitInv'
  <2>1. /\ Len(queue'[g]) = Len(queue[g]) - 1 /\ Len(queue[g]) \in Nat /\ Len(queue[g]) > 0
        /\ busy'[g] = queue[g][1]
        /\ \A i \in 1..Len(queue'[g]) : queue'[g][i] = queue[g][i + 1]
    BY DEF IInv, TypeOK
  <2>2. ASSUME NEW h \in Generations, NEW q \in Submitters
        PROVE  Holds(h, q)' <=> Holds(h, q)
    <3>1. CASE h = g
      <4>1. Holds(g, q)' => Holds(g, q)
        BY <2>1 DEF Holds, InQueue
      <4>2. ASSUME Holds(g, q) PROVE Holds(g, q)'
        <5>1. PICK i \in 1..Len(queue[g]) : queue[g][i] = q
          BY <4>2, ProcessAssumption DEF Holds, InQueue
        <5>2. CASE i = 1
          BY <5>1, <5>2, <2>1 DEF Holds
        <5>3. CASE i # 1
          <6>1. i - 1 \in 1..Len(queue'[g]) /\ queue'[g][i - 1] = q
            BY <5>1, <5>3, <2>1
          <6> QED BY <6>1 DEF Holds, InQueue
        <5> QED BY <5>2, <5>3
      <4> QED BY <3>1, <4>1, <4>2
    <3>2. CASE h # g
      BY <3>2 DEF Holds, InQueue, IInv, TypeOK
    <3> QED BY <3>1, <3>2
  <2> QED BY <2>2 DEF IInv, WaitInv
<1>6. RunsInv'
  BY DEF IInv, TypeOK, RunsInv
<1>7. AnswerIsTrue'
  BY DEF IInv, TypeOK, RunsInv, AnswerIsTrue
<1>8. NothingAbandoned'
  BY DEF IInv, TypeOK, NothingAbandoned
<1> QED BY <1>1, <1>2, <1>3, <1>4, <1>5, <1>6, <1>7, <1>8 DEF IInv

LEMMA FinishStep == ASSUME NEW g \in Generations, IInv, Finish(g) PROVE IInv'
<1> USE ProcessAssumption, BoundsAssumption
        DEF Finish, managers
<1>1. TypeOK'
  <2>1. busy[g] \in Submitters /\ runs[busy[g]] = 0
    BY DEF IInv, TypeOK, HeldInv, Holds
  <2> QED BY <2>1 DEF IInv, TypeOK, Phases
<1>2. GenerationsInv'
  BY DEF IInv, TypeOK, GenerationsInv, OneWriter, Live
<1>3. LockInv'
  BY DEF IInv, TypeOK, LockInv
<1>4. HeldInv'
  <2>1. busy[g] \in Submitters /\ Holds(g, busy[g])
    BY DEF IInv, TypeOK, Holds
  <2>2. \A h \in Generations, q \in Submitters :
          Holds(h, q)' <=> Holds(h, q) /\ ~(h = g /\ q = busy[g])
    BY <2>1, ProcessAssumption DEF Holds, InQueue, IInv, TypeOK, HeldInv
  <2>3. ASSUME NEW h \in Generations, NEW q \in Submitters, Holds(h, q)'
        PROVE  (spc[q] = "wait" /\ sgen[q] = h /\ runs[q] = 0 /\ q \notin answered)'
    <3>1. Holds(h, q) /\ spc[q] = "wait" /\ sgen[q] = h /\ runs[q] = 0 /\ q \notin answered
      BY <2>2, <2>3 DEF IInv, HeldInv
    <3>2. q # busy[g]
      BY <3>1, <2>1, <2>2, <2>3 DEF IInv, HeldInv
    <3> QED BY <3>1, <3>2 DEF IInv, TypeOK
  <2>4. ASSUME NEW h \in Generations
        PROVE  /\ \A i \in 1..Len(queue'[h]) : queue'[h][i] # busy'[h]
               /\ \A i, j \in 1..Len(queue'[h]) : queue'[h][i] = queue'[h][j] => i = j
    <3>1. \A i \in 1..Len(queue[h]) : queue[h][i] \in Submitters
      BY DEF IInv, TypeOK
    <3>2. /\ queue' = queue
          /\ busy' = [busy EXCEPT ![g] = Nobody]
          /\ busy \in [Generations -> Submitters \union {Nobody}]
      BY DEF IInv, TypeOK
    <3>3. /\ \A i \in 1..Len(queue[h]) : queue[h][i] # busy[h]
          /\ \A i, j \in 1..Len(queue[h]) : queue[h][i] = queue[h][j] => i = j
      BY DEF IInv, HeldInv
    <3>4. busy'[h] = busy[h] \/ busy'[h] = Nobody
      BY <3>2
    <3>5. \A i \in 1..Len(queue[h]) : queue[h][i] # Nobody
      BY <3>1, ProcessAssumption
    <3> QED BY <3>2, <3>3, <3>4, <3>5
  <2> QED BY <2>3, <2>4 DEF HeldInv
<1>5. WaitInv'
  <2>1. busy[g] \in Submitters /\ Holds(g, busy[g])
    BY DEF IInv, TypeOK, Holds
  <2>2. \A h \in Generations, q \in Submitters :
          Holds(h, q)' <=> Holds(h, q) /\ ~(h = g /\ q = busy[g])
    BY <2>1, ProcessAssumption DEF Holds, InQueue, IInv, TypeOK, HeldInv
  <2> QED BY <2>1, <2>2 DEF IInv, TypeOK, WaitInv, HeldInv
<1>6. RunsInv'
  BY DEF IInv, TypeOK, RunsInv, HeldInv, Holds
<1>7. AnswerIsTrue'
  BY DEF IInv, TypeOK, HeldInv, Holds, AnswerIsTrue
<1>8. NothingAbandoned'
  BY DEF IInv, TypeOK, NothingAbandoned
<1> QED BY <1>1, <1>2, <1>3, <1>4, <1>5, <1>6, <1>7, <1>8 DEF IInv

LEMMA ExitStep == ASSUME NEW g \in Generations, IInv, Exit(g) PROVE IInv'
<1> USE ProcessAssumption, BoundsAssumption
        DEF Exit, submitters, managers
<1>1. TypeOK'
  BY DEF IInv, TypeOK, Phases
<1>2. GenerationsInv'
  BY DEF IInv, TypeOK, GenerationsInv, OneWriter, Live
<1>3. LockInv'
  BY DEF IInv, TypeOK, LockInv
<1>4. HeldInv'
  BY SameHands DEF IInv, TypeOK, HeldInv
<1>5. WaitInv'
  BY SameHands DEF IInv, TypeOK, WaitInv
<1>6. RunsInv'
  BY DEF IInv, TypeOK, RunsInv
<1>7. AnswerIsTrue'
  BY DEF IInv, TypeOK, RunsInv, AnswerIsTrue
<1>8. NothingAbandoned'
  BY DEF IInv, TypeOK, NothingAbandoned
<1> QED BY <1>1, <1>2, <1>3, <1>4, <1>5, <1>6, <1>7, <1>8 DEF IInv

LEMMA StartStep == ASSUME NEW m \in Managers, IInv, Start(m) PROVE IInv'
<1> USE ProcessAssumption, BoundsAssumption
        DEF Start, submitters, managers
<1>1. TypeOK'
  BY DEF IInv, TypeOK, Phases, Generations
<1>2. GenerationsInv'
  <2>1. started + 1 \in Generations
    BY DEF IInv, TypeOK, Generations
  <2>2. \A g \in Generations : ~Live(g)
    <3> SUFFICES ASSUME NEW g \in Generations, Live(g) PROVE FALSE
      OBVIOUS
    <3>1. g = cur
      BY DEF IInv, GenerationsInv, OneWriter
    <3>2. phase[g] = "done"
      BY <3>1 DEF Generations
    <3> QED BY <3>2 DEF Live
  <2>3. ASSUME NEW g \in Generations, Live(g)' PROVE g = cur'
    <3>1. ~(phase[g] \in {"running", "cancelled"})
      BY <2>2 DEF Live
    <3>2. g # started + 1 => phase'[g] = phase[g]
      BY <2>1 DEF IInv, TypeOK
    <3> QED BY <2>3, <3>1, <3>2 DEF Live
  <2>4. \A g \in Generations : phase'[g] = "unborn" <=> g > started + 1
    BY <2>1 DEF IInv, TypeOK, GenerationsInv, Generations
  <2>5. \A g \in Generations : (~Live(g))' => busy'[g] = Nobody /\ queue'[g] = <<>>
    BY <2>2 DEF IInv, GenerationsInv
  <2>6. \A n \in Managers : mpc'[n] = "drain" => mgen'[n] \in 1..started'
    BY DEF IInv, TypeOK, GenerationsInv
  <2> QED BY <2>3, <2>4, <2>5, <2>6 DEF IInv, TypeOK, GenerationsInv, OneWriter
<1>3. LockInv'
  BY DEF IInv, TypeOK, LockInv
<1>4. HeldInv'
  BY SameHands DEF IInv, TypeOK, HeldInv
<1>5. WaitInv'
  BY SameHands DEF IInv, TypeOK, WaitInv
<1>6. RunsInv'
  BY DEF IInv, TypeOK, RunsInv
<1>7. AnswerIsTrue'
  BY DEF IInv, TypeOK, RunsInv, AnswerIsTrue
<1>8. NothingAbandoned'
  BY DEF IInv, TypeOK, NothingAbandoned
<1> QED BY <1>1, <1>2, <1>3, <1>4, <1>5, <1>6, <1>7, <1>8 DEF IInv

LEMMA CancelStep == ASSUME NEW m \in Managers, IInv, Cancel(m) PROVE IInv'
<1> USE ProcessAssumption, BoundsAssumption
        DEF Cancel, submitters
<1>1. TypeOK'
  BY DEF IInv, TypeOK, Phases
<1>2. GenerationsInv'
  <2>1. cur \in Generations /\ phase[cur] # "unborn" /\ cur \in 1..started
    BY DEF IInv, TypeOK, GenerationsInv, Generations
  <2>2. \A g \in Generations : Live(g)' <=> Live(g)
    BY <2>1 DEF IInv, TypeOK, Phases, Live
  <2>3. \A g \in Generations : phase'[g] = "unborn" <=> phase[g] = "unborn"
    BY <2>1 DEF IInv, TypeOK
  <2>4. \A n \in Managers : mpc'[n] = "drain" => mgen'[n] \in 1..started'
    BY <2>1 DEF IInv, TypeOK, GenerationsInv
  <2> QED BY <2>2, <2>3, <2>4 DEF IInv, GenerationsInv, OneWriter
<1>3. LockInv'
  BY DEF IInv, TypeOK, LockInv
<1>4. HeldInv'
  BY SameHands DEF IInv, TypeOK, HeldInv
<1>5. WaitInv'
  BY SameHands DEF IInv, TypeOK, WaitInv
<1>6. RunsInv'
  BY DEF IInv, TypeOK, RunsInv
<1>7. AnswerIsTrue'
  BY DEF IInv, TypeOK, RunsInv, AnswerIsTrue
<1>8. NothingAbandoned'
  BY DEF IInv, TypeOK, NothingAbandoned
<1> QED BY <1>1, <1>2, <1>3, <1>4, <1>5, <1>6, <1>7, <1>8 DEF IInv

LEMMA ClearStep == ASSUME NEW m \in Managers, IInv, Clear(m) PROVE IInv'
<1> USE ProcessAssumption, BoundsAssumption
        DEF Clear, submitters
<1>1. TypeOK'
  BY DEF IInv, TypeOK, Phases
<1>2. GenerationsInv'
  <2>1. mgen[m] \in Generations /\ ~Live(mgen[m])
    BY DEF IInv, TypeOK, GenerationsInv, Generations, Live
  <2> QED BY <2>1 DEF IInv, TypeOK, GenerationsInv, OneWriter, Live
<1>3. LockInv'
  BY DEF IInv, TypeOK, LockInv
<1>4. HeldInv'
  BY SameHands DEF IInv, TypeOK, HeldInv
<1>5. WaitInv'
  BY SameHands DEF IInv, TypeOK, WaitInv
<1>6. RunsInv'
  BY DEF IInv, TypeOK, RunsInv
<1>7. AnswerIsTrue'
  BY DEF IInv, TypeOK, RunsInv, AnswerIsTrue
<1>8. NothingAbandoned'
  BY DEF IInv, TypeOK, NothingAbandoned
<1> QED BY <1>1, <1>2, <1>3, <1>4, <1>5, <1>6, <1>7, <1>8 DEF IInv

LEMMA StepKeepsIInv == ASSUME IInv, [Next]_vars PROVE IInv'
<1>1. CASE UNCHANGED vars
  BY <1>1 DEF vars, submitters, managers, writers, IInv, TypeOK, Phases, GenerationsInv,
     OneWriter, Live, LockInv, HeldInv, Holds, InQueue, WaitInv, RunsInv, AnswerIsTrue,
     NothingAbandoned
<1>2. CASE Next
  BY <1>2, SubmitStep, InlineDoneStep, EnqueueStep, QueueFullStep, AwaitStep, TakeStep,
     FinishStep, ExitStep, StartStep, CancelStep, ClearStep DEF Next
<1> QED BY <1>1, <1>2

THEOREM Invariance == Spec => []IInv
BY Initially, StepKeepsIInv, PTL DEF Spec

-----------------------------------------------------------------------------
(* Every variable keeps its type and no channel overflows.                 *)
THEOREM TypeCorrect == Spec => []TypeOK
<1>1. IInv => TypeOK BY DEF IInv
<1> QED BY <1>1, Invariance, PTL

(* StartTrafficWriter and StopTrafficWriter leave at most one writer       *)
(* alive, and it is the one a later stop will find.                        *)
THEOREM WriterIsUnique == Spec => []OneWriter
<1>1. IInv => OneWriter BY DEF IInv, GenerationsInv
<1> QED BY <1>1, Invariance, PTL

(* What submitTrafficWrite answers is what happened to the write.          *)
THEOREM AnswersAreTrue == Spec => []AnswerIsTrue
<1>1. IInv => AnswerIsTrue BY DEF IInv
<1> QED BY <1>1, Invariance, PTL

(* No accepted write is dropped when the writer is stopped.                *)
THEOREM NoWriteAbandoned == Spec => []NothingAbandoned
<1>1. IInv => NothingAbandoned BY DEF IInv
<1> QED BY <1>1, Invariance, PTL

-----------------------------------------------------------------------------
(* The refinement.  A step of the promise is a step of one submitter, or   *)
(* the execution of its write; everything that moves the queue, the lock   *)
(* or a generation is a stutter.                                           *)
LEMMA InitPromise == Init => Promise!Init
BY DEF Init, Promise!Init

LEMMA SubmitPromise ==
  ASSUME NEW p \in Submitters, IInv, Submit(p) PROVE Promise!Ask(p)
BY DEF Submit, Promise!Ask, IInv, TypeOK

LEMMA InlineDonePromise ==
  ASSUME NEW p \in Submitters, IInv, InlineDone(p) PROVE Promise!Serve(p)
<1>1. spc[p] # "idle" /\ runs[p] = 0
  BY DEF InlineDone, IInv, RunsInv
<1> QED BY <1>1 DEF InlineDone, Return, Promise!Serve, IInv, TypeOK

(* A caller that gives up has a write that was never executed.             *)
LEMMA QueueFullPromise ==
  ASSUME NEW p \in Submitters, IInv, QueueFull(p) PROVE Promise!Answer(p)
<1>1. spc[p] # "idle" /\ runs[p] = 0
  BY DEF QueueFull, IInv, RunsInv
<1> QED BY <1>1 DEF QueueFull, Return, Promise!Answer, IInv, TypeOK

(* A caller that waits is answered by what happened to its write.          *)
LEMMA AwaitPromise ==
  ASSUME NEW p \in Submitters, IInv, Await(p) PROVE Promise!Answer(p)
<1>1. p \in answered
  BY AwaitAnswered
<1>2. spc[p] # "idle" /\ runs[p] = 1
  BY <1>1 DEF Await, IInv, RunsInv
<1> QED BY <1>1, <1>2 DEF Await, Return, Promise!Answer, IInv, TypeOK

(* The writer executes a write whose caller waits, and for the first time. *)
LEMMA FinishPromise ==
  ASSUME NEW g \in Generations, IInv, Finish(g)
  PROVE  \E p \in Submitters : Promise!Execute(p)
<1>1. busy[g] \in Submitters /\ Holds(g, busy[g])
  BY DEF Finish, IInv, TypeOK, Holds
<1>2. spc[busy[g]] = "wait" /\ runs[busy[g]] = 0
  BY <1>1 DEF IInv, HeldInv
<1>3. Promise!Execute(busy[g])
  BY <1>1, <1>2 DEF Finish, Promise!Execute, IInv, TypeOK
<1> QED BY <1>1, <1>3

(* An accepted write has still to be answered.                             *)
LEMMA EnqueuePromise ==
  ASSUME NEW p \in Submitters, IInv, Enqueue(p) PROVE UNCHANGED Promise!vars
<1>1. \A q \in Submitters : spc'[q] # "idle" <=> spc[q] # "idle"
  BY DEF Enqueue, IInv, TypeOK
<1> QED BY <1>1 DEF Enqueue, Promise!vars

LEMMA StepKeepsPromise == ASSUME IInv, [Next]_vars PROVE [Promise!Next]_Promise!vars
<1>1. CASE UNCHANGED vars
  BY <1>1 DEF vars, submitters, Promise!vars
<1>2. ASSUME NEW p \in Submitters,
             Submit(p) \/ InlineDone(p) \/ Enqueue(p) \/ QueueFull(p) \/ Await(p)
      PROVE  [Promise!Next]_Promise!vars
  BY <1>2, SubmitPromise, InlineDonePromise, EnqueuePromise, QueueFullPromise,
     AwaitPromise DEF Promise!Next
<1>3. ASSUME NEW g \in Generations, Take(g) \/ Finish(g) \/ Exit(g)
      PROVE  [Promise!Next]_Promise!vars
  <2>1. CASE Finish(g)
    BY <2>1, FinishPromise DEF Promise!Next
  <2>2. CASE Take(g) \/ Exit(g)
    BY <2>2 DEF Take, Exit, submitters, Promise!vars
  <2> QED BY <1>3, <2>1, <2>2
<1>4. ASSUME NEW m \in Managers, Start(m) \/ Cancel(m) \/ Clear(m)
      PROVE  [Promise!Next]_Promise!vars
  BY <1>4 DEF Start, Cancel, Clear, submitters, Promise!vars
<1> QED BY <1>1, <1>2, <1>3, <1>4 DEF Next

(* submitTrafficWrite executes a write at most once, while its caller      *)
(* waits, and answers what happened, across timeouts, stops and restarts.  *)
THEOREM ImplementsWritePromise == Spec => KeepsWritePromise
<1>1. Spec => []IInv
  BY Invariance
<1>2. Init => Promise!Init
  BY InitPromise
<1>3. IInv /\ [Next]_vars => [Promise!Next]_Promise!vars
  BY StepKeepsPromise
<1> QED BY <1>1, <1>2, <1>3, PTL DEF Spec, KeepsWritePromise, Promise!Spec

-----------------------------------------------------------------------------
(* The safety side of SubmitReturns and StopReturns: who waits for whom.   *)
CancelledInv == \A m \in Managers : mpc[m] = "drain" => phase[mgen[m]] \in {"cancelled", "done"}

ServerIsThere ==
  /\ \A p \in Submitters :
       /\ spc[p] = "wait" => p \in answered \/ (Live(sgen[p]) /\ Holds(sgen[p], p))
       /\ mutex = p => sgen[p] \in Generations /\ phase[sgen[p]] = "running"
  /\ CancelledInv

LEMMA CancelledStays == ASSUME IInv, CancelledInv, [Next]_vars PROVE CancelledInv'
<1> SUFFICES ASSUME NEW m \in Managers, mpc'[m] = "drain"
             PROVE  phase'[mgen'[m]] \in {"cancelled", "done"}
  BY DEF CancelledInv
<1>0. /\ phase \in [Generations -> Phases] /\ mpc \in [Managers -> {"idle", "drain"}]
      /\ mgen \in [Managers -> 0..MaxWriters] /\ cur \in 0..MaxWriters
  BY DEF IInv, TypeOK
<1>1. CASE UNCHANGED <<phase, managers>>
  BY <1>1 DEF CancelledInv, managers
<1>2. ASSUME NEW g \in Generations, Exit(g) PROVE phase'[mgen'[m]] \in {"cancelled", "done"}
  <2>1. mpc[m] = "drain" /\ mgen'[m] = mgen[m] /\ phase[mgen[m]] \in {"cancelled", "done"}
    BY <1>2 DEF Exit, managers, CancelledInv
  <2>2. mgen[m] \in Generations
    BY <2>1, BoundsAssumption DEF IInv, TypeOK, GenerationsInv, Generations
  <2> QED BY <1>0, <1>2, <2>1, <2>2 DEF Exit
<1>3. ASSUME NEW n \in Managers, Start(n) PROVE phase'[mgen'[m]] \in {"cancelled", "done"}
  <2>1. mpc[m] = "drain" /\ mgen'[m] = mgen[m] /\ phase[mgen[m]] \in {"cancelled", "done"}
    BY <1>3 DEF Start, managers, CancelledInv
  <2>2. mgen[m] \in 1..started /\ started \in Nat /\ mgen[m] \in Generations
    BY <2>1, BoundsAssumption DEF IInv, TypeOK, GenerationsInv, Generations
  <2>3. mgen[m] # started + 1
    BY <2>2
  <2> QED BY <1>0, <1>3, <2>1, <2>2, <2>3 DEF Start
<1>4. ASSUME NEW n \in Managers, Cancel(n) PROVE phase'[mgen'[m]] \in {"cancelled", "done"}
  <2>1. cur \in Generations
    BY <1>0, <1>4, BoundsAssumption DEF Cancel, Generations
  <2>2. /\ phase'[cur] \in {"cancelled", "done"}
        /\ \A g \in Generations : g # cur => phase'[g] = phase[g]
    BY <1>0, <1>4, <2>1 DEF Cancel
  <2>3. CASE m = n
    BY <1>0, <1>4, <2>2, <2>3 DEF Cancel
  <2>4. CASE m # n
    <3>1. mpc[m] = "drain" /\ mgen'[m] = mgen[m] /\ phase[mgen[m]] \in {"cancelled", "done"}
      BY <1>0, <1>4, <2>4 DEF Cancel, CancelledInv
    <3>2. mgen[m] \in Generations
      BY <3>1, BoundsAssumption DEF IInv, TypeOK, GenerationsInv, Generations
    <3> QED BY <2>2, <3>1, <3>2
  <2> QED BY <2>3, <2>4
<1>5. ASSUME NEW n \in Managers, Clear(n) PROVE phase'[mgen'[m]] \in {"cancelled", "done"}
  BY <1>0, <1>5 DEF Clear, CancelledInv
<1> QED BY <1>1, <1>2, <1>3, <1>4, <1>5
    DEF Next, vars, writers, Submit, InlineDone, Enqueue, QueueFull, Await, Take, Finish

(* Nobody waits for a writer that is not there: a submitter has its answer *)
(* or a living writer has its write, whoever holds the mutex does so for a *)
(* running writer, which makes room, and a stop waits for a cancelled one. *)
THEOREM NobodyWaitsInVain == Spec => []ServerIsThere
<1>1. Init => CancelledInv
  BY DEF Init, CancelledInv
<1>2. IInv /\ CancelledInv => ServerIsThere
  <2> SUFFICES ASSUME IInv, CancelledInv PROVE ServerIsThere
    OBVIOUS
  <2>1. ASSUME NEW p \in Submitters, spc[p] = "wait", p \notin answered
        PROVE  Live(sgen[p]) /\ Holds(sgen[p], p)
    <3>1. sgen[p] \in Generations /\ Holds(sgen[p], p)
      BY <2>1 DEF IInv, WaitInv
    <3>2. Live(sgen[p])
      <4> SUFFICES ASSUME ~Live(sgen[p]) PROVE FALSE
        OBVIOUS
      <4>1. busy[sgen[p]] = Nobody /\ queue[sgen[p]] = <<>>
        BY <3>1 DEF IInv, GenerationsInv
      <4> QED BY <3>1, <4>1, ProcessAssumption DEF Holds, InQueue
    <3> QED BY <3>1, <3>2
  <2>2. ASSUME NEW p \in Submitters, mutex = p
        PROVE  sgen[p] \in Generations /\ phase[sgen[p]] = "running"
    BY <2>2, BoundsAssumption DEF IInv, TypeOK, LockInv, Generations
  <2> QED BY <2>1, <2>2 DEF ServerIsThere
<1>3. IInv /\ CancelledInv /\ [Next]_vars => CancelledInv'
  BY CancelledStays
<1> QED BY <1>1, <1>2, <1>3, Invariance, PTL DEF Spec
=============================================================================
