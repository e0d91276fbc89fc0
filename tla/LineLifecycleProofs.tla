------------------------ MODULE LineLifecycleProofs ------------------------
(***************************************************************************)
(* For any number of lines, requests and overlapping job runs, any types   *)
(* and settings and any number of faults: the artifacts of a line live and *)
(* die with it, an apply deploys what it stores and keeps what was edited, *)
(* the queries of the validity job miss no line, and the service           *)
(* implements the abstract promise of LinePromise.                         *)
(***************************************************************************)
EXTENDS LineLifecycle, TLAPS

(* TypeOK, by the groups of variables that steps leave alone together.     *)
RowType ==
  /\ status \in [Lines -> Statuses]
  /\ manual \in [Lines -> BOOLEAN]
  /\ validFrom \in [Lines -> Nat] /\ validUntil \in [Lines -> Nat]
  /\ plan \in [Lines -> MaybePlan]
  /\ stamp \in [Lines -> Nat] /\ exitStamp \in [Lines -> Nat]
InfraType ==
  /\ inbound \in [Lines -> {"none", "disabled", "enabled"}]
  /\ built \in [Lines -> MaybePlan]
  /\ routed \subseteq Lines /\ clients \subseteq Lines /\ sites \subseteq Lines
ProcType ==
  /\ pc \in [Procs -> Steps]
  /\ op \in [Procs -> AllOperations \union {"none"}]
  /\ tgt \in [Procs -> Lines \union {Nothing}]
  /\ seen \in [Procs -> Notes \union {Nothing}]
LoopType ==
  /\ due \in [Jobs -> SUBSET Lines]
  /\ jnow \in [Jobs -> Nat] /\ restart \in [Jobs -> BOOLEAN]
ClockType == now \in Nat /\ faults \in Nat /\ began \in Nat /\ overwritten \subseteq Lines

Typed == RowType /\ InfraType /\ ProcType /\ LoopType /\ ClockType

(* A process inside an operation works on a line, and remembers it where   *)
(* it will come back to what it read.                                      *)
Working == Steps \ {"idle", "finish", "claim", "expire"}
Remembering == {"writeBack", "stageWrite", "checkWrite", "deleteTx"}
AimInv == \A p \in Procs :
  /\ pc[p] \in Working => tgt[p] \in Lines
  /\ pc[p] \in Remembering => seen[p] \in Notes

(* The open transaction of an apply: there is one at most, and what it saw *)
(* when it began still holds, because the lock keeps other writers out.    *)
InTx == {"applySite", "applyCommit"}
Admitted(p) == LET l == tgt[p] IN
  /\ Exists(l) /\ ~manual[l] /\ status[l] \notin ExpiryStatus
  /\ validFrom[l] <= began /\ ~Ended(l, began)
  /\ ~Stale(p)
TxInv ==
  /\ now > 0
  /\ \A p \in Procs : pc[p] \in InTx => began > 0 /\ Admitted(p)
  /\ \A p, q \in Procs : pc[p] \in InTx /\ pc[q] \in InTx => p = q

(* A line that is there has a plan, and none that is gone is waiting for a *)
(* renewal.                                                                *)
OwnInv == \A l \in Lines : (manual[l] => Exists(l)) /\ (Exists(l) => plan[l] \in Plans)

IInv == Typed /\ AimInv /\ TxInv /\ OwnInv /\ RuntimeFollowsLine /\ PendingCheckIsDeployed

-----------------------------------------------------------------------------
(* What the operators on configurations return.                            *)
LEMMA FillConfig ==
  ASSUME NEW t \in LineTypes, NEW c \in Configs
  PROVE  /\ Fill(t, c) \in Configs
         /\ Fill(t, c).settings = c.settings /\ Fill(t, c).pending = c.pending
         /\ c.filled \subseteq Fill(t, c).filled
BY DEF Fill, Configs

LEMMA PromoteConfig ==
  ASSUME NEW t \in LineTypes, NEW c \in Configs
  PROVE  /\ Promote(t, c) \in Configs
         /\ Promote(t, c).settings = c.settings /\ Promote(t, c).filled = c.filled
         /\ Promote(t, c).pending => c.pending
BY DEF Promote, Configs

LEMMA SavedPlan ==
  ASSUME NEW t \in Types, NEW s \in Settings, NEW waiting \in BOOLEAN
  PROVE  Saved(t, s, waiting) \in Plans
<1> DEFINE c == [settings |-> s, filled |-> {}, pending |-> waiting]
<1>1. c \in Configs
  BY DEF Configs
<1>2. Fill(t, c) \in Configs
  BY <1>1, FillConfig, PlansAssumption
<1> QED BY <1>2 DEF Saved, Plans

(* What an apply prepares from a configuration that is not stale, and what *)
(* it builds and stores.                                                   *)
LEMMA CandidatePlan ==
  ASSUME NEW p \in Procs, ProcType, OwnInv, tgt[p] \in Lines, Exists(tgt[p])
  PROVE  LET was == plan[tgt[p]] IN
         /\ Candidate(p) \in Plans /\ Candidate(p).type = was.type
         /\ ~Stale(p) => /\ Candidate(p).json.settings = was.json.settings
                         /\ was.json.filled \subseteq Candidate(p).json.filled
                         /\ Candidate(p).json.pending => was.json.pending
<1> DEFINE was == plan[tgt[p]]
           base == IF seen[p] = Nothing THEN was ELSE seen[p].plan
           kept == Fill(base.type, base.json)
<1>1. was \in Plans
  BY DEF OwnInv
<1>2. base \in Plans
  BY <1>1 DEF ProcType, Notes
<1>3. /\ was.type \in LineTypes /\ was.json \in Configs
      /\ base.type \in LineTypes /\ base.json \in Configs
  BY <1>1, <1>2, PlansAssumption DEF Plans
<1>4. /\ kept \in Configs
      /\ kept.settings = base.json.settings /\ kept.pending = base.json.pending
      /\ base.json.filled \subseteq kept.filled
  BY <1>3, FillConfig
<1>5. /\ Fill("reality", kept) \in Configs
      /\ Fill("reality", kept).settings = kept.settings
      /\ Fill("reality", kept).pending = kept.pending
      /\ kept.filled \subseteq Fill("reality", kept).filled
  <2> HIDE DEF kept
  <2> QED BY <1>4, FillConfig DEF LineTypes
<1>6. Prepared(p) = kept \/ Prepared(p) = Fill("reality", kept)
  BY DEF Prepared
<1>7. /\ Prepared(p) \in Configs
      /\ Prepared(p).settings = base.json.settings /\ Prepared(p).pending = base.json.pending
      /\ base.json.filled \subseteq Prepared(p).filled
  <2> HIDE DEF kept, base
  <2> QED BY <1>4, <1>5, <1>6
<1>8. /\ Promote(was.type, Prepared(p)) \in Configs
      /\ Promote(was.type, Prepared(p)).settings = Prepared(p).settings
      /\ Promote(was.type, Prepared(p)).filled = Prepared(p).filled
      /\ Promote(was.type, Prepared(p)).pending => Prepared(p).pending
  <2> HIDE DEF was
  <2> QED BY <1>3, <1>7, PromoteConfig
<1>9. /\ Candidate(p).type = was.type
      /\ Candidate(p).json = Promote(was.type, Prepared(p))
      /\ Candidate(p) = [type |-> was.type, json |-> Promote(was.type, Prepared(p))]
  BY DEF Candidate
<1>10. Candidate(p) \in Plans
  <2>1. was.type \in Types
    BY <1>1 DEF Plans
  <2> HIDE DEF was
  <2> QED BY <1>8, <1>9, <2>1 DEF Plans
<1>11. ~Stale(p) => base.json = was.json
  BY DEF Stale
<1> HIDE DEF was, base, kept
<1>12. ~Stale(p) => /\ Candidate(p).json.settings = was.json.settings
                    /\ was.json.filled \subseteq Candidate(p).json.filled
                    /\ Candidate(p).json.pending => was.json.pending
  BY <1>7, <1>8, <1>9, <1>11
<1> QED BY <1>9, <1>10, <1>12 DEF was

-----------------------------------------------------------------------------
(* What the helpers write.                                                 *)
LEMMA SetExpiryType ==
  ASSUME NEW l \in Lines, NEW s \in Statuses, RowType, ClockType, SetExpiry(l, s),
         UNCHANGED <<validFrom, validUntil, plan, exitStamp>>
  PROVE  RowType'
<1>1. manual' \in [Lines -> BOOLEAN]
  BY DEF RowType, SetExpiry
<1>2. status' \in [Lines -> Statuses] /\ stamp' \in [Lines -> Nat]
  BY DEF RowType, ClockType, SetExpiry, SetStatus
<1> QED BY <1>1, <1>2 DEF RowType

LEMMA SnapshotType ==
  ASSUME NEW l \in Lines, NEW mark \in BOOLEAN, RowType, OwnInv, Exists(l)
  PROVE  Snapshot(l, mark) \in Notes
BY DEF Snapshot, Notes, RowType, OwnInv

(* A configuration that is stored from a reading which is still true adds  *)
(* to what was deployed; otherwise the line is marked.                     *)
LEMMA StoreConfigKeeps ==
  ASSUME IInv, NEW l \in Lines, NEW note \in Notes, NEW json \in Configs,
         json.settings = note.plan.json.settings,
         note.plan.json.filled \subseteq json.filled,
         note.plan.json.pending => json.pending,
         StoreConfig(l, note, json),
         UNCHANGED <<status, manual, validFrom, validUntil, exitStamp, built>>
  PROVE  RowType' /\ OwnInv' /\ PendingCheckIsDeployed' /\ overwritten' \subseteq Lines
<1>1. CASE ~Exists(l)
  BY <1>1 DEF IInv, Typed, RowType, ClockType, StoreConfig, OwnInv, Exists,
     PendingCheckIsDeployed, Deploys
<1>2. CASE Exists(l)
  <2> DEFINE new == [plan[l] EXCEPT !.json = json]
  <2>1. plan[l] \in Plans /\ note.plan \in Plans
    BY <1>2 DEF IInv, OwnInv, Notes
  <2>2. new \in Plans /\ new.type = plan[l].type /\ new.json = json
    BY <2>1 DEF Plans
  <2>3. /\ plan' = [plan EXCEPT ![l] = new]
        /\ stamp' = [stamp EXCEPT ![l] = now]
        /\ overwritten' = IF note.plan = plan[l] THEN overwritten ELSE overwritten \union {l}
    BY <1>2 DEF StoreConfig
  <2> HIDE DEF new
  <2>4. /\ plan'[l] = new /\ \A k \in Lines \ {l} : plan'[k] = plan[k]
        /\ plan' \in [Lines -> MaybePlan] /\ stamp' \in [Lines -> Nat]
    BY <2>2, <2>3 DEF IInv, Typed, RowType, ClockType, MaybePlan
  <2>5. RowType' /\ OwnInv'
    BY <2>2, <2>4 DEF IInv, Typed, RowType, OwnInv, Exists
  <2>6. overwritten' \subseteq Lines
    BY <2>3 DEF IInv, Typed, ClockType
  <2>7. ASSUME NEW k \in Lines, status[k] = "pending_check", k \notin overwritten'
        PROVE  built[k] # Nothing /\ plan'[k] # Nothing /\ Deploys(built[k], plan'[k])
    <3>1. /\ k \notin overwritten
          /\ built[k] # Nothing /\ plan[k] # Nothing /\ Deploys(built[k], plan[k])
      BY <2>3, <2>7 DEF IInv, PendingCheckIsDeployed
    <3>2. CASE k # l
      BY <2>4, <3>1, <3>2
    <3>3. CASE k = l
      <4>1. note.plan = plan[l]
        BY <2>3, <2>7, <3>3
      <4>2. new # Nothing
        BY <2>2, PlansAssumption
      <4> QED BY <2>2, <2>4, <3>1, <3>3, <4>1, <4>2 DEF Deploys
    <3> QED BY <3>2, <3>3
  <2> QED BY <2>5, <2>6, <2>7 DEF PendingCheckIsDeployed
<1> QED BY <1>1, <1>2

(* What a step of one process may do to where the processes are, when it   *)
(* does not enter the transaction of an apply.                             *)
Moves(p) ==
  /\ ProcType'
  /\ \A q \in Procs \ {p} : pc'[q] = pc[q] /\ tgt'[q] = tgt[q] /\ seen'[q] = seen[q]
  /\ pc'[p] \notin InTx
  /\ pc'[p] \in Working => tgt'[p] \in Lines
  /\ pc'[p] \in Remembering => seen'[p] \in Notes

LEMMA MovesAim ==
  ASSUME IInv, NEW p \in Procs, Moves(p) PROVE AimInv'
BY DEF IInv, AimInv, Moves

LEMMA MovesTx ==
  ASSUME IInv, NEW p \in Procs, Moves(p), UNCHANGED <<now, began>>,
         began = 0 \/ UNCHANGED row
  PROVE  TxInv'
<1>1. \A q \in Procs : pc'[q] \in InTx =>
        pc[q] \in InTx /\ tgt'[q] = tgt[q] /\ seen'[q] = seen[q] /\ UNCHANGED row
  BY DEF IInv, TxInv, Moves
<1>2. \A q \in Procs : pc'[q] \in InTx => Admitted(q)'
  BY <1>1 DEF IInv, TxInv, Admitted, Exists, Ended, Stale, row
<1> QED BY <1>1, <1>2 DEF IInv, TxInv

-----------------------------------------------------------------------------
(* The invariant holds at the start, and every step keeps it.  Each proof  *)
(* begins with the parts that the step cannot disturb.                     *)
LEMMA Initially == Init => IInv
<1> SUFFICES ASSUME Init PROVE IInv
  OBVIOUS
<1> USE PlansAssumption DEF Init
<1>1. PICK t \in [Legacy -> Types], s \in [Legacy -> Settings] : plan = [l \in Lines |->
        IF l \notin Legacy THEN Nothing
        ELSE [type |-> t[l], json |-> [settings |-> s[l], filled |-> {}, pending |-> FALSE]]]
  OBVIOUS
<1>2. \A l \in Lines : plan[l] \in MaybePlan /\ (l \in Legacy => plan[l] \in Plans)
  BY <1>1 DEF MaybePlan, Plans, Configs
<1>3. plan \in [Lines -> MaybePlan]
  BY <1>1, <1>2
<1>4. Typed
  BY <1>3 DEF Typed, RowType, InfraType, ProcType, LoopType, ClockType, Statuses, Steps, MaybePlan
<1>5. OwnInv
  BY <1>2 DEF OwnInv, Exists
<1>6. AimInv /\ TxInv /\ RuntimeFollowsLine /\ PendingCheckIsDeployed
  BY DEF AimInv, Working, Remembering, TxInv, InTx, RuntimeFollowsLine, PendingCheckIsDeployed
<1> QED BY <1>4, <1>5, <1>6 DEF IInv

LEMMA CreateLineStep ==
  ASSUME NEW p \in Requests, NEW l \in Lines, IInv, CreateLine(p, l) PROVE IInv'
<1> USE PlansAssumption DEF CreateLine, Begin, Goto, Aim, infra, loop, Procs
<1>1. (InfraType /\ LoopType /\ ClockType)'
  BY DEF IInv, Typed, InfraType, LoopType, ClockType
<1>2. RowType'
  <2>1. PICK t \in Types, s \in Settings, from, until \in 0..MaxTime :
          /\ status' = [status EXCEPT ![l] = InitialStatus(from)]
          /\ plan' = [plan EXCEPT ![l] = Saved(t, s, FALSE)]
          /\ validFrom' = [validFrom EXCEPT ![l] = from]
          /\ validUntil' = [validUntil EXCEPT ![l] = until]
          /\ stamp' = [stamp EXCEPT ![l] = now] /\ exitStamp' = [exitStamp EXCEPT ![l] = now]
    BY DEF SetStatus
  <2>2. Saved(t, s, FALSE) \in Plans
    BY SavedPlan
  <2>3. UNCHANGED manual /\ from \in Nat /\ until \in Nat /\ InitialStatus(from) \in Statuses
    BY BoundsAssumption DEF InitialStatus, Statuses
  <2> HIDE DEF CreateLine
  <2> QED BY <2>1, <2>2, <2>3 DEF IInv, Typed, RowType, ClockType, MaybePlan
<1>3. OwnInv'
  <2>1. PICK t \in Types, s \in Settings :
          plan' = [plan EXCEPT ![l] = Saved(t, s, FALSE)]
    OBVIOUS
  <2>2. Saved(t, s, FALSE) \in Plans
    BY SavedPlan
  <2>3. \A k \in Lines \ {l} : status'[k] = status[k]
    BY DEF IInv, Typed, RowType, SetStatus
  <2>4. UNCHANGED manual /\ ~manual[l]
    BY DEF IInv, OwnInv, Exists
  <2> HIDE DEF CreateLine
  <2>5. /\ \A k \in Lines \ {l} : plan'[k] = plan[k]
        /\ plan'[l] \in Plans
    BY <2>1, <2>2 DEF IInv, Typed, RowType
  <2> QED BY <2>3, <2>4, <2>5 DEF IInv, OwnInv, Exists
<1>4. RuntimeFollowsLine'
  <2>1. UNCHANGED <<inbound, routed, clients>>
    OBVIOUS
  <2>2. /\ \A k \in Lines \ {l} : status'[k] = status[k]
        /\ status'[l] \in {"scheduled", "pending_apply"}
    BY DEF SetStatus, InitialStatus, IInv, Typed, RowType
  <2> QED BY <2>1, <2>2 DEF IInv, RuntimeFollowsLine, Exists
<1>5. PendingCheckIsDeployed'
  <2>1. /\ \A k \in Lines \ {l} : status'[k] = status[k] /\ plan'[k] = plan[k]
        /\ status'[l] \in {"scheduled", "pending_apply"}
        /\ UNCHANGED built /\ \A k \in Lines \ {l} : k \in overwritten => k \in overwritten'
    BY DEF SetStatus, InitialStatus, IInv, Typed, RowType
  <2> HIDE DEF CreateLine
  <2> QED BY <2>1 DEF IInv, PendingCheckIsDeployed, Deploys
<1>6. Moves(p)
  BY DEF IInv, Typed, ProcType, LoopType, AimInv, Moves, Working, Remembering, InTx, Steps,
      AllOperations
<1>7. TxInv'
  BY <1>6, MovesTx DEF Unlocked, row, Procs
<1> QED BY <1>1, <1>2, <1>3, <1>4, <1>5, <1>6, <1>7, MovesAim DEF IInv, Typed, Moves, Procs

LEMMA UpdateLineStep ==
  ASSUME NEW p \in Requests, NEW l \in Lines, IInv, UpdateLine(p, l) PROVE IInv'
<1> USE PlansAssumption DEF UpdateLine, Begin, Goto, Aim, infra, loop, Procs
<1>1. (InfraType /\ LoopType)'
  BY DEF IInv, Typed, InfraType, LoopType
<1>2. RowType'
  <2>1. PICK t \in Types, s \in Settings, from, until \in 0..MaxTime :
          /\ status' = [status EXCEPT ![l] = InitialStatus(from)]
          /\ plan' = [plan EXCEPT ![l] = Saved(t, s, plan[l].json.pending)]
          /\ validFrom' = [validFrom EXCEPT ![l] = from]
          /\ validUntil' = [validUntil EXCEPT ![l] = until]
          /\ stamp' = [stamp EXCEPT ![l] = now] /\ exitStamp' = [exitStamp EXCEPT ![l] = now]
    BY DEF SetStatus
  <2>2. Saved(t, s, plan[l].json.pending) \in Plans
    <3>1. plan[l] \in Plans
      BY DEF IInv, OwnInv
    <3>2. plan[l].json.pending \in BOOLEAN
      BY <3>1 DEF Plans, Configs
    <3> QED BY <3>2, SavedPlan
  <2>3. UNCHANGED manual /\ from \in Nat /\ until \in Nat /\ InitialStatus(from) \in Statuses
    BY BoundsAssumption DEF InitialStatus, Statuses
  <2> HIDE DEF UpdateLine
  <2> QED BY <2>1, <2>2, <2>3 DEF IInv, Typed, RowType, ClockType, MaybePlan
<1>3. ClockType'
  BY DEF IInv, Typed, ClockType, AimInv, Working, Steps
<1>4. OwnInv'
  <2>1. PICK t \in Types, s \in Settings :
          plan' = [plan EXCEPT ![l] = Saved(t, s, plan[l].json.pending)]
    OBVIOUS
  <2>2. Saved(t, s, plan[l].json.pending) \in Plans
    <3>1. plan[l] \in Plans
      BY DEF IInv, OwnInv
    <3>2. plan[l].json.pending \in BOOLEAN
      BY <3>1 DEF Plans, Configs
    <3> QED BY <3>2, SavedPlan
  <2>3. \A k \in Lines \ {l} : status'[k] = status[k]
    BY DEF IInv, Typed, RowType, SetStatus
  <2>4. UNCHANGED manual /\ ~manual[l]
    BY DEF IInv, OwnInv, Exists
  <2> HIDE DEF UpdateLine
  <2>5. /\ \A k \in Lines \ {l} : plan'[k] = plan[k]
        /\ plan'[l] \in Plans
    BY <2>1, <2>2 DEF IInv, Typed, RowType
  <2> QED BY <2>3, <2>4, <2>5 DEF IInv, OwnInv, Exists
<1>5. RuntimeFollowsLine'
  <2>1. UNCHANGED <<inbound, routed, clients>>
    OBVIOUS
  <2>2. /\ \A k \in Lines \ {l} : status'[k] = status[k]
        /\ status'[l] \in {"scheduled", "pending_apply"}
    BY DEF SetStatus, InitialStatus, IInv, Typed, RowType
  <2> QED BY <2>1, <2>2 DEF IInv, RuntimeFollowsLine, Exists
<1>6. PendingCheckIsDeployed'
  <2>1. /\ \A k \in Lines \ {l} : status'[k] = status[k] /\ plan'[k] = plan[k]
        /\ status'[l] \in {"scheduled", "pending_apply"}
        /\ UNCHANGED built /\ \A k \in Lines \ {l} : k \in overwritten => k \in overwritten'
    BY DEF SetStatus, InitialStatus, IInv, Typed, RowType
  <2> HIDE DEF UpdateLine
  <2> QED BY <2>1 DEF IInv, PendingCheckIsDeployed, Deploys
<1>7. Moves(p)
  BY DEF IInv, Typed, ProcType, LoopType, AimInv, Moves, Working, Remembering, InTx, Steps,
      AllOperations
<1>8. TxInv'
  BY <1>7, MovesTx DEF Unlocked, row, Procs
<1> QED BY <1>1, <1>2, <1>3, <1>4, <1>5, <1>6, <1>7, <1>8, MovesAim DEF IInv, Typed, Moves,
    Procs

LEMMA UpdateLineValidityStep ==
  ASSUME NEW l \in Lines, IInv, UpdateLineValidity(l) PROVE IInv'
<1> USE PlansAssumption DEF UpdateLineValidity, infra, proc, loop, Unlocked
<1>1. (InfraType /\ LoopType /\ ClockType /\ OwnInv /\ RuntimeFollowsLine /\
    PendingCheckIsDeployed)'
  BY DEF IInv, Typed, InfraType, LoopType, ClockType, OwnInv, Exists, RuntimeFollowsLine,
      PendingCheckIsDeployed, Deploys
<1>2. RowType'
  BY BoundsAssumption DEF IInv, Typed, RowType, ClockType
<1>3. ProcType'
  BY DEF IInv, Typed, ProcType
<1>4. AimInv'
  BY DEF IInv, AimInv
<1>5. TxInv'
  BY DEF IInv, TxInv, InTx
<1> QED BY <1>1, <1>2, <1>3, <1>4, <1>5 DEF IInv, Typed

LEMMA GetLineStep ==
  ASSUME NEW p \in Requests, NEW l \in Lines, IInv, GetLine(p, l) PROVE IInv'
<1> USE PlansAssumption DEF GetLine, Begin, Goto, Aim, row, infra, loop, Procs
<1>1. (RowType /\ InfraType /\ LoopType /\ ClockType /\ OwnInv /\ RuntimeFollowsLine /\
    PendingCheckIsDeployed)'
  BY DEF IInv, Typed, RowType, InfraType, LoopType, ClockType, OwnInv, Exists,
      RuntimeFollowsLine, PendingCheckIsDeployed, Deploys
<1>2. Moves(p)
  BY DEF IInv, Typed, ProcType, LoopType, AimInv, Moves, Working, Remembering, InTx, Steps,
      AllOperations
<1>3. TxInv'
  BY <1>2, MovesTx DEF Unlocked, row, Procs
<1> QED BY <1>1, <1>2, <1>3, MovesAim DEF IInv, Typed, Moves, Procs

LEMMA ApplyRequestStep ==
  ASSUME NEW p \in Requests, NEW l \in Lines, IInv, ApplyRequest(p, l) PROVE IInv'
<1> USE PlansAssumption DEF ApplyRequest, Begin, Goto, Aim, row, infra, loop, Procs
<1>1. (RowType /\ InfraType /\ LoopType /\ ClockType /\ OwnInv /\ RuntimeFollowsLine /\
    PendingCheckIsDeployed)'
  BY DEF IInv, Typed, RowType, InfraType, LoopType, ClockType, OwnInv, Exists,
      RuntimeFollowsLine, PendingCheckIsDeployed, Deploys
<1>2. Moves(p)
  BY DEF IInv, Typed, ProcType, LoopType, AimInv, Moves, Working, Remembering, InTx, Steps,
      AllOperations
<1>3. TxInv'
  BY <1>2, MovesTx DEF Unlocked, row, Procs
<1> QED BY <1>1, <1>2, <1>3, MovesAim DEF IInv, Typed, Moves, Procs

LEMMA StageCloudflareOriginCertificateStep ==
  ASSUME NEW p \in Requests, NEW l \in Lines, IInv, StageCloudflareOriginCertificate(p, l) PROVE IInv'
<1> USE PlansAssumption DEF StageCloudflareOriginCertificate, Begin, Goto, Aim, row, infra,
    loop, Procs
<1>1. (RowType /\ InfraType /\ LoopType /\ ClockType /\ OwnInv /\ RuntimeFollowsLine /\
    PendingCheckIsDeployed)'
  BY DEF IInv, Typed, RowType, InfraType, LoopType, ClockType, OwnInv, Exists,
      RuntimeFollowsLine, PendingCheckIsDeployed, Deploys
<1>2. Moves(p)
  <2>1. Snapshot(l, TRUE) \in Notes
    BY SnapshotType DEF IInv, Typed
  <2> QED BY <2>1 DEF IInv, Typed, ProcType, Moves, Working, Remembering, InTx, Steps, AllOperations
<1>3. TxInv'
  BY <1>2, MovesTx DEF Unlocked, row, Procs
<1> QED BY <1>1, <1>2, <1>3, MovesAim DEF IInv, Typed, Moves, Procs

LEMMA RenewLineStep ==
  ASSUME NEW p \in Requests, NEW l \in Lines, IInv, RenewLine(p, l) PROVE IInv'
<1> USE PlansAssumption DEF RenewLine, Begin, Goto, Aim, SetStatus, infra, loop, Procs
<1>1. (InfraType /\ LoopType /\ ClockType)'
  BY DEF IInv, Typed, InfraType, LoopType, ClockType
<1>2. RowType'
  BY BoundsAssumption DEF IInv, Typed, RowType, ClockType, Statuses
<1>3. OwnInv'
  BY DEF IInv, Typed, RowType, OwnInv, Exists, InitialStatus, AimInv, Working, Steps
<1>4. RuntimeFollowsLine'
  BY DEF IInv, Typed, RowType, InfraType, RuntimeFollowsLine, Exists, InitialStatus, AimInv,
      Working, Steps
<1>5. PendingCheckIsDeployed'
  BY DEF IInv, Typed, RowType, InfraType, PendingCheckIsDeployed, Deploys, InitialStatus,
      AimInv, Working, Steps
<1>6. Moves(p)
  BY DEF IInv, Typed, ProcType, LoopType, AimInv, Moves, Working, Remembering, InTx, Steps,
      AllOperations
<1>7. TxInv'
  BY <1>6, MovesTx DEF Unlocked, row, Procs
<1> QED BY <1>1, <1>2, <1>3, <1>4, <1>5, <1>6, <1>7, MovesAim DEF IInv, Typed, Moves, Procs

LEMMA CheckReadStep ==
  ASSUME NEW p \in Requests, NEW l \in Lines, IInv, CheckRead(p, l) PROVE IInv'
<1> USE PlansAssumption DEF CheckRead, Begin, Goto, Aim, row, infra, loop, Procs
<1>1. (RowType /\ InfraType /\ LoopType /\ ClockType /\ OwnInv /\ RuntimeFollowsLine /\
    PendingCheckIsDeployed)'
  BY DEF IInv, Typed, RowType, InfraType, LoopType, ClockType, OwnInv, Exists,
      RuntimeFollowsLine, PendingCheckIsDeployed, Deploys
<1>2. Moves(p)
  <2> DEFINE whole == /\ inbound[l] = "enabled"
                      /\ l \in routed
                      /\ UsesNginx([plan[l] EXCEPT !.json = Fill(plan[l].type, @)]) => l \in sites
  <2>1. Begin(p, "check", "checkWrite") /\ Aim(p, l, Snapshot(l, whole))
    BY Zenon
  <2>2. whole \in BOOLEAN /\ Exists(l)
    BY DEF CanApply
  <2> HIDE DEF whole, CheckRead
  <2>3. Snapshot(l, whole) \in Notes
    BY <2>2, SnapshotType DEF IInv, Typed
  <2> QED BY <2>1, <2>3 DEF IInv, Typed, ProcType, Moves, Working, Remembering, InTx, Steps, AllOperations
<1>3. TxInv'
  BY <1>2, MovesTx DEF Unlocked, row, Procs
<1> QED BY <1>1, <1>2, <1>3, MovesAim DEF IInv, Typed, Moves, Procs

LEMMA DeleteSiteStep ==
  ASSUME NEW p \in Requests, NEW l \in Lines, IInv, DeleteSite(p, l) PROVE IInv'
<1> USE PlansAssumption DEF DeleteSite, Begin, Goto, Aim, SitesWithout, row, loop, Procs
<1>1. (RowType /\ LoopType /\ ClockType /\ OwnInv)'
  BY DEF IInv, Typed, RowType, LoopType, ClockType, OwnInv, Exists
<1>2. InfraType'
  BY DEF IInv, Typed, InfraType, AimInv, Working, Steps
<1>3. RuntimeFollowsLine'
  BY DEF IInv, Typed, RowType, InfraType, RuntimeFollowsLine, Exists, InitialStatus, AimInv,
      Working, Steps
<1>4. PendingCheckIsDeployed'
  BY DEF IInv, Typed, RowType, InfraType, PendingCheckIsDeployed, Deploys, InitialStatus,
      AimInv, Working, Steps
<1>5. Moves(p)
  <2> DEFINE there == UsesNginx(plan[l]) /\ l \in sites
  <2>1. Begin(p, "delete", "deleteTx") /\ Aim(p, l, Snapshot(l, there)) /\ Exists(l)
    BY Zenon
  <2>2. there \in BOOLEAN
    OBVIOUS
  <2> HIDE DEF there, DeleteSite
  <2>3. Snapshot(l, there) \in Notes
    BY <2>1, <2>2, SnapshotType DEF IInv, Typed
  <2> QED BY <2>1, <2>3 DEF IInv, Typed, ProcType, Moves, Working, Remembering, InTx, Steps, AllOperations
<1>6. TxInv'
  BY <1>5, MovesTx DEF Unlocked, row, Procs
<1> QED BY <1>1, <1>2, <1>3, <1>4, <1>5, <1>6, MovesAim DEF IInv, Typed, Moves, Procs

LEMMA StageWriteStep ==
  ASSUME NEW p \in Requests, IInv, StageWrite(p) PROVE IInv'
<1> USE PlansAssumption DEF StageWrite, Answer, Goto, Aim, infra, loop, Procs
<1>1. (InfraType /\ LoopType /\ RuntimeFollowsLine)'
  BY DEF IInv, Typed, InfraType, LoopType, RuntimeFollowsLine, Exists
<1>2. RowType' /\ OwnInv' /\ PendingCheckIsDeployed' /\ overwritten' \subseteq Lines
  <2>1. tgt[p] \in Lines /\ seen[p] \in Notes
    BY DEF IInv, AimInv, Working, Remembering, Steps
  <2>2. seen[p].plan.type \in LineTypes /\ seen[p].plan.json \in Configs
    BY <2>1, PlansAssumption DEF Notes, Plans
  <2>3. LET json == [Fill("cloudflare", seen[p].plan.json) EXCEPT !.pending = TRUE] IN
        /\ json \in Configs /\ json.settings = seen[p].plan.json.settings /\ json.pending
        /\ seen[p].plan.json.filled \subseteq json.filled
    <3>1. /\ Fill("cloudflare", seen[p].plan.json) \in Configs
          /\ Fill("cloudflare", seen[p].plan.json).settings = seen[p].plan.json.settings
          /\ seen[p].plan.json.filled \subseteq Fill("cloudflare", seen[p].plan.json).filled
      BY <2>2, FillConfig DEF LineTypes
    <3> QED BY <3>1 DEF Configs
  <2>4. CASE UNCHANGED <<plan, stamp, overwritten>>
    BY <2>4 DEF IInv, Typed, RowType, ClockType, OwnInv, Exists, PendingCheckIsDeployed, Deploys
  <2>5. CASE StoreConfig(tgt[p], seen[p], [Fill("cloudflare", seen[p].plan.json) EXCEPT !.pending = TRUE])
    BY <2>1, <2>3, <2>5, StoreConfigKeeps DEF IInv, Typed
  <2> QED BY <2>4, <2>5
<1>3. ClockType'
  BY <1>2 DEF IInv, Typed, ClockType, Fault
<1>4. Moves(p)
  BY DEF IInv, Typed, ProcType, LoopType, AimInv, Moves, Working, Remembering, InTx, Steps,
      AllOperations
<1>5. began = 0 \/ UNCHANGED row
  BY DEF Unlocked, row
<1>6. TxInv'
  BY <1>4, <1>5, MovesTx DEF Procs
<1> QED BY <1>1, <1>2, <1>3, <1>4, <1>6, MovesAim DEF IInv, Typed, Moves, Procs

LEMMA WriteBackStep ==
  ASSUME NEW p \in Procs, IInv, WriteBack(p) PROVE IInv'
<1> USE PlansAssumption DEF WriteBack, infra, loop, Procs
<1>1. (InfraType /\ LoopType /\ RuntimeFollowsLine)'
  BY DEF IInv, Typed, InfraType, LoopType, RuntimeFollowsLine, Exists
<1>2. RowType' /\ OwnInv' /\ PendingCheckIsDeployed' /\ overwritten' \subseteq Lines
  <2>1. tgt[p] \in Lines /\ seen[p] \in Notes
    BY DEF IInv, AimInv, Working, Remembering, Steps
  <2>2. seen[p].plan.type \in LineTypes /\ seen[p].plan.json \in Configs
    BY <2>1, PlansAssumption DEF Notes, Plans
  <2>3. LET json == Fill(seen[p].plan.type, seen[p].plan.json) IN
        /\ json \in Configs /\ json.settings = seen[p].plan.json.settings
        /\ json.pending = seen[p].plan.json.pending
        /\ seen[p].plan.json.filled \subseteq json.filled
    BY <2>2, FillConfig
  <2>4. CASE UNCHANGED <<plan, stamp, overwritten>>
    BY <2>4 DEF IInv, Typed, RowType, ClockType, OwnInv, Exists, PendingCheckIsDeployed, Deploys
  <2>5. CASE StoreConfig(tgt[p], seen[p], Fill(seen[p].plan.type, seen[p].plan.json))
    BY <2>1, <2>3, <2>5, StoreConfigKeeps DEF IInv, Typed
  <2> QED BY <2>4, <2>5
<1>3. ClockType'
  BY <1>2 DEF IInv, Typed, ClockType, Fault
<1>4. Moves(p)
  BY DEF IInv, Typed, ProcType, LoopType, AimInv, Moves, Working, Remembering, InTx, Steps,
      AllOperations, GoOn, Return, Answer, Goto, Aim
<1>5. began = 0 \/ UNCHANGED row
  BY DEF Unlocked, row
<1>6. TxInv'
  BY <1>4, <1>5, MovesTx DEF Procs
<1> QED BY <1>1, <1>2, <1>3, <1>4, <1>6, MovesAim DEF IInv, Typed, Moves, Procs

LEMMA CheckWriteStep ==
  ASSUME NEW p \in Requests, IInv, CheckWrite(p) PROVE IInv'
<1> USE PlansAssumption DEF CheckWrite, Answer, Goto, Aim, SetStatus, infra, loop, Procs
<1>1. (InfraType /\ LoopType /\ ClockType)'
  BY DEF IInv, Typed, InfraType, LoopType, ClockType
<1>2. RowType'
  BY DEF IInv, Typed, RowType, ClockType, AimInv, Working, Steps, Statuses, ExpiryStatus,
      MaybePlan, InitialStatus
<1>3. OwnInv'
  BY DEF IInv, Typed, RowType, OwnInv, Exists, InitialStatus, AimInv, Working, Steps
<1>4. RuntimeFollowsLine'
  BY DEF IInv, Typed, RowType, InfraType, RuntimeFollowsLine, Exists, InitialStatus, AimInv,
      Working, Steps
<1>5. PendingCheckIsDeployed'
  BY DEF IInv, Typed, RowType, InfraType, PendingCheckIsDeployed, Deploys, InitialStatus,
      AimInv, Working, Steps
<1>6. Moves(p)
  BY DEF IInv, Typed, ProcType, LoopType, AimInv, Moves, Working, Remembering, InTx, Steps,
      AllOperations
<1>7. TxInv'
  BY <1>6, MovesTx DEF Unlocked, row, Procs
<1> QED BY <1>1, <1>2, <1>3, <1>4, <1>5, <1>6, <1>7, MovesAim DEF IInv, Typed, Moves, Procs

LEMMA DeleteCommitStep ==
  ASSUME NEW p \in Requests, IInv, DeleteCommit(p) PROVE IInv'
<1> USE PlansAssumption DEF DeleteCommit, Answer, Goto, Aim, DropInfra, loop, Procs
<1>1. (LoopType)'
  BY DEF IInv, Typed, LoopType
<1>2. RowType'
  BY DEF IInv, Typed, RowType, ClockType, AimInv, Working, Steps, Statuses, ExpiryStatus,
      MaybePlan, InitialStatus
<1>3. InfraType'
  BY DEF IInv, Typed, InfraType, AimInv, Working, Steps, MaybePlan
<1>4. ClockType'
  BY DEF IInv, Typed, ClockType, AimInv, Working, Steps
<1>5. OwnInv'
  BY DEF IInv, Typed, RowType, OwnInv, Exists, InitialStatus, AimInv, Working, Steps
<1>6. RuntimeFollowsLine'
  BY DEF IInv, Typed, RowType, InfraType, RuntimeFollowsLine, Exists, InitialStatus, AimInv,
      Working, Steps
<1>7. PendingCheckIsDeployed'
  BY DEF IInv, Typed, RowType, InfraType, PendingCheckIsDeployed, Deploys, InitialStatus,
      AimInv, Working, Steps
<1>8. Moves(p)
  BY DEF IInv, Typed, ProcType, LoopType, AimInv, Moves, Working, Remembering, InTx, Steps,
      AllOperations
<1>9. TxInv'
  BY <1>8, MovesTx DEF Unlocked, row, Procs
<1> QED BY <1>1, <1>2, <1>3, <1>4, <1>5, <1>6, <1>7, <1>8, <1>9, MovesAim DEF IInv, Typed,
    Moves, Procs

LEMMA DeleteFaultStep ==
  ASSUME NEW p \in Requests, IInv, DeleteFault(p) PROVE IInv'
<1> USE PlansAssumption DEF DeleteFault, Answer, Goto, Aim, Fault, row, loop, Procs
<1>1. (RowType /\ LoopType /\ OwnInv)'
  BY DEF IInv, Typed, RowType, LoopType, OwnInv, Exists
<1>2. InfraType'
  BY DEF IInv, Typed, InfraType, AimInv, Working, Steps
<1>3. ClockType'
  BY DEF IInv, Typed, ClockType, AimInv, Working, Steps
<1>4. RuntimeFollowsLine'
  BY DEF IInv, Typed, RowType, InfraType, RuntimeFollowsLine, Exists, InitialStatus, AimInv,
      Working, Steps
<1>5. PendingCheckIsDeployed'
  BY DEF IInv, Typed, RowType, InfraType, PendingCheckIsDeployed, Deploys, InitialStatus,
      AimInv, Working, Steps
<1>6. Moves(p)
  BY DEF IInv, Typed, ProcType, LoopType, AimInv, Moves, Working, Remembering, InTx, Steps,
      AllOperations
<1>7. TxInv'
  BY <1>6, MovesTx DEF Unlocked, row, Procs
<1> QED BY <1>1, <1>2, <1>3, <1>4, <1>5, <1>6, <1>7, MovesAim DEF IInv, Typed, Moves, Procs

LEMMA ReadBackStep ==
  ASSUME NEW p \in Procs, IInv, ReadBack(p) PROVE IInv'
<1> USE PlansAssumption DEF ReadBack, row, infra
<1>1. (RowType /\ InfraType /\ OwnInv /\ RuntimeFollowsLine /\ PendingCheckIsDeployed)'
  BY DEF IInv, Typed, RowType, InfraType, OwnInv, Exists, RuntimeFollowsLine,
      PendingCheckIsDeployed, Deploys
<1>2. LoopType'
  BY DEF IInv, Typed, LoopType
<1>3. ClockType'
  <2>1. faults' \in {faults, faults + 1} /\ UNCHANGED <<now, began, overwritten>>
    BY Zenon DEF Fault
  <2> HIDE DEF ReadBack
  <2> QED BY <2>1 DEF IInv, Typed, ClockType
<1>4. Moves(p)
  <2>1. tgt[p] \in Lines
    BY DEF IInv, AimInv, Working, Steps
  <2>2. CASE Goto(p, "writeBack") /\ Aim(p, tgt[p], Snapshot(tgt[p], TRUE)) /\ Exists(tgt[p]) /\ UNCHANGED op
    <3>1. Snapshot(tgt[p], TRUE) \in Notes
      BY <2>1, <2>2, SnapshotType DEF IInv, Typed
    <3> HIDE DEF ReadBack
    <3> QED BY <2>1, <2>2, <3>1 DEF Goto, Aim, IInv, Typed, ProcType, Moves, Working, Remembering, InTx, Steps
  <2>3. CASE GoOn(p) \/ Return(p)
    <3> HIDE DEF ReadBack
    <3> QED BY <2>1, <2>3 DEF GoOn, Return, Answer, Goto, Aim, IInv, Typed, ProcType, Moves, Working,
            Remembering, InTx, Steps, AllOperations
  <2> QED BY <2>2, <2>3
<1>5. TxInv'
  BY <1>4, MovesTx DEF Unlocked, row, Procs
<1> QED BY <1>1, <1>2, <1>3, <1>4, <1>5, MovesAim DEF IInv, Typed, Moves, Procs

LEMMA ApplyReadStep ==
  ASSUME NEW p \in Procs, IInv, ApplyRead(p) PROVE IInv'
<1> USE PlansAssumption DEF ApplyRead, Return, Answer, Goto, Aim, row, infra, loop
<1>1. (RowType /\ InfraType /\ LoopType /\ OwnInv /\ RuntimeFollowsLine /\
    PendingCheckIsDeployed)'
  BY DEF IInv, Typed, RowType, InfraType, LoopType, OwnInv, Exists, RuntimeFollowsLine,
      PendingCheckIsDeployed, Deploys
<1>2. ClockType'
  BY DEF IInv, Typed, ClockType, Fault
<1>3. Moves(p)
  BY DEF IInv, Typed, ProcType, LoopType, AimInv, Moves, Working, Remembering, InTx, Steps,
      AllOperations, AfterRead
<1>4. TxInv'
  BY <1>3, MovesTx DEF Unlocked, row, Procs
<1> QED BY <1>1, <1>2, <1>3, <1>4, MovesAim DEF IInv, Typed, Moves, Procs

LEMMA PreflightStep ==
  ASSUME NEW p \in Procs, IInv, Preflight(p) PROVE IInv'
<1> USE PlansAssumption DEF Preflight, row, infra, loop
<1>1. (RowType /\ InfraType /\ LoopType /\ ClockType /\ OwnInv /\ RuntimeFollowsLine /\
    PendingCheckIsDeployed)'
  BY DEF IInv, Typed, RowType, InfraType, LoopType, ClockType, OwnInv, Exists,
      RuntimeFollowsLine, PendingCheckIsDeployed, Deploys
<1>2. Moves(p)
  <2> DEFINE probed == pc[p] = "prepareReality"
  <2>1. tgt[p] \in Lines
    BY DEF IInv, AimInv, Working, Steps
  <2>2. CASE Aim(p, tgt[p], Snapshot(tgt[p], probed)) /\ Goto(p, "applyTx") /\ Exists(tgt[p])
    <3>1. probed \in BOOLEAN
      OBVIOUS
    <3> HIDE DEF probed
    <3>2. Snapshot(tgt[p], probed) \in Notes
      BY <2>1, <2>2, <3>1, SnapshotType DEF IInv, Typed
    <3> QED BY <2>1, <2>2, <3>2 DEF Goto, Aim, IInv, Typed, ProcType, Moves, Working, Remembering, InTx, Steps
  <2>3. CASE Goto(p, "recordFailure") /\ UNCHANGED <<tgt, seen>>
      BY <2>1, <2>3 DEF Goto, Aim, IInv, Typed, ProcType, Moves, Working, Remembering, InTx,
      Steps
  <2> QED BY <2>2, <2>3, Zenon
<1>3. TxInv'
  BY <1>2, MovesTx DEF Unlocked, row, Procs
<1> QED BY <1>1, <1>2, <1>3, MovesAim DEF IInv, Typed, Moves, Procs

LEMMA ApplyAdmitStep ==
  ASSUME NEW p \in Procs, IInv, ApplyAdmit(p) PROVE IInv'
<1> USE DEF ApplyAdmit, Goto, row, infra, loop
<1>1. (RowType /\ InfraType /\ LoopType /\ OwnInv /\ RuntimeFollowsLine /\ PendingCheckIsDeployed)'
  BY DEF IInv, Typed, RowType, InfraType, LoopType, OwnInv, Exists, RuntimeFollowsLine,
     PendingCheckIsDeployed, Deploys
<1>2. ClockType' /\ ProcType' /\ AimInv'
  BY DEF IInv, Typed, ClockType, ProcType, Steps, AimInv, Working, Remembering
<1>3. /\ pc'[p] = "applySite" /\ \A q \in Procs \ {p} : pc'[q] = pc[q] /\ pc[q] \notin InTx
      /\ UNCHANGED <<now, tgt, seen, row>> /\ began' = now /\ now > 0
  BY DEF IInv, Typed, ProcType, TxInv, Unlocked
<1>4. Admitted(p)'
  BY <1>3 DEF Admitted, CanApply, Exists, Ended, Stale
<1>5. TxInv'
  BY <1>3, <1>4 DEF TxInv
<1> QED BY <1>1, <1>2, <1>5 DEF IInv, Typed

LEMMA ApplySiteStep ==
  ASSUME NEW p \in Procs, IInv, ApplySite(p) PROVE IInv'
<1> USE DEF ApplySite, Goto, row, loop
<1>1. (RowType /\ LoopType /\ ClockType /\ OwnInv /\ RuntimeFollowsLine /\ PendingCheckIsDeployed)'
  BY DEF IInv, Typed, RowType, LoopType, ClockType, OwnInv, Exists, RuntimeFollowsLine,
     PendingCheckIsDeployed, Deploys
<1>2. InfraType'
  BY DEF IInv, Typed, InfraType, AimInv, Working, Steps, SitesWith
<1>3. ProcType' /\ AimInv'
  BY DEF IInv, Typed, ProcType, Steps, AimInv, Working, Remembering
<1>4. \A q \in Procs : pc'[q] \in InTx => pc[q] \in InTx
  BY DEF IInv, Typed, ProcType, InTx
<1>5. \A q \in Procs : pc'[q] \in InTx => Admitted(q)'
  BY <1>4 DEF IInv, TxInv, Admitted, Exists, Ended, Stale
<1>6. TxInv'
  BY <1>4, <1>5 DEF IInv, TxInv
<1> QED BY <1>1, <1>2, <1>3, <1>6 DEF IInv, Typed

(* The row, the inbound and what was built for it now agree.               *)
LEMMA ApplyCommitStep ==
  ASSUME NEW p \in Procs, IInv, ApplyCommit(p) PROVE IInv'
<1> USE DEF Goto, Aim
<1>1. tgt[p] \in Lines /\ Admitted(p) /\ pc[p] \in InTx
  BY DEF IInv, AimInv, TxInv, Working, InTx, Steps, ApplyCommit
<1>2. Candidate(p) \in Plans
  BY <1>1, CandidatePlan DEF IInv, Typed, Admitted
<1>3. PICK l \in Lines, c \in Plans :
        /\ l = tgt[p]
        /\ status' = [status EXCEPT ![l] = "pending_check"] /\ stamp' = [stamp EXCEPT ![l] = now]
        /\ plan' = [plan EXCEPT ![l] = c] /\ exitStamp' = [exitStamp EXCEPT ![l] = now]
        /\ BuildInfra(l, c)
        /\ UNCHANGED <<manual, validFrom, validUntil, sites>>
        /\ overwritten' = overwritten \ {l}
  BY <1>1, <1>2 DEF ApplyCommit, SetStatus
<1>4. RowType' /\ InfraType'
  BY <1>3 DEF IInv, Typed, RowType, InfraType, ClockType, BuildInfra, Statuses, MaybePlan
<1>5. LoopType' /\ ClockType'
  BY DEF IInv, Typed, LoopType, ClockType, loop, ApplyCommit
<1>6. OwnInv'
  BY <1>3 DEF IInv, Typed, RowType, OwnInv, Exists
<1>7. RuntimeFollowsLine'
  BY <1>3 DEF IInv, Typed, RowType, InfraType, RuntimeFollowsLine, Exists, BuildInfra
<1>8. PendingCheckIsDeployed'
  BY <1>3, PlansAssumption
  DEF IInv, Typed, RowType, InfraType, PendingCheckIsDeployed, Deploys, BuildInfra
<1>9. Moves(p)
  BY <1>1 DEF IInv, Typed, ProcType, ApplyCommit, Moves, Working, Remembering, InTx, Steps
<1>10. \A q \in Procs : pc'[q] \notin InTx
  BY <1>1, <1>9 DEF IInv, TxInv, Moves
<1>11. TxInv'
  BY <1>10 DEF IInv, TxInv, ApplyCommit
<1> QED BY <1>4, <1>5, <1>6, <1>7, <1>8, <1>9, <1>11, MovesAim DEF IInv, Typed, Moves

LEMMA ApplyRefuseStep ==
  ASSUME NEW p \in Procs, IInv, ApplyRefuse(p) PROVE IInv'
<1> USE PlansAssumption DEF ApplyRefuse, Goto, Aim, row, infra, loop
<1>1. (RowType /\ InfraType /\ LoopType /\ ClockType /\ OwnInv /\ RuntimeFollowsLine /\
    PendingCheckIsDeployed)'
  BY DEF IInv, Typed, RowType, InfraType, LoopType, ClockType, OwnInv, Exists,
      RuntimeFollowsLine, PendingCheckIsDeployed, Deploys
<1>2. Moves(p)
  BY DEF IInv, Typed, ProcType, LoopType, AimInv, Moves, Working, Remembering, InTx, Steps,
      AllOperations
<1>3. TxInv'
  BY <1>2, MovesTx DEF Unlocked, row, Procs
<1> QED BY <1>1, <1>2, <1>3, MovesAim DEF IInv, Typed, Moves, Procs

LEMMA ApplyFaultStep ==
  ASSUME NEW p \in Procs, IInv, ApplyFault(p) PROVE IInv'
<1> USE PlansAssumption DEF ApplyFault, Goto, Aim, Fault, row, infra, loop
<1>1. (RowType /\ InfraType /\ LoopType /\ OwnInv /\ RuntimeFollowsLine /\
    PendingCheckIsDeployed)'
  BY DEF IInv, Typed, RowType, InfraType, LoopType, OwnInv, Exists, RuntimeFollowsLine,
      PendingCheckIsDeployed, Deploys
<1>2. ClockType'
  BY DEF IInv, Typed, ClockType
<1>3. Moves(p)
  BY DEF IInv, Typed, ProcType, LoopType, AimInv, Moves, Working, Remembering, InTx, Steps,
      AllOperations
<1>4. TxInv'
  <2>1. CASE pc[p] = "applyTx"
    BY <2>1, <1>3, MovesTx
  <2>2. CASE pc[p] \in InTx
    <3>1. \A q \in Procs : pc'[q] \notin InTx
      BY <2>2, <1>3 DEF IInv, TxInv, Moves
    <3> QED BY <3>1 DEF IInv, TxInv
  <2> QED BY <2>1, <2>2 DEF InTx
<1> QED BY <1>1, <1>2, <1>3, <1>4, MovesAim DEF IInv, Typed, Moves, Procs

LEMMA RecordApplyFailureStep ==
  ASSUME NEW p \in Procs, IInv, RecordApplyFailure(p) PROVE IInv'
<1> USE PlansAssumption DEF RecordApplyFailure, Return, Answer, Goto, Aim, SetStatus, Fault,
    infra, loop
<1>1. (InfraType /\ LoopType)'
  BY DEF IInv, Typed, InfraType, LoopType
<1>2. RowType'
  BY DEF IInv, Typed, RowType, ClockType, AimInv, Working, Steps, Statuses, ExpiryStatus,
      MaybePlan, InitialStatus
<1>3. ClockType'
  BY DEF IInv, Typed, ClockType, AimInv, Working, Steps
<1>4. OwnInv'
  BY DEF IInv, Typed, RowType, OwnInv, Exists, InitialStatus, AimInv, Working, Steps
<1>5. RuntimeFollowsLine'
  BY DEF IInv, Typed, RowType, InfraType, RuntimeFollowsLine, Exists, InitialStatus, AimInv,
      Working, Steps
<1>6. PendingCheckIsDeployed'
  BY DEF IInv, Typed, RowType, InfraType, PendingCheckIsDeployed, Deploys, InitialStatus,
      AimInv, Working, Steps
<1>7. Moves(p)
  BY DEF IInv, Typed, ProcType, LoopType, AimInv, Moves, Working, Remembering, InTx, Steps,
      AllOperations
<1>8. TxInv'
  BY <1>7, MovesTx DEF Unlocked, row, Procs
<1> QED BY <1>1, <1>2, <1>3, <1>4, <1>5, <1>6, <1>7, <1>8, MovesAim DEF IInv, Typed, Moves,
    Procs

LEMMA FinishStep ==
  ASSUME NEW p \in Procs, IInv, Finish(p) PROVE IInv'
<1> USE PlansAssumption DEF Finish, Answer, Goto, Aim, row, infra, loop
<1>1. (RowType /\ InfraType /\ LoopType /\ ClockType /\ OwnInv /\ RuntimeFollowsLine /\
    PendingCheckIsDeployed)'
  BY DEF IInv, Typed, RowType, InfraType, LoopType, ClockType, OwnInv, Exists,
      RuntimeFollowsLine, PendingCheckIsDeployed, Deploys
<1>2. Moves(p)
  BY DEF IInv, Typed, ProcType, LoopType, AimInv, Moves, Working, Remembering, InTx, Steps,
      AllOperations
<1>3. TxInv'
  BY <1>2, MovesTx DEF Unlocked, row, Procs
<1> QED BY <1>1, <1>2, <1>3, MovesAim DEF IInv, Typed, Moves, Procs

LEMMA JobBeginStep ==
  ASSUME NEW j \in Jobs, IInv, JobBegin(j) PROVE IInv'
<1> USE PlansAssumption DEF JobBegin, Goto, row, infra, Procs
<1>1. (RowType /\ InfraType /\ ClockType /\ OwnInv /\ RuntimeFollowsLine /\
    PendingCheckIsDeployed)'
  BY DEF IInv, Typed, RowType, InfraType, ClockType, OwnInv, Exists, RuntimeFollowsLine,
      PendingCheckIsDeployed, Deploys
<1>2. LoopType'
  BY DEF IInv, Typed, LoopType, ClockType, DueToStart, DueToExpire
<1>3. Moves(j)
  BY DEF IInv, Typed, ProcType, LoopType, AimInv, Moves, Working, Remembering, InTx, Steps,
      AllOperations
<1>4. TxInv'
  BY <1>3, MovesTx DEF Unlocked, row, Procs
<1> QED BY <1>1, <1>2, <1>3, <1>4, MovesAim DEF IInv, Typed, Moves, Procs

LEMMA JobClaimStep ==
  ASSUME NEW j \in Jobs, IInv, JobClaim(j) PROVE IInv'
<1> USE PlansAssumption DEF JobClaim, Goto, Aim, SetStatus, Fault, infra, Procs
<1>1. (InfraType)'
  BY DEF IInv, Typed, InfraType
<1>2. RowType'
  BY DEF IInv, Typed, RowType, ClockType, AimInv, Working, Steps, Statuses, ExpiryStatus,
      MaybePlan, InitialStatus, LoopType
<1>3. LoopType'
  BY DEF IInv, Typed, LoopType
<1>4. ClockType'
  BY DEF IInv, Typed, ClockType, AimInv, Working, Steps
<1>5. OwnInv'
  BY DEF IInv, Typed, RowType, OwnInv, Exists, InitialStatus, AimInv, Working, Steps,
      LoopType
<1>6. RuntimeFollowsLine'
  BY DEF IInv, Typed, RowType, InfraType, RuntimeFollowsLine, Exists, InitialStatus, AimInv,
      Working, Steps, LoopType
<1>7. PendingCheckIsDeployed'
  BY DEF IInv, Typed, RowType, InfraType, PendingCheckIsDeployed, Deploys, InitialStatus,
      AimInv, Working, Steps, LoopType
<1>8. Moves(j)
  BY DEF IInv, Typed, ProcType, LoopType, AimInv, Moves, Working, Remembering, InTx, Steps,
      AllOperations
<1>9. TxInv'
  BY <1>8, MovesTx DEF Unlocked, row, Procs
<1> QED BY <1>1, <1>2, <1>3, <1>4, <1>5, <1>6, <1>7, <1>8, <1>9, MovesAim DEF IInv, Typed,
    Moves, Procs

LEMMA JobSelectExpiringStep ==
  ASSUME NEW j \in Jobs, IInv, JobSelectExpiring(j) PROVE IInv'
<1> USE PlansAssumption DEF JobSelectExpiring, Goto, row, infra, Procs
<1>1. (RowType /\ InfraType /\ ClockType /\ OwnInv /\ RuntimeFollowsLine /\
    PendingCheckIsDeployed)'
  BY DEF IInv, Typed, RowType, InfraType, ClockType, OwnInv, Exists, RuntimeFollowsLine,
      PendingCheckIsDeployed, Deploys
<1>2. LoopType'
  BY DEF IInv, Typed, LoopType, ClockType, DueToStart, DueToExpire
<1>3. Moves(j)
  BY DEF IInv, Typed, ProcType, LoopType, AimInv, Moves, Working, Remembering, InTx, Steps,
      AllOperations
<1>4. TxInv'
  BY <1>3, MovesTx DEF Unlocked, row, Procs
<1> QED BY <1>1, <1>2, <1>3, <1>4, MovesAim DEF IInv, Typed, Moves, Procs

LEMMA JobQueryFaultStep ==
  ASSUME NEW j \in Jobs, IInv, JobQueryFault(j) PROVE IInv'
<1> USE PlansAssumption DEF JobQueryFault, Goto, RunOver, Fault, row, infra, Procs
<1>1. (RowType /\ InfraType /\ OwnInv /\ RuntimeFollowsLine /\ PendingCheckIsDeployed)'
  BY DEF IInv, Typed, RowType, InfraType, OwnInv, Exists, RuntimeFollowsLine,
      PendingCheckIsDeployed, Deploys
<1>2. LoopType'
  BY DEF IInv, Typed, LoopType
<1>3. ClockType'
  BY DEF IInv, Typed, ClockType, AimInv, Working, Steps
<1>4. Moves(j)
  BY DEF IInv, Typed, ProcType, LoopType, AimInv, Moves, Working, Remembering, InTx, Steps,
      AllOperations
<1>5. TxInv'
  BY <1>4, MovesTx DEF Unlocked, row, Procs
<1> QED BY <1>1, <1>2, <1>3, <1>4, <1>5, MovesAim DEF IInv, Typed, Moves, Procs

LEMMA JobExpireStep ==
  ASSUME NEW j \in Jobs, IInv, JobExpire(j) PROVE IInv'
<1> USE PlansAssumption DEF JobExpire, infra, Procs
<1>1. (InfraType /\ ClockType)'
  BY DEF IInv, Typed, InfraType, ClockType
<1>2. RowType'
  <2>1. CASE UNCHANGED <<status, stamp, manual>>
    BY <2>1 DEF IInv, Typed, RowType
  <2>2. CASE \E l \in Lines : Exists(l) /\ SetExpiry(l, "expiring")
    BY <2>2, SetExpiryType DEF IInv, Typed, Statuses, ExpiryStatus
  <2> QED BY <2>1, <2>2 DEF IInv, Typed, LoopType
<1>3. LoopType'
  BY DEF IInv, Typed, LoopType, SetExpiry
<1>4. OwnInv'
  <2>1. CASE UNCHANGED <<status, stamp, manual>>
    BY <2>1 DEF IInv, OwnInv, Exists
  <2>2. CASE \E l \in Lines : Exists(l) /\ SetExpiry(l, "expiring")
    BY <2>2 DEF IInv, Typed, RowType, OwnInv, Exists, SetExpiry, SetStatus
  <2> QED BY <2>1, <2>2 DEF IInv, Typed, LoopType
<1>5. RuntimeFollowsLine'
  <2>1. CASE UNCHANGED <<status, stamp, manual>>
    BY <2>1 DEF IInv, RuntimeFollowsLine, Exists
  <2>2. CASE \E l \in Lines : Exists(l) /\ SetExpiry(l, "expiring")
    BY <2>2 DEF IInv, Typed, RowType, RuntimeFollowsLine, Exists, SetExpiry, SetStatus
  <2> QED BY <2>1, <2>2 DEF IInv, Typed, LoopType
<1>6. PendingCheckIsDeployed'
  <2>1. CASE UNCHANGED <<status, stamp, manual>>
    BY <2>1 DEF IInv, PendingCheckIsDeployed, Deploys
  <2>2. CASE \E l \in Lines : Exists(l) /\ SetExpiry(l, "expiring")
      BY <2>2 DEF IInv, Typed, RowType, PendingCheckIsDeployed, Deploys, SetExpiry,
      SetStatus
  <2> QED BY <2>1, <2>2 DEF IInv, Typed, LoopType
<1>7. Moves(j)
  <2>1. PICK l \in due[j] :
          \/ UNCHANGED <<pc, tgt, seen>>
          \/ Exists(l) /\ Goto(j, "disable") /\ Aim(j, l, Snapshot(l, FALSE))
    BY Zenon
  <2>2. l \in Lines /\ (Exists(l) => Snapshot(l, FALSE) \in Notes)
    BY <2>1, SnapshotType DEF IInv, Typed, LoopType
  <2>3. pc[j] = "expire" /\ UNCHANGED op
    OBVIOUS
  <2>4. \/ UNCHANGED <<pc, tgt, seen>>
        \/ \E what \in Notes : Goto(j, "disable") /\ Aim(j, l, what)
    BY <2>1, <2>2, Zenon
  <2> HIDE DEF JobExpire
  <2> QED BY <2>2, <2>3, <2>4 DEF Goto, Aim, IInv, Typed, ProcType, Moves, Working, Remembering, InTx, Steps
<1>8. TxInv'
  <2>1. began = 0 \/ UNCHANGED row
    BY DEF row, Unlocked
  <2> QED BY <2>1, <1>7, MovesTx
<1> QED BY <1>1, <1>2, <1>3, <1>4, <1>5, <1>6, <1>7, <1>8, MovesAim DEF IInv, Typed, Moves,
    Procs

LEMMA JobDisableStep ==
  ASSUME NEW j \in Jobs, IInv, JobDisable(j) PROVE IInv'
<1> USE PlansAssumption DEF JobDisable, Goto, Fault, row, loop, Procs
<1>1. (RowType /\ LoopType /\ OwnInv)'
  BY DEF IInv, Typed, RowType, LoopType, OwnInv, Exists
<1>2. InfraType'
  BY DEF IInv, Typed, InfraType, AimInv, Working, Steps
<1>3. ClockType'
  BY DEF IInv, Typed, ClockType, AimInv, Working, Steps
<1>4. RuntimeFollowsLine'
  BY DEF IInv, Typed, RowType, InfraType, RuntimeFollowsLine, Exists, InitialStatus, AimInv,
      Working, Steps
<1>5. PendingCheckIsDeployed'
  BY DEF IInv, Typed, RowType, InfraType, PendingCheckIsDeployed, Deploys, InitialStatus,
      AimInv, Working, Steps
<1>6. Moves(j)
  BY DEF IInv, Typed, ProcType, LoopType, AimInv, Moves, Working, Remembering, InTx, Steps,
      AllOperations
<1>7. TxInv'
  BY <1>6, MovesTx DEF Unlocked, row, Procs
<1> QED BY <1>1, <1>2, <1>3, <1>4, <1>5, <1>6, <1>7, MovesAim DEF IInv, Typed, Moves, Procs

LEMMA JobRemoveSiteStep ==
  ASSUME NEW j \in Jobs, IInv, JobRemoveSite(j) PROVE IInv'
<1> USE PlansAssumption DEF JobRemoveSite, Goto, Fault, SitesWithout, row, Procs
<1>1. (RowType /\ OwnInv)'
  BY DEF IInv, Typed, RowType, OwnInv, Exists
<1>2. InfraType'
  BY DEF IInv, Typed, InfraType, AimInv, Working, Steps
<1>3. LoopType'
  BY DEF IInv, Typed, LoopType
<1>4. ClockType'
  BY DEF IInv, Typed, ClockType, AimInv, Working, Steps
<1>5. RuntimeFollowsLine'
  BY DEF IInv, Typed, RowType, InfraType, RuntimeFollowsLine, Exists, InitialStatus, AimInv,
      Working, Steps
<1>6. PendingCheckIsDeployed'
  BY DEF IInv, Typed, RowType, InfraType, PendingCheckIsDeployed, Deploys, InitialStatus,
      AimInv, Working, Steps
<1>7. Moves(j)
  BY DEF IInv, Typed, ProcType, LoopType, AimInv, Moves, Working, Remembering, InTx, Steps,
      AllOperations
<1>8. TxInv'
  BY <1>7, MovesTx DEF Unlocked, row, Procs
<1> QED BY <1>1, <1>2, <1>3, <1>4, <1>5, <1>6, <1>7, <1>8, MovesAim DEF IInv, Typed, Moves,
    Procs

LEMMA JobExpireCommitStep ==
  ASSUME NEW j \in Jobs, IInv, JobExpireCommit(j) PROVE IInv'
<1> USE PlansAssumption DEF JobExpireCommit, Goto, Aim, DropInfra, loop, Procs
<1>1. (LoopType /\ ClockType)'
  BY DEF IInv, Typed, LoopType, ClockType
<1>2. RowType'
  <2>1. tgt[j] \in Lines
    BY DEF IInv, AimInv, Working, Steps, Procs
  <2>2. CASE UNCHANGED <<status, stamp, manual>>
    BY <2>2 DEF IInv, Typed, RowType
  <2>3. CASE SetExpiry(tgt[j], "expired")
    BY <2>1, <2>3, SetExpiryType DEF IInv, Typed, Statuses, ExpiryStatus
  <2> QED BY <2>2, <2>3
<1>3. InfraType'
  BY DEF IInv, Typed, InfraType, AimInv, Working, Steps, MaybePlan
<1>4. OwnInv'
  BY DEF IInv, Typed, RowType, OwnInv, Exists, InitialStatus, AimInv, Working, Steps,
      SetExpiry, SetStatus
<1>5. RuntimeFollowsLine'
  BY DEF IInv, Typed, RowType, InfraType, RuntimeFollowsLine, Exists, InitialStatus, AimInv,
      Working, Steps, SetExpiry, SetStatus
<1>6. PendingCheckIsDeployed'
  BY DEF IInv, Typed, RowType, InfraType, PendingCheckIsDeployed, Deploys, InitialStatus,
      AimInv, Working, Steps, SetExpiry, SetStatus, Exists
<1>7. Moves(j)
  BY DEF IInv, Typed, ProcType, LoopType, AimInv, Moves, Working, Remembering, InTx, Steps,
      AllOperations
<1>8. TxInv'
  BY <1>7, MovesTx DEF Unlocked, row, Procs
<1> QED BY <1>1, <1>2, <1>3, <1>4, <1>5, <1>6, <1>7, <1>8, MovesAim DEF IInv, Typed, Moves,
    Procs

LEMMA JobExpireFaultStep ==
  ASSUME NEW j \in Jobs, IInv, JobExpireFault(j) PROVE IInv'
<1> USE PlansAssumption DEF JobExpireFault, Goto, Fault, row, infra, loop, Procs
<1>1. (RowType /\ InfraType /\ LoopType /\ OwnInv /\ RuntimeFollowsLine /\
    PendingCheckIsDeployed)'
  BY DEF IInv, Typed, RowType, InfraType, LoopType, OwnInv, Exists, RuntimeFollowsLine,
      PendingCheckIsDeployed, Deploys
<1>2. ClockType'
  BY DEF IInv, Typed, ClockType, AimInv, Working, Steps
<1>3. Moves(j)
  BY DEF IInv, Typed, ProcType, LoopType, AimInv, Moves, Working, Remembering, InTx, Steps,
      AllOperations
<1>4. TxInv'
  BY <1>3, MovesTx DEF Unlocked, row, Procs
<1> QED BY <1>1, <1>2, <1>3, <1>4, MovesAim DEF IInv, Typed, Moves, Procs

LEMMA JobRecordExpiryFailureStep ==
  ASSUME NEW j \in Jobs, IInv, JobRecordExpiryFailure(j) PROVE IInv'
<1> USE PlansAssumption DEF JobRecordExpiryFailure, Goto, Aim, Fault, infra, loop, Procs
<1>1. (InfraType /\ LoopType)'
  BY DEF IInv, Typed, InfraType, LoopType
<1>2. RowType'
  <2>1. tgt[j] \in Lines
    BY DEF IInv, AimInv, Working, Steps, Procs
  <2>2. CASE UNCHANGED <<status, stamp, manual>>
    BY <2>2 DEF IInv, Typed, RowType
  <2>3. CASE SetExpiry(tgt[j], "expiry_failed")
    BY <2>1, <2>3, SetExpiryType DEF IInv, Typed, Statuses, ExpiryStatus
  <2> QED BY <2>2, <2>3
<1>3. ClockType'
  BY DEF IInv, Typed, ClockType, AimInv, Working, Steps
<1>4. OwnInv'
  BY DEF IInv, Typed, RowType, OwnInv, Exists, InitialStatus, AimInv, Working, Steps,
      SetExpiry, SetStatus
<1>5. RuntimeFollowsLine'
  BY DEF IInv, Typed, RowType, InfraType, RuntimeFollowsLine, Exists, InitialStatus, AimInv,
      Working, Steps, SetExpiry, SetStatus
<1>6. PendingCheckIsDeployed'
  BY DEF IInv, Typed, RowType, InfraType, PendingCheckIsDeployed, Deploys, InitialStatus,
      AimInv, Working, Steps, SetExpiry, SetStatus
<1>7. Moves(j)
  BY DEF IInv, Typed, ProcType, LoopType, AimInv, Moves, Working, Remembering, InTx, Steps,
      AllOperations
<1>8. TxInv'
  BY <1>7, MovesTx DEF Unlocked, row, Procs
<1> QED BY <1>1, <1>2, <1>3, <1>4, <1>5, <1>6, <1>7, <1>8, MovesAim DEF IInv, Typed, Moves,
    Procs

LEMMA JobEndStep ==
  ASSUME NEW j \in Jobs, IInv, JobEnd(j) PROVE IInv'
<1> USE PlansAssumption DEF JobEnd, Goto, RunOver, row, infra, Procs
<1>1. (RowType /\ InfraType /\ ClockType /\ OwnInv /\ RuntimeFollowsLine /\
    PendingCheckIsDeployed)'
  BY DEF IInv, Typed, RowType, InfraType, ClockType, OwnInv, Exists, RuntimeFollowsLine,
      PendingCheckIsDeployed, Deploys
<1>2. LoopType'
  BY DEF IInv, Typed, LoopType
<1>3. Moves(j)
  BY DEF IInv, Typed, ProcType, LoopType, AimInv, Moves, Working, Remembering, InTx, Steps,
      AllOperations
<1>4. TxInv'
  BY <1>3, MovesTx DEF Unlocked, row, Procs
<1> QED BY <1>1, <1>2, <1>3, <1>4, MovesAim DEF IInv, Typed, Moves, Procs

LEMMA TickStep ==
  ASSUME IInv, Tick PROVE IInv'
<1> USE PlansAssumption DEF Tick, row, infra, proc, loop
<1>1. (RowType /\ InfraType /\ LoopType /\ OwnInv /\ RuntimeFollowsLine /\
    PendingCheckIsDeployed)'
  BY DEF IInv, Typed, RowType, InfraType, LoopType, OwnInv, Exists, RuntimeFollowsLine,
      PendingCheckIsDeployed, Deploys
<1>2. ClockType'
  BY DEF IInv, Typed, ClockType, AimInv, Working, Steps
<1>3. ProcType'
  BY DEF IInv, Typed, ProcType
<1>4. AimInv'
  BY DEF IInv, AimInv
<1>5. TxInv'
  <2>1. \A p \in Procs : Admitted(p) => Admitted(p)'
    BY DEF Admitted, Exists, Ended, Stale
  <2> QED BY <2>1 DEF IInv, Typed, ClockType, TxInv
<1> QED BY <1>1, <1>2, <1>3, <1>4, <1>5 DEF IInv, Typed

LEMMA CrashStep ==
  ASSUME IInv, Crash PROVE IInv'
<1> USE PlansAssumption DEF Crash, Fault, row, infra
<1>1. (RowType /\ InfraType /\ OwnInv /\ RuntimeFollowsLine /\ PendingCheckIsDeployed)'
  BY DEF IInv, Typed, RowType, InfraType, OwnInv, Exists, RuntimeFollowsLine,
      PendingCheckIsDeployed, Deploys
<1>2. LoopType'
  BY DEF IInv, Typed, LoopType
<1>3. ClockType'
  BY DEF IInv, Typed, ClockType
<1>4. ProcType'
  BY DEF IInv, Typed, ProcType, Steps
<1>5. AimInv'
  BY DEF AimInv, Working, Remembering, Steps
<1>6. TxInv'
  BY DEF IInv, TxInv, InTx
<1> QED BY <1>1, <1>2, <1>3, <1>4, <1>5, <1>6 DEF IInv, Typed

LEMMA StepKeepsIInv == ASSUME IInv, [Next]_vars PROVE IInv'
<1>1. CASE UNCHANGED vars
  BY <1>1 DEF vars, row, infra, proc, loop, IInv, Typed, RowType, InfraType, ProcType, LoopType,
     ClockType, AimInv, TxInv, Admitted, Ended, Stale, OwnInv, Exists, RuntimeFollowsLine,
     PendingCheckIsDeployed, Deploys
<1>2. CASE \E l \in Lines : UpdateLineValidity(l)
  BY <1>2, UpdateLineValidityStep
<1>3. CASE \E p \in Requests : RequestStep(p)
  BY <1>3, CreateLineStep, UpdateLineStep, RenewLineStep, ApplyRequestStep, GetLineStep,
     StageCloudflareOriginCertificateStep, CheckReadStep, DeleteSiteStep, StageWriteStep,
     CheckWriteStep, DeleteCommitStep, DeleteFaultStep DEF RequestStep
<1>4. CASE \E p \in Procs : ApplyStep(p)
  BY <1>4, ApplyReadStep, PreflightStep, ApplyAdmitStep, ApplySiteStep, ApplyCommitStep,
     ApplyRefuseStep, ApplyFaultStep, RecordApplyFailureStep, ReadBackStep, WriteBackStep,
     FinishStep DEF ApplyStep
<1>5. CASE \E j \in Jobs : JobStep(j)
  BY <1>5, JobBeginStep, JobClaimStep, JobSelectExpiringStep, JobQueryFaultStep, JobExpireStep,
     JobDisableStep, JobRemoveSiteStep, JobExpireCommitStep, JobExpireFaultStep,
     JobRecordExpiryFailureStep, JobEndStep DEF JobStep
<1>6. CASE Tick \/ Crash
  BY <1>6, TickStep, CrashStep
<1> QED BY <1>1, <1>2, <1>3, <1>4, <1>5, <1>6 DEF Next

THEOREM Invariance == Spec => []IInv
BY Initially, StepKeepsIInv, PTL DEF Spec

-----------------------------------------------------------------------------
(* Every variable keeps its type.                                          *)
THEOREM TypeCorrect == Spec => []TypeOK
<1>1. IInv => TypeOK
  BY DEF IInv, Typed, RowType, InfraType, ProcType, LoopType, ClockType, TypeOK
<1> QED BY <1>1, Invariance, PTL

(* Inbound, route and client of a line are there together or not at all,   *)
(* and never for a line that is gone or has expired.                       *)
THEOREM RuntimeIsTheLines == Spec => []RuntimeFollowsLine
<1>1. IInv => RuntimeFollowsLine BY DEF IInv
<1> QED BY <1>1, Invariance, PTL

(* What waits for its first check is what is stored, but for defaults and  *)
(* an upload since, unless a writer used an old reading.                   *)
THEOREM PendingIsDeployed == Spec => []PendingCheckIsDeployed
<1>1. IInv => PendingCheckIsDeployed BY DEF IInv
<1> QED BY <1>1, Invariance, PTL

-----------------------------------------------------------------------------
(* While a transaction is open only its own commit changes the row: every  *)
(* other writer waits for the lock.                                        *)
LEMMA OpenTransactionAlone ==
  ASSUME IInv, [Next]_vars, began > 0
  PROVE  UNCHANGED row \/ \E p \in Procs : ApplyCommit(p)
<1> USE DEF row
<1>0. ~Unlocked
  BY DEF Unlocked
<1>1. CASE UNCHANGED vars
  BY <1>1 DEF vars
<1>2. CASE \E l \in Lines : UpdateLineValidity(l)
  BY <1>0, <1>2, Zenon DEF UpdateLineValidity
<1>3. ASSUME NEW p \in Requests, RequestStep(p) PROVE UNCHANGED row
  <2>1. ASSUME NEW l \in Lines, \/ ApplyRequest(p, l) \/ GetLine(p, l) \/ CheckRead(p, l)
                                \/ DeleteSite(p, l) \/ StageCloudflareOriginCertificate(p, l)
        PROVE  UNCHANGED row
    BY <2>1 DEF ApplyRequest, GetLine, CheckRead, DeleteSite, StageCloudflareOriginCertificate
  <2>2. ASSUME NEW l \in Lines PROVE ~CreateLine(p, l) /\ ~UpdateLine(p, l) /\ ~RenewLine(p, l)
    BY <1>0, Zenon DEF CreateLine, UpdateLine, RenewLine
  <2>3. CASE StageWrite(p)
    BY <1>0, <2>3 DEF StageWrite
  <2>4. CASE DeleteFault(p)
    BY <2>4 DEF DeleteFault
  <2>5. ~CheckWrite(p) /\ ~DeleteCommit(p)
    BY <1>0 DEF CheckWrite, DeleteCommit
  <2> QED BY <1>3, <2>1, <2>2, <2>3, <2>4, <2>5 DEF RequestStep
<1>4. ASSUME NEW p \in Procs, ApplyStep(p), ~ApplyCommit(p) PROVE UNCHANGED row
  <2>1. CASE ApplyRead(p) \/ Preflight(p) \/ ApplyAdmit(p) \/ ApplySite(p) \/ ApplyRefuse(p)
    BY <2>1 DEF ApplyRead, Preflight, ApplyAdmit, ApplySite, ApplyRefuse
  <2>2. CASE ApplyFault(p) \/ ReadBack(p) \/ Finish(p)
    BY <2>2 DEF ApplyFault, ReadBack, Finish
  <2>3. CASE RecordApplyFailure(p) \/ WriteBack(p)
    BY <1>0, <2>3 DEF RecordApplyFailure, WriteBack
  <2> QED BY <1>4, <2>1, <2>2, <2>3 DEF ApplyStep
<1>5. ASSUME NEW j \in Jobs, JobStep(j) PROVE UNCHANGED row
  <2>1. CASE JobBegin(j) \/ JobSelectExpiring(j) \/ JobQueryFault(j) \/ JobEnd(j)
    BY <2>1 DEF JobBegin, JobSelectExpiring, JobQueryFault, JobEnd
  <2>2. CASE JobClaim(j) \/ JobRecordExpiryFailure(j)
    BY <1>0, <2>2 DEF JobClaim, JobRecordExpiryFailure
  <2>3. CASE JobDisable(j) \/ JobRemoveSite(j) \/ JobExpireFault(j) \/ JobExpireCommit(j)
    BY <1>0, <2>3 DEF JobDisable, JobRemoveSite, JobExpireFault, JobExpireCommit
  <2>4. CASE JobExpire(j)
    BY <1>0, <2>4 DEF JobExpire
  <2> QED BY <1>5, <2>1, <2>2, <2>3, <2>4 DEF JobStep
<1>6. CASE Tick \/ Crash
  BY <1>6 DEF Tick, Crash
<1> QED BY <1>1, <1>2, <1>3, <1>4, <1>5, <1>6 DEF Next

(* The steps that touch an inbound: all but an apply's commit take it away. *)
LEMMA OnlyApplyEnables ==
  ASSUME IInv, [Next]_vars
  PROVE  \/ \E p \in Procs : ApplyCommit(p)
         \/ \A l \in Lines : inbound'[l] = "enabled" => inbound[l] = "enabled"
<1> USE DEF IInv, Typed, InfraType, infra, row, proc, loop
<1>1. CASE UNCHANGED vars
  BY <1>1 DEF vars
<1>2. CASE \E l \in Lines : UpdateLineValidity(l)
  BY <1>2 DEF UpdateLineValidity
<1>3. ASSUME NEW p \in Requests, RequestStep(p)
      PROVE  \A l \in Lines : inbound'[l] = "enabled" => inbound[l] = "enabled"
  <2>1. ASSUME NEW l \in Lines, CreateLine(p, l) \/ UpdateLine(p, l) \/ RenewLine(p, l)
        PROVE  UNCHANGED inbound
    BY <2>1 DEF CreateLine, UpdateLine, RenewLine
  <2>2. ASSUME NEW l \in Lines, \/ ApplyRequest(p, l) \/ GetLine(p, l) \/ CheckRead(p, l)
                                \/ DeleteSite(p, l) \/ StageCloudflareOriginCertificate(p, l)
        PROVE  UNCHANGED inbound
    BY <2>2 DEF ApplyRequest, GetLine, CheckRead, DeleteSite, StageCloudflareOriginCertificate
  <2>3. CASE CheckWrite(p) \/ DeleteFault(p) \/ StageWrite(p)
    BY <2>3 DEF CheckWrite, DeleteFault, StageWrite
  <2>4. CASE DeleteCommit(p)
    BY <2>4 DEF DeleteCommit, DropInfra
  <2> QED BY <1>3, <2>1, <2>2, <2>3, <2>4 DEF RequestStep
<1>4. CASE \E p \in Procs : ApplyStep(p)
  BY <1>4 DEF ApplyStep, ApplyRead, Preflight, ApplyAdmit, ApplySite, ApplyRefuse, ApplyFault,
     RecordApplyFailure, ReadBack, WriteBack, Finish
<1>5. ASSUME NEW j \in Jobs, JobStep(j)
      PROVE  \A l \in Lines : inbound'[l] = "enabled" => inbound[l] = "enabled"
  <2>1. CASE JobBegin(j) \/ JobClaim(j) \/ JobSelectExpiring(j) \/ JobQueryFault(j) \/ JobEnd(j)
    BY <2>1 DEF JobBegin, JobClaim, JobSelectExpiring, JobQueryFault, JobEnd
  <2>2. CASE JobExpire(j) \/ JobRemoveSite(j) \/ JobExpireFault(j) \/ JobRecordExpiryFailure(j)
    BY <2>2 DEF JobExpire, JobRemoveSite, JobExpireFault, JobRecordExpiryFailure
  <2>3. CASE JobDisable(j)
    BY <2>3 DEF JobDisable
  <2>4. CASE JobExpireCommit(j)
    BY <2>4 DEF JobExpireCommit, DropInfra
  <2> QED BY <1>5, <2>1, <2>2, <2>3, <2>4 DEF JobStep
<1>6. CASE Tick \/ Crash
  BY <1>6 DEF Tick, Crash
<1> QED BY <1>1, <1>2, <1>3, <1>4, <1>5, <1>6 DEF Next

(* An inbound is switched on only for a line that could serve when the     *)
(* transaction began, and that nobody has touched since.                   *)
THEOREM EnablesOnlyServable == Spec => EnabledOnlyWhileServable
<1>1. ASSUME IInv, [Next]_vars, NEW l \in Lines, inbound[l] # "enabled", inbound'[l] = "enabled"
      PROVE  Exists(l) /\ ~manual[l] /\ validFrom[l] <= began /\ ~Ended(l, began)
  <2>1. PICK p \in Procs : ApplyCommit(p)
    BY <1>1, OnlyApplyEnables
  <2>2. l = tgt[p] /\ pc[p] \in InTx
    BY <1>1, <2>1 DEF ApplyCommit, BuildInfra, IInv, Typed, InfraType, InTx
  <2> QED BY <1>1, <2>2 DEF IInv, TxInv, Admitted
<1>2. IInv /\ [Next]_vars =>
        [\A l \in Lines : inbound[l] # "enabled" /\ inbound'[l] = "enabled"
           => Exists(l) /\ ~manual[l] /\ validFrom[l] <= began /\ ~Ended(l, began)]_vars
  BY <1>1
<1> QED BY <1>2, Invariance, PTL DEF Spec, EnabledOnlyWhileServable

(* No apply overwrites an edit that was saved while it was probing.        *)
THEOREM EditsSurviveApplies == Spec => ApplyKeepsEdits
<1> DEFINE Keeps(l) ==
      /\ plan'[l].type = plan[l].type /\ plan'[l].json.settings = plan[l].json.settings
      /\ plan[l].json.filled \subseteq plan'[l].json.filled
      /\ plan'[l].json.pending => plan[l].json.pending
<1>1. ASSUME IInv, [Next]_vars, NEW p \in Procs, pc[p] = "applyCommit" PROVE Keeps(tgt[p])
  <2>1. /\ pc[p] \in InTx /\ began > 0 /\ Admitted(p) /\ tgt[p] \in Lines
        /\ \A q \in Procs : pc[q] \in InTx => q = p
    BY <1>1 DEF IInv, TxInv, AimInv, InTx, Working, Steps
  <2>2. CASE UNCHANGED row
    BY <2>2 DEF row
  <2>3. CASE \E q \in Procs : ApplyCommit(q)
    <3>1. ApplyCommit(p)
      BY <2>1, <2>3 DEF ApplyCommit, InTx
    <3>2. plan'[tgt[p]] = Candidate(p)
      BY <1>1, <2>1, <3>1 DEF ApplyCommit, IInv, Typed, RowType
    <3> QED BY <1>1, <2>1, <3>2, CandidatePlan DEF IInv, Typed, Admitted
  <2> QED BY <1>1, <2>1, <2>2, <2>3, OpenTransactionAlone
<1>2. IInv /\ [Next]_vars => [\A p \in Procs : pc[p] = "applyCommit" => Keeps(tgt[p])]_vars
  BY <1>1
<1> QED BY <1>2, Invariance, PTL DEF Spec, ApplyKeepsEdits

-----------------------------------------------------------------------------
(* The refinement.  Only the steps below touch what LinePromise sees.      *)
Unseen == UNCHANGED <<status, manual, inbound>>

LEMMA UnseenStutters == ASSUME Unseen PROVE UNCHANGED Promise!vars
BY DEF Unseen, Promise!vars, Exists

LEMMA CreateLinePromise ==
  ASSUME NEW p \in Requests, NEW l \in Lines, IInv, CreateLine(p, l)
  PROVE  Promise!Admit(l)
<1>1. /\ status[l] = "absent" /\ UNCHANGED <<manual, inbound>>
      /\ status'[l] \in {"scheduled", "pending_apply"}
      /\ \A k \in Lines \ {l} : status'[k] = status[k]
  BY DEF IInv, Typed, RowType, CreateLine, SetStatus, InitialStatus, infra
<1> QED BY <1>1 DEF Promise!Admit, Exists

LEMMA UpdateLinePromise ==
  ASSUME NEW p \in Requests, NEW l \in Lines, IInv, UpdateLine(p, l)
  PROVE  UNCHANGED Promise!vars
<1>1. /\ Exists(l) /\ UNCHANGED <<manual, inbound>>
      /\ status'[l] \in {"scheduled", "pending_apply"}
      /\ \A k \in Lines \ {l} : status'[k] = status[k]
  BY DEF IInv, Typed, RowType, UpdateLine, SetStatus, InitialStatus, infra
<1> QED BY <1>1 DEF Promise!vars, Exists

LEMMA RenewLinePromise ==
  ASSUME NEW p \in Requests, NEW l \in Lines, IInv, RenewLine(p, l)
  PROVE  Promise!Renew(l)
BY DEF IInv, Typed, RowType, InfraType, RenewLine, SetStatus, infra, Promise!Renew,
    Exists, Promise!vars

LEMMA ApplyCommitPromise ==
  ASSUME NEW p \in Procs, IInv, ApplyCommit(p)
  PROVE  Promise!Start(tgt[p])
<1>1. tgt[p] \in Lines /\ Exists(tgt[p]) /\ ~manual[tgt[p]]
  BY DEF IInv, AimInv, TxInv, Admitted, InTx, Working, Steps, ApplyCommit
<1>2. /\ status' = [status EXCEPT ![tgt[p]] = "pending_check"] /\ UNCHANGED manual
      /\ inbound' = [inbound EXCEPT ![tgt[p]] = "enabled"]
  BY DEF ApplyCommit, SetStatus, BuildInfra
<1> QED BY <1>1, <1>2 DEF IInv, Typed, RowType, InfraType, Promise!Start, Exists

LEMMA RecordApplyFailurePromise ==
  ASSUME NEW p \in Procs, IInv, RecordApplyFailure(p)
  PROVE  UNCHANGED Promise!vars
BY DEF IInv, Typed, RowType, InfraType, RecordApplyFailure, SetStatus, infra, Exists,
    Promise!vars

LEMMA CheckWritePromise ==
  ASSUME NEW p \in Requests, IInv, CheckWrite(p)
  PROVE  UNCHANGED Promise!vars
BY DEF IInv, Typed, RowType, InfraType, CheckWrite, SetStatus, infra, Exists, Promise!vars

LEMMA DeleteCommitPromise ==
  ASSUME NEW p \in Requests, IInv, DeleteCommit(p)
  PROVE  UNCHANGED Promise!vars \/ Promise!Forget(tgt[p])
BY DEF IInv, Typed, RowType, InfraType, DeleteCommit, DropInfra, AimInv, Working, Steps, OwnInv,
    RuntimeFollowsLine, Procs, Promise!Forget, Exists, Promise!vars

LEMMA JobClaimPromise ==
  ASSUME NEW j \in Jobs, IInv, JobClaim(j)
  PROVE  UNCHANGED Promise!vars
BY DEF IInv, Typed, RowType, InfraType, JobClaim, SetStatus, infra, LoopType, Exists,
    Promise!vars

LEMMA JobExpirePromise ==
  ASSUME NEW j \in Jobs, IInv, JobExpire(j)
  PROVE  UNCHANGED Promise!vars \/ \E l \in Lines : Promise!Block(l)
<1>1. CASE UNCHANGED <<status, manual>>
  BY <1>1 DEF JobExpire, infra, Exists, Promise!vars
<1>2. CASE \E l \in due[j] : Exists(l) /\ SetExpiry(l, "expiring")
  <2>1. PICK l \in Lines : Exists(l) /\ SetExpiry(l, "expiring")
    BY <1>2 DEF IInv, Typed, LoopType
  <2>2. UNCHANGED inbound
    BY DEF JobExpire, infra
  <2>3. \A k \in Lines : status'[k] = IF k = l THEN "expiring" ELSE status[k]
    BY <2>1 DEF IInv, Typed, RowType, SetExpiry, SetStatus
  <2>4. \A k \in Lines : manual'[k] <=> k = l \/ manual[k]
    BY <2>1 DEF IInv, Typed, RowType, SetExpiry
  <2> QED BY <2>1, <2>2, <2>3, <2>4 DEF Promise!Block, Exists
<1> QED BY <1>1, <1>2 DEF JobExpire

LEMMA JobDisablePromise ==
  ASSUME NEW j \in Jobs, IInv, JobDisable(j)
  PROVE  UNCHANGED Promise!vars \/ Promise!Cut(tgt[j])
BY DEF IInv, Typed, RowType, InfraType, JobDisable, row, AimInv, Working, Steps, Procs,
    RuntimeFollowsLine, Promise!Cut, Exists, Promise!vars

LEMMA JobExpireCommitPromise ==
  ASSUME NEW j \in Jobs, IInv, JobExpireCommit(j)
  PROVE  UNCHANGED Promise!vars \/ Promise!Cut(tgt[j])
BY DEF IInv, Typed, RowType, InfraType, JobExpireCommit, DropInfra, SetExpiry, SetStatus,
    AimInv, Working, Steps, Procs, RuntimeFollowsLine, Promise!Cut, Exists, Promise!vars

LEMMA JobRecordExpiryFailurePromise ==
  ASSUME NEW j \in Jobs, IInv, JobRecordExpiryFailure(j)
  PROVE  UNCHANGED Promise!vars \/ Promise!Block(tgt[j])
BY DEF IInv, Typed, RowType, InfraType, JobRecordExpiryFailure, SetExpiry, SetStatus,
    infra, AimInv, Working, Steps, Procs, Promise!Block, Exists, Promise!vars

(* Every step of the service is a step of the promise, or none of its.     *)
LEMMA StepKeepsPromise ==
  ASSUME IInv, [Next]_vars
  PROVE  [Promise!Next]_(Promise!vars)
<1>1. CASE UNCHANGED vars
  BY <1>1, UnseenStutters DEF Unseen, vars, row, infra
<1>2. CASE \E l \in Lines : UpdateLineValidity(l)
  BY <1>2, UnseenStutters DEF Unseen, UpdateLineValidity, infra
<1>3. CASE \E p \in Requests : RequestStep(p)
  <2>1. PICK p \in Requests : RequestStep(p)
    BY <1>3
  <2>2. ASSUME NEW l \in Lines, \/ ApplyRequest(p, l) \/ GetLine(p, l) \/ CheckRead(p, l)
                                \/ DeleteSite(p, l) \/ StageCloudflareOriginCertificate(p, l)
        PROVE  UNCHANGED Promise!vars
    BY <2>2, UnseenStutters DEF Unseen, ApplyRequest, GetLine, CheckRead, DeleteSite,
       StageCloudflareOriginCertificate, row, infra
  <2>3. CASE DeleteFault(p) \/ StageWrite(p)
    BY <2>3, UnseenStutters DEF Unseen, DeleteFault, StageWrite, row, infra
  <2>4. CASE DeleteCommit(p)
    <3>1. tgt[p] \in Lines
      BY <2>4 DEF IInv, AimInv, Working, Steps, Procs, DeleteCommit
    <3> QED BY <2>4, <3>1, DeleteCommitPromise DEF Promise!Next, Promise!Forget
  <2>5. CASE \E l \in Lines : CreateLine(p, l) \/ UpdateLine(p, l) \/ RenewLine(p, l)
    BY <2>5, CreateLinePromise, UpdateLinePromise, RenewLinePromise DEF Promise!Next
  <2>6. CASE CheckWrite(p)
    BY <2>6, CheckWritePromise
  <2> QED BY <2>1, <2>2, <2>3, <2>4, <2>5, <2>6 DEF RequestStep
<1>4. CASE \E p \in Procs : ApplyStep(p)
  <2>1. PICK p \in Procs : ApplyStep(p)
    BY <1>4
  <2>2. CASE \/ ApplyRead(p) \/ Preflight(p) \/ ApplyAdmit(p) \/ ApplySite(p) \/ ApplyRefuse(p)
             \/ ApplyFault(p) \/ ReadBack(p) \/ WriteBack(p) \/ Finish(p)
    <3>1. Unseen
      BY <2>2 DEF Unseen, ApplyRead, Preflight, ApplyAdmit, ApplySite, ApplyRefuse, ApplyFault,
         ReadBack, WriteBack, Finish, row, infra
    <3> QED BY <3>1, UnseenStutters
  <2>3. CASE ApplyCommit(p)
    <3>1. tgt[p] \in Lines
      BY <2>3 DEF IInv, AimInv, Working, Steps, ApplyCommit
    <3> QED BY <2>3, <3>1, ApplyCommitPromise DEF Promise!Next, Promise!Start
  <2>4. CASE RecordApplyFailure(p)
    BY <2>4, RecordApplyFailurePromise
  <2> QED BY <2>1, <2>2, <2>3, <2>4 DEF ApplyStep
<1>5. CASE \E j \in Jobs : JobStep(j)
  <2>1. PICK j \in Jobs : JobStep(j)
    BY <1>5
  <2>2. CASE \/ JobBegin(j) \/ JobSelectExpiring(j) \/ JobQueryFault(j)
             \/ JobRemoveSite(j) \/ JobExpireFault(j) \/ JobEnd(j)
    <3>1. Unseen
      BY <2>2 DEF Unseen, JobBegin, JobSelectExpiring, JobQueryFault, JobRemoveSite,
         JobExpireFault, JobEnd, row, infra
    <3> QED BY <3>1, UnseenStutters
  <2>3. CASE JobDisable(j) \/ JobExpireCommit(j) \/ JobRecordExpiryFailure(j)
    <3>1. tgt[j] \in Lines
      BY <2>3 DEF IInv, AimInv, Working, Steps, Procs, JobDisable, JobExpireCommit,
         JobRecordExpiryFailure
    <3> QED BY <2>3, <3>1, JobDisablePromise, JobExpireCommitPromise,
                JobRecordExpiryFailurePromise
           DEF Promise!Next, Promise!Cut, Promise!Block
  <2>4. CASE JobClaim(j)
    BY <2>4, JobClaimPromise
  <2>5. CASE JobExpire(j)
    BY <2>5, JobExpirePromise DEF Promise!Next
  <2> QED BY <2>1, <2>2, <2>3, <2>4, <2>5 DEF JobStep
<1>6. CASE Tick \/ Crash
  BY <1>6, UnseenStutters DEF Unseen, Tick, Crash, row, infra
<1> QED BY <1>1, <1>2, <1>3, <1>4, <1>5, <1>6 DEF Next

(* The line service implements LinePromise: only known lines serve, expiry *)
(* blocks a line before it is cut, and a blocked line that has gone dark   *)
(* is not switched on again before it is renewed.                          *)
THEOREM ImplementsPromise == Spec => KeepsPromise
<1>1. Init => Promise!Init
  BY DEF Init, Promise!Init, Exists
<1>2. IInv /\ [Next]_vars => [Promise!Next]_(Promise!vars)
  BY StepKeepsPromise
<1> QED BY <1>1, <1>2, Invariance, PTL DEF Spec, KeepsPromise, Promise!Spec

-----------------------------------------------------------------------------
(* The safety side of EndedLineIsCleaned and DueLineIsTaken: the columns   *)
(* the validity job selects by agree with each other.                      *)
Selectable(l) ==
  /\ status[l] = "scheduled" => ~manual[l] /\ validFrom[l] > 0
  /\ status[l] \in ExpiryStatus => manual[l]
SelectInv == \A l \in Lines : Selectable(l)

\* A line whose time has come is found by one of the two queries of a run
\* that starts now: to be taken up, or to be cleaned up.
QueriesMissNobody == \A l \in Lines :
  /\ status[l] = "scheduled" /\ validFrom[l] <= now => l \in DueToStart(now) \union DueToExpire(now)
  /\ Ended(l, now) /\ inbound[l] # "none" => l \in DueToExpire(now)
  /\ status[l] \in {"expiring", "expiry_failed"} => manual[l] /\ l \in DueToExpire(now)

\* Steps that leave the columns alone, or give a line a verdict.
LEMMA VerdictSelects ==
  ASSUME IInv, SelectInv, UNCHANGED <<manual, validFrom>>,
         NEW v, v \notin ExpiryStatus \union {"scheduled"},
         \A l \in Lines : status'[l] \in {status[l], v}
  PROVE  SelectInv'
BY DEF SelectInv, Selectable

LEMMA PlannedSelects ==
  ASSUME IInv, SelectInv, NEW p \in Requests, NEW l \in Lines, CreateLine(p, l) \/ UpdateLine(p, l)
  PROVE  SelectInv'
<1> USE DEF infra, proc, loop
<1>1. ~manual[l] /\ UNCHANGED manual
  BY DEF CreateLine, UpdateLine, IInv, OwnInv, Exists
<1>2. PICK from \in 0..MaxTime :
        /\ status' = [status EXCEPT ![l] = InitialStatus(from)]
        /\ validFrom' = [validFrom EXCEPT ![l] = from]
  BY DEF CreateLine, UpdateLine, SetStatus
<1>3. InitialStatus(from) = "scheduled" => from > 0
  BY BoundsAssumption DEF InitialStatus, IInv, Typed, ClockType
<1>4. InitialStatus(from) \notin ExpiryStatus
  BY DEF InitialStatus, ExpiryStatus
<1>5. /\ status'[l] = InitialStatus(from) /\ validFrom'[l] = from
      /\ \A k \in Lines \ {l} : status'[k] = status[k] /\ validFrom'[k] = validFrom[k]
  BY <1>2 DEF IInv, Typed, RowType
<1> QED BY <1>1, <1>3, <1>4, <1>5 DEF SelectInv, Selectable

LEMMA ExpirySelects ==
  ASSUME IInv, SelectInv, NEW l \in Lines, NEW s \in ExpiryStatus, SetExpiry(l, s), UNCHANGED validFrom
  PROVE  SelectInv'
<1>1. /\ status'[l] = s /\ manual'[l] = TRUE
      /\ \A k \in Lines \ {l} : status'[k] = status[k] /\ manual'[k] = manual[k]
  BY DEF SetExpiry, SetStatus, IInv, Typed, RowType
<1>2. s # "scheduled"
  BY DEF ExpiryStatus
<1> QED BY <1>1, <1>2 DEF SelectInv, Selectable

LEMMA RequestSelects ==
  ASSUME IInv, SelectInv, NEW p \in Requests, RequestStep(p) PROVE SelectInv'
<1> USE DEF row, infra, loop
<1>0. tgt[p] \in Lines \/ pc[p] \notin Working
  BY DEF IInv, AimInv, Procs
<1>1. CASE \E l \in Lines : \/ ApplyRequest(p, l) \/ GetLine(p, l) \/ CheckRead(p, l)
                            \/ DeleteSite(p, l) \/ StageCloudflareOriginCertificate(p, l)
  BY <1>1 DEF ApplyRequest, GetLine, CheckRead, DeleteSite, StageCloudflareOriginCertificate,
     SelectInv, Selectable
<1>2. CASE DeleteFault(p) \/ StageWrite(p)
  BY <1>2 DEF DeleteFault, StageWrite, SelectInv, Selectable
<1>3. ASSUME NEW l \in Lines, RenewLine(p, l) PROVE SelectInv'
  <2>1. /\ status'[l] = "pending_apply"
        /\ \A k \in Lines \ {l} :
             status'[k] = status[k] /\ manual'[k] = manual[k] /\ validFrom'[k] = validFrom[k]
    BY <1>3 DEF RenewLine, SetStatus, IInv, Typed, RowType
  <2> QED BY <2>1 DEF SelectInv, Selectable, ExpiryStatus
<1>4. CASE CheckWrite(p)
  <2>1. \E v \in {"active", "failed"} : \A l \in Lines : status'[l] \in {status[l], v}
    BY <1>0, <1>4 DEF CheckWrite, SetStatus, Working, Steps, IInv, Typed, RowType
  <2>2. {"active", "failed"} \cap (ExpiryStatus \union {"scheduled"}) = {}
    BY DEF ExpiryStatus
  <2> QED BY <1>4, <2>1, <2>2, VerdictSelects DEF CheckWrite
<1>5. CASE DeleteCommit(p)
  <2>1. tgt[p] \in Lines
    BY <1>0, <1>5 DEF DeleteCommit, Working, Steps
  <2>2. /\ status'[tgt[p]] = "deleted"
        /\ \A k \in Lines \ {tgt[p]} :
             status'[k] = status[k] /\ manual'[k] = manual[k] /\ validFrom'[k] = validFrom[k]
    BY <1>5, <2>1 DEF DeleteCommit, IInv, Typed, RowType
  <2> QED BY <2>1, <2>2 DEF SelectInv, Selectable, ExpiryStatus
<1> QED BY <1>1, <1>2, <1>3, <1>4, <1>5, PlannedSelects DEF RequestStep

LEMMA ApplySelects ==
  ASSUME IInv, SelectInv, NEW p \in Procs, ApplyStep(p) PROVE SelectInv'
<1> USE DEF row, infra, loop
<1>1. CASE \/ ApplyRead(p) \/ Preflight(p) \/ ApplyAdmit(p) \/ ApplySite(p) \/ ApplyRefuse(p)
           \/ ApplyFault(p) \/ ReadBack(p) \/ WriteBack(p) \/ Finish(p)
  <2>1. UNCHANGED <<status, manual, validFrom>>
    BY <1>1 DEF ApplyRead, Preflight, ApplyAdmit, ApplySite, ApplyRefuse, ApplyFault, ReadBack,
       WriteBack, Finish
  <2> QED BY <2>1 DEF SelectInv, Selectable
<1>2. CASE ApplyCommit(p)
  <2>1. \A l \in Lines : status'[l] \in {status[l], "pending_check"}
    BY <1>2 DEF ApplyCommit, SetStatus, IInv, Typed, RowType
  <2>2. "pending_check" \notin ExpiryStatus \union {"scheduled"} /\ UNCHANGED <<manual, validFrom>>
    BY <1>2 DEF ApplyCommit, ExpiryStatus
  <2> QED BY <2>1, <2>2, VerdictSelects
<1>3. CASE RecordApplyFailure(p)
  <2>1. \A l \in Lines : status'[l] \in {status[l], "apply_failed"}
    BY <1>3 DEF RecordApplyFailure, SetStatus, IInv, Typed, RowType
  <2>2. "apply_failed" \notin ExpiryStatus \union {"scheduled"} /\ UNCHANGED <<manual, validFrom>>
    BY <1>3 DEF RecordApplyFailure, ExpiryStatus
  <2> QED BY <2>1, <2>2, VerdictSelects
<1> QED BY <1>1, <1>2, <1>3 DEF ApplyStep

LEMMA JobSelects ==
  ASSUME IInv, SelectInv, NEW j \in Jobs, JobStep(j) PROVE SelectInv'
<1> USE DEF row, infra
<1>0. tgt[j] \in Lines \/ pc[j] \notin Working
  BY DEF IInv, AimInv, Procs
<1>1. CASE JobBegin(j) \/ JobSelectExpiring(j) \/ JobQueryFault(j) \/ JobDisable(j)
           \/ JobRemoveSite(j) \/ JobExpireFault(j) \/ JobEnd(j)
  BY <1>1 DEF JobBegin, JobSelectExpiring, JobQueryFault, JobDisable, JobRemoveSite,
     JobExpireFault, JobEnd, SelectInv, Selectable
<1>2. CASE JobClaim(j)
  <2>1. \A l \in Lines : status'[l] \in {status[l], "pending_apply"}
    BY <1>2 DEF JobClaim, SetStatus, IInv, Typed, RowType
  <2>2. "pending_apply" \notin ExpiryStatus \union {"scheduled"} /\ UNCHANGED <<manual, validFrom>>
    BY <1>2 DEF JobClaim, ExpiryStatus
  <2> QED BY <2>1, <2>2, VerdictSelects
<1>3. CASE JobExpire(j)
  <2>1. PICK l \in due[j] :
          \/ UNCHANGED <<status, manual>>
          \/ SetExpiry(l, "expiring")
    BY <1>3 DEF JobExpire
  <2>2. l \in Lines /\ "expiring" \in ExpiryStatus /\ UNCHANGED validFrom
    BY <1>3 DEF JobExpire, IInv, Typed, LoopType, ExpiryStatus
  <2>3. CASE UNCHANGED <<status, manual>>
    BY <2>2, <2>3 DEF SelectInv, Selectable
  <2> QED BY <2>1, <2>2, <2>3, ExpirySelects
<1>4. CASE JobExpireCommit(j)
  <2>1. tgt[j] \in Lines /\ "expired" \in ExpiryStatus /\ UNCHANGED validFrom
    BY <1>0, <1>4 DEF JobExpireCommit, Working, Steps, ExpiryStatus
  <2>2. CASE UNCHANGED <<status, manual>>
    BY <2>1, <2>2 DEF SelectInv, Selectable
  <2> QED BY <1>4, <2>1, <2>2, ExpirySelects DEF JobExpireCommit
<1>5. CASE JobRecordExpiryFailure(j)
  <2>1. tgt[j] \in Lines /\ "expiry_failed" \in ExpiryStatus /\ UNCHANGED validFrom
    BY <1>0, <1>5 DEF JobRecordExpiryFailure, Working, Steps, ExpiryStatus
  <2>2. CASE UNCHANGED <<status, manual>>
    BY <2>1, <2>2 DEF SelectInv, Selectable
  <2> QED BY <1>5, <2>1, <2>2, ExpirySelects DEF JobRecordExpiryFailure
<1> QED BY <1>1, <1>2, <1>3, <1>4, <1>5 DEF JobStep

LEMMA StepSelects == ASSUME IInv, SelectInv, [Next]_vars PROVE SelectInv'
<1>1. CASE Tick \/ Crash \/ UNCHANGED vars \/ \E l \in Lines : UpdateLineValidity(l)
  <2>1. UNCHANGED <<status, manual, validFrom>>
    BY <1>1 DEF Tick, Crash, vars, row, UpdateLineValidity
  <2> QED BY <2>1 DEF SelectInv, Selectable
<1> QED BY <1>1, RequestSelects, ApplySelects, JobSelects DEF Next

(* The two queries of ReconcileLineValidity miss no line: one that waits   *)
(* for its start, one whose window has ended with its inbound still there, *)
(* and one whose expiry did not go through, whatever races and crashes     *)
(* brought it there.                                                       *)
THEOREM QueriesFindAll == Spec => []QueriesMissNobody
<1>1. Init => SelectInv
  BY DEF Init, SelectInv, Selectable, ExpiryStatus
<1>2. IInv /\ SelectInv => QueriesMissNobody
  <2> SUFFICES ASSUME IInv, SelectInv, NEW l \in Lines
      PROVE  /\ status[l] = "scheduled" /\ validFrom[l] <= now =>
                  l \in DueToStart(now) \union DueToExpire(now)
             /\ Ended(l, now) /\ inbound[l] # "none" => l \in DueToExpire(now)
             /\ status[l] \in {"expiring", "expiry_failed"} => manual[l] /\ l \in DueToExpire(now)
    BY DEF QueriesMissNobody
  <2>1. Selectable(l)
    BY DEF SelectInv
  <2>2. status[l] = "scheduled" => Exists(l) /\ status[l] # "expired"
    BY DEF Exists
  <2>3. inbound[l] # "none" => Exists(l) /\ status[l] # "expired"
    BY DEF IInv, RuntimeFollowsLine
  <2>4. status[l] \in {"expiring", "expiry_failed"} => status[l] \in ExpiryStatus /\ Exists(l)
    BY DEF ExpiryStatus, Exists
  <2> QED BY <2>1, <2>2, <2>3, <2>4 DEF Selectable, DueToStart, DueToExpire
<1>3. IInv /\ SelectInv /\ [Next]_vars => SelectInv'
  BY StepSelects
<1> QED BY <1>1, <1>2, <1>3, Invariance, PTL DEF Spec
=============================================================================
