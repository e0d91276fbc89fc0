--------------------------- MODULE XrayCoreProofs ---------------------------
(***************************************************************************)
(* For any handlers, any callers of each kind and any number of faults: a  *)
(* core that the user stopped stays down, and in all that nobody edits     *)
(* through the core's API the snapshot is what the core runs and a core    *)
(* that lags behind the database has a restart coming.                     *)
(***************************************************************************)
EXTENDS XrayCore, TLAPS

(* TypeOK, by the groups of variables that steps leave alone together.     *)
ConfigType ==
  /\ desired \subseteq Handlers
  /\ core = Down \/ core \subseteq Handlers
  /\ known \subseteq Handlers
  /\ cand \subseteq Handlers /\ left \subseteq Handlers
MarkType ==
  /\ needRestart \in BOOLEAN /\ manualStop \in BOOLEAN
  /\ checks \in 0..1 /\ faults \in Nat /\ dropped \in BOOLEAN
ProcType ==
  /\ holder \in Restarters \union {Nobody}
  /\ pc \in [Procs -> Steps]
  /\ force \in [Restarters -> BOOLEAN]
  /\ edit \in [ApiEditors -> [tag : ApiHandlers, add : BOOLEAN]]
Types == ConfigType /\ MarkType /\ ProcType

(* Whoever is between Enter and Leave holds the lock, so nobody else is.   *)
LockInv == \A c \in Procs : pc[c] \in Locked => c \in Restarters /\ holder = c

(* A stop waits for the lock, and entering takes the mark back.            *)
StopInv == holder # Nobody => ~manualStop

(* How far the core is from the snapshot at each step under the lock, in   *)
(* what no API call edits.                                                 *)
Agree(a, b) == a \ ApiHandlers = b \ ApiHandlers
SnapInv == Up =>
  /\ holder = Nobody => Agree(known, core)
  /\ \A c \in Restarters :
       /\ pc[c] \in {"build", "decide"} => Agree(known, core)
       /\ pc[c] = "hot" => Agree(core \ left, cand \ left)
       /\ pc[c] # "start"

IInv == Types /\ LockInv /\ StopInv /\ SnapInv

-----------------------------------------------------------------------------
LEMMA Initially == Init => IInv
<1>1. Init => ConfigType /\ MarkType
  <2>1. Init => /\ desired \subseteq Handlers /\ core = Down /\ known = {} /\ cand = {} /\ left = {}
                /\ needRestart = FALSE /\ manualStop = FALSE /\ checks = 0 /\ faults = 0 /\ dropped = FALSE
    BY ZenonT(30) DEF Init
  <2>2. Init => ConfigType
    BY <2>1 DEF ConfigType
  <2>3. Init => needRestart \in BOOLEAN /\ manualStop \in BOOLEAN /\ dropped \in BOOLEAN
    BY <2>1
  <2>4. Init => checks \in 0..1 /\ faults \in Nat
    BY <2>1
  <2> QED BY <2>2, <2>3, <2>4 DEF MarkType
<1>2. Init => ProcType
  BY HandlersAssumption, CallersAssumption DEF Init, ProcType, Procs, Restarters, Editors, Steps
<1>3. Init => LockInv /\ StopInv /\ SnapInv
  BY DEF Init, LockInv, StopInv, SnapInv, Locked, Up
<1> QED BY <1>1, <1>2, <1>3 DEF IInv, Types

(* Every step keeps the invariant.  Each proof begins with the parts that  *)
(* the step cannot disturb.                                                *)
LEMMA FlagEditStep == ASSUME NEW e \in FlagEditors, IInv, FlagEdit(e) PROVE IInv'
<1> USE DEF FlagEdit, Goto, Toggle
<1>1. (MarkType /\ StopInv)'
  BY DEF IInv, Types, MarkType, StopInv
<1>2. ConfigType'
  BY HandlersAssumption DEF IInv, Types, ConfigType, ProcType, Up
<1>3. ProcType'
  BY CallersAssumption DEF IInv, Types, ProcType, Steps, Procs, Restarters
<1>4. LockInv'
  BY CallersAssumption DEF IInv, Types, ProcType, LockInv, Locked, Procs, Restarters
<1>5. SnapInv'
  BY CallersAssumption DEF IInv, Types, ConfigType, ProcType, LockInv, SnapInv, Agree, Locked, Up, Procs,
     Restarters
<1> QED BY <1>1, <1>2, <1>3, <1>4, <1>5 DEF IInv, Types

LEMMA SetToNeedRestartStep == ASSUME NEW p \in Procs, IInv, SetToNeedRestart(p) PROVE IInv'
<1> USE DEF SetToNeedRestart, Goto
<1>1. (ConfigType /\ StopInv)'
  BY DEF IInv, Types, ConfigType, StopInv
<1>2. MarkType'
  BY DEF IInv, Types, MarkType
<1>3. ProcType'
  BY CallersAssumption DEF IInv, Types, ProcType, Steps, Procs, Restarters
<1>4. LockInv'
  BY CallersAssumption DEF IInv, Types, ProcType, LockInv, Locked, Procs, Restarters
<1>5. SnapInv'
  BY CallersAssumption DEF IInv, Types, ConfigType, ProcType, LockInv, SnapInv, Agree, Locked, Up, Procs,
     Restarters
<1> QED BY <1>1, <1>2, <1>3, <1>4, <1>5 DEF IInv, Types

LEMMA ApiEditStep == ASSUME NEW e \in ApiEditors, IInv, ApiEdit(e) PROVE IInv'
<1> USE DEF ApiEdit, Goto, Toggle
<1>1. (MarkType /\ StopInv)'
  BY DEF IInv, Types, MarkType, StopInv
<1>2. ConfigType'
  BY HandlersAssumption DEF IInv, Types, ConfigType, ProcType, Up
<1>3. ProcType'
  BY CallersAssumption DEF IInv, Types, ProcType, Steps, Procs, Restarters
<1>4. LockInv'
  BY CallersAssumption DEF IInv, Types, ProcType, LockInv, Locked, Procs, Restarters
<1>5. SnapInv'
  BY CallersAssumption DEF IInv, Types, ConfigType, ProcType, LockInv, SnapInv, Agree, Locked, Up, Procs,
     Restarters
<1> QED BY <1>1, <1>2, <1>3, <1>4, <1>5 DEF IInv, Types

LEMMA ApiCallStep == ASSUME NEW e \in ApiEditors, IInv, ApiCall(e) PROVE IInv'
<1> USE DEF ApiCall, Goto, Fault
<1>1. StopInv'
  BY DEF IInv, Types, StopInv
<1>2. ConfigType'
  BY HandlersAssumption DEF IInv, Types, ConfigType, ProcType, Up
<1>3. MarkType'
  BY DEF IInv, Types, MarkType
<1>4. ProcType'
  BY CallersAssumption DEF IInv, Types, ProcType, Steps, Procs, Restarters
<1>5. LockInv'
  BY CallersAssumption DEF IInv, Types, ProcType, LockInv, Locked, Procs, Restarters
<1>6. SnapInv'
  BY CallersAssumption DEF IInv, Types, ConfigType, ProcType, LockInv, SnapInv, Agree, Locked, Up, Procs,
     Restarters
<1> QED BY <1>1, <1>2, <1>3, <1>4, <1>5, <1>6 DEF IInv, Types

LEMMA DirectEditStep == ASSUME NEW e \in DirectEditors, IInv, DirectEdit(e) PROVE IInv'
<1> USE DEF DirectEdit, Goto, Toggle
<1>1. (MarkType /\ StopInv)'
  BY DEF IInv, Types, MarkType, StopInv
<1>2. ConfigType'
  BY HandlersAssumption DEF IInv, Types, ConfigType, ProcType, Up
<1>3. ProcType'
  BY CallersAssumption DEF IInv, Types, ProcType, Steps, Procs, Restarters
<1>4. LockInv'
  BY CallersAssumption DEF IInv, Types, ProcType, LockInv, Locked, Procs, Restarters
<1>5. SnapInv'
  BY CallersAssumption DEF IInv, Types, ConfigType, ProcType, LockInv, SnapInv, Agree, Locked, Up, Procs,
     Restarters
<1> QED BY <1>1, <1>2, <1>3, <1>4, <1>5 DEF IInv, Types

LEMMA PendingTickStep == ASSUME IInv, PendingTick PROVE IInv'
<1> USE DEF PendingTick, Goto
<1>1. (ConfigType /\ StopInv)'
  BY DEF IInv, Types, ConfigType, StopInv
<1>2. MarkType'
  BY DEF IInv, Types, MarkType
<1>3. ProcType'
  BY CallersAssumption DEF IInv, Types, ProcType, Steps, Procs, Restarters
<1>4. LockInv'
  BY CallersAssumption DEF IInv, Types, ProcType, LockInv, Locked, Procs, Restarters
<1>5. SnapInv'
  BY CallersAssumption DEF IInv, Types, ConfigType, ProcType, LockInv, SnapInv, Agree, Locked, Up, Procs,
     Restarters
<1> QED BY <1>1, <1>2, <1>3, <1>4, <1>5 DEF IInv, Types

LEMMA WatchTickStep == ASSUME IInv, WatchTick PROVE IInv'
<1> USE DEF WatchTick, Goto
<1>1. (ConfigType /\ StopInv)'
  BY DEF IInv, Types, ConfigType, StopInv
<1>2. MarkType'
  BY DEF IInv, Types, MarkType
<1>3. ProcType'
  BY CallersAssumption DEF IInv, Types, ProcType, Steps, Procs, Restarters
<1>4. LockInv'
  BY CallersAssumption DEF IInv, Types, ProcType, LockInv, Locked, Procs, Restarters
<1>5. SnapInv'
  BY CallersAssumption DEF IInv, Types, ConfigType, ProcType, LockInv, SnapInv, Agree, Locked, Up, Procs,
     Restarters
<1> QED BY <1>1, <1>2, <1>3, <1>4, <1>5 DEF IInv, Types

LEMMA UserRestartStep == ASSUME IInv, UserRestart PROVE IInv'
<1> USE DEF UserRestart, Goto
<1>1. (ConfigType /\ MarkType /\ StopInv)'
  BY DEF IInv, Types, ConfigType, MarkType, StopInv
<1>2. ProcType'
  BY CallersAssumption DEF IInv, Types, ProcType, Steps, Procs, Restarters
<1>3. LockInv'
  BY CallersAssumption DEF IInv, Types, ProcType, LockInv, Locked, Procs, Restarters
<1>4. SnapInv'
  BY CallersAssumption DEF IInv, Types, ConfigType, ProcType, LockInv, SnapInv, Agree, Locked, Up, Procs,
     Restarters
<1> QED BY <1>1, <1>2, <1>3, <1>4 DEF IInv, Types

LEMMA StopXrayStep == ASSUME IInv, StopXray PROVE IInv'
<1> USE DEF StopXray
<1>1. (ProcType /\ LockInv)'
  BY DEF IInv, Types, ProcType, LockInv
<1>2. ConfigType'
  BY HandlersAssumption DEF IInv, Types, ConfigType, ProcType, Up
<1>3. MarkType'
  BY DEF IInv, Types, MarkType
<1>4. StopInv'
  BY CallersAssumption DEF IInv, Types, ProcType, LockInv, StopInv, Locked, Procs, Restarters
<1>5. SnapInv'
  BY CallersAssumption DEF IInv, Types, ConfigType, ProcType, LockInv, SnapInv, Agree, Locked, Up, Procs,
     Restarters
<1> QED BY <1>1, <1>2, <1>3, <1>4, <1>5 DEF IInv, Types

LEMMA CoreExitsStep == ASSUME IInv, CoreExits PROVE IInv'
<1> USE DEF CoreExits, Fault
<1>1. (ProcType /\ LockInv /\ StopInv)'
  BY DEF IInv, Types, ProcType, LockInv, StopInv
<1>2. ConfigType'
  BY HandlersAssumption DEF IInv, Types, ConfigType, ProcType, Up
<1>3. MarkType'
  BY DEF IInv, Types, MarkType
<1>4. SnapInv'
  BY CallersAssumption DEF IInv, Types, ConfigType, ProcType, LockInv, SnapInv, Agree, Locked, Up, Procs,
     Restarters
<1> QED BY <1>1, <1>2, <1>3, <1>4 DEF IInv, Types

LEMMA EnterStep == ASSUME NEW c \in Restarters, IInv, Enter(c) PROVE IInv'
<1> USE DEF Enter, Goto
<1>1. ConfigType'
  BY DEF IInv, Types, ConfigType
<1>2. MarkType'
  BY DEF IInv, Types, MarkType
<1>3. ProcType'
  BY CallersAssumption DEF IInv, Types, ProcType, Steps, Procs, Restarters
<1>4. LockInv'
  BY CallersAssumption DEF IInv, Types, ProcType, LockInv, Locked, Procs, Restarters
<1>5. StopInv'
  BY CallersAssumption DEF IInv, Types, ProcType, LockInv, StopInv, Locked, Procs, Restarters
<1>6. SnapInv'
  BY CallersAssumption DEF IInv, Types, ConfigType, ProcType, LockInv, SnapInv, Agree, Locked, Up, Procs,
     Restarters
<1> QED BY <1>1, <1>2, <1>3, <1>4, <1>5, <1>6 DEF IInv, Types

LEMMA BuildStep == ASSUME NEW c \in Restarters, IInv, Build(c) PROVE IInv'
<1> USE DEF Build, Goto, Leave, Fault
<1>1. ConfigType'
  BY HandlersAssumption DEF IInv, Types, ConfigType, ProcType, Up
<1>2. MarkType'
  <2>1. dropped' = dropped \/ dropped' \in BOOLEAN
    BY Zenon
  <2>2. faults' = faults \/ faults' = faults + 1
    BY Zenon
  <2>3. UNCHANGED <<needRestart, manualStop, checks>>
    BY Zenon
  <2> QED BY <2>1, <2>2, <2>3 DEF IInv, Types, MarkType
<1>3. ProcType'
  BY CallersAssumption DEF IInv, Types, ProcType, Steps, Procs, Restarters
<1>4. LockInv'
  BY CallersAssumption DEF IInv, Types, ProcType, LockInv, Locked, Procs, Restarters
<1>5. StopInv'
  BY CallersAssumption DEF IInv, Types, ProcType, LockInv, StopInv, Locked, Procs, Restarters
<1>6. SnapInv'
  BY CallersAssumption DEF IInv, Types, ConfigType, ProcType, LockInv, SnapInv, Agree, Locked, Up, Procs,
     Restarters
<1> QED BY <1>1, <1>2, <1>3, <1>4, <1>5, <1>6 DEF IInv, Types

LEMMA DecideStep == ASSUME NEW c \in Restarters, IInv, Decide(c) PROVE IInv'
<1> USE DEF Decide, Goto, Leave, Changed
<1>1. MarkType'
  BY DEF IInv, Types, MarkType
<1>2. ConfigType'
  BY HandlersAssumption DEF IInv, Types, ConfigType, ProcType, Up
<1>3. ProcType'
  BY CallersAssumption DEF IInv, Types, ProcType, Steps, Procs, Restarters
<1>4. LockInv'
  BY CallersAssumption DEF IInv, Types, ProcType, LockInv, Locked, Procs, Restarters
<1>5. StopInv'
  BY CallersAssumption DEF IInv, Types, ProcType, LockInv, StopInv, Locked, Procs, Restarters
<1>6. SnapInv'
  BY CallersAssumption DEF IInv, Types, ConfigType, ProcType, LockInv, SnapInv, Agree, Locked, Up, Procs,
     Restarters
<1> QED BY <1>1, <1>2, <1>3, <1>4, <1>5, <1>6 DEF IInv, Types

LEMMA HotStepStep == ASSUME NEW c \in Restarters, IInv, HotStep(c) PROVE IInv'
<1> USE DEF HotStep
<1>1. (MarkType /\ ProcType /\ LockInv /\ StopInv)'
  BY DEF IInv, Types, MarkType, ProcType, LockInv, StopInv
<1>2. ConfigType'
  BY HandlersAssumption DEF IInv, Types, ConfigType, ProcType, Up
<1>3. SnapInv'
  BY CallersAssumption DEF IInv, Types, ConfigType, ProcType, LockInv, SnapInv, Agree, Locked, Up, Procs,
     Restarters
<1> QED BY <1>1, <1>2, <1>3 DEF IInv, Types

LEMMA HotFailStep == ASSUME NEW c \in Restarters, IInv, HotFail(c) PROVE IInv'
<1> USE DEF HotFail, Goto, Fault
<1>1. StopInv'
  BY DEF IInv, Types, StopInv
<1>2. ConfigType'
  BY HandlersAssumption DEF IInv, Types, ConfigType, ProcType, Up
<1>3. MarkType'
  BY DEF IInv, Types, MarkType
<1>4. ProcType'
  BY CallersAssumption DEF IInv, Types, ProcType, Steps, Procs, Restarters
<1>5. LockInv'
  BY CallersAssumption DEF IInv, Types, ProcType, LockInv, Locked, Procs, Restarters
<1>6. SnapInv'
  BY CallersAssumption DEF IInv, Types, ConfigType, ProcType, LockInv, SnapInv, Agree, Locked, Up, Procs,
     Restarters
<1> QED BY <1>1, <1>2, <1>3, <1>4, <1>5, <1>6 DEF IInv, Types

LEMMA HotDoneStep == ASSUME NEW c \in Restarters, IInv, HotDone(c) PROVE IInv'
<1> USE DEF HotDone, Goto, Leave
<1>1. MarkType'
  BY DEF IInv, Types, MarkType
<1>2. ConfigType'
  BY HandlersAssumption DEF IInv, Types, ConfigType, ProcType, Up
<1>3. ProcType'
  BY CallersAssumption DEF IInv, Types, ProcType, Steps, Procs, Restarters
<1>4. LockInv'
  BY CallersAssumption DEF IInv, Types, ProcType, LockInv, Locked, Procs, Restarters
<1>5. StopInv'
  BY CallersAssumption DEF IInv, Types, ProcType, LockInv, StopInv, Locked, Procs, Restarters
<1>6. SnapInv'
  BY CallersAssumption DEF IInv, Types, ConfigType, ProcType, LockInv, SnapInv, Agree, Locked, Up, Procs,
     Restarters
<1> QED BY <1>1, <1>2, <1>3, <1>4, <1>5, <1>6 DEF IInv, Types

LEMMA StopCoreStep == ASSUME NEW c \in Restarters, IInv, StopCore(c) PROVE IInv'
<1> USE DEF StopCore, Goto
<1>1. (MarkType /\ StopInv)'
  BY DEF IInv, Types, MarkType, StopInv
<1>2. ConfigType'
  BY HandlersAssumption DEF IInv, Types, ConfigType, ProcType, Up
<1>3. ProcType'
  BY CallersAssumption DEF IInv, Types, ProcType, Steps, Procs, Restarters
<1>4. LockInv'
  BY CallersAssumption DEF IInv, Types, ProcType, LockInv, Locked, Procs, Restarters
<1>5. SnapInv'
  BY CallersAssumption DEF IInv, Types, ConfigType, ProcType, LockInv, SnapInv, Agree, Locked, Up, Procs,
     Restarters
<1> QED BY <1>1, <1>2, <1>3, <1>4, <1>5 DEF IInv, Types

LEMMA StartCoreStep == ASSUME NEW c \in Restarters, IInv, StartCore(c) PROVE IInv'
<1> USE DEF StartCore, Goto, Leave, Fault
<1>1. ConfigType'
  BY HandlersAssumption DEF IInv, Types, ConfigType, ProcType, Up
<1>2. MarkType'
  <2>1. dropped' = dropped \/ dropped' \in BOOLEAN
    BY Zenon
  <2>2. faults' = faults \/ faults' = faults + 1
    BY Zenon
  <2>3. UNCHANGED <<needRestart, manualStop, checks>>
    BY Zenon
  <2> QED BY <2>1, <2>2, <2>3 DEF IInv, Types, MarkType
<1>3. ProcType'
  <2>1. c \in Procs
    BY DEF Procs
  <2>2. PICK s \in {"idle", "flag"} : pc' = [pc EXCEPT ![c] = s]
    BY Zenon
  <2>3. pc' \in [Procs -> Steps]
    BY <2>1, <2>2 DEF IInv, Types, ProcType, Steps
  <2>4. /\ holder' = Nobody
        /\ force' = [force EXCEPT ![c] = FALSE]
        /\ UNCHANGED edit
    BY Zenon
  <2>5. force' \in [Restarters -> BOOLEAN]
    BY <2>4 DEF IInv, Types, ProcType
  <2> QED BY <2>3, <2>4, <2>5 DEF IInv, Types, ProcType
<1>4. LockInv'
  BY CallersAssumption DEF IInv, Types, ProcType, LockInv, Locked, Procs, Restarters
<1>5. StopInv'
  BY CallersAssumption DEF IInv, Types, ProcType, LockInv, StopInv, Locked, Procs, Restarters
<1>6. SnapInv'
  BY CallersAssumption DEF IInv, Types, ConfigType, ProcType, LockInv, SnapInv, Agree, Locked, Up, Procs,
     Restarters
<1> QED BY <1>1, <1>2, <1>3, <1>4, <1>5, <1>6 DEF IInv, Types

LEMMA StepKeepsIInv == ASSUME IInv, [Next]_vars PROVE IInv'
<1>1. CASE UNCHANGED vars
  BY <1>1 DEF vars, IInv, Types, ConfigType, MarkType, ProcType, LockInv, StopInv, SnapInv, Agree, Up
<1>2. CASE Next
  BY <1>2, FlagEditStep, SetToNeedRestartStep, ApiEditStep, ApiCallStep, DirectEditStep,
     PendingTickStep, WatchTickStep, UserRestartStep, StopXrayStep, CoreExitsStep, EnterStep,
     BuildStep, DecideStep, HotStepStep, HotFailStep, HotDoneStep, StopCoreStep, StartCoreStep
     DEF Next, Restart
<1> QED BY <1>1, <1>2

-----------------------------------------------------------------------------
(* The inductive invariant holds in every reachable state.                 *)
THEOREM Invariance == Spec => []IInv
<1> QED BY Initially, StepKeepsIInv, PTL DEF Spec

(* Every variable of XrayCore keeps its type.                              *)
THEOREM TypeCorrect == Spec => []TypeOK
<1>1. IInv => TypeOK
  BY DEF IInv, Types, ConfigType, MarkType, ProcType, TypeOK
<1> QED BY <1>1, Invariance, PTL

(* The snapshot that RestartXray compares with is what the core runs       *)
(* whenever the lock is free, in all that no editor reaches by the API.    *)
THEOREM SnapshotIsTrue == Spec => []SnapshotIsCore
<1>1. IInv => SnapshotIsCore
  BY DEF IInv, SnapInv, Agree, SnapshotIsCore
<1> QED BY <1>1, Invariance, PTL

(* A stop by the user is undone by a forced restart and by nothing else,   *)
(* whatever restarts were waiting for the lock.                            *)
THEOREM StopIsRespected == Spec => StoppedStaysDown
<1> DEFINE Others == \/ \E e \in FlagEditors : FlagEdit(e)
                     \/ \E e \in ApiEditors : ApiEdit(e) \/ ApiCall(e)
                     \/ \E e \in DirectEditors : DirectEdit(e)
                     \/ \E p \in Procs : SetToNeedRestart(p)
                     \/ PendingTick \/ WatchTick \/ UserRestart \/ StopXray \/ CoreExits
<1>1. ASSUME IInv, Next, manualStop, ~Up PROVE core' = Down
  <2>1. CASE Others
    BY <1>1, <2>1 DEF Up, FlagEdit, ApiEdit, ApiCall, DirectEdit, SetToNeedRestart, PendingTick,
       WatchTick, UserRestart, StopXray, CoreExits
  <2>2. CASE \E c \in Restarters : Restart(c)
    <3>1. PICK c \in Restarters : Restart(c)
      BY <2>2
    <3>2. ~StartCore(c)
      BY <1>1, CallersAssumption
         DEF IInv, Types, ProcType, LockInv, StopInv, StartCore, Locked, Procs
    <3> QED BY <1>1, <3>1, <3>2
            DEF Restart, Up, Enter, Build, Decide, HotStep, HotFail, HotDone, StopCore
  <2> QED BY <1>1, <2>1, <2>2 DEF Next
<1>2. ASSUME Next, manualStop, ~manualStop'
      PROVE  \E c \in Restarters : force[c] /\ pc[c] = "want"
  <2>1. ~Others
    BY <1>2 DEF FlagEdit, ApiEdit, ApiCall, DirectEdit, SetToNeedRestart, PendingTick, WatchTick,
       UserRestart, StopXray, CoreExits
  <2>2. PICK c \in Restarters : Restart(c)
    BY <1>2, <2>1 DEF Next
  <2> QED BY <1>2, <2>2
          DEF Restart, Enter, Build, Decide, HotStep, HotFail, HotDone, StopCore, StartCore
<1>3. IInv /\ [Next]_vars => [manualStop =>
        /\ ~Up => ~(core' # Down)
        /\ manualStop' \/ \E c \in Restarters : force[c] /\ pc[c] = "want"]_vars
  BY <1>1, <1>2 DEF vars, Up
<1> QED BY <1>3, Invariance, PTL DEF Spec, StoppedStaysDown

-----------------------------------------------------------------------------
(* A change that the core does not have yet is owed a restart.             *)
Flagged == \E p \in Procs : pc[p] = "flag"
Waits(c) == pc[c] = "want"
Owed == needRestart \/ Flagged \/ \E c \in DirectEditors \union {Pending} : Waits(c)

(* Under the lock, the caller that has built a stale configuration leaves  *)
(* the debt to others; one that is about to build may be serving it.       *)
Deciding == {"decide", "hot", "stop", "start"}
Free == holder = Nobody /\ Up /\ ~Agree(core, desired) => Owed \/ dropped
Served(c) ==
  /\ pc[c] = "build" /\ Up /\ ~Agree(core, desired) =>
       Owed \/ dropped \/ c \in DirectEditors \union {Pending}
  /\ pc[c] \in Deciding /\ ~Agree(cand, desired) => Owed
OwedInv ==
  /\ manualStop => ~Up
  /\ Free
  /\ \A c \in Restarters : Served(c)

LEMMA OwedInit == Init => OwedInv
<1> SUFFICES ASSUME Init PROVE OwedInv
  OBVIOUS
<1>1. ~manualStop /\ ~Up
  BY Zenon DEF Init, Up
<1>2. \A c \in Restarters : pc[c] \in {"want", "idle"}
  BY DEF Init, Procs
<1> QED BY <1>1, <1>2 DEF OwedInv, Free, Served, Deciding

(* Nobody else is under the lock, and who is there holds it.               *)
LEMMA Holding == ASSUME IInv, NEW c \in Restarters, pc[c] \in Locked
                 PROVE  /\ holder = c /\ holder # Nobody /\ ~manualStop /\ c \in Procs
                        /\ \A d \in Procs : pc[d] \in Locked => d = c
  BY CallersAssumption DEF IInv, LockInv, StopInv, Procs

(* A step that owes at least as much and neither takes the lock nor builds.*)
LEMMA EditOwes == ASSUME IInv, OwedInv, Owed', UNCHANGED <<core, manualStop>> PROVE OwedInv'
<1>1. Free' /\ \A c \in Restarters : Served(c)'
  BY DEF Free, Served
<1>2. (manualStop => ~Up)'
  BY DEF OwedInv, Up
<1> QED BY <1>1, <1>2 DEF OwedInv

LEMMA FlagOwes == ASSUME IInv, OwedInv, NEW e \in FlagEditors, FlagEdit(e) PROVE OwedInv'
<1>1. UNCHANGED <<core, manualStop>> /\ pc \in [Procs -> Steps] /\ e \in Procs
  BY DEF FlagEdit, IInv, Types, ProcType, Procs
<1>2. pc'[e] = "flag"
  BY <1>1 DEF FlagEdit, Goto
<1> QED BY <1>1, <1>2, EditOwes DEF Owed, Flagged

LEMMA DirectOwes == ASSUME IInv, OwedInv, NEW d \in DirectEditors, DirectEdit(d) PROVE OwedInv'
<1>1. UNCHANGED <<core, manualStop>> /\ pc \in [Procs -> Steps] /\ d \in Procs
  BY DEF DirectEdit, IInv, Types, ProcType, Procs, Restarters
<1>2. pc'[d] = "want"
  BY <1>1 DEF DirectEdit, Goto
<1> QED BY <1>1, <1>2, EditOwes DEF Owed, Waits

LEMMA RaiseOwes == ASSUME IInv, OwedInv, NEW p \in Procs, SetToNeedRestart(p) PROVE OwedInv'
  BY EditOwes DEF SetToNeedRestart, Owed

LEMMA TickOwes == ASSUME IInv, OwedInv, PendingTick PROVE OwedInv'
<1>1. UNCHANGED <<core, manualStop>> /\ pc \in [Procs -> Steps] /\ Pending \in Procs
  BY DEF PendingTick, IInv, Types, ProcType, Procs, Restarters
<1>2. pc'[Pending] = "want"
  BY <1>1 DEF PendingTick, Goto
<1> QED BY <1>1, <1>2, EditOwes DEF Owed, Waits

(* What is owed stays owed when one caller takes a step that is not Enter. *)
LEMMA OwedStays ==
  ASSUME IInv, Owed, NEW c \in Procs, NEW s, pc' = [pc EXCEPT ![c] = s] \/ pc' = pc,
         pc[c] \notin {"want", "flag"}, needRestart' = needRestart
  PROVE  Owed'
<1>1. pc \in [Procs -> Steps] /\ DirectEditors \union {Pending} \subseteq Procs
  BY DEF IInv, Types, ProcType, Procs, Restarters
<1>2. \A p \in Procs : pc[p] \in {"want", "flag"} => pc'[p] = pc[p]
  BY <1>1
<1>3. Flagged => Flagged'
  BY <1>2 DEF Flagged
<1>4. (\E d \in DirectEditors \union {Pending} : Waits(d)) => (\E d \in DirectEditors \union {Pending} : Waits(d))'
  BY <1>1, <1>2 DEF Waits
<1> QED BY <1>3, <1>4 DEF Owed

(* A step that goes nowhere under the lock, and changes what is desired    *)
(* and what runs only where the API does, or takes the core down.          *)
LEMMA AsideOwes ==
  ASSUME IInv, OwedInv, Owed => Owed', UNCHANGED <<cand, holder, dropped>>,
         Agree(desired, desired'), Up' => Up /\ Agree(core, core'), manualStop' => ~Up',
         \A c \in Restarters : pc'[c] \in {"build"} \union Deciding => pc'[c] = pc[c]
  PROVE  OwedInv'
<1>1. Up' => (Agree(core, desired) <=> Agree(core, desired)')
  BY DEF Agree
<1>2. Agree(cand, desired) <=> Agree(cand, desired)'
  BY DEF Agree
<1>3. Free'
  BY <1>1 DEF OwedInv, Free
<1>4. ASSUME NEW c \in Restarters PROVE Served(c)'
  BY <1>1, <1>2, <1>4 DEF OwedInv, Served
<1> QED BY <1>3, <1>4 DEF OwedInv

LEMMA QuietOwes ==
  ASSUME IInv, OwedInv, UNCHANGED vars \/ CoreExits \/ StopXray \/ WatchTick \/ UserRestart
  PROVE  OwedInv'
<1>1. /\ UNCHANGED <<needRestart, desired, cand, holder, dropped>>
      /\ \/ pc' = pc
         \/ \E c \in {Watch, User} : pc[c] = "idle" /\ pc' = [pc EXCEPT ![c] = "want"]
  BY DEF CoreExits, StopXray, WatchTick, UserRestart, Goto, vars
<1>2. /\ \A p \in Procs : pc[p] \in {"flag", "want"} => pc'[p] = pc[p]
      /\ \A c \in Restarters : pc'[c] = pc[c] \/ pc'[c] = "want"
  BY <1>1 DEF IInv, Types, ProcType, Procs, Restarters
<1>3. Owed => Owed'
  BY <1>1, <1>2 DEF Owed, Flagged, Waits, Procs, Restarters
<1>4. (core' = core /\ manualStop' = manualStop) \/ ~Up'
  BY DEF CoreExits, StopXray, WatchTick, UserRestart, vars, Up
<1>5. (Up' => Up /\ Agree(core, core')) /\ (manualStop' => ~Up') /\ Agree(desired, desired')
  BY <1>1, <1>4 DEF OwedInv, Up, Agree
<1>6. \A c \in Restarters : pc'[c] \in {"build"} \union Deciding => pc'[c] = pc[c]
  BY <1>2 DEF Deciding
<1> QED BY <1>1, <1>3, <1>5, <1>6, AsideOwes

LEMMA ApiOwes ==
  ASSUME IInv, OwedInv, NEW e \in ApiEditors, ApiEdit(e) \/ ApiCall(e) PROVE OwedInv'
<1>1. /\ e \in Procs /\ e \notin Restarters /\ pc \in [Procs -> Steps]
      /\ pc[e] \notin {"want", "flag"} /\ \E s : pc' = [pc EXCEPT ![e] = s]
      /\ UNCHANGED <<needRestart, cand, holder, dropped, manualStop>>
  BY CallersAssumption DEF ApiEdit, ApiCall, Goto, IInv, Types, ProcType, Procs, Restarters, Editors
<1>2. Owed => Owed'
  BY <1>1, OwedStays
<1>3. Agree(desired, desired')
  BY DEF ApiEdit, ApiCall, Toggle, Agree
<1>4. core' = core \/ (Up /\ \E h \in ApiHandlers : core' \in {core \union {h}, core \ {h}})
  BY DEF ApiEdit, ApiCall, IInv, Types, ProcType
<1>5. (Up' => Up /\ Agree(core, core')) /\ (manualStop' => ~Up')
  BY <1>1, <1>4 DEF OwedInv, Up, Agree
<1>6. \A c \in Restarters : pc'[c] \in {"build"} \union Deciding => pc'[c] = pc[c]
  BY <1>1 DEF Procs
<1> QED BY <1>1, <1>2, <1>3, <1>5, <1>6, AsideOwes

(* Under the lock.                                                         *)
LEMMA EnterOwes == ASSUME IInv, OwedInv, NEW c \in Restarters, Enter(c) PROVE OwedInv'
<1>1. /\ pc[c] = "want" /\ holder = Nobody /\ c \in Procs /\ pc \in [Procs -> Steps]
      /\ UNCHANGED <<core, desired, cand, needRestart, dropped>>
  BY DEF Enter, IInv, Types, ProcType, Procs
<1>2. \A d \in Restarters : pc[d] \notin Deciding /\ pc[d] # "build"
  BY <1>1, Holding DEF Deciding, Locked
<1>3. CASE manualStop
  <2>1. manualStop' \in BOOLEAN /\ ~Up'
    BY <1>1, <1>3 DEF OwedInv, Up, Enter, IInv, Types, MarkType
  <2>2. \A d \in Restarters : pc'[d] \notin Deciding
    <3>1. PICK s \in {"idle", "build"} : pc' = [pc EXCEPT ![c] = s]
      BY DEF Enter, Goto
    <3>2. \A d \in Restarters : pc'[d] \in {pc[d], s}
      BY <1>1, <3>1
    <3> QED BY <1>2, <3>2 DEF Deciding
  <2> QED BY <2>1, <2>2 DEF OwedInv, Free, Served
<1>4. CASE ~manualStop
  <2>1. ~manualStop' /\ holder' = c /\ pc' = [pc EXCEPT ![c] = "build"]
    BY <1>4 DEF Enter, Goto
  <2>2. holder' # Nobody
    BY <2>1, CallersAssumption
  <2>3. \A d \in Procs : d # c => pc'[d] = pc[d]
    BY <1>1, <2>1
  <2>4. Owed => Owed' \/ c \in DirectEditors \union {Pending}
    BY <1>1, <2>3 DEF Owed, Flagged, Waits, Procs, Restarters
  <2>5. Served(c)'
    BY <1>1, <2>1, <2>4 DEF OwedInv, Free, Served, Up, Deciding, Agree
  <2>6. \A d \in Restarters : d # c => pc'[d] \notin Deciding /\ pc'[d] # "build"
    BY <1>2, <2>3 DEF Procs
  <2>7. ASSUME NEW d \in Restarters, d # c PROVE Served(d)'
    BY <2>6, <2>7 DEF Served
  <2>8. Free'
    BY <2>2 DEF Free
  <2> QED BY <2>1, <2>5, <2>7, <2>8 DEF OwedInv
<1> QED BY <1>3, <1>4

LEMMA BuildOwes == ASSUME IInv, OwedInv, NEW c \in Restarters, Build(c) PROVE OwedInv'
<1>1. /\ pc[c] = "build" /\ pc[c] \in Locked /\ c \in Procs /\ pc \in [Procs -> Steps]
      /\ UNCHANGED <<core, desired, manualStop, needRestart>>
  BY DEF Build, IInv, Types, ProcType, Procs, Locked
<1>2. holder = c /\ holder # Nobody /\ ~manualStop /\ \A d \in Procs : pc[d] \in Locked => d = c
  BY <1>1, Holding
<1>3. CASE cand' = desired /\ Goto(c, "decide") /\ UNCHANGED <<holder, force, faults, dropped>>
  <2>1. \A d \in Restarters : pc'[d] = "build" => FALSE
    BY <1>1, <1>2, <1>3 DEF Goto, Locked, Procs
  <2>2. holder' # Nobody /\ cand' = desired'
    BY <1>1, <1>2, <1>3
  <2> QED BY <1>1, <1>2, <2>1, <2>2 DEF OwedInv, Free, Served, Agree
<1>4. CASE Fault /\ Leave(c, TRUE) /\ UNCHANGED cand
  <2>1. \A d \in Restarters : pc'[d] \notin Locked
    BY <1>1, <1>2, <1>4 DEF Leave, Goto, Locked, Procs
  <2>2. dropped \/ c \in DirectEditors => dropped'
    BY <1>4 DEF Leave
  <2>3. ASSUME Up, ~Agree(core, desired) PROVE Owed' \/ dropped'
    <3>1. CASE c = Pending
      <4>1. pc'[Pending] = "flag" /\ Pending \in Procs
        BY <1>1, <1>4, <3>1 DEF Leave, Goto
      <4> QED BY <4>1 DEF Owed, Flagged
    <3>2. CASE c \in DirectEditors \/ dropped
      BY <2>2, <3>2
    <3>3. CASE c \notin DirectEditors \union {Pending} /\ ~dropped
      <4>1. Owed
        BY <1>1, <2>3, <3>3 DEF OwedInv, Served
      <4>2. PICK s : pc' = [pc EXCEPT ![c] = s]
        BY <1>4 DEF Leave, Goto
      <4> QED BY <1>1, <4>1, <4>2, OwedStays
    <3> QED BY <3>1, <3>2, <3>3
  <2>4. Free'
    BY <1>1, <2>3 DEF Free, Up, Agree
  <2>5. ASSUME NEW d \in Restarters PROVE Served(d)'
    BY <2>1 DEF Served, Locked, Deciding
  <2> QED BY <1>1, <1>2, <2>4, <2>5 DEF OwedInv
<1> QED BY <1>3, <1>4 DEF Build

(* The holder leaves with a core that runs what it has built, or with none.*)
LEMMA LeavesOwes ==
  ASSUME IInv, OwedInv, NEW c \in Restarters, pc[c] \in Deciding, NEW failed, Leave(c, failed),
         core' # Down => Agree(core', cand),
         UNCHANGED <<desired, cand, manualStop, needRestart>>
  PROVE  OwedInv'
<1>1. pc[c] \in Locked /\ c \in Procs /\ pc \in [Procs -> Steps]
  BY DEF IInv, Types, ProcType, Procs, Locked, Deciding
<1>2. ~manualStop /\ \A d \in Procs : pc[d] \in Locked => d = c
  BY <1>1, Holding
<1>3. PICK s \in {"idle", "flag"} : pc' = [pc EXCEPT ![c] = s]
  BY DEF Leave, Goto
<1>4. \A d \in Restarters : pc'[d] \notin Locked
  BY <1>1, <1>2, <1>3 DEF Locked, Procs
<1>5. ASSUME Up', ~Agree(core', desired') PROVE Owed'
  <2>1. ~Agree(cand, desired)
    BY <1>5 DEF Up, Agree
  <2>2. Owed
    BY <2>1 DEF OwedInv, Served
  <2>3. pc[c] \notin {"want", "flag"}
    BY DEF Deciding
  <2> QED BY <1>1, <1>3, <2>2, <2>3, OwedStays
<1>6. Free'
  BY <1>5 DEF Free, Agree
<1>7. ASSUME NEW d \in Restarters PROVE Served(d)'
  BY <1>4 DEF Served, Locked, Deciding
<1> QED BY <1>2, <1>6, <1>7 DEF OwedInv

(* The holder goes on under the lock with the configuration it has built.  *)
LEMMA GoesOnOwes ==
  ASSUME IInv, OwedInv, NEW c \in Restarters, pc[c] \in Deciding, NEW s \in Deciding,
         pc' = [pc EXCEPT ![c] = s],
         UNCHANGED <<desired, cand, manualStop, needRestart, holder>>
  PROVE  OwedInv'
<1>1. pc[c] \in Locked /\ c \in Procs /\ pc \in [Procs -> Steps] /\ pc[c] \notin {"want", "flag"}
  BY DEF IInv, Types, ProcType, Procs, Locked, Deciding
<1>2. ~manualStop /\ holder # Nobody /\ \A d \in Procs : pc[d] \in Locked => d = c
  BY <1>1, Holding
<1>3. \A d \in Restarters : d # c => pc'[d] \notin Locked
  BY <1>1, <1>2 DEF Procs
<1>4. Served(c)'
  <2>1. pc'[c] = s /\ s # "build"
    BY <1>1 DEF Deciding
  <2>2. ~Agree(cand, desired) => Owed'
    BY <1>1, OwedStays DEF OwedInv, Served
  <2> QED BY <2>1, <2>2 DEF Served, Agree
<1>5. ASSUME NEW d \in Restarters, d # c PROVE Served(d)'
  BY <1>3, <1>5 DEF Served, Locked, Deciding
<1> QED BY <1>2, <1>4, <1>5 DEF OwedInv, Free

LEMMA DecideOwes == ASSUME IInv, OwedInv, NEW c \in Restarters, Decide(c) PROVE OwedInv'
<1>1. pc[c] = "decide" /\ pc[c] \in Deciding
      /\ UNCHANGED <<desired, cand, manualStop, needRestart, core>>
  BY DEF Decide, Deciding
<1>2. CASE cand = known /\ Up /\ Leave(c, FALSE)
  <2>1. core' # Down => Agree(core', cand)
    BY <1>1, <1>2 DEF IInv, SnapInv, Agree
  <2> QED BY <1>1, <1>2, <2>1, LeavesOwes
<1>3. CASE (Goto(c, "hot") \/ Goto(c, "stop")) /\ holder' = holder
  <2>1. "hot" \in Deciding /\ "stop" \in Deciding
    BY DEF Deciding
  <2> QED BY <1>1, <1>3, <2>1, GoesOnOwes DEF Goto
<1> QED BY <1>2, <1>3 DEF Decide

LEMMA HotOwes == ASSUME IInv, OwedInv, NEW c \in Restarters, HotStep(c) \/ HotFail(c) \/ HotDone(c)
                 PROVE  OwedInv'
<1>1. pc[c] = "hot" /\ pc[c] \in Deciding /\ pc \in [Procs -> Steps] /\ c \in Procs
      /\ UNCHANGED <<desired, cand, manualStop, needRestart>>
  BY DEF HotStep, HotFail, HotDone, Deciding, IInv, Types, ProcType, Procs
<1>2. CASE HotStep(c)
  <2>1. pc' = [pc EXCEPT ![c] = "hot"] /\ holder' = holder /\ "hot" \in Deciding
    BY <1>1, <1>2 DEF HotStep, Deciding
  <2> QED BY <1>1, <2>1, GoesOnOwes
<1>3. CASE HotFail(c)
  <2>1. pc' = [pc EXCEPT ![c] = "stop"] /\ holder' = holder /\ "stop" \in Deciding
    BY <1>3 DEF HotFail, Goto, Deciding
  <2> QED BY <1>1, <2>1, GoesOnOwes
<1>4. CASE HotDone(c)
  <2>1. left = {} /\ core' = core /\ Leave(c, FALSE)
    BY <1>4 DEF HotDone
  <2>2. core' # Down => Agree(core', cand)
    BY <1>1, <2>1 DEF IInv, SnapInv, Agree, Up
  <2> QED BY <1>1, <2>1, <2>2, LeavesOwes
<1> QED BY <1>2, <1>3, <1>4

LEMMA FullOwes == ASSUME IInv, OwedInv, NEW c \in Restarters, StopCore(c) \/ StartCore(c) PROVE OwedInv'
<1>1. pc[c] \in {"stop", "start"} /\ pc[c] \in Deciding
      /\ UNCHANGED <<desired, cand, manualStop, needRestart>>
  BY DEF StopCore, StartCore, Deciding
<1>2. CASE StopCore(c)
  <2>1. pc' = [pc EXCEPT ![c] = "start"] /\ holder' = holder /\ "start" \in Deciding
    BY <1>2 DEF StopCore, Goto, Deciding
  <2> QED BY <1>1, <2>1, GoesOnOwes
<1>3. CASE StartCore(c)
  <2>1. core' # Down => Agree(core', cand)
    BY <1>3 DEF StartCore, IInv, SnapInv, Up, Agree
  <2>2. \E failed : Leave(c, failed)
    BY <1>3 DEF StartCore
  <2> QED BY <1>1, <2>1, <2>2, LeavesOwes
<1> QED BY <1>2, <1>3

LEMMA OwedStep == IInv /\ OwedInv /\ [Next]_vars => OwedInv'
<1> SUFFICES ASSUME IInv, OwedInv, [Next]_vars PROVE OwedInv'
  OBVIOUS
<1>1. CASE \E c \in Restarters : Restart(c)
  BY <1>1, EnterOwes, BuildOwes, DecideOwes, HotOwes, FullOwes DEF Restart
<1>2. CASE \/ \E e \in FlagEditors : FlagEdit(e)
           \/ \E e \in ApiEditors : ApiEdit(e) \/ ApiCall(e)
           \/ \E e \in DirectEditors : DirectEdit(e)
           \/ \E p \in Procs : SetToNeedRestart(p)
           \/ PendingTick
  BY <1>2, FlagOwes, ApiOwes, DirectOwes, RaiseOwes, TickOwes
<1>3. CASE WatchTick \/ UserRestart \/ StopXray \/ CoreExits \/ UNCHANGED vars
  BY <1>3, QuietOwes
<1> QED BY <1>1, <1>2, <1>3 DEF Next

(* A core that lags behind the database in anything nobody edits through   *)
(* the API has a restart coming, however edits of all kinds, ticks,        *)
(* crashes and failed restarts overlap: the flag is never taken down       *)
(* without somebody left to serve the change.  Only the change of a direct *)
(* editor whose restart failed may wait for the next one.                  *)
THEOREM ChangesAreOwed == Spec => []StaleIsOwed
<1>1. Init => IInv /\ OwedInv
  BY Initially, OwedInit
<1>2. IInv /\ OwedInv /\ [Next]_vars => (IInv /\ OwedInv)'
  BY StepKeepsIInv, OwedStep
<1>3. IInv /\ OwedInv => StaleIsOwed
  BY DEF OwedInv, Free, StaleIsOwed, Owed, Flagged, Waits, Agree
<1> QED BY <1>1, <1>2, <1>3, PTL DEF Spec
=============================================================================
