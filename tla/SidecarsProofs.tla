--------------------------- MODULE SidecarsProofs ---------------------------
(***************************************************************************)
(* For any inbounds, clients, requests, processes and bounds: no process   *)
(* escapes the manager, its fingerprints are true, no traffic is claimed   *)
(* twice, and who was served throughout keeps the connection.              *)
(***************************************************************************)
EXTENDS Sidecars, TLAPS

(* TypeOK, by the groups of variables that steps leave alone together.     *)
RowOr == Content \union {Absent}
InstanceOr == Instance \union {Absent}
Table == [Inbounds -> RowOr]
Procs == [Inbounds -> Managed \union {Absent}]
Sidecars_ == [Pids -> Sidecar \union {Absent}]
JobRecord ==
  [pc : {"idle", "off", "lock", "ensure", "scrape"}, rows : Table,
   want : [Inbounds -> InstanceOr], todo : SUBSET Inbounds, snap : [Inbounds -> Snap \union {Absent}]]
AtRecord ==
  [pc : {"idle", "commit", "remove", "count", "reread", "build", "push"}, kind : Kinds \union {"none"},
   i : Inbounds \union {Absent}, row : RowOr, inst : InstanceOr]

TableType ==
  /\ rows \in Table /\ off \subseteq Inbounds \X Clients /\ touched \subseteq Inbounds \X Clients
  /\ taken \subseteq Inbounds
WorldType ==
  /\ procs \in Procs /\ swept \in BOOLEAN /\ mtg \in Sidecars_ /\ claimed \in [Pids -> Counters]
CountType == edits \in Nat /\ faults \in Nat

(* A request at work knows its inbound, and the row it saw if it uses it.  *)
AtWork(o) ==
  /\ o.pc # "idle" => o.i \in Inbounds /\ o.kind \in Kinds
  /\ o.pc = "commit" /\ o.kind # "add" => o.row \in Content
  /\ o.pc \in {"remove", "build"} => o.row \in Content
AtInv == at \in [Requests -> AtRecord] /\ \A r \in Requests : AtWork(at[r])

(* What is left to ensure is wanted.                                       *)
JobInv == job \in JobRecord /\ \A i \in job.todo : job.want[i] # Absent

Types == TableType /\ WorldType /\ CountType /\ AtInv /\ JobInv

(* Before the sweep the manager holds nothing, and no process is held for  *)
(* two inbounds.                                                           *)
Fresh == ~swept => \A i \in Inbounds : procs[i] = Absent
Apart == \A i, j \in Inbounds :
  i # j /\ procs[i] # Absent /\ procs[j] # Absent => procs[i].proc # procs[j].proc
ManagerInv == Fresh /\ Apart /\ NoOrphans /\ FingerprintIsTrue

MInv == Types /\ ManagerInv

-----------------------------------------------------------------------------
(* Operators on rows and processes.                                        *)
LEMMA NotAbsent == ASSUME NEW x, x \in Content \union Instance \union Managed \union Sidecar \union Snap
                   PROVE  x # Absent
  BY AbsentAssumption

LEMMA MakeType == ASSUME NEW i, NEW row \in RowOr, NEW os PROVE Make(i, row, os) \in InstanceOr
<1>1. CASE row = Absent
  BY <1>1 DEF Make, InstanceOr
<1>2. CASE row \in Content
  BY <1>2 DEF Make, InstanceOr, Instance, Content
<1> QED BY <1>1, <1>2 DEF RowOr

LEMMA MakeIs == ASSUME NEW i \in Inbounds, NEW row \in RowOr, NEW os, NEW c \in Clients
  PROVE /\ Make(i, row, os) # Absent /\ c \in Make(i, row, os).secrets =>
             /\ row \in Content /\ row.on /\ c \in row.secrets /\ <<i, c>> \notin os
        /\ row \in Content /\ row.on /\ c \in row.secrets /\ <<i, c>> \notin os =>
             /\ Make(i, row, os) # Absent /\ c \in Make(i, row, os).secrets
             /\ Make(i, row, os).struct = row.struct
        /\ Make(i, row, os) # Absent => row \in Content /\ Make(i, row, os).struct = row.struct
<1> DEFINE left == {d \in row.secrets : <<i, d>> \notin os}
<1>1. CASE row = Absent
  BY <1>1, AbsentAssumption DEF Make
<1>2. CASE row \in Content
  <2>1. row # Absent
    BY <1>2, NotAbsent
  <2>2. Make(i, row, os) = IF row.on /\ left # {} THEN [struct |-> row.struct, secrets |-> left]
                           ELSE Absent
    BY <2>1 DEF Make
  <2>3. [struct |-> row.struct, secrets |-> left] \in Instance
    BY <1>2 DEF Instance, Content
  <2>4. [struct |-> row.struct, secrets |-> left] # Absent
    BY <2>3, NotAbsent
  <2> QED BY <1>2, <2>2, <2>4
<1> QED BY <1>1, <1>2 DEF RowOr

LEMMA ZeroType == Zero \in Counters
  BY DEF Zero, Counters

LEMMA WithoutType == ASSUME NEW ps \in Sidecars_, NEW S
                     PROVE  /\ Without(ps, S) \in Sidecars_
                            /\ \A p \in Pids : Without(ps, S)[p] = IF p \in S THEN Absent ELSE ps[p]
  BY DEF Without, Sidecars_

LEMMA AliveType == ASSUME WorldType
                   PROVE  /\ Alive \in Sidecars_
                          /\ \A p \in Pids : Alive[p] \in {mtg[p], Absent}
                          /\ swept => Alive = mtg
                          /\ ~swept => \A p \in Pids : Alive[p] = Absent
  BY WithoutType DEF WorldType, Alive

LEMMA HeldIs == ASSUME WorldType, NEW i \in Inbounds
                PROVE  /\ Held(i) \subseteq Pids
                       /\ procs[i] # Absent =>
                            /\ procs[i] \in Managed /\ procs[i].proc \in Pids
                            /\ Held(i) = {procs[i].proc}
                       /\ procs[i] = Absent => Held(i) = {}
  BY DEF WorldType, Procs, Managed, Held

-----------------------------------------------------------------------------
(* Steps of the manager.  Where processes only end and entries only go,    *)
(* what holds of entries holds on; orphans are the rest to be seen to.     *)
LEMMA Shrink ==
  ASSUME WorldType, ManagerInv,
         procs' \in Procs, mtg' \in Sidecars_,
         \A p \in Pids : mtg'[p] \in {mtg[p], Absent},
         \A i \in Inbounds : procs'[i] \in {procs[i], Absent},
         swept' => \A p \in Pids : mtg'[p] # Absent =>
                     swept /\ procs'[mtg[p].at] = procs[mtg[p].at],
         swept' \/ \A i \in Inbounds : procs'[i] = Absent
  PROVE  ManagerInv'
<1>1. Fresh'
  BY DEF Fresh
<1>2. Apart'
  BY DEF ManagerInv, Apart
<1>3. NoOrphans'
  <2> SUFFICES ASSUME swept', NEW p \in Pids, mtg'[p] # Absent
               PROVE  p \in (IF procs'[mtg'[p].at] = Absent THEN {} ELSE {procs'[mtg'[p].at].proc})
    BY DEF NoOrphans, Held
  <2>1. mtg'[p] = mtg[p] /\ mtg[p] # Absent /\ swept /\ procs'[mtg[p].at] = procs[mtg[p].at]
    OBVIOUS
  <2>2. p \in Held(mtg[p].at)
    BY <2>1 DEF ManagerInv, NoOrphans
  <2> QED BY <2>1, <2>2 DEF Held
<1>4. FingerprintIsTrue'
  <2> SUFFICES ASSUME NEW i \in Inbounds, procs'[i] # Absent, mtg'[procs'[i].proc] # Absent
               PROVE  /\ mtg'[procs'[i].proc].at = i
                      /\ mtg'[procs'[i].proc].struct = procs'[i].struct
                      /\ mtg'[procs'[i].proc].secrets = procs'[i].secrets
    BY DEF FingerprintIsTrue
  <2>1. procs'[i] = procs[i] /\ procs[i] # Absent
    OBVIOUS
  <2>2. procs[i].proc \in Pids
    BY <2>1, HeldIs
  <2>3. mtg'[procs[i].proc] = mtg[procs[i].proc] /\ mtg[procs[i].proc] # Absent
    BY <2>1, <2>2
  <2> QED BY <2>1, <2>3 DEF ManagerInv, FingerprintIsTrue
<1> QED BY <1>1, <1>2, <1>3, <1>4 DEF ManagerInv

LEMMA KeptStep == ASSUME WorldType, ManagerInv, swept' = TRUE, mtg' = Alive, UNCHANGED <<procs, claimed>>
                  PROVE  WorldType' /\ ManagerInv'
<1>1. WorldType'
  BY AliveType DEF WorldType
<1>2. \A p \in Pids : mtg'[p] \in {mtg[p], Absent} /\ (mtg'[p] # Absent => swept)
  BY AliveType
<1> QED BY <1>1, <1>2, Shrink DEF WorldType

LEMMA NotStartedStep == ASSUME WorldType, ManagerInv, NEW i \in Inbounds, swept' = TRUE, NotStarted(i)
                        PROVE  WorldType' /\ ManagerInv'
<1>1. procs' = [procs EXCEPT ![i] = Absent] /\ mtg' = Without(Alive, Held(i)) /\ claimed' = claimed
  BY DEF NotStarted
<1>2. procs' \in Procs /\ mtg' \in Sidecars_
  BY <1>1, AliveType, WithoutType DEF WorldType, Procs
<1>3. \A p \in Pids : mtg'[p] \in {mtg[p], Absent} /\ (mtg'[p] # Absent => swept /\ p \notin Held(i))
  BY <1>1, AliveType, WithoutType
<1>4. ASSUME NEW p \in Pids, mtg'[p] # Absent PROVE procs'[mtg[p].at] = procs[mtg[p].at]
  <2>1. mtg[p] # Absent /\ swept /\ p \notin Held(i)
    BY <1>3, <1>4
  <2>2. p \in Held(mtg[p].at)
    BY <2>1 DEF ManagerInv, NoOrphans
  <2>3. mtg[p].at # i
    BY <2>1, <2>2
  <2>4. mtg[p].at \in Inbounds
    BY <2>1 DEF WorldType, Sidecars_, Sidecar
  <2> QED BY <1>1, <2>3, <2>4 DEF WorldType, Procs
<1>5. \A j \in Inbounds : procs'[j] \in {procs[j], Absent}
  BY <1>1 DEF WorldType, Procs
<1>6. ManagerInv'
  BY <1>2, <1>3, <1>4, <1>5, Shrink
<1> QED BY <1>1, <1>2, <1>6 DEF WorldType

LEMMA RemoveStep == ASSUME WorldType, ManagerInv, NEW i \in Inbounds, Remove(i)
                    PROVE  WorldType' /\ ManagerInv'
<1>1. /\ procs' = [procs EXCEPT ![i] = Absent] /\ mtg' = Without(mtg, Held(i))
      /\ claimed' = claimed /\ swept' = swept
  BY DEF Remove
<1>2. procs' \in Procs /\ mtg' \in Sidecars_
  BY <1>1, WithoutType DEF WorldType, Procs
<1>3. \A p \in Pids : mtg'[p] \in {mtg[p], Absent} /\ (mtg'[p] # Absent => p \notin Held(i))
  BY <1>1, WithoutType DEF WorldType
<1>4. ASSUME swept, NEW p \in Pids, mtg'[p] # Absent PROVE procs'[mtg[p].at] = procs[mtg[p].at]
  <2>1. mtg[p] # Absent /\ p \notin Held(i)
    BY <1>3, <1>4
  <2>2. p \in Held(mtg[p].at)
    BY <1>4, <2>1 DEF ManagerInv, NoOrphans
  <2>3. mtg[p].at # i
    BY <2>1, <2>2
  <2>4. mtg[p].at \in Inbounds
    BY <2>1 DEF WorldType, Sidecars_, Sidecar
  <2> QED BY <1>1, <2>3, <2>4 DEF WorldType, Procs
<1>5. \A j \in Inbounds : procs'[j] \in {procs[j], Absent}
  BY <1>1 DEF WorldType, Procs
<1>6. swept' \/ \A j \in Inbounds : procs'[j] = Absent
  BY <1>1, <1>5 DEF WorldType, ManagerInv, Fresh
<1>7. ManagerInv'
  BY <1>1, <1>2, <1>3, <1>4, <1>5, <1>6, Shrink
<1> QED BY <1>1, <1>2, <1>7 DEF WorldType

(* What Started does, with the process id picked.                          *)
StartedAs(i, inst, p) ==
  /\ p \in FreePids
  /\ procs' = [procs EXCEPT ![i] = [proc |-> p, struct |-> inst.struct,
                 secrets |-> inst.secrets, last |-> [c \in Clients |-> Absent]]]
  /\ mtg' = [Without(Alive, Held(i)) EXCEPT
               ![p] = [at |-> i, struct |-> inst.struct, secrets |-> inst.secrets, count |-> Zero]]
  /\ claimed' = [claimed EXCEPT ![p] = Zero]

LEMMA StartedPid == ASSUME NEW i, NEW inst, Started(i, inst)
                    PROVE  \E p \in Pids : StartedAs(i, inst, p)
<1> DEFINE p == CHOOSE q \in FreePids : TRUE
<1>1. FreePids # {}
  BY DEF Started
<1>2. p \in FreePids
  BY <1>1
<1>3. FreePids \subseteq Pids
  BY DEF FreePids
<1>4. StartedAs(i, inst, p)
  BY <1>2 DEF Started, StartedAs
<1> QED BY <1>2, <1>3, <1>4

LEMMA StartedStep ==
  ASSUME WorldType, ManagerInv, NEW i \in Inbounds, NEW inst \in Instance, NEW p \in Pids,
         swept' = TRUE, StartedAs(i, inst, p)
  PROVE  WorldType' /\ ManagerInv'
<1> DEFINE entry == [proc |-> p, struct |-> inst.struct, secrets |-> inst.secrets,
                     last |-> [c \in Clients |-> Absent]]
           side == [at |-> i, struct |-> inst.struct, secrets |-> inst.secrets, count |-> Zero]
<1>1. entry \in Managed /\ side \in Sidecar /\ entry # Absent /\ side # Absent
  BY ZeroType, NotAbsent DEF Managed, Sidecar, Instance, Last
<1>2. procs' \in Procs /\ \A j \in Inbounds : procs'[j] = IF j = i THEN entry ELSE procs[j]
  BY <1>1 DEF StartedAs, WorldType, Procs
<1>3. /\ mtg' \in Sidecars_
      /\ \A q \in Pids : mtg'[q] = IF q = p THEN side ELSE IF q \in Held(i) THEN Absent ELSE Alive[q]
  <2>1. Without(Alive, Held(i)) \in Sidecars_
    BY AliveType, WithoutType
  <2>2. mtg' = [Without(Alive, Held(i)) EXCEPT ![p] = side]
    BY DEF StartedAs
  <2>3. mtg' \in Sidecars_
    BY <1>1, <2>1, <2>2 DEF Sidecars_
  <2>4. \A q \in Pids : mtg'[q] = IF q = p THEN side ELSE Without(Alive, Held(i))[q]
    BY <2>1, <2>2 DEF Sidecars_
  <2> QED BY <2>3, <2>4, AliveType, WithoutType
<1>4. claimed' \in [Pids -> Counters]
  BY ZeroType DEF StartedAs, WorldType
<1>5. \A j \in Inbounds : procs[j] # Absent => procs[j].proc # p
  BY HeldIs DEF StartedAs, FreePids
<1>6. Fresh'
  BY DEF Fresh
<1>7. Apart'
  BY <1>2, <1>5 DEF ManagerInv, Apart
<1>8. NoOrphans'
  <2> SUFFICES ASSUME NEW q \in Pids, mtg'[q] # Absent
               PROVE  procs'[mtg'[q].at] # Absent /\ procs'[mtg'[q].at].proc = q
    BY DEF NoOrphans, Held
  <2>1. CASE q = p
    BY <1>1, <1>2, <1>3, <2>1
  <2>2. CASE q # p
    <3>1. mtg'[q] = mtg[q] /\ mtg[q] # Absent /\ swept /\ q \notin Held(i)
      BY <1>3, <2>2, AliveType
    <3>2. q \in Held(mtg[q].at) /\ mtg[q].at \in Inbounds
      BY <3>1 DEF ManagerInv, NoOrphans, WorldType, Sidecars_, Sidecar
    <3>3. mtg[q].at # i
      BY <3>1, <3>2
    <3> QED BY <1>2, <3>1, <3>2, <3>3 DEF Held
  <2> QED BY <2>1, <2>2
<1>9. FingerprintIsTrue'
  <2> SUFFICES ASSUME NEW j \in Inbounds, procs'[j] # Absent, mtg'[procs'[j].proc] # Absent
               PROVE  /\ mtg'[procs'[j].proc].at = j
                      /\ mtg'[procs'[j].proc].struct = procs'[j].struct
                      /\ mtg'[procs'[j].proc].secrets = procs'[j].secrets
    BY DEF FingerprintIsTrue
  <2>1. CASE j = i
    BY <1>1, <1>2, <1>3, <2>1
  <2>2. CASE j # i
    <3>1. procs'[j] = procs[j] /\ procs[j].proc \in Pids /\ procs[j].proc # p
      BY <1>2, <1>5, <2>2, HeldIs
    <3>2. mtg'[procs[j].proc] = mtg[procs[j].proc]
      BY <1>3, <3>1, AliveType
    <3> QED BY <3>1, <3>2 DEF ManagerInv, FingerprintIsTrue
  <2> QED BY <2>1, <2>2
<1> QED BY <1>2, <1>3, <1>4, <1>6, <1>7, <1>8, <1>9 DEF WorldType, ManagerInv

(* A reload that succeeds.                                                 *)
ReloadedAs(i, inst) ==
  /\ procs' = [procs EXCEPT ![i].secrets = inst.secrets]
  /\ mtg' = [mtg EXCEPT ![procs[i].proc].secrets = inst.secrets]
  /\ claimed' = claimed

LEMMA ReloadedStep ==
  ASSUME WorldType, ManagerInv, NEW i \in Inbounds, NEW inst \in Instance,
         swept' = TRUE, swept, procs[i] # Absent, mtg[procs[i].proc] # Absent, ReloadedAs(i, inst)
  PROVE  WorldType' /\ ManagerInv'
<1> DEFINE p == procs[i].proc
           entry == [procs[i] EXCEPT !.secrets = inst.secrets]
           side == [mtg[p] EXCEPT !.secrets = inst.secrets]
<1>1. procs[i] \in Managed /\ p \in Pids /\ mtg[p] \in Sidecar
  BY HeldIs DEF WorldType, Sidecars_
<1>2. entry \in Managed /\ side \in Sidecar
  BY <1>1 DEF Managed, Sidecar, Instance
<1>3. /\ entry # Absent /\ entry.proc = p /\ entry.struct = procs[i].struct /\ entry.secrets = inst.secrets
      /\ side # Absent /\ side.at = mtg[p].at /\ side.struct = mtg[p].struct
      /\ side.secrets = inst.secrets
  BY <1>1, <1>2, NotAbsent DEF Managed, Sidecar
<1>4. procs' \in Procs /\ \A j \in Inbounds : procs'[j] = IF j = i THEN entry ELSE procs[j]
  BY <1>2 DEF ReloadedAs, WorldType, Procs
<1>5. mtg' \in Sidecars_ /\ \A q \in Pids : mtg'[q] = IF q = p THEN side ELSE mtg[q]
  BY <1>1, <1>2 DEF ReloadedAs, WorldType, Sidecars_
<1>6. mtg[p].at = i /\ mtg[p].struct = procs[i].struct
  BY DEF ManagerInv, FingerprintIsTrue
<1>7. Fresh'
  BY DEF Fresh
<1>8. Apart'
  <2>1. \A j \in Inbounds : procs'[j] # Absent =>
          procs[j] # Absent /\ procs'[j].proc = procs[j].proc
    BY <1>3, <1>4
  <2> HIDE DEF entry, side, p
  <2> QED BY <2>1 DEF ManagerInv, Apart
<1>9. NoOrphans'
  <2> SUFFICES ASSUME NEW q \in Pids, mtg'[q] # Absent
               PROVE  procs'[mtg'[q].at] # Absent /\ procs'[mtg'[q].at].proc = q
    BY DEF NoOrphans, Held
  <2>1. mtg[q] # Absent /\ mtg'[q].at = mtg[q].at
    BY <1>3, <1>5
  <2>2. q \in Held(mtg[q].at) /\ mtg[q].at \in Inbounds
    BY <2>1 DEF ManagerInv, NoOrphans, WorldType, Sidecars_, Sidecar
  <2> QED BY <1>3, <1>4, <2>1, <2>2 DEF Held
<1>10. FingerprintIsTrue'
  <2> SUFFICES ASSUME NEW j \in Inbounds, procs'[j] # Absent, mtg'[procs'[j].proc] # Absent
               PROVE  /\ mtg'[procs'[j].proc].at = j
                      /\ mtg'[procs'[j].proc].struct = procs'[j].struct
                      /\ mtg'[procs'[j].proc].secrets = procs'[j].secrets
    BY DEF FingerprintIsTrue
  <2>1. CASE j = i
    <3>1. procs'[j] = entry /\ procs'[j].proc = p /\ mtg'[p] = side
      BY <1>1, <1>3, <1>4, <1>5, <2>1
    <3> HIDE DEF entry, side, p
    <3> QED BY <1>3, <1>6, <2>1, <3>1
  <2>2. CASE j # i
    <3>1. procs'[j] = procs[j] /\ procs[j] # Absent
      BY <1>4, <2>2
    <3>2. procs[j].proc \in Pids /\ procs[j].proc # p
      BY <2>2, <3>1, HeldIs DEF ManagerInv, Apart
    <3>3. mtg'[procs[j].proc] = mtg[procs[j].proc]
      BY <1>5, <3>2
    <3> QED BY <3>1, <3>3 DEF ManagerInv, FingerprintIsTrue
  <2> QED BY <2>1, <2>2
<1> QED BY <1>4, <1>5, <1>7, <1>8, <1>9, <1>10 DEF WorldType, ManagerInv, ReloadedAs

(* What an Ensure can come to.                                             *)
LEMMA EnsureCases ==
  ASSUME WorldType, ManagerInv, CountType, NEW i \in Inbounds, NEW inst \in Instance, Ensure(i, inst)
  PROVE  /\ swept' = TRUE
         /\ \/ mtg' = Alive /\ UNCHANGED <<procs, claimed>>
            \/ /\ swept /\ procs[i] # Absent /\ mtg[procs[i].proc] # Absent
               /\ ReloadedAs(i, inst)
            \/ NotStarted(i) /\ faults' # faults
            \/ /\ \E p \in Pids : StartedAs(i, inst, p)
               /\ faults' # faults \/ (~IsNoop(i, inst) /\ ~IsReload(i, inst))
<1>1. swept' = TRUE
  BY DEF Ensure
<1>2. CASE IsNoop(i, inst) /\ mtg' = Alive /\ UNCHANGED <<procs, claimed, faults>>
  BY <1>1, <1>2
<1>3. CASE IsReload(i, inst) /\ Reload(i, inst)
  <2>1. procs[i] # Absent /\ Alive[procs[i].proc] # Absent
    BY <1>3 DEF IsReload
  <2>2. swept /\ Alive = mtg
    BY <2>1, HeldIs, AliveType
  <2>3. CASE /\ procs' = [procs EXCEPT ![i].secrets = inst.secrets]
             /\ mtg' = [Alive EXCEPT ![procs[i].proc].secrets = inst.secrets]
             /\ UNCHANGED <<claimed, faults>>
    BY <1>1, <2>1, <2>2, <2>3 DEF ReloadedAs
  <2>4. CASE Fault /\ mtg' = Alive /\ UNCHANGED <<procs, claimed>>
    BY <1>1, <2>4
  <2>5. CASE Fault /\ (Started(i, inst) \/ NotStarted(i))
    <3>1. faults' # faults
      BY <2>5 DEF Fault, CountType
    <3> QED BY <1>1, <2>5, <3>1, StartedPid
  <2> QED BY <1>3, <2>3, <2>4, <2>5 DEF Reload
<1>4. CASE /\ ~IsNoop(i, inst) /\ ~IsReload(i, inst)
           /\ \/ Started(i, inst) /\ UNCHANGED faults
              \/ Fault /\ NotStarted(i)
  <2>1. Fault => faults' # faults
    BY DEF Fault, CountType
  <2> QED BY <1>1, <1>4, <2>1, StartedPid
<1> QED BY <1>2, <1>3, <1>4 DEF Ensure

LEMMA EnsureStep ==
  ASSUME WorldType, ManagerInv, CountType, NEW i \in Inbounds, NEW inst \in Instance, Ensure(i, inst)
  PROVE  WorldType' /\ ManagerInv'
<1>1. swept' = TRUE
  BY DEF Ensure
<1>2. CASE mtg' = Alive /\ UNCHANGED <<procs, claimed>>
  BY <1>1, <1>2, KeptStep
<1>3. CASE /\ swept /\ procs[i] # Absent /\ mtg[procs[i].proc] # Absent
           /\ ReloadedAs(i, inst)
  BY <1>1, <1>3, ReloadedStep
<1>4. CASE NotStarted(i)
  BY <1>1, <1>4, NotStartedStep
<1>5. CASE \E p \in Pids : StartedAs(i, inst, p)
  BY <1>1, <1>5, StartedStep
<1> QED BY <1>2, <1>3, <1>4, <1>5, EnsureCases

LEMMA SameWorld == ASSUME WorldType, ManagerInv, UNCHANGED <<procs, swept, mtg>>,
                          claimed' \in [Pids -> Counters]
                   PROVE  WorldType' /\ ManagerInv'
  BY DEF WorldType, ManagerInv, Fresh, Apart, NoOrphans, FingerprintIsTrue, Held

LEMMA FaultType == ASSUME CountType, Fault \/ UNCHANGED faults, UNCHANGED edits PROVE CountType'
  BY DEF CountType, Fault

LEMMA EnsureFaults == ASSUME CountType, NEW i, NEW inst, Ensure(i, inst), UNCHANGED edits
                      PROVE  CountType'
  BY FaultType DEF Ensure, Reload

-----------------------------------------------------------------------------
(* The job.                                                                *)
LEMMA JobIdleType == JobIdle \in JobRecord /\ JobIdle.todo = {} /\ None \in Table
  BY DEF JobIdle, JobRecord, None, Table, RowOr, InstanceOr

LEMMA DeltaType ==
  ASSUME WorldType, NEW last \in Last, NEW p \in Pids, NEW c \in Clients, mtg[p] # Absent
  PROVE  Delta(last, p, c) \in Nat
<1>1. mtg[p].count[c] \in Nat
  BY DEF WorldType, Sidecars_, Sidecar, Counters
<1>2. last[c] \in Nat \/ last[c] = Absent
  BY DEF Last
<1> QED BY <1>1, <1>2 DEF Delta

LEMMA ReadStep == ASSUME Types, ReadRows \/ ReadOff PROVE JobInv'
<1>1. CASE ReadRows
  <2>1. job' = [JobIdle EXCEPT !.pc = "off", !.rows = rows]
    BY <1>1 DEF ReadRows
  <2> QED BY <2>1, JobIdleType DEF Types, TableType, JobInv, JobRecord
<1>2. CASE ReadOff
  <2> DEFINE w == [i \in Inbounds |-> Make(i, job.rows[i], off)]
  <2>1. \A i \in Inbounds : job.rows[i] \in RowOr
    BY DEF Types, JobInv, JobRecord, Table
  <2>2. w \in [Inbounds -> InstanceOr]
    BY <2>1, MakeType
  <2>3. job' = [JobIdle EXCEPT !.pc = "lock", !.want = w]
    BY <1>2 DEF ReadOff
  <2> HIDE DEF w
  <2> QED BY <2>2, <2>3, JobIdleType DEF JobInv, JobRecord
<1> QED BY <1>1, <1>2

LEMMA ReconcileStep == ASSUME MInv, Reconcile PROVE WorldType' /\ ManagerInv' /\ JobInv'
<1> USE DEF MInv, Types
<1> DEFINE S == UNION {Held(i) : i \in Unwanted}
<1>1. /\ swept' = TRUE /\ claimed' = claimed /\ mtg' = Without(Alive, S)
      /\ procs' = [i \in Inbounds |-> IF i \in Unwanted THEN Absent ELSE procs[i]]
      /\ job' = [job EXCEPT !.pc = "ensure", !.todo = Inbounds \ Unwanted]
  BY DEF Reconcile
<1>2. JobInv'
  BY <1>1 DEF JobInv, JobRecord, Unwanted
<1>3. procs' \in Procs /\ \A j \in Inbounds : procs'[j] \in {procs[j], Absent}
  BY <1>1 DEF WorldType, Procs
<1>4. /\ mtg' \in Sidecars_
      /\ \A p \in Pids : mtg'[p] \in {mtg[p], Absent} /\ (mtg'[p] # Absent => swept /\ p \notin S)
  BY <1>1, AliveType, WithoutType
<1>5. ASSUME NEW p \in Pids, mtg'[p] # Absent PROVE procs'[mtg[p].at] = procs[mtg[p].at]
  <2>1. mtg[p] # Absent /\ swept /\ p \notin S
    BY <1>4, <1>5
  <2>2. p \in Held(mtg[p].at) /\ mtg[p].at \in Inbounds
    BY <2>1 DEF ManagerInv, NoOrphans, WorldType, Sidecars_, Sidecar
  <2>3. mtg[p].at \notin Unwanted
    BY <2>1, <2>2
  <2> QED BY <1>1, <2>2, <2>3
<1>6. ManagerInv'
  BY <1>1, <1>3, <1>4, <1>5, Shrink
<1> QED BY <1>1, <1>2, <1>3, <1>4, <1>6 DEF WorldType

LEMMA EnsureNextStep ==
  ASSUME MInv, NEW i \in Inbounds, EnsureNext(i) PROVE WorldType' /\ ManagerInv' /\ JobInv' /\ CountType'
<1> USE DEF MInv, Types
<1>1. job' = [job EXCEPT !.todo = @ \ {i}] /\ Ensure(i, job.want[i]) /\ i \in job.todo /\ edits' = edits
  BY DEF EnsureNext, JobOnly
<1>2. job.want[i] \in Instance
  BY <1>1 DEF JobInv, JobRecord, InstanceOr
<1>3. JobInv'
  BY <1>1 DEF JobInv, JobRecord
<1> QED BY <1>1, <1>2, <1>3, EnsureStep, EnsureFaults

LEMMA CollectStep == ASSUME Types, Collect PROVE JobInv'
<1> USE DEF Types
<1> DEFINE s == [i \in Inbounds |->
       IF procs[i] # Absent /\ mtg[procs[i].proc] # Absent
       THEN [proc |-> procs[i].proc, last |-> procs[i].last, got |-> FALSE] ELSE Absent]
<1>1. s \in [Inbounds -> Snap \union {Absent}]
  BY DEF Snap, WorldType, Procs, Managed
<1>2. job' = [JobIdle EXCEPT !.pc = "scrape", !.snap = s]
  BY DEF Collect
<1> HIDE DEF s
<1> QED BY <1>1, <1>2, JobIdleType DEF JobInv, JobRecord

LEMMA ScrapeStep ==
  ASSUME MInv, NEW i \in Inbounds, Scrape(i) PROVE WorldType' /\ ManagerInv' /\ JobInv' /\ CountType'
<1> USE DEF MInv, Types
<1> DEFINE s == job.snap[i]
<1>1. s \in Snap /\ s.proc \in Pids /\ s.last \in Last
  BY DEF Scrape, JobInv, JobRecord, Snap
<1>2. UNCHANGED <<procs, swept, mtg, edits>> /\ (Fault \/ UNCHANGED faults)
  BY DEF Scrape, JobOnly
<1>3. CASE claimed' = claimed /\ job' = [job EXCEPT !.snap[i] = Absent]
  <2>1. JobInv'
    BY <1>3 DEF JobInv, JobRecord
  <2> QED BY <1>2, <1>3, <2>1, SameWorld, FaultType DEF WorldType
<1>4. CASE /\ mtg[s.proc] # Absent
           /\ claimed' = [claimed EXCEPT ![s.proc] = [c \in Clients |-> @[c] + Delta(s.last, s.proc, c)]]
           /\ job' = [job EXCEPT !.snap[i] = [proc |-> s.proc, got |-> TRUE,
                last |-> [c \in Clients |-> IF c \in mtg[s.proc].secrets THEN mtg[s.proc].count[c]
                                            ELSE Absent]]]
  <2> DEFINE l == [c \in Clients |-> IF c \in mtg[s.proc].secrets THEN mtg[s.proc].count[c] ELSE Absent]
             t == [proc |-> s.proc, got |-> TRUE, last |-> l]
             k == [c \in Clients |-> claimed[s.proc][c] + Delta(s.last, s.proc, c)]
  <2>1. l \in Last
    BY <1>1, <1>4 DEF Last, WorldType, Sidecars_, Sidecar, Counters
  <2>2. t \in Snap
    BY <1>1, <2>1 DEF Snap
  <2>3. k \in Counters
    BY <1>1, <1>4, DeltaType DEF Counters, WorldType
  <2>4. job' = [job EXCEPT !.snap[i] = t] /\ claimed' = [claimed EXCEPT ![s.proc] = k]
    BY <1>4
  <2>5. claimed' \in [Pids -> Counters]
    BY <2>3, <2>4 DEF WorldType
  <2>6. JobInv'
    <3> HIDE DEF t
    <3> QED BY <2>2, <2>4 DEF JobInv, JobRecord
  <2> QED BY <1>2, <2>5, <2>6, SameWorld, FaultType
<1> QED BY <1>3, <1>4 DEF Scrape

LEMMA WriteBackStep ==
  ASSUME MInv, NEW i \in Inbounds, WriteBack(i) PROVE WorldType' /\ ManagerInv' /\ JobInv'
<1> USE DEF MInv, Types
<1>1. /\ job' = [job EXCEPT !.snap[i] = Absent] /\ UNCHANGED <<swept, mtg, claimed>>
      /\ procs' = IF procs[i] = Absent THEN procs ELSE [procs EXCEPT ![i].last = job.snap[i].last]
      /\ job.snap[i] \in Snap
  BY DEF WriteBack, JobInv, JobRecord
<1>2. JobInv'
  BY <1>1 DEF JobInv, JobRecord
<1>3. procs' \in Procs
  BY <1>1, HeldIs DEF WorldType, Procs, Managed, Snap
<1>4. \A j \in Inbounds : /\ procs'[j] = Absent <=> procs[j] = Absent
                          /\ procs[j] # Absent => /\ procs'[j].proc = procs[j].proc
                                                  /\ procs'[j].struct = procs[j].struct
                                                  /\ procs'[j].secrets = procs[j].secrets
  <2> SUFFICES ASSUME NEW j \in Inbounds
               PROVE  /\ procs'[j] = Absent <=> procs[j] = Absent
                      /\ procs[j] # Absent => /\ procs'[j].proc = procs[j].proc
                                              /\ procs'[j].struct = procs[j].struct
                                              /\ procs'[j].secrets = procs[j].secrets
    OBVIOUS
  <2>1. CASE procs[i] = Absent \/ j # i
    BY <1>1, <2>1 DEF WorldType, Procs
  <2>2. CASE procs[i] # Absent /\ j = i
    <3>1. procs[i] \in Managed /\ job.snap[i].last \in Last
      BY <1>1, <2>2, HeldIs DEF Snap
    <3>2. procs'[i] = [procs[i] EXCEPT !.last = job.snap[i].last]
      BY <1>1, <2>2 DEF WorldType, Procs
    <3>3. procs'[i] \in Managed
      BY <3>1, <3>2 DEF Managed
    <3> QED BY <2>2, <3>1, <3>2, <3>3, NotAbsent DEF Managed
  <2> QED BY <2>1, <2>2
<1>5. \A p \in Pids : mtg[p] # Absent => mtg[p].at \in Inbounds
  BY DEF WorldType, Sidecars_, Sidecar
<1>6. ManagerInv'
  BY <1>1, <1>4, <1>5 DEF ManagerInv, Fresh, Apart, NoOrphans, FingerprintIsTrue, Held
<1> QED BY <1>1, <1>2, <1>3, <1>6 DEF WorldType

-----------------------------------------------------------------------------
(* The requests.                                                           *)
LEMMA IdleType == Idle \in AtRecord /\ AtWork(Idle) /\ Idle.pc = "idle"
  BY DEF Idle, AtRecord, AtWork, RowOr, InstanceOr

LEMMA GotoStep == ASSUME AtInv, NEW r \in Requests, NEW o \in AtRecord, AtWork(o), Goto(r, o)
                  PROVE  AtInv'
  BY DEF AtInv, Goto

LEMMA SaveStep ==
  ASSUME TableType, NEW rs \in Table, NEW os \in SUBSET (Inbounds \X Clients), Save(rs, os), UNCHANGED taken
  PROVE  TableType'
  BY DEF TableType, Save

LEMMA WorkIs == ASSUME AtInv, NEW r \in Requests
                PROVE  /\ at[r] \in AtRecord /\ AtWork(at[r])
                       /\ at[r].pc # "idle" => at[r].i \in Inbounds
  BY DEF AtInv, AtWork

LEMMA BeginStep ==
  ASSUME Types, NEW r \in Requests, NEW kind \in Kinds, NEW i \in Inbounds, Begin(r, kind, i)
  PROVE  TableType' /\ AtInv' /\ CountType'
<1> USE DEF Types
<1> DEFINE o == [pc |-> "commit", kind |-> kind, i |-> i, row |-> rows[i], inst |-> Absent]
<1>1. o \in AtRecord /\ AtWork(o)
  BY DEF Begin, AtRecord, AtWork, TableType, Table, RowOr, InstanceOr
<1>2. AtInv'
  BY <1>1 DEF AtInv, Begin
<1>3. TableType' /\ CountType'
  BY DEF Begin, TableType, CountType, Edit
<1> QED BY <1>2, <1>3

LEMMA CommitClientStep ==
  ASSUME Types, NEW r \in Requests, NEW c \in Clients, CommitClient(r, c) PROVE TableType' /\ AtInv'
<1> USE DEF Types
<1> DEFINE o == at[r]
           row == [o.row EXCEPT !.secrets = IF c \notin o.row.secrets THEN @ \union {c} ELSE @ \ {c}]
           rs == [rows EXCEPT ![o.i] = row]
<1>1. o \in AtRecord /\ AtWork(o) /\ o.pc = "commit" /\ o.kind = "client" /\ o.i \in Inbounds
  BY WorkIs DEF CommitClient
<1>2. row \in Content
  BY <1>1 DEF AtWork, Content
<1>3. rs \in Table
  BY <1>1, <1>2 DEF TableType, Table, RowOr
<1>4. PICK os : os \in {off \ {<<o.i, c>>}, off \union {<<o.i, c>>}} /\ Save(rs, os)
  BY DEF CommitClient
<1>5. os \in SUBSET (Inbounds \X Clients)
  BY <1>1, <1>4 DEF TableType
<1>6. TableType'
  <2>1. UNCHANGED taken
    BY DEF CommitClient
  <2> HIDE DEF rs
  <2> QED BY <1>3, <1>4, <1>5, <2>1, SaveStep
<1>7. [o EXCEPT !.pc = "reread"] \in AtRecord /\ AtWork([o EXCEPT !.pc = "reread"])
  BY <1>1 DEF AtRecord, AtWork
<1>8. AtInv'
  BY <1>7, GotoStep DEF CommitClient
<1> QED BY <1>6, <1>8

LEMMA CommitResetStep ==
  ASSUME Types, NEW r \in Requests, NEW c \in Clients, CommitReset(r, c) PROVE TableType' /\ AtInv'
<1> USE DEF Types
<1> DEFINE o == at[r]
<1>1. o \in AtRecord /\ AtWork(o) /\ o.pc = "commit" /\ o.kind = "reset" /\ o.i \in Inbounds
  BY WorkIs DEF CommitReset
<1>2. TableType'
  BY SaveStep DEF CommitReset, TableType
<1>3. [o EXCEPT !.pc = "reread"] \in AtRecord /\ AtWork([o EXCEPT !.pc = "reread"])
  BY <1>1 DEF AtRecord, AtWork
<1>4. AtInv'
  BY <1>3, IdleType, GotoStep DEF CommitReset
<1> QED BY <1>2, <1>4

LEMMA CommitRowStep ==
  ASSUME Types, NEW r \in Requests, NEW row \in Forms, NEW gone \in SUBSET (Clients \ row.secrets),
         CommitRow(r, row, gone)
  PROVE  TableType' /\ AtInv' /\ CountType'
<1> USE DEF Types
<1> DEFINE o == at[r]
           os == Relisted(o, row, gone)
           rs == [rows EXCEPT ![o.i] = row]
<1>1. o \in AtRecord /\ AtWork(o) /\ o.pc = "commit" /\ o.kind \in {"form", "add"} /\ o.i \in Inbounds
  BY WorkIs DEF CommitRow
<1>2. row \in Content /\ row \in RowOr
  BY FormsAssumption DEF RowOr
<1>3. rs \in Table /\ os \in SUBSET (Inbounds \X Clients)
  <2>1. rs \in Table
    BY <1>1, <1>2 DEF TableType, Table
  <2>2. os \in SUBSET (Inbounds \X Clients)
    BY <1>1 DEF TableType, Relisted
  <2> QED BY <2>1, <2>2
<1>4. Save(rs, os) /\ taken' = taken /\ edits' = edits /\ (Fault \/ UNCHANGED faults)
  BY DEF CommitRow
<1>5. TableType'
  <2> HIDE DEF rs, os
  <2> QED BY <1>3, <1>4, SaveStep
<1>6. ASSUME NEW inst \in InstanceOr
      PROVE  LET q == [o EXCEPT !.pc = "push", !.inst = inst] IN q \in AtRecord /\ AtWork(q)
  BY <1>1 DEF AtRecord, AtWork
<1>7. AtInv'
  <2>1. Make(o.i, row, os) \in InstanceOr
    BY <1>2, MakeType
  <2>2. \/ Goto(r, Idle)
        \/ Goto(r, [o EXCEPT !.pc = "push", !.inst = Make(o.i, row, os)])
    BY DEF CommitRow
  <2> HIDE DEF os
  <2> QED BY <1>6, <2>1, <2>2, IdleType, GotoStep
<1> QED BY <1>4, <1>5, <1>7, FaultType

LEMMA CommitToggleStep ==
  ASSUME Types, NEW r \in Requests, CommitToggle(r) PROVE TableType' /\ AtInv'
<1> USE DEF Types
<1> DEFINE o == at[r]
           rs == IF rows[o.i] = Absent THEN rows ELSE [rows EXCEPT ![o.i].on = ~o.row.on]
           q == [o EXCEPT !.pc = "remove", !.row.on = ~@]
<1>1. /\ o \in AtRecord /\ AtWork(o) /\ o.pc = "commit" /\ o.kind = "toggle" /\ o.i \in Inbounds
      /\ o.row \in Content
  BY WorkIs DEF CommitToggle, AtWork
<1>2. rs \in Table
  <2>1. CASE rows[o.i] = Absent
    BY <2>1 DEF TableType
  <2>2. CASE rows[o.i] # Absent
    <3>1. rows[o.i] \in Content
      BY <1>1, <2>2 DEF TableType, Table, RowOr
    <3>2. [rows[o.i] EXCEPT !.on = ~o.row.on] \in Content
      BY <1>1, <3>1 DEF Content
    <3> QED BY <1>1, <2>2, <3>2 DEF TableType, Table, RowOr
  <2> QED BY <2>1, <2>2
<1>3. TableType'
  <2>1. Save(rs, off) /\ UNCHANGED taken
    BY DEF CommitToggle
  <2> HIDE DEF rs
  <2> QED BY <1>2, <2>1, SaveStep DEF TableType
<1>4. q \in AtRecord /\ AtWork(q)
  <2>1. [o.row EXCEPT !.on = ~@] \in Content
    BY <1>1 DEF Content
  <2> QED BY <1>1, <2>1 DEF AtRecord, AtWork, RowOr
<1>5. AtInv'
  <2>1. Goto(r, q)
    BY DEF CommitToggle
  <2> HIDE DEF q
  <2> QED BY <1>4, <2>1, GotoStep
<1> QED BY <1>3, <1>5

LEMMA CommitDropStep ==
  ASSUME Types, NEW r \in Requests, CommitDrop(r) PROVE TableType' /\ AtInv'
<1> USE DEF Types
<1> DEFINE o == at[r]
           rs == [rows EXCEPT ![o.i] = Absent]
<1>1. /\ o \in AtRecord /\ AtWork(o) /\ o.pc = "commit" /\ o.kind = "drop" /\ o.i \in Inbounds
      /\ o.row \in Content
  BY WorkIs DEF CommitDrop, AtWork
<1>2. rs \in Table
  BY DEF TableType, Table, RowOr
<1>3. TableType'
  <2>1. Save(rs, off) /\ UNCHANGED taken
    BY DEF CommitDrop
  <2> HIDE DEF rs
  <2> QED BY <1>2, <2>1, SaveStep DEF TableType
<1>4. ASSUME NEW pc \in {"remove", "count"}
      PROVE  [o EXCEPT !.pc = pc] \in AtRecord /\ AtWork([o EXCEPT !.pc = pc])
  BY <1>1 DEF AtRecord, AtWork
<1>5. AtInv'
  BY <1>4, GotoStep DEF CommitDrop
<1> QED BY <1>3, <1>5

LEMMA StopStep ==
  ASSUME MInv, NEW r \in Requests, Stop(r) PROVE WorldType' /\ ManagerInv' /\ AtInv' /\ faults' = faults
<1> USE DEF MInv, Types
<1> DEFINE o == at[r]
<1>1. /\ o \in AtRecord /\ AtWork(o) /\ o.pc = "remove" /\ o.i \in Inbounds /\ o.row \in Content
      /\ Remove(o.i)
  BY WorkIs DEF Stop, AtWork
<1>2. WorldType' /\ ManagerInv' /\ faults' = faults
  <2>1. faults' = faults
    BY <1>1 DEF Remove
  <2> QED BY <1>1, <2>1, RemoveStep
<1>3. ASSUME NEW pc \in {"build", "count"}
      PROVE  [o EXCEPT !.pc = pc] \in AtRecord /\ AtWork([o EXCEPT !.pc = pc])
  BY <1>1 DEF AtRecord, AtWork
<1>4. AtInv'
  <2>1. Goto(r, [o EXCEPT !.pc = "count"]) \/ Goto(r, [o EXCEPT !.pc = "build"]) \/ Goto(r, Idle)
    BY DEF Stop
  <2> QED BY <1>3, <2>1, IdleType, GotoStep
<1> QED BY <1>2, <1>4

LEMMA RereadStep == ASSUME Types, NEW r \in Requests, Reread(r) PROVE AtInv'
<1> USE DEF Types
<1> DEFINE o == at[r]
           q == [o EXCEPT !.pc = "build", !.row = rows[o.i]]
<1>1. o \in AtRecord /\ AtWork(o) /\ o.pc = "reread" /\ o.i \in Inbounds
  BY WorkIs DEF Reread
<1>2. CASE rows[o.i] = Absent \/ Goto(r, Idle)
  BY <1>2, IdleType, GotoStep DEF Reread
<1>3. CASE rows[o.i] # Absent /\ Goto(r, q)
  <2>1. rows[o.i] \in Content
    BY <1>1, <1>3 DEF TableType, Table, RowOr
  <2>2. q \in AtRecord /\ AtWork(q)
    BY <1>1, <2>1 DEF AtRecord, AtWork, RowOr
  <2> HIDE DEF q
  <2> QED BY <1>3, <2>2, GotoStep
<1> QED BY <1>2, <1>3 DEF Reread

LEMMA BuildStep == ASSUME Types, NEW r \in Requests, Build(r) PROVE AtInv' /\ CountType'
<1> USE DEF Types
<1> DEFINE o == at[r]
<1>1. o \in AtRecord /\ AtWork(o) /\ o.pc = "build" /\ o.i \in Inbounds /\ o.row \in RowOr
  BY WorkIs DEF Build, AtRecord
<1>2. ASSUME NEW os
      PROVE  LET q == [o EXCEPT !.pc = "push", !.inst = Make(o.i, o.row, os)] IN q \in AtRecord /\ AtWork(q)
  <2>1. Make(o.i, o.row, os) \in InstanceOr
    BY <1>1, MakeType
  <2> QED BY <1>1, <2>1 DEF AtRecord, AtWork
<1>3. \/ Goto(r, [o EXCEPT !.pc = "push", !.inst = Make(o.i, o.row, off)])
      \/ Goto(r, [o EXCEPT !.pc = "push", !.inst = Make(o.i, o.row, {})])
      \/ Goto(r, Idle)
  BY DEF Build
<1>4. AtInv'
  BY <1>2, <1>3, IdleType, GotoStep
<1> QED BY <1>4, FaultType DEF Build

LEMMA PushStep ==
  ASSUME MInv, NEW r \in Requests, Push(r) PROVE WorldType' /\ ManagerInv' /\ AtInv' /\ CountType'
<1> USE DEF MInv, Types
<1> DEFINE o == at[r]
<1>1. o \in AtRecord /\ o.i \in Inbounds /\ o.inst \in InstanceOr /\ edits' = edits /\ Goto(r, Idle)
  BY WorkIs DEF Push, AtRecord
<1>2. AtInv'
  BY <1>1, IdleType, GotoStep
<1>3. CASE o.inst # Absent /\ Ensure(o.i, o.inst)
  <2>1. o.inst \in Instance
    BY <1>1, <1>3 DEF InstanceOr
  <2> QED BY <1>1, <1>2, <1>3, <2>1, EnsureStep, EnsureFaults
<1>4. CASE Remove(o.i)
  <2>1. UNCHANGED faults
    BY <1>4 DEF Remove
  <2> QED BY <1>1, <1>2, <1>4, <2>1, RemoveStep, FaultType
<1>5. CASE UNCHANGED <<world, faults>>
  BY <1>1, <1>2, <1>5, SameWorld, FaultType DEF world, WorldType
<1> QED BY <1>3, <1>4, <1>5 DEF Push

-----------------------------------------------------------------------------
(* The surroundings.                                                       *)
LEMMA PollStep == ASSUME Types, NEW i \in Inbounds, NEW c \in Clients, Poll(i, c)
                  PROVE  TableType' /\ CountType'
<1> USE DEF Types
<1>1. rows[i] \in Content
  BY DEF Poll, TableType, Table, RowOr
<1>2. ASSUME NEW row \in Content PROVE [rows EXCEPT ![i] = row] \in Table
  BY DEF TableType, Table, RowOr
<1>3. /\ [rows[i] EXCEPT !.secrets = @ \ {c}] \in Content
      /\ [rows[i] EXCEPT !.secrets = @ \union {c}] \in Content
      /\ [rows[i] EXCEPT !.on = FALSE] \in Content
  BY <1>1 DEF Content
<1>4. \A rs \in Table : \A os \in {off, off \union {<<i, c>>}, off \ {<<i, c>>}} :
        Save(rs, os) => TableType'
  BY SaveStep DEF TableType, Poll
<1>5. /\ [rows EXCEPT ![i].secrets = @ \ {c}] = [rows EXCEPT ![i] = [rows[i] EXCEPT !.secrets = @ \ {c}]]
      /\ [rows EXCEPT ![i].secrets = @ \union {c}]
           = [rows EXCEPT ![i] = [rows[i] EXCEPT !.secrets = @ \union {c}]]
      /\ [rows EXCEPT ![i].on = FALSE] = [rows EXCEPT ![i] = [rows[i] EXCEPT !.on = FALSE]]
  OBVIOUS
<1>6. /\ [rows EXCEPT ![i].secrets = @ \ {c}] \in Table
      /\ [rows EXCEPT ![i].secrets = @ \union {c}] \in Table
      /\ [rows EXCEPT ![i].on = FALSE] \in Table /\ rows \in Table
  BY <1>2, <1>3, <1>5 DEF TableType
<1>7. TableType'
  BY <1>4, <1>6 DEF Poll
<1>8. CountType'
  BY DEF Poll, CountType, Edit, Fault
<1> QED BY <1>7, <1>8

LEMMA UseStep == ASSUME MInv, NEW p \in Pids, NEW c \in Clients, Use(p, c) PROVE WorldType' /\ ManagerInv'
<1> USE DEF MInv, Types
<1> DEFINE m == [mtg[p] EXCEPT !.count[c] = @ + 1]
<1>1. UNCHANGED <<procs, swept, claimed>> /\ mtg' = [mtg EXCEPT ![p] = m] /\ mtg[p] \in Sidecar
  BY DEF Use, WorldType, Sidecars_
<1>2. m.count = [mtg[p].count EXCEPT ![c] = @ + 1] /\ m.count \in Counters
  BY <1>1 DEF Sidecar, Counters
<1>3. m \in Sidecar /\ m # Absent /\ m.at = mtg[p].at /\ m.struct = mtg[p].struct
      /\ m.secrets = mtg[p].secrets
  BY <1>1, <1>2, NotAbsent DEF Sidecar
<1>4. WorldType'
  <2> HIDE DEF m
  <2> QED BY <1>1, <1>3 DEF WorldType, Sidecars_
<1>5. \A q \in Pids : /\ mtg'[q] = Absent <=> mtg[q] = Absent
                      /\ mtg[q] # Absent => /\ mtg'[q].at = mtg[q].at /\ mtg'[q].struct = mtg[q].struct
                                            /\ mtg'[q].secrets = mtg[q].secrets
  <2> HIDE DEF m
  <2> QED BY <1>1, <1>3 DEF WorldType, Sidecars_, Use
<1>6. \A i \in Inbounds : procs[i] # Absent => procs[i].proc \in Pids
  BY HeldIs
<1>7. ManagerInv'
  BY <1>1, <1>5, <1>6 DEF ManagerInv, Fresh, Apart, NoOrphans, FingerprintIsTrue, Held
<1> QED BY <1>4, <1>7

LEMMA EndStep ==
  ASSUME MInv, (\E p \in Pids : Die(p)) \/ StopAll PROVE WorldType' /\ ManagerInv'
<1> USE DEF MInv, Types
<1>1. CASE \E p \in Pids : Die(p)
  <2>1. PICK p \in Pids : Die(p)
    BY <1>1
  <2>2. /\ mtg' = Without(mtg, {p}) /\ UNCHANGED <<procs, swept, claimed>>
    BY <2>1 DEF Die
  <2>3. mtg' \in Sidecars_ /\ \A q \in Pids : mtg'[q] \in {mtg[q], Absent}
    BY <2>2, WithoutType DEF WorldType
  <2>4. ManagerInv'
    <3>1. swept' \/ \A i \in Inbounds : procs'[i] = Absent
      BY <2>2 DEF WorldType, ManagerInv, Fresh
    <3> QED BY <2>2, <2>3, <3>1, Shrink DEF WorldType
  <2> QED BY <2>2, <2>3, <2>4 DEF WorldType
<1>2. CASE StopAll
  <2> DEFINE S == UNION {Held(i) : i \in Inbounds}
  <2>1. procs' = None /\ mtg' = Without(mtg, S) /\ UNCHANGED <<swept, claimed>>
    BY <1>2 DEF StopAll
  <2>2. mtg' \in Sidecars_ /\ \A q \in Pids : mtg'[q] \in {mtg[q], Absent} /\ (mtg'[q] # Absent => q \notin S)
    BY <2>1, WithoutType DEF WorldType
  <2>3. procs' \in Procs /\ \A i \in Inbounds : procs'[i] = Absent
    BY <2>1 DEF None, Procs
  <2>4. ASSUME swept, NEW q \in Pids, mtg'[q] # Absent PROVE FALSE
    <3>1. mtg[q] # Absent /\ q \notin S
      BY <2>2, <2>4
    <3>2. mtg[q].at \in Inbounds /\ q \in Held(mtg[q].at)
      BY <2>4, <3>1 DEF ManagerInv, NoOrphans, WorldType, Sidecars_, Sidecar
    <3> QED BY <3>1, <3>2
  <2>5. ManagerInv'
    BY <2>1, <2>2, <2>3, <2>4, Shrink
  <2> QED BY <2>1, <2>2, <2>3, <2>5 DEF WorldType
<1> QED BY <1>1, <1>2

LEMMA RestartStep == ASSUME MInv, Restart PROVE MInv'
<1> USE DEF MInv, Types
<1>1. procs' = None /\ swept' = FALSE /\ UNCHANGED <<mtg, claimed, table, edits>> /\ Fault
  BY DEF Restart
<1>2. WorldType'
  BY <1>1 DEF WorldType, None, Procs
<1>3. ManagerInv'
  BY <1>1 DEF ManagerInv, Fresh, Apart, NoOrphans, FingerprintIsTrue, None
<1>4. JobInv'
  BY JobIdleType DEF Restart, JobInv
<1>5. AtInv'
  BY IdleType DEF Restart, AtInv
<1>6. TableType' /\ CountType'
  BY <1>1, FaultType DEF TableType, table
<1> QED BY <1>2, <1>3, <1>4, <1>5, <1>6

-----------------------------------------------------------------------------
(* The invariant of the manager.                                           *)
LEMMA MInit == ASSUME Init PROVE MInv
<1>1. rows \in Table
  BY FormsAssumption DEF Init, Table, RowOr
<1>2. TableType /\ CountType
  BY <1>1 DEF Init, TableType, CountType
<1>3. WorldType
  BY ZeroType DEF Init, WorldType, None, Procs, Sidecars_
<1>4. AtInv /\ JobInv
  BY IdleType, JobIdleType DEF Init, AtInv, JobInv
<1>5. ManagerInv
  BY DEF Init, ManagerInv, Fresh, Apart, NoOrphans, FingerprintIsTrue, None
<1> QED BY <1>2, <1>3, <1>4, <1>5 DEF MInv, Types

(* What each step leaves alone keeps its part of the invariant.            *)
LEMMA Untouched ==
  ASSUME MInv
  PROVE  /\ UNCHANGED table => TableType'
         /\ UNCHANGED <<rows, off, touched>> /\ taken' \subseteq Inbounds => TableType'
         /\ UNCHANGED world => WorldType' /\ ManagerInv'
         /\ UNCHANGED job => JobInv'
         /\ UNCHANGED at => AtInv'
         /\ UNCHANGED edits /\ (Fault \/ UNCHANGED faults) => CountType'
<1> USE DEF MInv, Types
<1>1. UNCHANGED world => WorldType' /\ ManagerInv'
  BY SameWorld DEF world, WorldType
<1>2. UNCHANGED edits /\ (Fault \/ UNCHANGED faults) => CountType'
  BY FaultType
<1>3. UNCHANGED job => JobInv'
  BY DEF JobInv
<1>4. UNCHANGED at => AtInv'
  BY DEF AtInv
<1>5. /\ UNCHANGED table => TableType'
      /\ UNCHANGED <<rows, off, touched>> /\ taken' \subseteq Inbounds => TableType'
  BY DEF TableType, table
<1> QED BY <1>1, <1>2, <1>3, <1>4, <1>5

LEMMA MStep == ASSUME MInv, [Next]_vars PROVE MInv'
<1> USE DEF MInv, Types
<1>1. CASE UNCHANGED vars
  BY <1>1, Untouched DEF vars
<1>2. CASE ReadRows \/ ReadOff
  BY <1>2, ReadStep, Untouched DEF ReadRows, ReadOff, JobOnly
<1>3. CASE Reconcile
  BY <1>3, ReconcileStep, Untouched DEF Reconcile, JobOnly
<1>4. CASE Collect
  BY <1>4, CollectStep, Untouched DEF Collect, JobOnly
<1>5. CASE Finish
  <2>1. JobInv'
    BY <1>5, JobIdleType DEF Finish, JobInv
  <2> QED BY <1>5, <2>1, Untouched DEF Finish, JobOnly
<1>6. ASSUME NEW i \in Inbounds, EnsureNext(i) \/ Scrape(i) \/ WriteBack(i) PROVE MInv'
  <2>1. CASE EnsureNext(i)
    BY <2>1, EnsureNextStep, Untouched DEF EnsureNext, JobOnly
  <2>2. CASE Scrape(i)
    BY <2>2, ScrapeStep, Untouched DEF Scrape, JobOnly
  <2>3. CASE WriteBack(i)
    BY <2>3, WriteBackStep, Untouched DEF WriteBack, JobOnly
  <2> QED BY <1>6, <2>1, <2>2, <2>3
<1>7. ASSUME NEW r \in Requests, RequestStep(r) PROVE MInv'
  <2>1. ASSUME NEW c \in Clients, CommitClient(r, c) \/ CommitReset(r, c) PROVE MInv'
    BY <2>1, CommitClientStep, CommitResetStep, Untouched DEF CommitClient, CommitReset
  <2>2. ASSUME NEW row \in Forms, NEW gone \in SUBSET (Clients \ row.secrets), CommitRow(r, row, gone)
        PROVE  MInv'
    BY <2>2, CommitRowStep, Untouched DEF CommitRow
  <2>3. CASE CommitToggle(r)
    BY <2>3, CommitToggleStep, Untouched DEF CommitToggle
  <2>4. CASE CommitDrop(r)
    BY <2>4, CommitDropStep, Untouched DEF CommitDrop
  <2>5. CASE Stop(r)
    BY <2>5, StopStep, Untouched DEF Stop
  <2>6. CASE Count(r)
    <3>1. AtInv'
      BY <2>6, IdleType, GotoStep DEF Count
    <3>2. UNCHANGED <<rows, off, touched, world, job, edits, faults>> /\ taken' \subseteq Inbounds
      BY <2>6 DEF Count, TableType
    <3> QED BY <3>1, <3>2, Untouched
  <2>7. CASE Reread(r)
    BY <2>7, RereadStep, Untouched DEF Reread
  <2>8. CASE Build(r)
    BY <2>8, BuildStep, Untouched DEF Build
  <2>9. CASE Push(r)
    BY <2>9, PushStep, Untouched DEF Push
  <2> QED BY <1>7, <2>1, <2>2, <2>3, <2>4, <2>5, <2>6, <2>7, <2>8, <2>9 DEF RequestStep
<1>8. ASSUME NEW r \in Requests, NEW kind \in Kinds, NEW i \in Inbounds, Begin(r, kind, i) PROVE MInv'
  BY <1>8, BeginStep, Untouched DEF Begin
<1>9. ASSUME NEW i \in Inbounds, NEW c \in Clients, Poll(i, c) PROVE MInv'
  BY <1>9, PollStep, Untouched DEF Poll
<1>10. ASSUME NEW p \in Pids, NEW c \in Clients, Use(p, c) PROVE MInv'
  BY <1>10, UseStep, Untouched DEF Use
<1>11. CASE (\E p \in Pids : Die(p)) \/ StopAll
  BY <1>11, EndStep, Untouched DEF Die, StopAll
<1>12. CASE Restart
  BY <1>12, RestartStep
<1>13. CASE JobStep
  BY <1>2, <1>3, <1>4, <1>5, <1>6, <1>13 DEF JobStep
<1> QED BY <1>1, <1>7, <1>8, <1>9, <1>10, <1>11, <1>12, <1>13 DEF Next

(* What the manager knows of its processes is true of them: types, fresh   *)
(* and separate processes, no orphans, true fingerprints.                  *)
THEOREM MInvAlways == Spec => []MInv
  BY MInit, MStep, PTL DEF Spec

(* Every variable keeps its type.                                          *)
THEOREM TypeCorrect == Spec => []TypeOK
<1>1. MInv => TypeOK
  BY DEF MInv, Types, TypeOK, TableType, WorldType, CountType, AtInv, JobInv, AtRecord, JobRecord,
         Table, Procs, Sidecars_, RowOr, InstanceOr
<1> QED BY <1>1, MInvAlways, PTL

(* Whatever crashes, fails and interleaves, a process that runs after the  *)
(* sweep is one the manager holds.                                         *)
THEOREM NoOrphansAlways == Spec => []NoOrphans
<1>1. MInv => NoOrphans
  BY DEF MInv, ManagerInv
<1> QED BY <1>1, MInvAlways, PTL

(* The manager's fingerprints are those of the processes.                  *)
THEOREM FingerprintIsTrueAlways == Spec => []FingerprintIsTrue
<1>1. MInv => FingerprintIsTrue
  BY DEF MInv, ManagerInv
<1> QED BY <1>1, MInvAlways, PTL

-----------------------------------------------------------------------------
(* ClaimedOnce.  What the manager has claimed of a process is bounded by   *)
(* the counters it keeps for it, in its entry or, between an answer and    *)
(* its write-back, in the snapshot; a process that replaced the one of the *)
(* snapshot has nothing claimed, so foreign counters do no harm to it.     *)
SnapPc == job.pc # "scrape" => \A i \in Inbounds : job.snap[i] = Absent
SnapLast == \A i \in Inbounds, c \in Clients :
  job.snap[i] # Absent /\ job.snap[i].last[c] # Absent =>
    claimed[job.snap[i].proc][c] <= job.snap[i].last[c]
SnapApart == \A i, j \in Inbounds : i # j /\ job.snap[i] # Absent =>
  /\ job.snap[j] # Absent => job.snap[j].proc # job.snap[i].proc
  /\ procs[j] # Absent => procs[j].proc # job.snap[i].proc
EntryNew == \A i \in Inbounds, c \in Clients :
  job.snap[i] # Absent /\ procs[i] # Absent /\ procs[i].proc # job.snap[i].proc =>
    claimed[procs[i].proc][c] = 0
Answered(i) == job.snap[i] # Absent /\ job.snap[i].got /\ job.snap[i].proc = procs[i].proc
EntryLast == \A i \in Inbounds, c \in Clients :
  procs[i] # Absent /\ ~Answered(i) /\ procs[i].last[c] # Absent =>
    claimed[procs[i].proc][c] <= procs[i].last[c]
ClaimInv == ClaimedOnce /\ SnapPc /\ SnapLast /\ SnapApart /\ EntryNew /\ EntryLast

LEMMA Numbers ==
  ASSUME Types
  PROVE  /\ \A p \in Pids, c \in Clients : /\ claimed[p][c] \in Nat
                                           /\ mtg[p] # Absent => mtg[p].count[c] \in Nat
         /\ \A i \in Inbounds : procs[i] # Absent =>
              procs[i].proc \in Pids /\ \A c \in Clients : procs[i].last[c] \in Nat \union {Absent}
         /\ \A i \in Inbounds : job.snap[i] # Absent =>
              /\ job.snap[i].proc \in Pids /\ job.snap[i].got \in BOOLEAN
              /\ \A c \in Clients : job.snap[i].last[c] \in Nat \union {Absent}
<1>1. \A p \in Pids, c \in Clients : claimed[p][c] \in Nat /\ (mtg[p] # Absent => mtg[p].count[c] \in Nat)
  BY DEF Types, WorldType, Sidecars_, Sidecar, Counters
<1>2. \A i \in Inbounds : procs[i] # Absent =>
        procs[i].proc \in Pids /\ \A c \in Clients : procs[i].last[c] \in Nat \union {Absent}
  BY DEF Types, WorldType, Procs, Managed, Last
<1>3. \A i \in Inbounds : job.snap[i] # Absent =>
        /\ job.snap[i].proc \in Pids /\ job.snap[i].got \in BOOLEAN
        /\ \A c \in Clients : job.snap[i].last[c] \in Nat \union {Absent}
  BY DEF Types, JobInv, JobRecord, Snap, Last
<1> QED BY <1>1, <1>2, <1>3

(* Steps that start no process and claim nothing.                          *)
LEMMA ClaimKept ==
  ASSUME Types, Types', ClaimInv, claimed' = claimed, job'.snap = job.snap, SnapPc',
         \A i \in Inbounds : procs'[i] # Absent =>
           procs[i] # Absent /\ procs'[i].proc = procs[i].proc /\ procs'[i].last = procs[i].last,
         \A p \in Pids : mtg'[p] # Absent =>
           mtg[p] # Absent /\ \A c \in Clients : mtg'[p].count[c] >= mtg[p].count[c]
  PROVE  ClaimInv'
<1>1. ClaimedOnce'
  <2> SUFFICES ASSUME NEW p \in Pids, mtg'[p] # Absent, NEW c \in Clients
               PROVE  claimed'[p][c] <= mtg'[p].count[c]
    BY DEF ClaimedOnce
  <2>1. claimed[p][c] <= mtg[p].count[c] /\ mtg'[p].count[c] >= mtg[p].count[c]
    BY DEF ClaimInv, ClaimedOnce
  <2>2. claimed[p][c] \in Nat /\ mtg[p].count[c] \in Nat
    BY Numbers
  <2>3. mtg'[p].count[c] \in Nat
    BY DEF Types, WorldType, Sidecars_, Sidecar, Counters
  <2> QED BY <2>1, <2>2, <2>3
<1>2. SnapLast' /\ SnapApart'
  BY DEF ClaimInv, SnapLast, SnapApart
<1>3. EntryNew' /\ EntryLast'
  BY DEF ClaimInv, EntryNew, EntryLast, Answered
<1> QED BY <1>1, <1>2, <1>3 DEF ClaimInv

LEMMA ClaimStarted ==
  ASSUME Types, Types', ManagerInv, ClaimInv, NEW i \in Inbounds, NEW inst \in Instance, NEW p \in Pids,
         StartedAs(i, inst, p), job'.snap = job.snap, SnapPc'
  PROVE  ClaimInv'
<1> DEFINE entry == [proc |-> p, struct |-> inst.struct, secrets |-> inst.secrets,
                     last |-> [c \in Clients |-> Absent]]
           side == [at |-> i, struct |-> inst.struct, secrets |-> inst.secrets, count |-> Zero]
<1>1. entry.proc = p /\ (\A c \in Clients : entry.last[c] = Absent) /\ \A c \in Clients : side.count[c] = 0
  BY DEF Zero
<1>2. \A j \in Inbounds : procs'[j] = IF j = i THEN entry ELSE procs[j]
  BY DEF StartedAs, Types, WorldType, Procs
<1>3. \A q \in Pids : q # p => mtg'[q] \in {mtg[q], Absent} /\ claimed'[q] = claimed[q]
  <2>1. Without(Alive, Held(i)) \in Sidecars_
    BY AliveType, WithoutType DEF Types
  <2>2. \A q \in Pids : q # p => mtg'[q] = Without(Alive, Held(i))[q]
    BY <2>1 DEF StartedAs, Sidecars_
  <2>3. \A q \in Pids : Without(Alive, Held(i))[q] \in {mtg[q], Absent}
    BY AliveType, WithoutType DEF Types
  <2> QED BY <2>2, <2>3 DEF StartedAs, Types, WorldType
<1>4. /\ mtg'[p] = side /\ \A c \in Clients : claimed'[p][c] = 0
  <2>1. Without(Alive, Held(i)) \in Sidecars_
    BY AliveType, WithoutType DEF Types
  <2> QED BY <2>1 DEF StartedAs, Types, WorldType, Sidecars_, Zero
<1>5. \A j \in Inbounds : /\ procs[j] # Absent => procs[j].proc # p
                          /\ job.snap[j] # Absent => job.snap[j].proc # p
  BY HeldIs DEF StartedAs, FreePids, Types
<1> HIDE DEF entry, side
<1>6. ClaimedOnce'
  <2> SUFFICES ASSUME NEW q \in Pids, mtg'[q] # Absent, NEW c \in Clients
               PROVE  claimed'[q][c] <= mtg'[q].count[c]
    BY DEF ClaimedOnce
  <2>1. CASE q = p
    BY <1>1, <1>4, <2>1
  <2>2. CASE q # p
    BY <1>3, <2>2 DEF ClaimInv, ClaimedOnce
  <2> QED BY <2>1, <2>2
<1>7. SnapLast'
  BY <1>3, <1>5, Numbers DEF ClaimInv, SnapLast
<1>8. SnapApart'
  BY <1>1, <1>2, <1>5 DEF ClaimInv, SnapApart
<1>9. EntryNew'
  <2> SUFFICES ASSUME NEW j \in Inbounds, NEW c \in Clients, job.snap[j] # Absent, procs'[j] # Absent,
                      procs'[j].proc # job.snap[j].proc
               PROVE  claimed'[procs'[j].proc][c] = 0
    BY DEF EntryNew
  <2>1. CASE j = i
    BY <1>1, <1>2, <1>4, <2>1
  <2>2. CASE j # i
    <3>1. procs'[j] = procs[j] /\ procs[j].proc \in Pids /\ procs[j].proc # p
      BY <1>2, <1>5, <2>2, Numbers
    <3> QED BY <1>3, <3>1 DEF ClaimInv, EntryNew
  <2> QED BY <2>1, <2>2
<1>10. EntryLast'
  <2> SUFFICES ASSUME NEW j \in Inbounds, NEW c \in Clients, procs'[j] # Absent, ~Answered(j)',
                      procs'[j].last[c] # Absent
               PROVE  claimed'[procs'[j].proc][c] <= procs'[j].last[c]
    BY DEF EntryLast
  <2>1. j # i
    BY <1>1, <1>2
  <2>2. procs'[j] = procs[j] /\ procs[j].proc \in Pids /\ procs[j].proc # p
    BY <1>2, <1>5, <2>1, Numbers
  <2> QED BY <1>3, <2>2 DEF ClaimInv, EntryLast, Answered
<1> QED BY <1>6, <1>7, <1>8, <1>9, <1>10 DEF ClaimInv

LEMMA ClaimReloaded ==
  ASSUME Types, Types', ManagerInv, ClaimInv, NEW i \in Inbounds, NEW inst \in Instance,
         procs[i] # Absent, mtg[procs[i].proc] # Absent,
         ReloadedAs(i, inst), job'.snap = job.snap, SnapPc'
  PROVE  ClaimInv'
<1>1. procs[i] \in Managed /\ procs[i].proc \in Pids /\ mtg[procs[i].proc] \in Sidecar
  BY HeldIs DEF Types, WorldType, Sidecars_
<1>2. \A j \in Inbounds : procs'[j] # Absent =>
        procs[j] # Absent /\ procs'[j].proc = procs[j].proc /\ procs'[j].last = procs[j].last
  BY <1>1 DEF ReloadedAs, Types, WorldType, Procs, Managed
<1>3. \A p \in Pids : mtg'[p] # Absent => mtg[p] # Absent /\ mtg'[p].count = mtg[p].count
  BY <1>1 DEF ReloadedAs, Types, WorldType, Sidecars_, Sidecar
<1>4. \A p \in Pids : mtg'[p] # Absent =>
        mtg[p] # Absent /\ \A c \in Clients : mtg'[p].count[c] >= mtg[p].count[c]
  BY <1>3, Numbers
<1>5. claimed' = claimed
  BY DEF ReloadedAs
<1> QED BY <1>2, <1>4, <1>5, ClaimKept

LEMMA ClaimEnded ==
  ASSUME Types, Types', ClaimInv, claimed' = claimed, job'.snap = job.snap, SnapPc',
         \A i \in Inbounds : procs'[i] \in {procs[i], Absent},
         \A p \in Pids : mtg'[p] \in {mtg[p], Absent}
  PROVE  ClaimInv'
<1>1. \A i \in Inbounds : procs'[i] # Absent =>
        procs[i] # Absent /\ procs'[i].proc = procs[i].proc /\ procs'[i].last = procs[i].last
  OBVIOUS
<1>2. \A p \in Pids : mtg'[p] # Absent =>
        mtg[p] # Absent /\ \A c \in Clients : mtg'[p].count[c] >= mtg[p].count[c]
  BY Numbers
<1> QED BY <1>1, <1>2, ClaimKept

LEMMA ClaimEnsure ==
  ASSUME Types, Types', ManagerInv, ClaimInv, NEW i \in Inbounds, NEW inst \in Instance, Ensure(i, inst),
         job'.snap = job.snap, SnapPc'
  PROVE  ClaimInv'
<1>1. CASE mtg' = Alive /\ UNCHANGED <<procs, claimed>>
  BY <1>1, AliveType, ClaimEnded DEF Types
<1>2. CASE procs[i] # Absent /\ mtg[procs[i].proc] # Absent /\ ReloadedAs(i, inst)
  BY <1>2, ClaimReloaded
<1>3. CASE NotStarted(i)
  <2>1. \A p \in Pids : mtg'[p] \in {mtg[p], Absent}
    BY <1>3, AliveType, WithoutType DEF NotStarted, Types
  <2>2. \A j \in Inbounds : procs'[j] \in {procs[j], Absent}
    BY <1>3 DEF NotStarted, Types, WorldType, Procs
  <2> QED BY <1>3, <2>1, <2>2, ClaimEnded DEF NotStarted
<1>4. CASE \E p \in Pids : StartedAs(i, inst, p)
  BY <1>4, ClaimStarted
<1> QED BY <1>1, <1>2, <1>3, <1>4, EnsureCases DEF Types

LEMMA ClaimRemove ==
  ASSUME Types, Types', ClaimInv, NEW i \in Inbounds, Remove(i), job'.snap = job.snap, SnapPc'
  PROVE  ClaimInv'
<1>1. \A p \in Pids : mtg'[p] \in {mtg[p], Absent}
  BY WithoutType DEF Remove, Types, WorldType
<1>2. \A j \in Inbounds : procs'[j] \in {procs[j], Absent}
  BY DEF Remove, Types, WorldType, Procs
<1> QED BY <1>1, <1>2, ClaimEnded DEF Remove

LEMMA ClaimCollect == ASSUME Types, ManagerInv, ClaimInv, Collect PROVE ClaimInv'
<1> DEFINE s == [i \in Inbounds |->
       IF procs[i] # Absent /\ mtg[procs[i].proc] # Absent
       THEN [proc |-> procs[i].proc, last |-> procs[i].last, got |-> FALSE] ELSE Absent]
<1>1. job' = [JobIdle EXCEPT !.pc = "scrape", !.snap = s] /\ UNCHANGED <<procs, mtg, claimed>>
  BY DEF Collect, world
<1>2. job'.snap = s /\ job'.pc = "scrape"
  <2> HIDE DEF s
  <2> QED BY <1>1 DEF JobIdle
<1>3. \A i \in Inbounds : job'.snap[i] # Absent =>
        /\ procs[i] # Absent /\ job'.snap[i].proc = procs[i].proc
        /\ job'.snap[i].last = procs[i].last /\ ~job'.snap[i].got
  BY <1>2
<1>4. \A i \in Inbounds : job.snap[i] = Absent
  BY DEF Collect, ClaimInv, SnapPc
<1> HIDE DEF s
<1>5. ClaimedOnce' /\ SnapPc'
  BY <1>1, <1>2 DEF ClaimInv, ClaimedOnce, SnapPc
<1>6. EntryLast'
  BY <1>1, <1>4 DEF ClaimInv, EntryLast, Answered
<1>7. SnapLast'
  BY <1>1, <1>3, <1>4 DEF ClaimInv, SnapLast, EntryLast, Answered
<1>8. SnapApart'
  BY <1>1, <1>3 DEF SnapApart, ManagerInv, Apart
<1>9. EntryNew'
  BY <1>1, <1>3 DEF EntryNew
<1> QED BY <1>5, <1>6, <1>7, <1>8, <1>9 DEF ClaimInv

(* No snapshot is taken or answered: the rest of the job.                  *)
LEMMA ClaimSame ==
  ASSUME Types, Types', ClaimInv, UNCHANGED world, job'.snap = job.snap, SnapPc' PROVE ClaimInv'
<1>1. UNCHANGED <<procs, mtg, claimed>>
  BY DEF world
<1> QED BY <1>1, ClaimEnded

LEMMA ClaimJobIdle ==
  ASSUME Types, Types', ClaimInv, UNCHANGED world, \A i \in Inbounds : job.snap[i] = Absent,
         \A i \in Inbounds : job'.snap[i] = Absent
  PROVE  ClaimInv'
<1>1. job'.snap = job.snap
  BY DEF Types, JobInv, JobRecord
<1> QED BY <1>1, ClaimSame DEF SnapPc

LEMMA ClaimScrape ==
  ASSUME Types, Types', ClaimInv, NEW i \in Inbounds, Scrape(i) PROVE ClaimInv'
<1> DEFINE s == job.snap[i]
<1>1. /\ s # Absent /\ s.proc \in Pids /\ ~s.got /\ job.pc = "scrape" /\ UNCHANGED <<procs, mtg>>
      /\ \A c \in Clients : s.last[c] \in Nat \union {Absent}
  <2>1. s # Absent /\ ~s.got /\ job.pc = "scrape" /\ UNCHANGED <<procs, mtg>>
    BY DEF Scrape
  <2>2. s.proc \in Pids /\ \A c \in Clients : s.last[c] \in Nat \union {Absent}
    BY <2>1, Numbers
  <2> QED BY <2>1, <2>2
<1>2. job' = [job EXCEPT !.snap[i] = job'.snap[i]]
  BY DEF Scrape, Types, JobInv, JobRecord
<1>3. job'.pc = "scrape" /\ \A j \in Inbounds \ {i} : job'.snap[j] = job.snap[j]
  BY <1>1, <1>2 DEF Types, JobInv, JobRecord
<1>4. CASE job'.snap[i] = Absent /\ claimed' = claimed
  <2>1. ClaimedOnce' /\ SnapPc'
    BY <1>1, <1>3, <1>4 DEF ClaimInv, ClaimedOnce, SnapPc
  <2>2. SnapLast'
    BY <1>3, <1>4 DEF ClaimInv, SnapLast
  <2>3. SnapApart'
    BY <1>1, <1>3, <1>4 DEF ClaimInv, SnapApart
  <2>4. EntryNew'
    BY <1>1, <1>3, <1>4 DEF ClaimInv, EntryNew
  <2>5. EntryLast'
    BY <1>1, <1>3, <1>4 DEF ClaimInv, EntryLast, Answered
  <2> QED BY <2>1, <2>2, <2>3, <2>4, <2>5 DEF ClaimInv
<1>5. CASE /\ mtg[s.proc] # Absent
           /\ claimed' = [claimed EXCEPT ![s.proc] = [c \in Clients |-> @[c] + Delta(s.last, s.proc, c)]]
           /\ job'.snap[i] = [proc |-> s.proc, got |-> TRUE,
                last |-> [c \in Clients |-> IF c \in mtg[s.proc].secrets THEN mtg[s.proc].count[c]
                                            ELSE Absent]]
  <2>1. /\ job'.snap[i] # Absent /\ job'.snap[i].proc = s.proc /\ job'.snap[i].got
        /\ \A c \in Clients : job'.snap[i].last[c] \in {mtg[s.proc].count[c], Absent}
    <3> DEFINE l == [c \in Clients |-> IF c \in mtg[s.proc].secrets THEN mtg[s.proc].count[c] ELSE Absent]
    <3>1. \A c \in Clients : l[c] \in {mtg[s.proc].count[c], Absent}
      OBVIOUS
    <3>2. l \in Last
      BY <1>1, <1>5, Numbers DEF Last
    <3>3. job'.snap[i] = [proc |-> s.proc, got |-> TRUE, last |-> l] /\ s.proc \in Pids
      BY <1>1, <1>5
    <3> HIDE DEF l, s
    <3>4. job'.snap[i] \in Snap
      BY <3>2, <3>3 DEF Snap
    <3>5. job'.snap[i] # Absent
      BY <3>4, NotAbsent
    <3>6. job'.snap[i].proc = s.proc /\ job'.snap[i].last = l
      BY <3>3
    <3>7. job'.snap[i].got
      BY <3>3
    <3> QED BY <3>1, <3>5, <3>6, <3>7
  <2>2. \A p \in Pids : p # s.proc => claimed'[p] = claimed[p]
    BY <1>5 DEF Types, WorldType
  <2>3. \A c \in Clients : claimed'[s.proc][c] <= mtg[s.proc].count[c]
    <3> SUFFICES ASSUME NEW c \in Clients PROVE claimed'[s.proc][c] <= mtg[s.proc].count[c]
      OBVIOUS
    <3>1. claimed'[s.proc][c] = claimed[s.proc][c] + Delta(s.last, s.proc, c)
      BY <1>1, <1>5 DEF Types, WorldType
    <3>2. claimed[s.proc][c] \in Nat /\ mtg[s.proc].count[c] \in Nat
      BY <1>1, <1>5, Numbers
    <3>3. claimed[s.proc][c] <= mtg[s.proc].count[c]
      BY <1>1, <1>5 DEF ClaimInv, ClaimedOnce
    <3>4. CASE s.last[c] # Absent /\ s.last[c] < mtg[s.proc].count[c] /\ c \in mtg[s.proc].secrets
      <4>1. claimed[s.proc][c] <= s.last[c] /\ s.last[c] \in Nat
        BY <1>1, <3>4 DEF ClaimInv, SnapLast
      <4>2. Delta(s.last, s.proc, c) = mtg[s.proc].count[c] - s.last[c]
        BY <3>4 DEF Delta
      <4> HIDE DEF s
      <4> QED BY <3>1, <3>2, <4>1, <4>2
    <3>5. CASE ~(s.last[c] # Absent /\ s.last[c] < mtg[s.proc].count[c] /\ c \in mtg[s.proc].secrets)
      <4>1. Delta(s.last, s.proc, c) = 0
        BY <3>5 DEF Delta
      <4> HIDE DEF s
      <4> QED BY <3>1, <3>2, <3>3, <4>1
    <3> QED BY <3>4, <3>5
  <2>4. ClaimedOnce'
    <3> SUFFICES ASSUME NEW p \in Pids, mtg[p] # Absent, NEW c \in Clients
                 PROVE  claimed'[p][c] <= mtg[p].count[c]
      BY <1>1 DEF ClaimedOnce
    <3> QED BY <2>2, <2>3 DEF ClaimInv, ClaimedOnce
  <2>5. SnapPc'
    BY <1>3 DEF SnapPc
  <2>6. SnapLast'
    <3> SUFFICES ASSUME NEW j \in Inbounds, NEW c \in Clients,
                        job'.snap[j] # Absent, job'.snap[j].last[c] # Absent
                 PROVE  claimed'[job'.snap[j].proc][c] <= job'.snap[j].last[c]
      BY DEF SnapLast
    <3>1. CASE j = i
      BY <2>1, <2>3, <3>1
    <3>2. CASE j # i
      <4>1. job'.snap[j] = job.snap[j] /\ job.snap[j].proc \in Pids /\ job.snap[j].proc # s.proc
        BY <1>1, <1>3, <3>2, Numbers DEF ClaimInv, SnapApart
      <4> QED BY <2>2, <4>1 DEF ClaimInv, SnapLast
    <3> QED BY <3>1, <3>2
  <2>7. SnapApart'
    <3>1. \A j \in Inbounds : job'.snap[j] # Absent =>
            job.snap[j] # Absent /\ job'.snap[j].proc = job.snap[j].proc
      BY <1>1, <1>3, <2>1
    <3> HIDE DEF s
    <3> QED BY <1>1, <3>1 DEF ClaimInv, SnapApart
  <2>8. EntryNew'
    <3> SUFFICES ASSUME NEW j \in Inbounds, NEW c \in Clients, job'.snap[j] # Absent, procs[j] # Absent,
                        procs[j].proc # job'.snap[j].proc
                 PROVE  claimed'[procs[j].proc][c] = 0
      BY <1>1 DEF EntryNew
    <3>1. job.snap[j] # Absent /\ job'.snap[j].proc = job.snap[j].proc
      BY <1>1, <1>3, <2>1
    <3>2. procs[j].proc # s.proc /\ procs[j].proc \in Pids
      BY <1>1, <3>1, Numbers DEF ClaimInv, SnapApart
    <3> QED BY <2>2, <3>1, <3>2 DEF ClaimInv, EntryNew
  <2>9. EntryLast'
    <3> SUFFICES ASSUME NEW j \in Inbounds, NEW c \in Clients, procs[j] # Absent, ~Answered(j)',
                        procs[j].last[c] # Absent
                 PROVE  claimed'[procs[j].proc][c] <= procs[j].last[c]
      BY <1>1 DEF EntryLast
    <3>1. CASE j = i
      <4>1. procs[i].proc # s.proc
        BY <1>1, <2>1, <3>1 DEF Answered
      <4>2. ~Answered(i)
        BY <1>1 DEF Answered
      <4>3. procs[i].proc \in Pids
        BY <3>1, Numbers
      <4> QED BY <2>2, <3>1, <4>1, <4>2, <4>3 DEF ClaimInv, EntryLast
    <3>2. CASE j # i
      <4>1. ~Answered(j)
        BY <1>1, <1>3, <3>2 DEF Answered
      <4>2. procs[j].proc # s.proc /\ procs[j].proc \in Pids
        BY <1>1, <3>2, Numbers DEF ClaimInv, SnapApart
      <4> QED BY <2>2, <4>1, <4>2 DEF ClaimInv, EntryLast
    <3> QED BY <3>1, <3>2
  <2> QED BY <2>4, <2>5, <2>6, <2>7, <2>8, <2>9 DEF ClaimInv
<1> QED BY <1>4, <1>5 DEF Scrape, Types, JobInv, JobRecord

LEMMA ClaimWriteBack ==
  ASSUME Types, ClaimInv, NEW i \in Inbounds, WriteBack(i) PROVE ClaimInv'
<1>1. /\ job.snap[i] # Absent /\ job.snap[i].got /\ job.pc = "scrape" /\ UNCHANGED <<mtg, claimed>>
      /\ job' = [job EXCEPT !.snap[i] = Absent]
  BY DEF WriteBack
<1>2. job'.pc = "scrape" /\ job'.snap[i] = Absent /\ \A j \in Inbounds \ {i} : job'.snap[j] = job.snap[j]
  BY <1>1 DEF Types, JobInv, JobRecord
<1>3. \A j \in Inbounds \ {i} : procs'[j] = procs[j]
  BY DEF WriteBack, Types, WorldType, Procs
<1>4. procs'[i] # Absent =>
        procs[i] # Absent /\ procs'[i].proc = procs[i].proc /\ procs'[i].last = job.snap[i].last
  <2>1. CASE procs[i] = Absent
    BY <2>1 DEF WriteBack
  <2>2. CASE procs[i] # Absent
    BY <2>2, HeldIs DEF WriteBack, Types, WorldType, Procs, Managed
  <2> QED BY <2>1, <2>2
<1>5. \A j \in Inbounds : procs'[j] # Absent => procs[j] # Absent /\ procs'[j].proc = procs[j].proc
  BY <1>3, <1>4
<1>6. ClaimedOnce' /\ SnapPc'
  BY <1>1, <1>2 DEF ClaimInv, ClaimedOnce, SnapPc
<1>7. SnapLast'
  BY <1>1, <1>2 DEF ClaimInv, SnapLast
<1>8. SnapApart'
  BY <1>2, <1>5 DEF ClaimInv, SnapApart
<1>9. EntryNew'
  BY <1>1, <1>2, <1>5 DEF ClaimInv, EntryNew
<1>10. EntryLast'
  <2> SUFFICES ASSUME NEW j \in Inbounds, NEW c \in Clients, procs'[j] # Absent, ~Answered(j)',
                      procs'[j].last[c] # Absent
               PROVE  claimed[procs'[j].proc][c] <= procs'[j].last[c]
    BY <1>1 DEF EntryLast
  <2>1. CASE j # i
    BY <1>2, <1>3, <2>1 DEF ClaimInv, EntryLast, Answered
  <2>2. CASE j = i /\ procs[i].proc = job.snap[i].proc
    BY <1>1, <1>4, <2>2 DEF ClaimInv, SnapLast
  <2>3. CASE j = i /\ procs[i].proc # job.snap[i].proc
    <3>1. claimed[procs'[i].proc][c] = 0
      BY <1>1, <1>4, <2>3 DEF ClaimInv, EntryNew
    <3>2. procs'[i].last[c] \in Nat
      BY <1>1, <1>4, <2>3, Numbers
    <3> QED BY <2>3, <3>1, <3>2
  <2> QED BY <2>1, <2>2, <2>3
<1> QED BY <1>6, <1>7, <1>8, <1>9, <1>10 DEF ClaimInv

LEMMA ClaimUse == ASSUME Types, Types', ClaimInv, NEW p \in Pids, NEW c \in Clients, Use(p, c) PROVE ClaimInv'
<1>1. mtg' = [mtg EXCEPT ![p].count[c] = @ + 1] /\ UNCHANGED <<procs, claimed, job>> /\ mtg[p] # Absent
  BY DEF Use
<1>2. \A q \in Pids : mtg'[q] # Absent => mtg[q] # Absent
  BY <1>1 DEF Types, WorldType, Sidecars_
<1>3. ASSUME NEW q \in Pids, mtg'[q] # Absent, NEW d \in Clients PROVE mtg'[q].count[d] >= mtg[q].count[d]
  <2>1. mtg[q] # Absent /\ mtg[q].count[d] \in Nat
    BY <1>2, <1>3, Numbers
  <2>2. CASE q # p
    BY <1>1, <2>1, <2>2 DEF Types, WorldType, Sidecars_
  <2>3. CASE q = p
    <3>1. mtg[p] \in Sidecar
      BY <1>1 DEF Types, WorldType, Sidecars_
    <3>2. mtg'[p] = [mtg[p] EXCEPT !.count[c] = @ + 1]
      BY <1>1 DEF Types, WorldType, Sidecars_
    <3>3. mtg'[p].count = [mtg[p].count EXCEPT ![c] = @ + 1]
      BY <3>1, <3>2 DEF Sidecar
    <3>4. mtg'[p].count[d] = IF d = c THEN mtg[p].count[d] + 1 ELSE mtg[p].count[d]
      BY <3>1, <3>3 DEF Sidecar, Counters
    <3> QED BY <2>1, <2>3, <3>4
  <2> QED BY <2>2, <2>3
<1>4. SnapPc' /\ job'.snap = job.snap
  BY <1>1 DEF ClaimInv, SnapPc
<1> QED BY <1>1, <1>2, <1>3, <1>4, ClaimKept

LEMMA ClaimInit == ASSUME Init PROVE ClaimInv
  BY DEF Init, ClaimInv, ClaimedOnce, SnapPc, SnapLast, SnapApart, EntryNew, EntryLast, None, JobIdle

LEMMA ClaimStep == ASSUME MInv, MInv', ClaimInv, [Next]_vars PROVE ClaimInv'
<1> USE DEF MInv
<1>1. ASSUME UNCHANGED <<world, job>> PROVE ClaimInv'
  BY <1>1, ClaimSame DEF SnapPc, ClaimInv
<1>2. ASSUME UNCHANGED job PROVE SnapPc' /\ job'.snap = job.snap
  BY <1>2 DEF SnapPc, ClaimInv
<1>3. CASE UNCHANGED vars
  BY <1>1, <1>3 DEF vars
<1>4. CASE ReadRows \/ ReadOff
  <2>1. \A i \in Inbounds : job.snap[i] = Absent /\ job'.snap[i] = Absent
    <3>1. job.pc # "scrape"
      BY <1>4 DEF ReadRows, ReadOff
    <3>2. job'.snap = None
      BY <1>4 DEF ReadRows, ReadOff, JobIdle
    <3> QED BY <3>1, <3>2 DEF None, ClaimInv, SnapPc
  <2>2. UNCHANGED world
    BY <1>4 DEF ReadRows, ReadOff
  <2> QED BY <2>1, <2>2, ClaimJobIdle
<1>5. CASE Finish
  <2>1. \A i \in Inbounds : job.snap[i] = Absent /\ job'.snap[i] = Absent
    BY <1>5 DEF Finish, JobIdle, None
  <2> QED BY <1>5, <2>1, ClaimJobIdle DEF Finish
<1>6. CASE Reconcile
  <2>1. job' = [job EXCEPT !.pc = "ensure", !.todo = Inbounds \ Unwanted] /\ claimed' = claimed
    BY <1>6 DEF Reconcile
  <2>2. job'.snap = job.snap /\ SnapPc'
    BY <1>6, <2>1 DEF Reconcile, Types, JobInv, JobRecord, ClaimInv, SnapPc
  <2>3. \A p \in Pids : mtg'[p] \in {mtg[p], Absent}
    BY <1>6, AliveType, WithoutType DEF Reconcile, Types
  <2>4. \A i \in Inbounds : procs'[i] \in {procs[i], Absent}
    BY <1>6 DEF Reconcile
  <2> QED BY <2>1, <2>2, <2>3, <2>4, ClaimEnded
<1>7. CASE Collect
  BY <1>7, ClaimCollect
<1>8. ASSUME NEW i \in Inbounds, EnsureNext(i) PROVE ClaimInv'
  <2>1. /\ job' = [job EXCEPT !.todo = @ \ {i}] /\ Ensure(i, job.want[i]) /\ job.want[i] \in Instance
    BY <1>8 DEF EnsureNext, Types, JobInv, JobRecord, InstanceOr
  <2>2. job'.snap = job.snap /\ SnapPc'
    BY <2>1 DEF Types, JobInv, JobRecord, ClaimInv, SnapPc
  <2> QED BY <2>1, <2>2, ClaimEnsure
<1>9. ASSUME NEW r \in Requests, RequestStep(r) PROVE ClaimInv'
  <2>1. ASSUME NEW c \in Clients, CommitClient(r, c) \/ CommitReset(r, c) PROVE ClaimInv'
    BY <1>1, <2>1 DEF CommitClient, CommitReset
  <2>2. ASSUME NEW row \in Forms, NEW gone \in SUBSET (Clients \ row.secrets), CommitRow(r, row, gone)
        PROVE  ClaimInv'
    BY <1>1, <2>2 DEF CommitRow
  <2>3. CASE CommitToggle(r) \/ CommitDrop(r) \/ Count(r) \/ Reread(r) \/ Build(r)
    BY <1>1, <2>3 DEF CommitToggle, CommitDrop, Count, Reread, Build
  <2>4. at[r].i \in Inbounds \/ at[r].pc = "idle"
    BY WorkIs DEF Types
  <2>5. at[r].inst \in Instance \union {Absent}
    BY DEF Types, AtInv, AtRecord, InstanceOr
  <2>6. CASE Stop(r)
    BY <1>2, <2>4, <2>6, ClaimRemove DEF Stop
  <2>7. CASE Push(r)
    <3>1. UNCHANGED job /\ at[r].i \in Inbounds
      BY <2>4, <2>7 DEF Push
    <3>2. CASE at[r].inst # Absent /\ Ensure(at[r].i, at[r].inst)
      BY <1>2, <2>5, <3>1, <3>2, ClaimEnsure
    <3>3. CASE Remove(at[r].i)
      BY <1>2, <3>1, <3>3, ClaimRemove
    <3>4. CASE UNCHANGED world
      BY <1>1, <3>1, <3>4
    <3> QED BY <2>7, <3>2, <3>3, <3>4 DEF Push
  <2> QED BY <1>9, <2>1, <2>2, <2>3, <2>6, <2>7 DEF RequestStep
<1>10. CASE \/ \E r \in Requests, kind \in Kinds, i \in Inbounds : Begin(r, kind, i)
            \/ \E i \in Inbounds, c \in Clients : Poll(i, c)
  BY <1>1, <1>10 DEF Begin, Poll
<1>11. ASSUME NEW p \in Pids, NEW c \in Clients, Use(p, c) PROVE ClaimInv'
  BY <1>11, ClaimUse
<1>12. CASE (\E p \in Pids : Die(p)) \/ StopAll
  <2>1. UNCHANGED <<claimed, job>>
    BY <1>12 DEF Die, StopAll
  <2>2. \A p \in Pids : mtg'[p] \in {mtg[p], Absent}
    <3>1. \E S : mtg' = Without(mtg, S)
      BY <1>12 DEF Die, StopAll
    <3> QED BY <3>1, WithoutType DEF Types, WorldType
  <2>3. \A i \in Inbounds : procs'[i] \in {procs[i], Absent}
    <3>1. procs' = procs \/ procs' = None
      BY <1>12 DEF Die, StopAll
    <3> QED BY <3>1 DEF None
  <2> QED BY <1>2, <2>1, <2>2, <2>3, ClaimEnded
<1>13. CASE Restart
  <2>1. (\A i \in Inbounds : job'.snap[i] = Absent /\ procs'[i] = Absent) /\ UNCHANGED <<mtg, claimed>>
    BY <1>13 DEF Restart, JobIdle, None
  <2> QED BY <2>1 DEF ClaimInv, ClaimedOnce, SnapPc, SnapLast, SnapApart, EntryNew, EntryLast
<1>14. ASSUME NEW i \in Inbounds, Scrape(i) \/ WriteBack(i) PROVE ClaimInv'
  BY <1>14, ClaimScrape, ClaimWriteBack
<1>15. CASE JobStep
  BY <1>4, <1>5, <1>6, <1>7, <1>8, <1>14, <1>15 DEF JobStep
<1> QED BY <1>3, <1>9, <1>10, <1>11, <1>12, <1>13, <1>15 DEF Next

(* No counter that the job holds or an entry keeps is behind what was      *)
(* claimed of the same process.                                            *)
THEOREM ClaimInvAlways == Spec => []ClaimInv
<1>1. Init => ClaimInv
  BY ClaimInit
<1>2. MInv /\ MInv' /\ ClaimInv /\ [Next]_vars => ClaimInv'
  BY ClaimStep
<1> QED BY <1>1, <1>2, MInvAlways, PTL DEF Spec

(* No traffic of a process is handed to the accounts twice, whichever      *)
(* processes are replaced while their counters are under way.              *)
THEOREM ClaimedOnceAlways == Spec => []ClaimedOnce
<1>1. ClaimInv => ClaimedOnce
  BY DEF ClaimInv
<1> QED BY <1>1, ClaimInvAlways, PTL

-----------------------------------------------------------------------------
(* ConnectionsSurvive.  A client that is not touched is in every row, wish *)
(* and entry anyone has read or holds, with the structure of today.        *)
Fits(x, row, c) == x # Absent /\ x.struct = row.struct /\ c \in x.secrets

KRow == \A i \in Inbounds, c \in Clients : <<i, c>> \notin touched => Serves(rows, off, i, c)
KJob == \A i \in Inbounds, c \in Clients : <<i, c>> \notin touched =>
  /\ job.pc = "off" => job.rows[i].on /\ Fits(job.rows[i], rows[i], c)
  /\ job.pc \in {"lock", "ensure"} => Fits(job.want[i], rows[i], c)
KProc == \A i \in Inbounds, c \in Clients :
  <<i, c>> \notin touched /\ procs[i] # Absent => Fits(procs[i], rows[i], c)
AtFits(o, rs, ts) == \A c \in Clients : <<o.i, c>> \notin ts =>
  /\ o.pc = "commit" /\ o.kind = "toggle" => o.row.on
  /\ o.pc # "remove"
  /\ o.pc = "build" => o.row.on /\ Fits(o.row, rs[o.i], c)
  /\ o.pc = "push" => Fits(o.inst, rs[o.i], c)
KAt == \A r \in Requests : at[r].pc # "idle" => AtFits(at[r], rows, touched)
KeepInv == KRow /\ KJob /\ KProc /\ KAt

(* What a step does to the tables, for the clients it leaves untouched.    *)
Spared == \A i \in Inbounds, c \in Clients : <<i, c>> \notin touched' =>
  /\ <<i, c>> \notin touched /\ rows'[i].struct = rows[i].struct
  /\ Serves(rows', off', i, c)

LEMMA ServesIs ==
  ASSUME NEW rs \in Table, NEW os, NEW i \in Inbounds, NEW c \in Clients, Serves(rs, os, i, c)
  PROVE  /\ rs[i] \in Content /\ rs[i].on /\ Fits(rs[i], rs[i], c) /\ <<i, c>> \notin os
         /\ Fits(Make(i, rs[i], os), rs[i], c)
<1>1. rs[i] \in RowOr
  BY DEF Table
<1>2. rs[i] \in Content /\ rs[i].on /\ c \in rs[i].secrets /\ <<i, c>> \notin os
  BY <1>1, MakeIs DEF Serves
<1>3. rs[i] # Absent
  BY <1>2, NotAbsent
<1>4. Make(i, rs[i], os) # Absent /\ c \in Make(i, rs[i], os).secrets
      /\ Make(i, rs[i], os).struct = rs[i].struct
  BY <1>1, <1>2, MakeIs
<1> QED BY <1>2, <1>3, <1>4 DEF Fits

LEMMA SameTable == ASSUME KeepInv, UNCHANGED <<rows, off, touched>> PROVE Spared
  BY DEF KeepInv, KRow, Spared

LEMMA SavedTable == ASSUME NEW rs, NEW os, Save(rs, os) PROVE Spared
  BY DEF Save, Spared

LEMMA Carry ==
  ASSUME Types, KeepInv, Spared
  PROVE  /\ KRow' /\ (UNCHANGED job => KJob') /\ (UNCHANGED procs => KProc')
         /\ \A r \in Requests : at[r].pc # "idle" => AtFits(at[r], rows', touched')
<1>1. KRow'
  BY DEF Spared, KRow
<1>2. ASSUME UNCHANGED job PROVE KJob'
  BY <1>2 DEF Spared, KeepInv, KJob, Fits
<1>3. ASSUME UNCHANGED procs PROVE KProc'
  BY <1>3 DEF Spared, KeepInv, KProc, Fits
<1>4. ASSUME NEW r \in Requests, at[r].pc # "idle" PROVE AtFits(at[r], rows', touched')
  <2>1. at[r].i \in Inbounds
    BY <1>4, WorkIs DEF Types
  <2>2. AtFits(at[r], rows, touched)
    BY <1>4 DEF KeepInv, KAt
  <2> QED BY <2>1, <2>2 DEF AtFits, Fits, Spared
<1> QED BY <1>1, <1>2, <1>3, <1>4

LEMMA GotoFits ==
  ASSUME Types, KeepInv, Spared, NEW r \in Requests, NEW o, Goto(r, o),
         o.pc # "idle" => AtFits(o, rows', touched')
  PROVE  KAt'
  BY Carry DEF Goto, KAt, Types, AtInv

LEMMA IdleFits == ASSUME Types, KeepInv, Spared, NEW r \in Requests, Goto(r, Idle) PROVE KAt'
  BY IdleType, GotoFits

(* An Ensure with a wish that fits.                                        *)
LEMMA EnsureFits ==
  ASSUME Types, ManagerInv, KeepInv, NEW i \in Inbounds, NEW inst \in Instance, Ensure(i, inst),
         \A c \in Clients : <<i, c>> \notin touched => Fits(inst, rows[i], c),
         UNCHANGED <<rows, touched>>
  PROVE  KProc'
<1> SUFFICES ASSUME NEW j \in Inbounds, NEW c \in Clients, <<j, c>> \notin touched, procs'[j] # Absent
             PROVE  Fits(procs'[j], rows[j], c)
  BY DEF KProc
<1>1. CASE procs' = procs
  BY <1>1 DEF KeepInv, KProc
<1>2. CASE procs[i] # Absent /\ ReloadedAs(i, inst)
  <2>1. CASE j = i
    <3>1. procs[i] \in Managed
      BY <1>2, HeldIs DEF Types
    <3>2. procs'[i].struct = procs[i].struct /\ procs'[i].secrets = inst.secrets
      BY <1>2, <3>1 DEF ReloadedAs, Types, WorldType, Procs, Managed
    <3>3. Fits(procs[i], rows[i], c) /\ Fits(inst, rows[i], c)
      BY <1>2, <2>1 DEF KeepInv, KProc
    <3> QED BY <2>1, <3>2, <3>3 DEF Fits
  <2>2. CASE j # i
    BY <1>2, <2>2 DEF ReloadedAs, Types, WorldType, Procs, KeepInv, KProc
  <2> QED BY <2>1, <2>2
<1>3. CASE NotStarted(i)
  BY <1>3 DEF NotStarted, Types, WorldType, Procs, KeepInv, KProc
<1>4. ASSUME NEW p \in Pids, StartedAs(i, inst, p) PROVE Fits(procs'[j], rows[j], c)
  <2>1. CASE j = i
    <3>1. procs'[i].struct = inst.struct /\ procs'[i].secrets = inst.secrets
      BY <1>4 DEF StartedAs, Types, WorldType, Procs
    <3> QED BY <2>1, <3>1 DEF Fits
  <2>2. CASE j # i
    BY <1>4, <2>2 DEF StartedAs, Types, WorldType, Procs, KeepInv, KProc
  <2> QED BY <2>1, <2>2
<1> QED BY <1>1, <1>2, <1>3, <1>4, EnsureCases DEF Types

LEMMA ShrinkFits ==
  ASSUME KeepInv, \A i \in Inbounds : procs'[i] \in {procs[i], Absent}, UNCHANGED <<rows, touched>>
  PROVE  KProc'
  BY DEF KeepInv, KProc

LEMMA RemoveFits == ASSUME Types, KeepInv, NEW i \in Inbounds, Remove(i), UNCHANGED <<rows, touched>>
                    PROVE  KProc'
<1>1. \A j \in Inbounds : procs'[j] \in {procs[j], Absent}
  BY DEF Remove, Types, WorldType, Procs
<1> QED BY <1>1, ShrinkFits

LEMMA EnsureSurvives ==
  ASSUME Types, ManagerInv, KeepInv, NEW i \in Inbounds, NEW inst \in Instance, Ensure(i, inst),
         \A c \in Clients : <<i, c>> \notin touched => Fits(inst, rows[i], c),
         UNCHANGED faults, swept, NEW p \in Pids, NEW c \in Clients,
         mtg[p] # Absent, c \in mtg[p].secrets, <<mtg[p].at, c>> \notin touched
  PROVE  mtg'[p] # Absent /\ c \in mtg'[p].secrets
<1>1. Alive = mtg
  BY AliveType DEF Types
<1>2. mtg[p] \in Sidecar /\ mtg[p].at \in Inbounds
  BY DEF Types, WorldType, Sidecars_, Sidecar
<1>3. CASE mtg' = Alive
  BY <1>1, <1>3
<1>4. CASE procs[i] # Absent /\ mtg[procs[i].proc] # Absent /\ ReloadedAs(i, inst)
  <2>1. procs[i].proc \in Pids /\ mtg[procs[i].proc] \in Sidecar
    BY <1>4, HeldIs DEF Types, WorldType, Sidecars_
  <2>2. CASE p = procs[i].proc
    <3>1. mtg[p].at = i
      BY <1>4, <2>2 DEF ManagerInv, FingerprintIsTrue
    <3>2. mtg'[p] = [mtg[p] EXCEPT !.secrets = inst.secrets]
      BY <1>4, <2>1, <2>2 DEF ReloadedAs, Types, WorldType, Sidecars_
    <3>3. mtg'[p] \in Sidecar /\ mtg'[p].secrets = inst.secrets
      BY <1>2, <3>2 DEF Sidecar, Instance
    <3>4. c \in inst.secrets
      BY <3>1 DEF Fits
    <3> QED BY <3>3, <3>4, NotAbsent
  <2>3. CASE p # procs[i].proc
    BY <1>4, <2>1, <2>3 DEF ReloadedAs, Types, WorldType, Sidecars_
  <2> QED BY <2>2, <2>3
<1>5. ASSUME NEW q \in Pids, StartedAs(i, inst, q), ~IsNoop(i, inst) /\ ~IsReload(i, inst)
      PROVE  mtg'[p] # Absent /\ c \in mtg'[p].secrets
  <2>1. p # q
    BY <1>5 DEF StartedAs, FreePids
  <2>2. p \notin Held(i)
    <3> SUFFICES ASSUME p \in Held(i) PROVE FALSE
      OBVIOUS
    <3>1. procs[i] # Absent /\ procs[i].proc = p
      BY DEF Held
    <3>2. mtg[p].at = i
      BY <3>1 DEF ManagerInv, FingerprintIsTrue
    <3>3. procs[i].struct = inst.struct
      BY <3>1, <3>2 DEF KeepInv, KProc, Fits
    <3> QED BY <1>1, <1>5, <3>1, <3>3 DEF IsNoop, IsReload
  <2>3. Without(Alive, Held(i)) \in Sidecars_ /\ Without(Alive, Held(i))[p] = mtg[p]
    BY <1>1, <2>2, AliveType, WithoutType DEF Types
  <2>4. mtg'[p] = mtg[p]
    BY <1>5, <2>1, <2>3 DEF StartedAs, Sidecars_
  <2> QED BY <2>4
<1> QED BY <1>3, <1>4, <1>5, EnsureCases DEF Types

LEMMA RemoveSurvives ==
  ASSUME Types, ManagerInv, NEW i \in Inbounds, Remove(i), \A c \in Clients : <<i, c>> \in touched,
         NEW p \in Pids, NEW c \in Clients, mtg[p] # Absent, <<mtg[p].at, c>> \notin touched
  PROVE  mtg'[p] = mtg[p]
<1>1. p \notin Held(i)
  BY DEF Held, ManagerInv, FingerprintIsTrue
<1> QED BY <1>1, WithoutType DEF Remove, Types, WorldType

LEMMA KeepInit == ASSUME Init PROVE KeepInv
<1>1. KRow
  BY DEF Init, KRow
<1>2. KJob /\ KProc /\ KAt
  BY DEF Init, KJob, KProc, KAt, JobIdle, None, Idle
<1> QED BY <1>1, <1>2 DEF KeepInv

(* Who is at work, and for whom.                                           *)
LEMMA WorkFits == ASSUME Types, KeepInv, NEW r \in Requests, at[r].pc # "idle"
                  PROVE  /\ at[r] \in AtRecord /\ at[r].i \in Inbounds /\ AtWork(at[r])
                         /\ AtFits(at[r], rows, touched)
  BY WorkIs DEF Types, KeepInv, KAt

LEMMA KeepCommits ==
  ASSUME Types, Types', KeepInv, NEW r \in Requests,
         \/ \E c \in Clients : CommitClient(r, c) \/ CommitReset(r, c)
         \/ \E row \in Forms : \E gone \in SUBSET (Clients \ row.secrets) : CommitRow(r, row, gone)
         \/ CommitToggle(r) \/ CommitDrop(r)
  PROVE  Spared /\ KAt'
<1> DEFINE o == at[r]
<1>1. o \in AtRecord /\ o.i \in Inbounds /\ AtWork(o) /\ AtFits(o, rows, touched)
  BY WorkFits DEF CommitClient, CommitReset, CommitRow, CommitToggle, CommitDrop
<1>2. Spared
  BY SavedTable DEF CommitClient, CommitReset, CommitRow, CommitToggle, CommitDrop
<1>3. rows' \in Table
  BY DEF Types, TableType
<1>4. CASE \E c \in Clients : CommitClient(r, c) \/ CommitReset(r, c)
  <2>1. Goto(r, Idle) \/ Goto(r, [o EXCEPT !.pc = "reread"])
    BY <1>4 DEF CommitClient, CommitReset
  <2>2. AtFits([o EXCEPT !.pc = "reread"], rows', touched')
    BY <1>1 DEF AtFits, AtRecord
  <2> QED BY <1>2, <2>1, <2>2, IdleFits, GotoFits
<1>5. ASSUME NEW row \in Forms, NEW gone \in SUBSET (Clients \ row.secrets), CommitRow(r, row, gone)
      PROVE  KAt'
  <2> DEFINE os == Relisted(o, row, gone)
             q == [o EXCEPT !.pc = "push", !.inst = Make(o.i, row, os)]
  <2>1. Goto(r, Idle) \/ Goto(r, q)
    BY <1>5 DEF CommitRow
  <2>2. rows' = [rows EXCEPT ![o.i] = row] /\ off' = os
    BY <1>5 DEF CommitRow, Save
  <2>3. rows'[o.i] = row
    BY <1>1, <2>2 DEF Types, TableType, Table
  <2>4. q.pc = "push" /\ q.i = o.i /\ q.inst = Make(o.i, row, os)
    BY <1>1 DEF AtRecord
  <2> HIDE DEF os, q, o
  <2>5. ASSUME NEW c \in Clients, <<o.i, c>> \notin touched' PROVE Fits(q.inst, rows'[o.i], c)
    <3>1. Serves(rows', off', o.i, c)
      BY <1>1, <1>2, <2>5 DEF Spared
    <3>2. Fits(Make(o.i, rows'[o.i], off'), rows'[o.i], c)
      BY <1>1, <1>3, <3>1, ServesIs
    <3> QED BY <2>2, <2>3, <2>4, <3>2
  <2>6. AtFits(q, rows', touched')
    BY <2>4, <2>5 DEF AtFits
  <2> QED BY <1>2, <2>1, <2>6, IdleFits, GotoFits
<1>6. CASE CommitToggle(r)
  <2> DEFINE q == [o EXCEPT !.pc = "remove", !.row.on = ~@]
  <2>1. Goto(r, q) /\ o.pc = "commit" /\ o.kind = "toggle"
    BY <1>6 DEF CommitToggle
  <2>2. q.pc = "remove" /\ q.i = o.i
    BY <1>1 DEF AtRecord
  <2>3. ASSUME NEW c \in Clients, <<o.i, c>> \notin touched' PROVE FALSE
    <3>1. <<o.i, c>> \notin touched /\ Serves(rows', off', o.i, c)
      BY <1>1, <1>2, <2>3 DEF Spared
    <3>2. rows'[o.i].on /\ rows'[o.i] \in Content
      BY <1>1, <1>3, <3>1, ServesIs
    <3>3. rows' = IF rows[o.i] = Absent THEN rows ELSE [rows EXCEPT ![o.i].on = ~o.row.on]
      BY <1>6 DEF CommitToggle, Save
    <3>4. rows[o.i] # Absent
      BY <3>2, <3>3, NotAbsent
    <3>5. rows[o.i] \in Content
      BY <1>1, <3>4 DEF Types, TableType, Table, RowOr
    <3>6. rows'[o.i].on = ~o.row.on
      BY <1>1, <3>3, <3>4, <3>5 DEF Types, TableType, Table, Content
    <3>7. o.row.on
      BY <1>1, <2>1, <3>1 DEF AtFits
    <3> QED BY <3>2, <3>6, <3>7
  <2>4. AtFits(q, rows', touched')
    <3> HIDE DEF q
    <3> QED BY <2>2, <2>3 DEF AtFits
  <2> QED BY <1>2, <2>1, <2>4, GotoFits
<1>7. CASE CommitDrop(r)
  <2> DEFINE q == [o EXCEPT !.pc = IF o.row.on THEN "remove" ELSE "count"]
  <2>1. Goto(r, q) /\ rows' = [rows EXCEPT ![o.i] = Absent]
    BY <1>7 DEF CommitDrop, Save
  <2>2. q.i = o.i
    BY <1>1 DEF AtRecord
  <2>3. ASSUME NEW c \in Clients, <<o.i, c>> \notin touched' PROVE FALSE
    <3>1. Serves(rows', off', o.i, c)
      BY <1>1, <1>2, <2>3 DEF Spared
    <3>2. rows'[o.i] \in Content
      BY <1>1, <1>3, <3>1, ServesIs
    <3> QED BY <1>1, <2>1, <3>2, NotAbsent DEF Types, TableType, Table
  <2>4. AtFits(q, rows', touched')
    <3> HIDE DEF q
    <3> QED BY <2>2, <2>3 DEF AtFits
  <2> QED BY <1>2, <2>1, <2>4, GotoFits
<1> QED BY <1>2, <1>4, <1>5, <1>6, <1>7

LEMMA KeepRequest ==
  ASSUME MInv, MInv', KeepInv, NEW r \in Requests, RequestStep(r) PROVE KeepInv'
<1> USE DEF MInv
<1> DEFINE o == at[r]
<1>1. CASE \/ \E c \in Clients : CommitClient(r, c) \/ CommitReset(r, c)
           \/ \E row \in Forms : \E gone \in SUBSET (Clients \ row.secrets) : CommitRow(r, row, gone)
           \/ CommitToggle(r) \/ CommitDrop(r)
  <2>1. Spared /\ KAt'
    BY <1>1, KeepCommits
  <2>2. UNCHANGED <<job, procs>>
    BY <1>1 DEF CommitClient, CommitReset, CommitRow, CommitToggle, CommitDrop, world
  <2> QED BY <2>1, <2>2, Carry DEF KeepInv
<1>2. ASSUME o.pc # "idle"
      PROVE  o \in AtRecord /\ o.i \in Inbounds /\ AtWork(o) /\ AtFits(o, rows, touched)
  BY <1>2, WorkFits
<1>3. CASE Stop(r)
  <2>1. UNCHANGED table /\ UNCHANGED job /\ o.pc = "remove" /\ Remove(o.i)
    BY <1>3 DEF Stop
  <2>2. Spared
    BY <2>1, SameTable DEF table
  <2>3. KProc'
    BY <1>2, <2>1, RemoveFits DEF table
  <2>4. \A c \in Clients : <<o.i, c>> \in touched'
    BY <1>2, <2>1 DEF AtFits, table
  <2>5. \E q : Goto(r, q) /\ (q.i = o.i \/ q = Idle)
    <3>1. \/ Goto(r, [o EXCEPT !.pc = "count"]) \/ Goto(r, [o EXCEPT !.pc = "build"]) \/ Goto(r, Idle)
      BY <1>3 DEF Stop
    <3>2. [o EXCEPT !.pc = "count"].i = o.i /\ [o EXCEPT !.pc = "build"].i = o.i
      BY <1>2, <2>1 DEF AtRecord
    <3> QED BY <3>1, <3>2
  <2>6. KAt'
    <3>1. PICK q : Goto(r, q) /\ (q.i = o.i \/ q = Idle)
      BY <2>5
    <3>2. q.pc # "idle" => AtFits(q, rows', touched')
      BY <2>4, <3>1, IdleType DEF AtFits
    <3> QED BY <2>2, <3>1, <3>2, GotoFits
  <2> QED BY <2>1, <2>2, <2>3, <2>6, Carry DEF KeepInv
<1>4. CASE Count(r)
  <2>1. Spared /\ UNCHANGED <<job, procs>> /\ Goto(r, Idle)
    BY <1>4, SameTable DEF Count, world
  <2> QED BY <2>1, IdleFits, Carry DEF KeepInv
<1>5. CASE Reread(r)
  <2> DEFINE q == [o EXCEPT !.pc = "build", !.row = rows[o.i]]
  <2>1. Spared /\ UNCHANGED <<table, job, procs>> /\ (Goto(r, Idle) \/ Goto(r, q)) /\ o.pc = "reread"
    BY <1>5, SameTable DEF Reread, world, table
  <2>2. o \in AtRecord /\ o.i \in Inbounds
    BY <1>2, <2>1
  <2>3. q.pc = "build" /\ q.i = o.i /\ q.row = rows[o.i]
    BY <2>2 DEF AtRecord
  <2> HIDE DEF q
  <2>4. ASSUME NEW c \in Clients, <<o.i, c>> \notin touched PROVE rows[o.i].on /\ Fits(rows[o.i], rows[o.i], c)
    <3>1. Serves(rows, off, o.i, c)
      BY <2>2, <2>4 DEF KeepInv, KRow
    <3> QED BY <2>2, <3>1, ServesIs DEF Types, TableType
  <2>5. AtFits(q, rows', touched')
    BY <2>1, <2>3, <2>4 DEF AtFits, table
  <2>6. KAt'
    BY <2>1, <2>5, IdleFits, GotoFits
  <2> QED BY <2>1, <2>6, Carry DEF KeepInv
<1>6. CASE Build(r)
  <2>1. Spared /\ UNCHANGED <<table, job, procs>> /\ o.pc = "build"
    BY <1>6, SameTable DEF Build, world, table
  <2>2. o \in AtRecord /\ o.i \in Inbounds /\ AtFits(o, rows, touched) /\ o.row \in Content
    BY <1>2, <2>1 DEF AtWork
  <2>3. ASSUME NEW os \in {off, {}}, Goto(r, [o EXCEPT !.pc = "push", !.inst = Make(o.i, o.row, os)])
        PROVE  KAt'
    <3> DEFINE q == [o EXCEPT !.pc = "push", !.inst = Make(o.i, o.row, os)]
    <3>1. q.pc = "push" /\ q.i = o.i /\ q.inst = Make(o.i, o.row, os)
      BY <2>2 DEF AtRecord
    <3> HIDE DEF q
    <3>2. ASSUME NEW c \in Clients, <<o.i, c>> \notin touched PROVE Fits(q.inst, rows[o.i], c)
      <4>1. Serves(rows, off, o.i, c)
        BY <2>2, <3>2 DEF KeepInv, KRow
      <4>2. <<o.i, c>> \notin os
        BY <2>2, <4>1, ServesIs DEF Types, TableType
      <4>3. o.row.on /\ Fits(o.row, rows[o.i], c)
        BY <2>1, <2>2, <3>2 DEF AtFits
      <4>4. /\ Make(o.i, o.row, os) # Absent /\ c \in Make(o.i, o.row, os).secrets
            /\ Make(o.i, o.row, os).struct = o.row.struct
        BY <2>2, <4>2, <4>3, MakeIs DEF Fits, RowOr
      <4> QED BY <3>1, <4>3, <4>4 DEF Fits
    <3>3. AtFits(q, rows', touched')
      BY <2>1, <3>1, <3>2 DEF AtFits, table
    <3>4. Goto(r, q)
      BY <2>3 DEF q
    <3> QED BY <2>1, <3>3, <3>4, GotoFits
  <2>4. KAt'
    BY <1>6, <2>1, <2>3, IdleFits DEF Build
  <2> QED BY <2>1, <2>4, Carry DEF KeepInv
<1>7. CASE Push(r)
  <2>1. Spared /\ UNCHANGED table /\ UNCHANGED job /\ Goto(r, Idle) /\ o.pc = "push"
    BY <1>7, SameTable DEF Push, table
  <2>2. o \in AtRecord /\ o.i \in Inbounds /\ AtFits(o, rows, touched)
    BY <1>2, <2>1
  <2>3. KProc'
    <3>1. CASE o.inst # Absent /\ Ensure(o.i, o.inst)
      <4>1. o.inst \in Instance
        BY <2>2, <3>1 DEF AtRecord, InstanceOr
      <4>2. \A c \in Clients : <<o.i, c>> \notin touched => Fits(o.inst, rows[o.i], c)
        BY <2>1, <2>2 DEF AtFits
      <4> QED BY <2>1, <2>2, <3>1, <4>1, <4>2, EnsureFits DEF table
    <3>2. CASE Remove(o.i)
      BY <2>1, <2>2, <3>2, RemoveFits DEF table
    <3>3. CASE UNCHANGED world
      BY <2>1, <3>3, Carry DEF world
    <3> QED BY <1>7, <3>1, <3>2, <3>3 DEF Push
  <2> QED BY <2>1, <2>3, IdleFits, Carry DEF KeepInv
<1> QED BY <1>1, <1>3, <1>4, <1>5, <1>6, <1>7 DEF RequestStep

LEMMA KeepJob == ASSUME MInv, KeepInv, JobStep PROVE KeepInv'
<1> USE DEF MInv
<1>1. UNCHANGED <<table, at>>
  BY DEF JobStep, ReadRows, ReadOff, Reconcile, Collect, Finish, EnsureNext, Scrape, WriteBack, JobOnly
<1>2. Spared
  BY <1>1, SameTable DEF table
<1>3. KRow' /\ KAt'
  BY <1>1, <1>2, Carry DEF KAt
<1>4. KJob'
  <2>1. \A i \in Inbounds, c \in Clients : <<i, c>> \notin touched =>
          rows[i].on /\ Fits(rows[i], rows[i], c) /\ <<i, c>> \notin off
    BY ServesIs DEF KeepInv, KRow, Types, TableType
  <2>2. CASE ReadRows
    <3>1. job'.pc = "off" /\ job'.rows = rows
      BY <2>2 DEF ReadRows, JobIdle
    <3> QED BY <1>1, <2>1, <3>1 DEF KJob, table
  <2>3. CASE ReadOff
    <3>1. job'.pc = "lock" /\ \A i \in Inbounds : job'.want[i] = Make(i, job.rows[i], off)
      BY <2>3 DEF ReadOff, JobIdle
    <3>2. ASSUME NEW i \in Inbounds, NEW c \in Clients, <<i, c>> \notin touched
          PROVE  Fits(job'.want[i], rows[i], c)
      <4>1. job.rows[i].on /\ Fits(job.rows[i], rows[i], c) /\ job.pc = "off"
        BY <2>3, <3>2 DEF ReadOff, KeepInv, KJob
      <4>2. job.rows[i] \in RowOr
        BY DEF Types, JobInv, JobRecord, Table
      <4>3. job.rows[i] \in Content
        BY <4>1, <4>2 DEF RowOr, Fits
      <4>4. /\ Make(i, job.rows[i], off) # Absent /\ c \in Make(i, job.rows[i], off).secrets
            /\ Make(i, job.rows[i], off).struct = job.rows[i].struct
        BY <2>1, <3>2, <4>1, <4>2, <4>3, MakeIs DEF Fits
      <4> QED BY <3>1, <4>1, <4>4 DEF Fits
    <3> QED BY <1>1, <3>1, <3>2 DEF KJob, table
  <2>4. CASE Reconcile \/ \E i \in Inbounds : EnsureNext(i)
    <3>1. job.pc \in {"lock", "ensure"} /\ job'.want = job.want /\ job'.pc = "ensure"
      BY <2>4 DEF Reconcile, EnsureNext, Types, JobInv, JobRecord
    <3> QED BY <1>1, <3>1 DEF KeepInv, KJob, table
  <2>5. CASE Collect \/ Finish \/ \E i \in Inbounds : Scrape(i) \/ WriteBack(i)
    <3>1. CASE Collect \/ Finish
      <4>1. CASE Collect
        <5> DEFINE s == [i \in Inbounds |->
              IF procs[i] # Absent /\ mtg[procs[i].proc] # Absent
              THEN [proc |-> procs[i].proc, last |-> procs[i].last, got |-> FALSE] ELSE Absent]
        <5>1. job' = [JobIdle EXCEPT !.pc = "scrape", !.snap = s]
          BY <4>1 DEF Collect
        <5>2. job'.pc = "scrape"
          <6> HIDE DEF s
          <6> QED BY <5>1 DEF JobIdle
        <5> QED BY <5>2 DEF KJob
      <4>2. CASE Finish
        BY <4>2 DEF Finish, JobIdle, KJob
      <4> QED BY <3>1, <4>1, <4>2
    <3>2. CASE \E i \in Inbounds : Scrape(i) \/ WriteBack(i)
      <4>1. job'.pc = job.pc /\ job.pc = "scrape"
        BY <3>2 DEF Scrape, WriteBack, Types, JobInv, JobRecord
      <4> QED BY <4>1 DEF KJob
    <3> QED BY <2>5, <3>1, <3>2
  <2> QED BY <2>2, <2>3, <2>4, <2>5 DEF JobStep
<1>5. KProc'
  <2>1. CASE ReadRows \/ ReadOff \/ Collect \/ Finish \/ \E i \in Inbounds : Scrape(i)
    <3>1. UNCHANGED procs
      BY <2>1 DEF ReadRows, ReadOff, Collect, Finish, Scrape, world
    <3> QED BY <1>2, <3>1, Carry
  <2>2. CASE Reconcile
    BY <1>1, <2>2, ShrinkFits DEF Reconcile, table
  <2>3. ASSUME NEW i \in Inbounds, EnsureNext(i) PROVE KProc'
    <3>1. job.want[i] \in Instance /\ Ensure(i, job.want[i]) /\ job.pc = "ensure"
      BY <2>3 DEF EnsureNext, Types, JobInv, JobRecord, InstanceOr
    <3>2. \A c \in Clients : <<i, c>> \notin touched => Fits(job.want[i], rows[i], c)
      BY <3>1 DEF KeepInv, KJob
    <3> QED BY <1>1, <3>1, <3>2, EnsureFits DEF table
  <2>4. ASSUME NEW i \in Inbounds, WriteBack(i) PROVE KProc'
    <3>1. \A j \in Inbounds : procs'[j] # Absent =>
            procs[j] # Absent /\ procs'[j].struct = procs[j].struct /\ procs'[j].secrets = procs[j].secrets
      <4>1. CASE procs[i] = Absent
        BY <2>4, <4>1 DEF WriteBack
      <4>2. CASE procs[i] # Absent
        BY <2>4, <4>2, HeldIs DEF WriteBack, Types, WorldType, Procs, Managed
      <4> QED BY <4>1, <4>2
    <3> QED BY <1>1, <3>1 DEF KeepInv, KProc, Fits, table
  <2> QED BY <2>1, <2>2, <2>3, <2>4 DEF JobStep
<1> QED BY <1>3, <1>4, <1>5 DEF KeepInv

LEMMA KeepStep == ASSUME MInv, MInv', KeepInv, [Next]_vars PROVE KeepInv'
<1> USE DEF MInv
<1>1. ASSUME UNCHANGED <<rows, off, touched, procs, job, at>> PROVE KeepInv'
  <2>1. Spared
    BY <1>1, SameTable
  <2> QED BY <1>1, <2>1, Carry DEF KeepInv, KAt
<1>2. CASE JobStep
  BY <1>2, KeepJob
<1>3. ASSUME NEW r \in Requests, RequestStep(r) PROVE KeepInv'
  BY <1>3, KeepRequest
<1>4. ASSUME NEW r \in Requests, NEW kind \in Kinds, NEW i \in Inbounds, Begin(r, kind, i) PROVE KeepInv'
  <2> DEFINE q == [pc |-> "commit", kind |-> kind, i |-> i, row |-> rows[i], inst |-> Absent]
  <2>1. UNCHANGED <<rows, off, touched, procs, job>> /\ Goto(r, q)
    BY <1>4 DEF Begin, world, Goto
  <2>2. Spared
    BY <2>1, SameTable
  <2>3. \A c \in Clients : <<i, c>> \notin touched => rows[i].on
    BY ServesIs DEF KeepInv, KRow, Types, TableType
  <2>4. AtFits(q, rows', touched')
    BY <2>1, <2>3 DEF AtFits
  <2>5. KAt'
    <3> HIDE DEF q
    <3> QED BY <2>1, <2>2, <2>4, GotoFits
  <2> QED BY <2>1, <2>2, <2>5, Carry DEF KeepInv
<1>5. ASSUME NEW i \in Inbounds, NEW c \in Clients, Poll(i, c) PROVE KeepInv'
  <2>1. Spared /\ UNCHANGED <<procs, job, at>>
    BY <1>5, SavedTable DEF Poll, world
  <2> QED BY <2>1, Carry DEF KeepInv, KAt
<1>6. CASE \E p \in Pids : Die(p) \/ \E c \in Clients : Use(p, c)
  <2>1. UNCHANGED <<rows, off, touched, procs, job, at>>
    BY <1>6 DEF Die, Use, table
  <2> QED BY <1>1, <2>1
<1>7. CASE StopAll
  <2>1. UNCHANGED <<rows, off, touched, job, at>> /\ procs' = None
    BY <1>7 DEF StopAll, table
  <2>2. Spared
    BY <2>1, SameTable
  <2>3. KProc'
    BY <2>1 DEF KProc, None
  <2> QED BY <2>1, <2>2, <2>3, Carry DEF KeepInv, KAt
<1>8. CASE Restart
  <2>1. UNCHANGED <<rows, off, touched>> /\ procs' = None /\ job' = JobIdle /\ at' = [r \in Requests |-> Idle]
    BY <1>8 DEF Restart, table
  <2>2. Spared
    BY <2>1, SameTable
  <2>3. KProc' /\ KJob' /\ KAt'
    BY <2>1, IdleType DEF KProc, KJob, KAt, None, JobIdle
  <2> QED BY <2>2, <2>3, Carry DEF KeepInv
<1>9. CASE UNCHANGED vars
  BY <1>1, <1>9 DEF vars, table, world
<1> QED BY <1>2, <1>3, <1>4, <1>5, <1>6, <1>7, <1>8, <1>9 DEF Next

(* What the job and the requests have read still serves every client that  *)
(* was served throughout.                                                  *)
THEOREM KeepInvAlways == Spec => []KeepInv
<1>1. Init => KeepInv
  BY KeepInit
<1>2. MInv /\ MInv' /\ KeepInv /\ [Next]_vars => KeepInv'
  BY KeepStep
<1> QED BY <1>1, <1>2, MInvAlways, PTL DEF Spec

(* Only a fault, or a manager that has yet to sweep, takes a process away  *)
(* from a client that was served throughout.                               *)
LEMMA SurviveStep ==
  ASSUME MInv, KeepInv, [Next]_vars, NEW p \in Pids, NEW c \in Clients,
         mtg[p] # Absent, c \in mtg[p].secrets, <<mtg[p].at, c>> \notin touched', UNCHANGED faults, swept
  PROVE  mtg'[p] # Absent /\ c \in mtg'[p].secrets
<1> USE DEF MInv
<1>1. mtg[p] \in Sidecar /\ mtg[p].at \in Inbounds
  BY DEF Types, WorldType, Sidecars_, Sidecar
<1>2. CASE UNCHANGED mtg
  BY <1>2
<1>3. ~Fault
  BY DEF Fault, Types, CountType
<1>4. CASE Reconcile
  <2>1. <<mtg[p].at, c>> \notin touched /\ job.pc = "lock"
    BY <1>4 DEF Reconcile, JobOnly, table
  <2>2. mtg[p].at \notin Unwanted
    BY <1>1, <2>1 DEF KeepInv, KJob, Fits, Unwanted
  <2>3. \A i \in Unwanted : p \notin Held(i)
    BY <1>1, <2>2 DEF Held, Unwanted, ManagerInv, FingerprintIsTrue
  <2>4. Alive = mtg
    BY AliveType DEF Types
  <2> QED BY <1>4, <2>3, <2>4, WithoutType DEF Reconcile, Types, WorldType
<1>5. ASSUME NEW i \in Inbounds, EnsureNext(i) PROVE mtg'[p] # Absent /\ c \in mtg'[p].secrets
  <2>1. /\ <<mtg[p].at, c>> \notin touched /\ job.want[i] \in Instance /\ job.pc = "ensure"
        /\ Ensure(i, job.want[i])
    BY <1>5 DEF EnsureNext, JobOnly, table, Types, JobInv, JobRecord, InstanceOr
  <2>2. \A d \in Clients : <<i, d>> \notin touched => Fits(job.want[i], rows[i], d)
    BY <2>1 DEF KeepInv, KJob
  <2> QED BY <2>1, <2>2, EnsureSurvives
<1>6. ASSUME NEW r \in Requests, Stop(r) \/ Push(r) PROVE mtg'[p] # Absent /\ c \in mtg'[p].secrets
  <2> DEFINE o == at[r]
  <2>1. <<mtg[p].at, c>> \notin touched /\ o.pc \in {"remove", "push"}
    BY <1>6 DEF Stop, Push, table
  <2>2. o \in AtRecord /\ o.i \in Inbounds /\ AtFits(o, rows, touched)
    BY <2>1, WorkFits
  <2>3. CASE Stop(r)
    <3>1. Remove(o.i) /\ \A d \in Clients : <<o.i, d>> \in touched
      BY <2>2, <2>3 DEF Stop, AtFits
    <3> QED BY <2>1, <2>2, <3>1, RemoveSurvives
  <2>4. CASE Push(r)
    <3>1. \A d \in Clients : <<o.i, d>> \notin touched => Fits(o.inst, rows[o.i], d)
      BY <2>2, <2>4 DEF Push, AtFits
    <3>2. CASE o.inst # Absent /\ Ensure(o.i, o.inst)
      <4>1. o.inst \in Instance
        BY <2>2, <3>2 DEF AtRecord, InstanceOr
      <4> QED BY <2>1, <2>2, <3>1, <3>2, <4>1, EnsureSurvives
    <3>3. CASE o.inst = Absent /\ Remove(o.i)
      <4>1. \A d \in Clients : <<o.i, d>> \in touched
        BY <3>1, <3>3 DEF Fits
      <4> QED BY <2>1, <2>2, <3>3, <4>1, RemoveSurvives
    <3>4. CASE UNCHANGED world
      BY <3>4 DEF world
    <3> QED BY <2>4, <3>2, <3>3, <3>4 DEF Push
  <2> QED BY <1>6, <2>3, <2>4
<1>7. ASSUME NEW q \in Pids, NEW d \in Clients, Use(q, d) PROVE mtg'[p] # Absent /\ c \in mtg'[p].secrets
  <2>1. CASE p = q
    <3>1. mtg'[p] = [mtg[p] EXCEPT !.count[d] = @ + 1]
      BY <1>7, <2>1 DEF Use, Types, WorldType, Sidecars_
    <3>2. mtg'[p].secrets = mtg[p].secrets
      BY <1>1, <3>1 DEF Sidecar
    <3>3. mtg'[p].count = [mtg[p].count EXCEPT ![d] = @ + 1] /\ mtg'[p].count \in Counters
      BY <1>1, <3>1 DEF Sidecar, Counters
    <3>4. mtg'[p] \in Sidecar
      BY <1>1, <3>1, <3>3 DEF Sidecar
    <3> QED BY <3>2, <3>4, NotAbsent
  <2>2. CASE p # q
    BY <1>7, <2>2 DEF Use, Types, WorldType, Sidecars_
  <2> QED BY <2>1, <2>2
<1>8. CASE JobStep
  <2>1. CASE ReadRows \/ ReadOff \/ Collect \/ Finish \/ \E i \in Inbounds : Scrape(i) \/ WriteBack(i)
    BY <1>2, <2>1 DEF ReadRows, ReadOff, Collect, Finish, Scrape, WriteBack, world
  <2> QED BY <1>4, <1>5, <1>8, <2>1 DEF JobStep
<1>9. ASSUME NEW r \in Requests, RequestStep(r) PROVE mtg'[p] # Absent /\ c \in mtg'[p].secrets
  <2>1. CASE \/ \E d \in Clients : CommitClient(r, d) \/ CommitReset(r, d)
             \/ \E row \in Forms : \E gone \in SUBSET (Clients \ row.secrets) : CommitRow(r, row, gone)
             \/ CommitToggle(r) \/ CommitDrop(r) \/ Count(r) \/ Reread(r) \/ Build(r)
    <3>1. UNCHANGED mtg
      BY <2>1 DEF CommitClient, CommitReset, CommitRow, CommitToggle, CommitDrop, Count, Reread, Build,
                  world
    <3> QED BY <1>2, <3>1
  <2> QED BY <1>6, <1>9, <2>1 DEF RequestStep
<1>10. CASE \/ \E r \in Requests, kind \in Kinds, i \in Inbounds : Begin(r, kind, i)
            \/ \E i \in Inbounds, d \in Clients : Poll(i, d)
            \/ UNCHANGED vars
  <2>1. UNCHANGED mtg
    BY <1>10 DEF Begin, Poll, vars, world
  <2> QED BY <1>2, <2>1
<1>11. ~(\E q \in Pids : Die(q)) /\ ~StopAll /\ ~Restart
  BY <1>3 DEF Die, StopAll, Restart
<1> QED BY <1>7, <1>8, <1>9, <1>10, <1>11 DEF Next

THEOREM ConnectionsSurviveAlways == Spec => ConnectionsSurvive
<1>1. MInv /\ KeepInv /\ [Next]_vars =>
        [\A p \in Pids : \A c \in Clients :
           /\ mtg[p] # Absent /\ c \in mtg[p].secrets /\ <<mtg[p].at, c>> \notin touched'
           /\ mtg'[p] = Absent \/ c \notin mtg'[p].secrets
           => faults' # faults \/ ~swept]_vars
  BY SurviveStep
<1> QED BY <1>1, MInvAlways, KeepInvAlways, PTL DEF Spec, ConnectionsSurvive

=============================================================================
