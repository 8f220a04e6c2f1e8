---------------------------- MODULE SafeHaltProofs ----------------------------
(***************************************************************************)
(* Theorems about SafeHalt, for any set of exchanges and any threshold of  *)
(* the watchdog.                                                           *)
(***************************************************************************)
EXTENDS SafeHalt, FiniteSetTheorems, TLAPS

-------------------------------------------------------------------------------
(* The inductive invariant. *)

\* What is in the memory of a process that has not come so far.
Memory ==
  /\ \A p \in Procs : phase[p] = "down" => ~halted[p]
  /\ \A p \in Procs : watch[p] = "persist" => phase[p] = "up" /\ halted[p]
  /\ clock = "persist" => phase["worker"] = "up" /\ halted["worker"]
  /\ kill # "idle" => phase["server"] = "up" /\ halted["server"]
  /\ phase["worker"] \in {"down", "pinged", "restored"} => adapters = {}

\* How far a kill switch has come that nobody has interfered with: the row is
\* engaged, and the keys it has not yet come to are on its list.
Progress ==
  /\ brake = "running" => kill # "idle" /\ ~restarted
  /\ brake = "running" /\ ~killErr /\ kill # "halt" => lock
  /\ brake = "running" /\ ~killErr /\ kill = "revoke" => active \subseteq toRevoke
  /\ brake = "running" /\ ~killErr /\ kill = "record" => active = {}
  /\ brake = "complete" => kill = "idle"

\* A worker that started after a completed kill switch has built no adapter.
NoAdapters == brake = "complete" /\ restarted => adapters = {}

IInv ==
  /\ TypeOK /\ Memory /\ Progress /\ NoAdapters
  /\ HaltIsDurable /\ KillHaltsFirst /\ KillSwitchIsComplete /\ KilledWorkerStaysDown

LEMMA InitIInv == Init => IInv
<1> SUFFICES ASSUME Init PROVE IInv
  OBVIOUS
<1> USE DEF Init, Procs, Phases
<1>1. 0 \in 0 .. Threshold
  BY ThresholdAssumption
<1>2. TypeOK
  BY <1>1 DEF TypeOK
<1>3. Memory /\ Progress /\ NoAdapters
  BY DEF Memory, Progress, NoAdapters
<1>4. HaltIsDurable /\ KillHaltsFirst /\ KillSwitchIsComplete /\ KilledWorkerStaysDown
  BY DEF HaltIsDurable, KillHaltsFirst, KillSwitchIsComplete, KilledWorkerStaysDown
<1> QED
  BY <1>2, <1>3, <1>4 DEF IInv

\* A process that ends leaves nothing behind that is out of type.
LEMMA ForgetType == ASSUME TypeOK, NEW p \in Procs, Forget(p) PROVE TypeOK'
<1> USE DEF TypeOK, Forget, Procs, Phases, dbVars, wiringVars, killVars
<1>1. 0 \in 0 .. Threshold
  BY ThresholdAssumption
<1>2. failures' \in [Procs -> 0 .. Threshold]
  BY <1>1
<1>3. /\ phase' \in [Procs -> Phases] /\ halted' \in [Procs -> BOOLEAN]
      /\ watch' \in [Procs -> {"ticking", "persist"}]
      /\ unsaved' \subseteq Procs
  OBVIOUS
<1>4. CASE p = "worker"
  BY <1>2, <1>3, <1>4
<1>5. CASE p = "server"
  BY <1>2, <1>3, <1>5
<1> QED
  BY <1>4, <1>5

\* The watchdog counts within its bound.
LEMMA FailuresType == ASSUME TypeOK, NEW p \in Procs PROVE NextFailures(p) \in 0 .. Threshold
BY ThresholdAssumption DEF TypeOK, NextFailures

\* A process that gets on is in a phase, and one that halts has a flag.
LEMMA MoveType == ASSUME TypeOK, NEW p \in Procs, NEW s \in Phases, Move(p, s)
                  PROVE  phase' \in [Procs -> Phases]
BY DEF TypeOK, Move

LEMMA FlagType == ASSUME TypeOK, NEW p \in Procs, SetFlag(p) PROVE halted' \in [Procs -> BOOLEAN]
BY DEF TypeOK, SetFlag

\* Every step keeps the types.
LEMMA TypeStep == TypeOK /\ [Next]_vars => TypeOK'
<1> SUFFICES ASSUME TypeOK, [Next]_vars PROVE TypeOK'
  OBVIOUS
<1> USE ThresholdAssumption DEF TypeOK, Procs, Phases, dbVars, haltVars, wiringVars, killVars, history
<1>1. CASE DbAway \/ DbBack
  BY <1>1 DEF DbAway, DbBack
<1>2. ASSUME NEW p \in Procs, Stop(p) PROVE TypeOK'
  BY <1>2, ForgetType DEF Stop
<1>3. ASSUME NEW p \in Procs, Start(p) PROVE TypeOK'
  BY <1>3 DEF Start, Move
<1>4. ASSUME NEW p \in Procs, Restore(p) PROVE TypeOK'
  BY <1>4 DEF Restore, Move
<1>5. ASSUME NEW p \in Procs, WatchdogStep(p) PROVE TypeOK'
  <2>1. CASE WatchdogPing(p)
    <3>1. failures' \in [Procs -> 0 .. Threshold]
      BY <2>1, FailuresType DEF WatchdogPing
    <3>2. halted' \in [Procs -> BOOLEAN] /\ watch' \in [Procs -> {"ticking", "persist"}]
      <4>1. halted' = halted \/ halted' = [halted EXCEPT ![p] = TRUE]
        BY <2>1 DEF WatchdogPing, SetFlag
      <4>2. watch' = watch \/ watch' = [watch EXCEPT ![p] = "persist"]
        BY <2>1 DEF WatchdogPing
      <4>3. halted \in [Procs -> BOOLEAN] /\ watch \in [Procs -> {"ticking", "persist"}]
        OBVIOUS
      <4>4. halted' \in [Procs -> BOOLEAN]
        BY ONLY <4>1, <4>3, p \in Procs
      <4>5. watch' \in [Procs -> {"ticking", "persist"}]
        BY <4>2, <4>3
      <4> QED
        BY <4>4, <4>5
    <3> QED
      BY <2>1, <3>1, <3>2 DEF WatchdogPing
  <2>2. CASE WatchdogPersist(p)
    BY <2>2 DEF WatchdogPersist, EngageLock
  <2> QED
    BY <1>5, <2>1, <2>2 DEF WatchdogStep
<1>6. CASE StartStep
  <2>1. CASE Forget("server") \/ Forget("worker")
    BY <2>1, ForgetType
  <2>2. CASE BuildAdapter
    BY <2>2 DEF BuildAdapter
  <2>3. CASE ~(Forget("server") \/ Forget("worker")) /\ ~BuildAdapter
    <3>1. CASE WorkerPreconditions
      BY <2>3, <3>1 DEF WorkerPreconditions, Move
    <3>2. ASSUME ServerReady \/ AdaptersBuilt \/ WorkerReady PROVE TypeOK'
      <4>1. /\ \E p \in Procs, s \in Phases : Move(p, s)
            /\ UNCHANGED <<dbVars, haltVars, wiringVars, killVars, history>>
        BY <2>3, <3>2 DEF ServerReady, AdaptersBuilt, WorkerReady, Reads
      <4>2. phase' \in [Procs -> Phases]
        BY <4>1, MoveType
      <4> QED
        BY <4>1, <4>2
    <3> QED
      BY <1>6, <2>3, <3>1, <3>2 DEF StartStep
  <2> QED
    BY <2>1, <2>2, <2>3
<1>7. CASE ClockBeyondLimit \/ ClockPersist
  <2>1. CASE ClockBeyondLimit
    <3>1. halted' \in [Procs -> BOOLEAN]
      BY <2>1, FlagType DEF ClockBeyondLimit
    <3> QED
      BY <2>1, <3>1 DEF ClockBeyondLimit
  <2>2. CASE ClockPersist
    BY <2>2 DEF ClockPersist, EngageLock
  <2> QED
    BY <1>7, <2>1, <2>2
<1>8. CASE KillEngage \/ KillPersist \/ KillList
  BY <1>8 DEF KillEngage, KillPersist, KillList, SetFlag, EngageLock
<1>9. CASE KillRevoke \/ KillRevoked \/ KillRecord
  BY <1>9 DEF KillRevoke, KillRevoked, KillRecord, RevokeError
<1>10. ASSUME NEW k \in Keys, SaveKey(k) \/ RevokeKey(k) PROVE TypeOK'
  BY <1>10 DEF SaveKey, RevokeKey
<1>11. CASE ReleaseLock
  BY <1>11 DEF ReleaseLock
<1>12. CASE UNCHANGED vars
  BY <1>12 DEF vars
<1> QED
  BY <1>1, <1>2, <1>3, <1>4, <1>5, <1>6, <1>7, <1>8, <1>9, <1>10, <1>11, <1>12 DEF Next, KillStep

\* Memory is inductive by itself.
LEMMA MemoryStep == TypeOK /\ Memory /\ [Next]_vars => Memory'
<1> SUFFICES ASSUME TypeOK /\ Memory, [Next]_vars PROVE Memory'
  OBVIOUS
<1> USE DEF Memory, TypeOK, Procs, Phases, dbVars, haltVars, wiringVars, killVars, history
<1>1. CASE DbAway \/ DbBack
  BY <1>1 DEF DbAway, DbBack
<1>2. ASSUME NEW p \in Procs, Stop(p) PROVE Memory'
  BY <1>2 DEF Stop, Forget
<1>3. ASSUME NEW p \in Procs, Start(p) PROVE Memory'
  BY <1>3 DEF Start, Move
<1>4. ASSUME NEW p \in Procs, Restore(p) PROVE Memory'
  BY <1>4 DEF Restore, Move
<1>5. ASSUME NEW p \in Procs, WatchdogPing(p) PROVE Memory'
  BY <1>5 DEF WatchdogPing, SetFlag
<1>6. ASSUME NEW p \in Procs, WatchdogPersist(p) PROVE Memory'
  BY <1>6 DEF WatchdogPersist, EngageLock
<1>7. CASE ServerReady \/ WorkerPreconditions \/ WorkerReady
  BY <1>7 DEF ServerReady, WorkerPreconditions, WorkerReady, Reads, Forget, Move
<1>8. CASE BuildAdapter \/ AdaptersBuilt
  BY <1>8 DEF BuildAdapter, AdaptersBuilt, Forget, Move
<1>9. CASE ClockBeyondLimit \/ ClockPersist
  BY <1>9 DEF ClockBeyondLimit, ClockPersist, SetFlag, EngageLock
<1>10. CASE KillEngage \/ KillPersist
  BY <1>10 DEF KillEngage, KillPersist, SetFlag, EngageLock
<1>11. CASE KillList
  BY <1>11 DEF KillList
<1>12. CASE KillRevoke \/ KillRevoked
  BY <1>12 DEF KillRevoke, KillRevoked, RevokeError
<1>13. CASE KillRecord
  BY <1>13 DEF KillRecord
<1>14. ASSUME NEW k \in Keys, SaveKey(k) \/ RevokeKey(k) PROVE Memory'
  BY <1>14 DEF SaveKey, RevokeKey
<1>15. CASE ReleaseLock
  BY <1>15 DEF ReleaseLock
<1>16. CASE UNCHANGED vars
  BY <1>16 DEF vars
<1> QED
  BY <1>1, <1>2, <1>3, <1>4, <1>5, <1>6, <1>7, <1>8, <1>9, <1>10, <1>11, <1>12, <1>13, <1>14, <1>15, <1>16
     DEF Next, WatchdogStep, StartStep, KillStep

\* The lock row follows the flags.
LEMMA DurableStep == TypeOK /\ Memory /\ HaltIsDurable /\ [Next]_vars => HaltIsDurable'
<1> SUFFICES ASSUME TypeOK /\ Memory /\ HaltIsDurable, [Next]_vars PROVE HaltIsDurable'
  OBVIOUS
<1> USE DEF Memory, HaltIsDurable, Writing, TypeOK, Procs, Phases, dbVars, haltVars, wiringVars, killVars, history
<1>1. CASE DbAway \/ DbBack
  BY <1>1 DEF DbAway, DbBack
<1>2. ASSUME NEW p \in Procs, Stop(p) PROVE HaltIsDurable'
  BY <1>2 DEF Stop, Forget
<1>3. ASSUME NEW p \in Procs, Start(p) PROVE HaltIsDurable'
  BY <1>3 DEF Start, Move
<1>4. ASSUME NEW p \in Procs, Restore(p) PROVE HaltIsDurable'
  BY <1>4 DEF Restore, Move
<1>5. ASSUME NEW p \in Procs, WatchdogPing(p) PROVE HaltIsDurable'
  BY <1>5 DEF WatchdogPing, SetFlag
<1>6. ASSUME NEW p \in Procs, WatchdogPersist(p) PROVE HaltIsDurable'
  BY <1>6 DEF WatchdogPersist, EngageLock
<1>7. CASE ServerReady \/ WorkerPreconditions \/ WorkerReady
  BY <1>7 DEF ServerReady, WorkerPreconditions, WorkerReady, Reads, Forget, Move
<1>8. CASE BuildAdapter \/ AdaptersBuilt
  BY <1>8 DEF BuildAdapter, AdaptersBuilt, Forget, Move
<1>9. CASE ClockBeyondLimit \/ ClockPersist
  BY <1>9 DEF ClockBeyondLimit, ClockPersist, SetFlag, EngageLock
<1>10. CASE KillEngage \/ KillPersist
  BY <1>10 DEF KillEngage, KillPersist, SetFlag, EngageLock
<1>11. CASE KillList
  BY <1>11 DEF KillList
<1>12. CASE KillRevoke \/ KillRevoked
  BY <1>12 DEF KillRevoke, KillRevoked, RevokeError
<1>13. CASE KillRecord
  BY <1>13 DEF KillRecord
<1>14. ASSUME NEW k \in Keys, SaveKey(k) \/ RevokeKey(k) PROVE HaltIsDurable'
  BY <1>14 DEF SaveKey, RevokeKey
<1>15. CASE ReleaseLock
  BY <1>15 DEF ReleaseLock
<1>16. CASE UNCHANGED vars
  BY <1>16 DEF vars
<1> QED
  BY <1>1, <1>2, <1>3, <1>4, <1>5, <1>6, <1>7, <1>8, <1>9, <1>10, <1>11, <1>12, <1>13, <1>14, <1>15, <1>16
     DEF Next, WatchdogStep, StartStep, KillStep

\* Writing the lock row never takes it back, and reaches a database that is there.
LEMMA EngageKeeps == ASSUME TypeOK, NEW p \in Procs, EngageLock(p) PROVE (lock => lock') /\ (db => lock')
<1>1. CASE db
  BY <1>1 DEF EngageLock
<1>2. CASE ~db
  <2>1. lock' = lock \/ lock' = TRUE
    BY <1>2 DEF EngageLock
  <2> QED
    BY <1>2, <2>1
<1> QED
  BY <1>1, <1>2

\* The kill switch, step by step.
LEMMA KillStepKeeps == TypeOK /\ Memory /\ Progress /\ KillHaltsFirst /\ KillSwitchIsComplete /\ [Next]_vars => (Progress /\ KillHaltsFirst /\ KillSwitchIsComplete)'
<1> SUFFICES ASSUME TypeOK /\ Memory /\ Progress /\ KillHaltsFirst /\ KillSwitchIsComplete, [Next]_vars PROVE (Progress /\ KillHaltsFirst /\ KillSwitchIsComplete)'
  OBVIOUS
<1> USE DEF Memory, Progress, KillHaltsFirst, KillSwitchIsComplete, TypeOK, Procs, Phases, dbVars, haltVars, wiringVars, killVars, history
<1>1. CASE DbAway \/ DbBack
  BY <1>1 DEF DbAway, DbBack
<1>2. ASSUME NEW p \in Procs, Stop(p) PROVE (Progress /\ KillHaltsFirst /\ KillSwitchIsComplete)'
  BY <1>2 DEF Stop, Forget
<1>3. ASSUME NEW p \in Procs, Start(p) PROVE (Progress /\ KillHaltsFirst /\ KillSwitchIsComplete)'
  BY <1>3 DEF Start, Move
<1>4. ASSUME NEW p \in Procs, Restore(p) PROVE (Progress /\ KillHaltsFirst /\ KillSwitchIsComplete)'
  BY <1>4 DEF Restore, Move
<1>5. ASSUME NEW p \in Procs, WatchdogPing(p) PROVE (Progress /\ KillHaltsFirst /\ KillSwitchIsComplete)'
  BY <1>5 DEF WatchdogPing, SetFlag
<1>6. ASSUME NEW p \in Procs, WatchdogPersist(p) PROVE (Progress /\ KillHaltsFirst /\ KillSwitchIsComplete)'
  BY <1>6, EngageKeeps DEF WatchdogPersist
<1>7. CASE ServerReady \/ WorkerPreconditions \/ WorkerReady
  BY <1>7 DEF ServerReady, WorkerPreconditions, WorkerReady, Reads, Forget, Move
<1>8. CASE BuildAdapter \/ AdaptersBuilt
  BY <1>8 DEF BuildAdapter, AdaptersBuilt, Forget, Move
<1>9. CASE ClockBeyondLimit \/ ClockPersist
  BY <1>9, EngageKeeps DEF ClockBeyondLimit, ClockPersist, SetFlag
<1>10. CASE KillEngage \/ KillPersist
  <2>1. CASE KillEngage
    BY <2>1 DEF KillEngage, SetFlag
  <2>2. CASE KillPersist
    BY <2>2, EngageKeeps DEF KillPersist
  <2> QED
    BY <1>10, <2>1, <2>2
<1>11. CASE KillList
  BY <1>11 DEF KillList
<1>12. CASE KillRevoke \/ KillRevoked
  BY <1>12 DEF KillRevoke, KillRevoked, RevokeError
<1>13. CASE KillRecord
  BY <1>13 DEF KillRecord
<1>14. ASSUME NEW k \in Keys, SaveKey(k) \/ RevokeKey(k) PROVE (Progress /\ KillHaltsFirst /\ KillSwitchIsComplete)'
  BY <1>14 DEF SaveKey, RevokeKey
<1>15. CASE ReleaseLock
  BY <1>15 DEF ReleaseLock
<1>16. CASE UNCHANGED vars
  BY <1>16 DEF vars
<1> QED
  BY <1>1, <1>2, <1>3, <1>4, <1>5, <1>6, <1>7, <1>8, <1>9, <1>10, <1>11, <1>12, <1>13, <1>14, <1>15, <1>16
     DEF Next, WatchdogStep, StartStep, KillStep

\* The adapters are counted by a number.
LEMMA AdaptersCount == ASSUME TypeOK PROVE Cardinality(adapters) \in Nat
BY KeysAssumption, FS_Subset, FS_CardinalityType DEF TypeOK

\* A worker that starts without keys.
LEMMA WorkerStep == TypeOK /\ Memory /\ Progress /\ NoAdapters /\ KillSwitchIsComplete /\ KilledWorkerStaysDown /\ [Next]_vars => (NoAdapters /\ KilledWorkerStaysDown)'
<1> SUFFICES ASSUME TypeOK /\ Memory /\ Progress /\ NoAdapters /\ KillSwitchIsComplete /\ KilledWorkerStaysDown, [Next]_vars PROVE (NoAdapters /\ KilledWorkerStaysDown)'
  OBVIOUS
<1> USE DEF Memory, Progress, NoAdapters, KillSwitchIsComplete, KilledWorkerStaysDown, Loads, TypeOK, Procs, Phases, dbVars, haltVars, wiringVars, killVars, history
<1>1. CASE DbAway \/ DbBack
  BY <1>1 DEF DbAway, DbBack
<1>2. ASSUME NEW p \in Procs, Stop(p) PROVE (NoAdapters /\ KilledWorkerStaysDown)'
  BY <1>2 DEF Stop, Forget
<1>3. ASSUME NEW p \in Procs, Start(p) PROVE (NoAdapters /\ KilledWorkerStaysDown)'
  BY <1>3 DEF Start, Move
<1>4. ASSUME NEW p \in Procs, Restore(p) PROVE (NoAdapters /\ KilledWorkerStaysDown)'
  BY <1>4 DEF Restore, Move
<1>5. ASSUME NEW p \in Procs, WatchdogPing(p) PROVE (NoAdapters /\ KilledWorkerStaysDown)'
  BY <1>5 DEF WatchdogPing, SetFlag
<1>6. ASSUME NEW p \in Procs, WatchdogPersist(p) PROVE (NoAdapters /\ KilledWorkerStaysDown)'
  BY <1>6, EngageKeeps DEF WatchdogPersist
<1>7. CASE ServerReady \/ WorkerPreconditions \/ WorkerReady
  BY <1>7 DEF ServerReady, WorkerPreconditions, WorkerReady, Reads, Forget, Move
<1>8. CASE BuildAdapter \/ AdaptersBuilt
  <2>1. CASE BuildAdapter
    <3>1. CASE brake = "complete" /\ restarted
      <4>1. adapters = {} /\ active = {}
        BY <3>1
      <4>2. adapters' = {} /\ UNCHANGED phase
        BY <2>1, <4>1 DEF BuildAdapter
      <4> QED
        BY <2>1, <4>2 DEF BuildAdapter
    <3>2. CASE ~(brake = "complete" /\ restarted)
      BY <2>1, <3>2 DEF BuildAdapter
    <3> QED
      BY <3>1, <3>2
  <2>2. CASE AdaptersBuilt
    <3>1. Cardinality({}) = 0
      BY FS_EmptySet
    <3>2. brake = "complete" /\ restarted => Cardinality(adapters) < 2
      BY <3>1
    <3> QED
      <4>1. CASE Forget("worker")
        BY <4>1 DEF Forget
      <4>2. CASE ~Forget("worker")
        <5>1. ~(brake = "complete" /\ restarted)
          BY <2>2, <3>2, <4>2, AdaptersCount DEF AdaptersBuilt
        <5> QED
          BY <2>2, <4>2, <5>1 DEF AdaptersBuilt
      <4> QED
        BY <4>1, <4>2
  <2> QED
    BY <1>8, <2>1, <2>2
<1>9. CASE ClockBeyondLimit \/ ClockPersist
  BY <1>9, EngageKeeps DEF ClockBeyondLimit, ClockPersist, SetFlag
<1>10. CASE KillEngage \/ KillPersist
  BY <1>10 DEF KillEngage, KillPersist, SetFlag, EngageLock
<1>11. CASE KillList
  BY <1>11 DEF KillList
<1>12. CASE KillRevoke \/ KillRevoked
  BY <1>12 DEF KillRevoke, KillRevoked, RevokeError
<1>13. CASE KillRecord
  BY <1>13 DEF KillRecord
<1>14. ASSUME NEW k \in Keys, SaveKey(k) \/ RevokeKey(k) PROVE (NoAdapters /\ KilledWorkerStaysDown)'
  BY <1>14 DEF SaveKey, RevokeKey
<1>15. CASE ReleaseLock
  BY <1>15 DEF ReleaseLock
<1>16. CASE UNCHANGED vars
  BY <1>16 DEF vars
<1> QED
  BY <1>1, <1>2, <1>3, <1>4, <1>5, <1>6, <1>7, <1>8, <1>9, <1>10, <1>11, <1>12, <1>13, <1>14, <1>15, <1>16
     DEF Next, WatchdogStep, StartStep, KillStep

-------------------------------------------------------------------------------
(* The theorems. *)

LEMMA Inductive == Spec => []IInv
<1>1. IInv /\ [Next]_vars => IInv'
  BY TypeStep, MemoryStep, DurableStep, KillStepKeeps, WorkerStep DEF IInv
<1> QED
  BY InitIInv, <1>1, PTL DEF Spec

\* The variables keep their types, whatever fails and whoever restarts.
THEOREM TypeCorrect == Spec => []TypeOK
BY Inductive, PTL DEF IInv

\* A halt is in the lock row, about to be written there, refused by the database,
\* or released by the owner (Halter.Halt).
THEOREM HaltDurable == Spec => []HaltIsDurable
BY Inductive, PTL DEF IInv

\* The kill switch revokes nothing before the server is halted and the lock row is
\* engaged or known not to be (Manager.KillSwitch).
THEOREM HaltFirst == Spec => []KillHaltsFirst
BY Inductive, PTL DEF IInv

\* A kill switch that reported success leaves the lock engaged and no key behind
\* (Manager.KillSwitch, RevokeAll).
THEOREM KillComplete == Spec => []KillSwitchIsComplete
BY Inductive, PTL DEF IInv

\* No worker started after it gets to trading (BuildLiveAdapters).
THEOREM WorkerStaysDown == Spec => []KilledWorkerStaysDown
BY Inductive, PTL DEF IInv
===============================================================================
