------------------------------- MODULE SafeHalt -------------------------------
(***************************************************************************)
(* SAFE_HALT and the kill switch over the two processes of the program in  *)
(* live mode: the server (Mini App, kill switch) and the worker (trading). *)
(* Each process keeps the halt flag in memory and reads the shared lock    *)
(* row system_locks only when it starts; halting sets the flag, then the   *)
(* row.  The database may go away between any two statements, and either   *)
(* process may die and start again at any time.                            *)
(*                                                                         *)
(* A statement sent while the database is away returns an error; it may    *)
(* have taken effect all the same.                                         *)
(***************************************************************************)
EXTENDS Naturals, FiniteSets

CONSTANTS
  Keys,        \* exchanges whose trade key the owner may store
  Threshold    \* DBWatchdog.Threshold

ASSUME KeysAssumption == IsFiniteSet(Keys)
ASSUME ThresholdAssumption == Threshold \in Nat \ {0}

VARIABLES
  db,          \* is PostgreSQL reachable?
  lock,        \* system_locks: SAFE_HALT engaged
  active,      \* exchange_credentials: the trade keys not revoked
  phase,       \* how far each process has come
  halted,      \* Halter.halted of each process
  failures,    \* DBWatchdog.Run: failed pings in a row
  watch,       \* DBWatchdog.Run: ticking, or inside Halt before Engage
  clock,       \* the worker's clock callback: idle, or inside Halt
  toLoad, adapters,         \* BuildLiveAdapters: exchanges left, adapters built
  kill, toRevoke, killErr,  \* Manager.KillSwitch: step, items left, any error
  unsaved,     \* history: processes whose lock row was refused or released
  brake,       \* history: what became of the last kill switch
  restarted    \* history: did the worker start after that kill switch?

dbVars == <<db, lock, active>>
haltVars == <<halted, failures, watch, clock>>
wiringVars == <<toLoad, adapters>>
killVars == <<kill, toRevoke, killErr>>
history == <<unsaved, brake, restarted>>
vars == <<dbVars, phase, haltVars, wiringVars, killVars, history>>

Procs == {"server", "worker"}
Phases == {"down", "pinged", "restored", "wiring", "wired", "up"}

TypeOK ==
  /\ db \in BOOLEAN /\ lock \in BOOLEAN /\ active \subseteq Keys
  /\ phase \in [Procs -> Phases]
  /\ halted \in [Procs -> BOOLEAN]
  /\ failures \in [Procs -> 0 .. Threshold]
  /\ watch \in [Procs -> {"ticking", "persist"}]
  /\ clock \in {"idle", "persist"}
  /\ toLoad \subseteq Keys /\ adapters \subseteq Keys
  /\ kill \in {"idle", "halt", "list", "revoke", "record"}
  /\ toRevoke \subseteq Keys /\ killErr \in BOOLEAN
  /\ unsaved \subseteq Procs
  /\ brake \in {"none", "running", "complete"}
  /\ restarted \in BOOLEAN

Init ==
  /\ db = TRUE /\ lock = FALSE /\ active = Keys
  /\ phase = [p \in Procs |-> "down"]
  /\ halted = [p \in Procs |-> FALSE]
  /\ failures = [p \in Procs |-> 0]
  /\ watch = [p \in Procs |-> "ticking"]
  /\ clock = "idle"
  /\ toLoad = {} /\ adapters = {}
  /\ kill = "idle" /\ toRevoke = {} /\ killErr = FALSE
  /\ unsaved = {} /\ brake = "none" /\ restarted = FALSE

-------------------------------------------------------------------------------
(* The database comes and goes. *)

DbAway == db /\ db' = FALSE
          /\ UNCHANGED <<lock, active, phase, haltVars, wiringVars, killVars, history>>
DbBack == ~db /\ db' = TRUE
          /\ UNCHANGED <<lock, active, phase, haltVars, wiringVars, killVars, history>>

-------------------------------------------------------------------------------
(* Starting and stopping a process. *)

\* All a process keeps in memory is gone, the kill switch of a server included.
Forget(p) ==
  /\ phase' = [phase EXCEPT ![p] = "down"]
  /\ halted' = [halted EXCEPT ![p] = FALSE]
  /\ failures' = [failures EXCEPT ![p] = 0]
  /\ watch' = [watch EXCEPT ![p] = "ticking"]
  /\ unsaved' = unsaved \ {p}
  /\ \/ /\ p = "worker"
        /\ clock' = "idle" /\ toLoad' = {} /\ adapters' = {}
        /\ UNCHANGED <<killVars, brake>>
     \/ /\ p = "server"
        /\ kill' = "idle" /\ toRevoke' = {} /\ killErr' = FALSE
        /\ brake' = IF brake = "running" THEN "none" ELSE brake
        /\ UNCHANGED <<clock, wiringVars>>
  /\ UNCHANGED <<dbVars, restarted>>

\* The process is killed, or a signal or a failed component ends it.
Stop(p) == phase[p] # "down" /\ Forget(p)

Move(p, ph) == phase' = [phase EXCEPT ![p] = ph]

\* NewPool refuses to start without a first ping.
Start(p) ==
  /\ phase[p] = "down" /\ db
  /\ Move(p, "pinged")
  /\ restarted' = IF p = "worker" THEN brake = "complete" ELSE restarted
  /\ UNCHANGED <<dbVars, haltVars, wiringVars, killVars, unsaved, brake>>

\* RestoreFromDB: IsEngaged takes every error for a lock that is not engaged.
Restore(p) ==
  /\ phase[p] = "pinged"
  /\ halted' = [halted EXCEPT ![p] = db /\ lock]
  /\ Move(p, "restored")
  /\ UNCHANGED <<dbVars, failures, watch, clock, wiringVars, killVars, history>>

\* A start-up step that must get an answer: otherwise the process gives up.
Reads(p, from, to) ==
  /\ phase[p] = from
  /\ \/ ~db /\ Forget(p)
     \/ /\ db /\ Move(p, to)
        /\ UNCHANGED <<dbVars, haltVars, wiringVars, killVars, history>>

\* The settings row; then the server runs, without a look at the keys.
ServerReady == Reads("server", "restored", "up")

\* The settings row and the preconditions, the owner among them.
WorkerPreconditions ==
  /\ phase["worker"] = "restored"
  /\ \/ ~db /\ Forget("worker")
     \/ /\ db /\ Move("worker", "wiring")
        /\ toLoad' = Keys
        /\ UNCHANGED <<dbVars, haltVars, adapters, killVars, history>>

\* Faulty variant: the query forgets revoked_at.
Loads_Revoked(k) == db
\* LoadDecrypted finds a key that is not revoked; the caller takes every error
\* for a key that is not configured.
Loads(k) == db /\ k \in active

\* One exchange of BuildLiveAdapters.
BuildAdapter ==
  /\ phase["worker"] = "wiring"
  /\ \E k \in toLoad :
       /\ toLoad' = toLoad \ {k}
       /\ adapters' = IF Loads(k) THEN adapters \cup {k} ELSE adapters
  /\ UNCHANGED <<dbVars, phase, haltVars, killVars, history>>

\* Fewer than two adapters: the worker gives up.
AdaptersBuilt ==
  /\ phase["worker"] = "wiring" /\ toLoad = {}
  /\ \/ Cardinality(adapters) < 2 /\ Forget("worker")
     \/ /\ Cardinality(adapters) >= 2 /\ Move("worker", "wired")
        /\ UNCHANGED <<dbVars, haltVars, wiringVars, killVars, history>>

\* Engine.Restore reads the positions; then the components run.
WorkerReady == Reads("worker", "wired", "up")

-------------------------------------------------------------------------------
(* Halter.Halt: the flag first, then the row. *)

SetFlag(p) == halted' = [halted EXCEPT ![p] = TRUE]

\* Faulty variant: a process that is halted does not write the row.
EngageLock_NotWritten(p) == UNCHANGED <<lock, unsaved>>
\* LocksRepo.Engage: the row, unless the database is away.
EngageLock(p) ==
  \/ db /\ lock' = TRUE /\ unsaved' = unsaved \ {p}
  \/ ~db /\ lock' \in {lock, TRUE} /\ unsaved' = unsaved \cup {p}

\* Faulty variant: a failed ping is not added to those before it.
NextFailures_Restarts(p) == IF db THEN 0 ELSE 1
\* Faulty variant: a good ping takes one failure back.
NextFailures_Leak(p) ==
  IF db THEN failures[p] - 1 ELSE IF failures[p] < Threshold THEN failures[p] + 1 ELSE Threshold
\* A ping that fails is counted, one that succeeds ends the row of failures.
NextFailures(p) ==
  IF db THEN 0 ELSE IF failures[p] < Threshold THEN failures[p] + 1 ELSE Threshold

\* DBWatchdog.Run: one tick.
WatchdogPing(p) ==
  /\ phase[p] = "up" /\ watch[p] = "ticking"
  /\ failures' = [failures EXCEPT ![p] = NextFailures(p)]
  /\ \/ /\ failures'[p] >= Threshold /\ ~halted[p]
        /\ SetFlag(p)
        /\ watch' = [watch EXCEPT ![p] = "persist"]
     \/ /\ failures'[p] < Threshold \/ halted[p]
        /\ UNCHANGED <<halted, watch>>
  /\ UNCHANGED <<dbVars, phase, clock, wiringVars, killVars, history>>

\* The watchdog ignores the error: it will not write the row again.
WatchdogPersist(p) ==
  /\ watch[p] = "persist"
  /\ EngageLock(p)
  /\ watch' = [watch EXCEPT ![p] = "ticking"]
  /\ UNCHANGED <<db, active, phase, halted, failures, clock, wiringVars, killVars,
                 brake, restarted>>

\* The worker's clock service measures an offset beyond the limit.
ClockBeyondLimit ==
  /\ phase["worker"] = "up" /\ clock = "idle"
  /\ SetFlag("worker")
  /\ clock' = "persist"
  /\ UNCHANGED <<dbVars, phase, failures, watch, wiringVars, killVars, history>>

ClockPersist ==
  /\ clock = "persist"
  /\ EngageLock("worker")
  /\ clock' = "idle"
  /\ UNCHANGED <<db, active, phase, halted, failures, watch, wiringVars, killVars,
                 brake, restarted>>

-------------------------------------------------------------------------------
(* Manager.KillSwitch, on the server: halt, revoke every key, record. *)

\* Faulty variant: the keys are revoked first and the halt is left for later.
KillEngage_RevokesFirst ==
  /\ phase["server"] = "up" /\ kill = "idle"
  /\ kill' = "list" /\ killErr' = FALSE
  /\ brake' = "running" /\ restarted' = FALSE
  /\ UNCHANGED <<dbVars, phase, haltVars, wiringVars, toRevoke, unsaved>>

\* The first step of the kill switch: the server's own flag.
KillEngage ==
  /\ phase["server"] = "up" /\ kill = "idle"
  /\ SetFlag("server")
  /\ kill' = "halt" /\ killErr' = FALSE
  /\ brake' = "running" /\ restarted' = FALSE
  /\ UNCHANGED <<dbVars, phase, failures, watch, clock, wiringVars, toRevoke, unsaved>>

KillPersist ==
  /\ kill = "halt"
  /\ EngageLock("server")
  /\ kill' = "list" /\ killErr' = (killErr \/ ~db)
  /\ UNCHANGED <<db, active, phase, haltVars, wiringVars, toRevoke, brake, restarted>>

\* RevokeAll lists the keys; without the list there is nothing to revoke.
KillList ==
  /\ kill = "list"
  /\ \/ db /\ toRevoke' = active /\ kill' = "revoke" /\ UNCHANGED killErr
     \/ ~db /\ kill' = "record" /\ killErr' = TRUE /\ UNCHANGED toRevoke
  /\ UNCHANGED <<dbVars, phase, haltVars, wiringVars, history>>

\* Faulty variant: an error of one key is forgotten.
RevokeError_Forgotten(k) == FALSE
\* Revoke answers with an error: no database, or the key was revoked meanwhile.
RevokeError(k) == ~db \/ k \notin active

\* One item of RevokeAll; the loop goes on after an error.
KillRevoke ==
  /\ kill = "revoke"
  /\ \E k \in toRevoke :
       /\ active' \in {active \ {k}} \cup (IF db THEN {} ELSE {active})
       /\ toRevoke' = toRevoke \ {k}
       /\ killErr' = (killErr \/ RevokeError(k))
  /\ UNCHANGED <<db, lock, phase, haltVars, wiringVars, kill, history>>

KillRevoked ==
  /\ kill = "revoke" /\ toRevoke = {}
  /\ kill' = "record"
  /\ UNCHANGED <<dbVars, phase, haltVars, wiringVars, toRevoke, killErr, history>>

\* The record in key_rotation_log, and the answer to the owner: the error of any
\* step is an error of the whole.
KillRecord ==
  /\ kill = "record"
  /\ kill' = "idle" /\ killErr' = FALSE
  /\ brake' = IF brake = "running" /\ db /\ ~killErr THEN "complete" ELSE "none"
  /\ UNCHANGED <<dbVars, phase, haltVars, wiringVars, toRevoke, unsaved, restarted>>

-------------------------------------------------------------------------------
(* The owner: keys through the server, the lock by SQL, as the manual says. *)

\* A key is stored again, which takes its revocation back.
SaveKey(k) ==
  /\ phase["server"] = "up" /\ db
  /\ active' = active \cup {k}
  /\ brake' = "none"
  /\ UNCHANGED <<db, lock, phase, haltVars, wiringVars, killVars, unsaved, restarted>>

RevokeKey(k) ==
  /\ phase["server"] = "up" /\ db
  /\ active' = active \ {k}
  /\ UNCHANGED <<db, lock, phase, haltVars, wiringVars, killVars, history>>

\* Halter.Resume has no caller: only the row changes, no process hears of it.
ReleaseLock ==
  /\ db /\ lock
  /\ lock' = FALSE
  /\ unsaved' = {p \in Procs : phase[p] # "down"}
  /\ brake' = "none"
  /\ UNCHANGED <<db, active, phase, haltVars, wiringVars, killVars, restarted>>

-------------------------------------------------------------------------------
KillStep == KillPersist \/ KillList \/ KillRevoke \/ KillRevoked \/ KillRecord
WatchdogStep(p) == WatchdogPing(p) \/ WatchdogPersist(p)
StartStep == ServerReady \/ WorkerPreconditions \/ BuildAdapter \/ AdaptersBuilt \/ WorkerReady

Next ==
  \/ DbAway \/ DbBack
  \/ \E p \in Procs : Stop(p) \/ Start(p) \/ Restore(p) \/ WatchdogStep(p)
  \/ StartStep
  \/ ClockBeyondLimit \/ ClockPersist
  \/ KillEngage \/ KillStep
  \/ \E k \in Keys : SaveKey(k) \/ RevokeKey(k)
  \/ ReleaseLock

\* The watchdog's ticker fires and its calls return; nothing is assumed of the
\* database, the owner, the clock or the start of a process.
Fairness == \A p \in Procs : WF_vars(WatchdogStep(p))

Spec == Init /\ [][Next]_vars /\ Fairness

-------------------------------------------------------------------------------
(* Properties. *)

\* A process that stands still has the lock row on its side, so that its halt
\* outlives it, unless the row was refused by the database or released by the
\* owner, or is about to be written (Halt: lifecycle.go:87).
Writing ==
  {p \in Procs : \/ watch[p] = "persist"
                 \/ p = "worker" /\ clock = "persist"
                 \/ p = "server" /\ kill = "halt"}
HaltIsDurable == \A p \in Procs : halted[p] => lock \/ p \in unsaved \cup Writing

\* The kill switch touches keys and journal only when the server is halted and,
\* unless an error is on its way to the owner, the lock row is engaged
\* (KillSwitch: keyrotation.go:84, SAFE_HALT first).
KillHaltsFirst ==
  kill \in {"list", "revoke", "record"} =>
    halted["server"] /\ (lock \/ killErr \/ brake = "none")

\* A kill switch that reported success has left the lock engaged and no trade key
\* behind, until the owner stores a key or releases the lock, whatever failed
\* before and whoever restarts (KillSwitch, RevokeAll).
KillSwitchIsComplete == brake = "complete" => lock /\ active = {}

\* After such a kill switch no worker gets through its start: there are no keys to
\* build adapters from (BuildLiveAdapters, "live adapters are no longer built").
KilledWorkerStaysDown ==
  brake = "complete" /\ restarted => phase["worker"] \notin {"wired", "up"}

\* A process that has lost the database halts by itself, if the outage lasts and
\* the process does (DBWatchdog.Run).
WatchdogHalts ==
  \A p \in Procs :
    (phase[p] = "up" /\ ~db) ~> (db \/ halted[p] \/ phase[p] # "up")

\* What the manual says of the kill switch: trading stands once its first step is
\* over (MANUAL.md:234).  Tick goes on to look for an entry when its flag is clear.
WorkerTrades == phase["worker"] = "up" /\ ~halted["worker"]
KillSwitchStopsWorker == brake = "complete" => ~WorkerTrades

===============================================================================
