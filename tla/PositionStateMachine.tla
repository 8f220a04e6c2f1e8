------------------------- MODULE PositionStateMachine -------------------------
(***************************************************************************)
(* One portfolio.Position, the goroutines that call its methods, and the   *)
(* positions / position_transitions rows its Persister writes.             *)
(*                                                                         *)
(* TransitionTo moves the state in memory under the mutex, releases the    *)
(* mutex, writes the transition in one database transaction and takes the  *)
(* mutex again to finish or to roll back.  Between the two critical        *)
(* sections other goroutines run, the quantities may change, the process   *)
(* may die, and a commit may succeed although its acknowledgement is lost. *)
(***************************************************************************)
EXTENDS PositionStates, Integers, Sequences

CONSTANTS
  Callers,   \* goroutines that may call TransitionTo
  Deltas,    \* net quantities SetQuantities may leave behind
  MaxLog,    \* bound on committed transitions (bounds the model)
  NoRow      \* the positions table has no row for this position yet

ASSUME CallersAssumption == Callers # {}
ASSUME DeltasAssumption == 0 \in Deltas /\ Deltas \subseteq Int
ASSUME MaxLogAssumption == MaxLog \in Nat
ASSUME NoRowAssumption == NoRow \notin States

VARIABLES
  state,       \* Position.State
  persisting,  \* Position.persisting
  history,     \* Position.History
  delta,       \* LongBaseQty - ShortBaseQty
  pc,          \* where each caller is inside TransitionTo
  call,        \* the transition each caller carries: its locals from and to
  snap,        \* the Position.Snapshot() each caller's upsert writes
  row,         \* the row of table positions: state and actual_delta
  log,         \* the rows of table position_transitions, in commit order
  loaded,      \* does the running process hold the position in memory?
  lost         \* history variable: when the answer of a commit was last lost

vars == <<state, persisting, history, delta, pc, call, snap, row, log, loaded, lost>>

Steps == {"idle", "called", "upserted", "saved", "refused"}
Transition == [from : States, to : States]
\* Never, since this process started, or before it did.
Losses == {"never", "now", "before"}
Snapshot == [state : States, delta : Deltas]
Row == [state : States \cup {NoRow}, delta : Deltas]

TypeOK ==
  /\ state \in States
  /\ persisting \in BOOLEAN
  /\ history \in Seq(Transition)
  /\ delta \in Deltas
  /\ pc \in [Callers -> Steps]
  /\ call \in [Callers -> Transition]
  /\ snap \in [Callers -> Snapshot]
  /\ row \in Row
  /\ log \in Seq(Transition)
  /\ loaded \in BOOLEAN
  /\ lost \in Losses

\* The locals of a caller outside TransitionTo.
NoCall == [from |-> "DISCOVERED", to |-> "DISCOVERED"]
NoSnap == [state |-> "DISCOVERED", delta |-> 0]

InFlight == {c \in Callers : pc[c] # "idle"}

\* What the database says of the position: no row means it was never persisted.
RowState == IF row.state = NoRow THEN "DISCOVERED" ELSE row.state

-------------------------------------------------------------------------------
Init ==
  /\ state = "DISCOVERED"
  /\ persisting = FALSE
  /\ history = <<>>
  /\ delta = 0
  /\ pc = [c \in Callers |-> "idle"]
  /\ call = [c \in Callers |-> NoCall]
  /\ snap = [c \in Callers |-> NoSnap]
  /\ row = [state |-> NoRow, delta |-> 0]
  /\ log = <<>>
  /\ loaded = TRUE
  /\ lost = "never"

\* TransitionTo returns: the caller is idle again, its locals are gone.
Return(c) ==
  /\ pc' = [pc EXCEPT ![c] = "idle"]
  /\ call' = [call EXCEPT ![c] = NoCall]
  /\ snap' = [snap EXCEPT ![c] = NoSnap]

\* Faulty variant: without the persisting guard.
Begin_Unguarded(c, to) ==
  /\ loaded
  /\ pc[c] = "idle"
  /\ CanTransition(state, to)
  /\ Len(log) < MaxLog
  /\ persisting' = TRUE
  /\ state' = to
  /\ history' = Append(history, [from |-> state, to |-> to])
  /\ call' = [call EXCEPT ![c] = [from |-> state, to |-> to]]
  /\ pc' = [pc EXCEPT ![c] = "called"]
  /\ UNCHANGED <<delta, snap, row, log, loaded, lost>>

\* TransitionTo, first critical section.  The three early returns (terminal,
\* persisting, not in the table) change nothing.
Begin(c, to) ==
  /\ loaded
  /\ pc[c] = "idle"
  /\ state \notin Terminal
  /\ ~persisting
  /\ CanTransition(state, to)
  /\ Len(log) < MaxLog
  /\ persisting' = TRUE
  /\ state' = to
  /\ history' = Append(history, [from |-> state, to |-> to])
  /\ call' = [call EXCEPT ![c] = [from |-> state, to |-> to]]
  /\ pc' = [pc EXCEPT ![c] = "called"]
  /\ UNCHANGED <<delta, snap, row, log, loaded, lost>>

\* OnTransition: begin the transaction and upsert pos.Snapshot().
UpsertTx(c) ==
  /\ pc[c] = "called"
  /\ snap' = [snap EXCEPT ![c] = [state |-> state, delta |-> delta]]
  /\ pc' = [pc EXCEPT ![c] = "upserted"]
  /\ UNCHANGED <<state, persisting, history, delta, call, row, log, loaded, lost>>

\* The effect of a committed transaction on the two tables.
Written(c) ==
  /\ row' = snap[c]
  /\ log' = Append(log, call[c])

Commit(c) ==
  /\ pc[c] = "upserted"
  /\ Written(c)
  /\ pc' = [pc EXCEPT ![c] = "saved"]
  /\ UNCHANGED <<state, persisting, history, delta, call, snap, loaded, lost>>

\* tx.Commit took effect, its answer did not arrive: OnTransition returns err.
CommitAnswerLost(c) ==
  /\ pc[c] = "upserted"
  /\ Written(c)
  /\ pc' = [pc EXCEPT ![c] = "refused"]
  /\ lost' = "now"
  /\ UNCHANGED <<state, persisting, history, delta, call, snap, loaded>>

\* Begin, an insert or the commit failed: the deferred Rollback leaves no trace.
PersistFails(c) ==
  /\ pc[c] \in {"called", "upserted"}
  /\ pc' = [pc EXCEPT ![c] = "refused"]
  /\ UNCHANGED <<state, persisting, history, delta, call, snap, row, log, loaded, lost>>

\* TransitionTo, last critical section after a successful OnTransition.
Finish(c) ==
  /\ pc[c] = "saved"
  /\ persisting' = FALSE
  /\ Return(c)
  /\ UNCHANGED <<state, history, delta, row, log, loaded, lost>>

\* Faulty variant: the rollback forgets to restore the state.
Rollback_KeepsState(c) ==
  /\ pc[c] = "refused"
  /\ history' = IF history = <<>> THEN <<>>
                ELSE SubSeq(history, 1, Len(history) - 1)
  /\ persisting' = FALSE
  /\ Return(c)
  /\ UNCHANGED <<state, delta, row, log, loaded, lost>>

\* Faulty variant: the rollback does not release the flag.
Rollback_KeepsFlag(c) ==
  /\ pc[c] = "refused"
  /\ state' = call[c].from
  /\ Return(c)
  /\ UNCHANGED <<persisting, history, delta, row, log, loaded, lost>>

\* TransitionTo, rollback branch: the last history entry is dropped.
Rollback(c) ==
  /\ pc[c] = "refused"
  /\ state' = call[c].from
  /\ history' = IF history = <<>> THEN <<>>
                ELSE SubSeq(history, 1, Len(history) - 1)
  /\ persisting' = FALSE
  /\ Return(c)
  /\ UNCHANGED <<delta, row, log, loaded, lost>>

\* Faulty variant: quantities of a terminal position may still change.
SetQuantities_Always(d) ==
  /\ loaded
  /\ delta' = d
  /\ UNCHANGED <<state, persisting, history, pc, call, snap, row, log, loaded, lost>>

\* SetQuantities: allowed while a transition is being persisted, refused in a
\* terminal state (which the position shows already during that persist).
SetQuantities(d) ==
  /\ loaded
  /\ state \notin Terminal
  /\ delta' = d
  /\ UNCHANGED <<state, persisting, history, pc, call, snap, row, log, loaded, lost>>

\* Faulty variant: the state of a position without a row is read as it is.
Restart_RawRow ==
  /\ pc' = [c \in Callers |-> "idle"]
  /\ call' = [c \in Callers |-> NoCall]
  /\ snap' = [c \in Callers |-> NoSnap]
  /\ persisting' = FALSE
  /\ history' = <<>>
  /\ state' = row.state
  /\ delta' = row.delta
  /\ loaded' = (row.state \in Restored)
  /\ lost' = IF lost = "now" THEN "before" ELSE lost
  /\ UNCHANGED <<row, log>>

\* The process dies and restarts: Engine.Restore loads the row again if its
\* state is one of Restored (RestorePosition: state and delta from the row,
\* empty history), otherwise the position stays in the database only.
Restart ==
  /\ pc' = [c \in Callers |-> "idle"]
  /\ call' = [c \in Callers |-> NoCall]
  /\ snap' = [c \in Callers |-> NoSnap]
  /\ persisting' = FALSE
  /\ history' = <<>>
  /\ state' = RowState
  /\ delta' = row.delta
  /\ loaded' = (RowState \in Restored)
  /\ lost' = IF lost = "now" THEN "before" ELSE lost
  /\ UNCHANGED <<row, log>>

PersistStep(c) ==
  \/ UpsertTx(c) \/ Commit(c) \/ CommitAnswerLost(c) \/ PersistFails(c)
  \/ Finish(c) \/ Rollback(c)

Next ==
  \/ \E c \in Callers : \E to \in States : Begin(c, to)
  \/ \E c \in Callers : PersistStep(c)
  \/ \E d \in Deltas : SetQuantities(d)
  \/ Restart

\* A caller inside TransitionTo keeps running: the goroutine is scheduled and
\* the database call returns, with an answer or with an error.
Fairness == \A c \in Callers : WF_vars(PersistStep(c))

Spec == Init /\ [][Next]_vars
FairSpec == Spec /\ Fairness

-------------------------------------------------------------------------------
\* The flag persisting is held by exactly one caller, the one whose transition
\* is in flight, and memory shows that caller's target (state_machine.go:158).
SinglePersister ==
  /\ \A c, d \in InFlight : c = d
  /\ persisting <=> (InFlight # {})
  /\ \A c \in InFlight : state = call[c].to

\* Memory and database may part, but never by more than one legal transition:
\* a lost commit answer leaves the row one step ahead of a rolled back memory.
RowAtMostOneStepAhead ==
  ~persisting => \/ RowState = state
                 \/ CanTransition(state, RowState)

\* In a process that has lost no answer of a commit, memory at rest shows what the
\* database holds; a restart ends a disagreement an earlier process left.
MemoryMatchesRow == (lost # "now" /\ ~persisting) => RowState = state

\* Until an answer is lost position_transitions is a path: it starts at DISCOVERED,
\* each row starts where the one before ended, and it ends at the state of the
\* position's row.
LogIsPath ==
  lost = "never" =>
    /\ log # <<>> => /\ log[1].from = "DISCOVERED"
                     /\ log[Len(log)].to = row.state
    /\ \A i \in 1 .. Len(log) - 1 : log[i].to = log[i + 1].from

\* A closed or failed position at rest has its final quantities in its row: the
\* snapshot is taken after the state became terminal, and SetQuantities refuses a
\* terminal state, also while that transition is still being persisted.
TerminalRowHasFinalDelta ==
  (loaded /\ ~persisting /\ state \in Terminal) => row.delta = delta

\* Only a process that has lost the answer of a commit, and so believes in an
\* older state, rewrites the row of a terminal position; the next one does not.
TerminalRowIsFinal == [][row.state \in Terminal /\ lost # "now" => row' = row]_vars

\* Every TransitionTo returns and releases the flag.
PersistingIsReleased == persisting ~> ~persisting
===============================================================================
