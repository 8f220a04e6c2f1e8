-------------------------------- MODULE Outbox --------------------------------
(***************************************************************************)
(* The dispatcher of the transactional outbox (internal/outbox/outbox.go). *)
(* RunOnce selects a batch in one statement, whose row locks end with it,  *)
(* and then takes each event in a transaction of its own: lock the row     *)
(* again, call the handler, write the outcome, commit.  Several            *)
(* dispatchers may run over one table (an old and a new worker), any       *)
(* statement may fail, and a dispatcher may die anywhere.                  *)
(*                                                                         *)
(* Events are numbered by created_at, which is the start of the producer's *)
(* transaction: they need not appear in that order.                        *)
(***************************************************************************)
EXTENDS Naturals, FiniteSets

CONSTANTS
  Events,
  Dispatchers,
  Flaky,        \* the events whose handler may return an error
  MaxAttempts, BatchSize,   \* Dispatcher.MaxAttempts, BatchSize
  MaxDbFails,   \* bound on failing statements
  MaxCrashes    \* bound on restarts

ASSUME EventsAssumption == Events \subseteq Nat \ {0} /\ IsFiniteSet(Events)
ASSUME DispatchersAssumption == IsFiniteSet(Dispatchers) /\ Dispatchers # {}
ASSUME LimitsAssumption == MaxAttempts \in Nat \ {0} /\ BatchSize \in Nat \ {0}
ASSUME FaultsAssumption == MaxDbFails \in Nat /\ MaxCrashes \in Nat

VARIABLES
  stored,      \* outbox_events: the committed rows
  processed,   \* those with processed_at
  attempts,    \* their column attempts
  resting,     \* those with next_retry_at in the future
  batch,       \* each dispatcher's events still to take
  at,          \* the event it is in the transaction of, or 0
  pc,          \* how far it is with it
  handled,     \* history: events whose handler has returned nil
  dbFails, crashes

table == <<stored, processed, attempts, resting>>
dispatch == <<batch, at, pc>>
faults == <<dbFails, crashes>>
outboxVars == <<table, dispatch, handled, faults>>

OutboxTypeOK ==
  /\ stored \subseteq Events /\ processed \subseteq stored
  /\ attempts \in [Events -> Nat]
  /\ resting \subseteq stored /\ handled \subseteq stored
  /\ batch \in [Dispatchers -> SUBSET stored]
  /\ pc \in [Dispatchers -> {"next", "handler", "ok", "error"}]
  /\ at \in [Dispatchers -> stored \cup {0}]
  /\ \A d \in Dispatchers : at[d] = 0 <=> pc[d] = "next"
  /\ dbFails \in 0 .. MaxDbFails /\ crashes \in 0 .. MaxCrashes

OutboxInit ==
  /\ stored = {} /\ processed = {} /\ resting = {} /\ handled = {}
  /\ attempts = [e \in Events |-> 0]
  /\ batch = [d \in Dispatchers |-> {}]
  /\ at = [d \in Dispatchers |-> 0] /\ pc = [d \in Dispatchers |-> "next"]
  /\ dbFails = 0 /\ crashes = 0

-------------------------------------------------------------------------------
\* The events whose row a transaction has locked.
Locked == {at[d] : d \in {x \in Dispatchers : pc[x] # "next"}}

\* Faulty variant: the selection does not look at attempts.
Selectable_NoLimit == stored \ (processed \cup resting \cup Locked)
\* The rows the selection of RunOnce finds.
Selectable ==
  {e \in stored \ (processed \cup resting \cup Locked) : attempts[e] < MaxAttempts}
\* The first BatchSize of them.
Batch == {e \in Selectable : Cardinality({f \in Selectable : f < e}) < BatchSize}

\* Faulty variant: the second lock does not care for locks.
CanLock_NoLock(e) == e \notin processed
\* Faulty variant: the second lock trusts the selection.
CanLock_Stale(e) == e \notin Locked
\* The second lock skips a row that is locked or processed; it looks neither at
\* attempts nor at next_retry_at.
CanLock(e) == e \notin Locked \cup processed

Fail == dbFails < MaxDbFails /\ dbFails' = dbFails + 1 /\ UNCHANGED crashes
To(d, e, p) == at' = [at EXCEPT ![d] = e] /\ pc' = [pc EXCEPT ![d] = p]
Return(d) == To(d, 0, "next")

-------------------------------------------------------------------------------
\* Producer.EnqueueTx, seen when the producer's transaction commits.
Enqueue(e) == stored' = stored \cup {e} /\ UNCHANGED <<processed, attempts, resting>>

\* RunOnce: the selection; a failing one ends the call.
Select(d) ==
  /\ pc[d] = "next" /\ batch[d] = {} /\ Batch # {}
  /\ batch' = [batch EXCEPT ![d] = Batch]
  /\ UNCHANGED <<table, at, pc, handled, faults>>

\* processEvent of the next event: Begin and the second lock, or no further.
Lock(d) ==
  /\ pc[d] = "next"
  /\ \E e \in batch[d] :
       /\ \A f \in batch[d] : e <= f
       /\ batch' = [batch EXCEPT ![d] = @ \ {e}]
       /\ \/ CanLock(e) /\ To(d, e, "handler") /\ UNCHANGED faults
          \/ ~CanLock(e) /\ UNCHANGED <<at, pc, faults>>
          \/ Fail /\ UNCHANGED <<at, pc>>
  /\ UNCHANGED <<table, handled>>

\* The handler returns nil.
HandlerOk(d) ==
  /\ pc[d] = "handler"
  /\ handled' = handled \cup {at[d]}
  /\ To(d, at[d], "ok")
  /\ UNCHANGED <<table, batch, faults>>

\* Faulty variant: the event is forgotten before its update.
HandlerError_Forgets(d) ==
  /\ pc[d] = "handler" /\ at[d] \in Flaky
  /\ To(d, 0, "error")
  /\ UNCHANGED <<table, batch, handled, faults>>

\* The handler returns an error.
HandlerError(d) ==
  /\ pc[d] = "handler" /\ at[d] \in Flaky
  /\ To(d, at[d], "error")
  /\ UNCHANGED <<table, batch, handled, faults>>

\* Faulty variant: an error is not counted.
Counted_OnlySuccess(e, p) == IF p = "ok" THEN attempts[e] + 1 ELSE attempts[e]
\* Success and error count one attempt each.
Counted(e, p) == attempts[e] + 1

\* Faulty variant: the event is marked before its outcome is looked at.
MarkedBy_Any(p) == p \in {"ok", "error"}
\* Only a success sets processed_at.
MarkedBy(p) == p = "ok"

\* The row after the update.
Write(e, p) ==
  /\ attempts' = [attempts EXCEPT ![e] = Counted(e, p)]
  /\ IF MarkedBy(p) THEN processed' = processed \cup {e} /\ UNCHANGED resting
                    ELSE resting' = resting \cup {e} /\ UNCHANGED processed
  /\ UNCHANGED stored

\* The update and the commit: done, rolled back, or done with the answer lost.
Commit(d) ==
  /\ pc[d] \in {"ok", "error"}
  /\ \/ Write(at[d], pc[d]) /\ (Fail \/ UNCHANGED faults)
     \/ UNCHANGED table /\ Fail
  /\ Return(d)
  /\ UNCHANGED <<batch, handled>>

\* next_retry_at passes.
RetryDue(e) ==
  /\ e \in resting
  /\ resting' = resting \ {e}
  /\ UNCHANGED <<stored, processed, attempts, dispatch, handled, faults>>

\* The process dies; its transaction is rolled back.
Crash(d) ==
  /\ crashes < MaxCrashes
  /\ crashes' = crashes + 1
  /\ batch' = [batch EXCEPT ![d] = {}] /\ Return(d)
  /\ UNCHANGED <<table, handled, dbFails>>

-------------------------------------------------------------------------------
(* Properties. *)

\* No event is in the handler of two dispatchers at once (the second lock,
\* outbox.go:155).
OneHandlerAtATime ==
  \A d, x \in Dispatchers :
    d # x /\ pc[d] # "next" /\ pc[x] # "next" => at[d] # at[x]

\* A failing event is not tried without end: every dispatcher that selected it
\* before it was given up may still try it once (outbox.go:101, 155).
AttemptsAreBounded ==
  \A e \in Events : attempts[e] <= MaxAttempts + Cardinality(Dispatchers) - 1

\* Every event ends as processed or as a dead letter, however its handler and the
\* database fail, once the failures of the database cease (Run).
EventsEnd ==
  \A e \in Events : e \in stored ~> (e \in processed \/ attempts[e] >= MaxAttempts)

\* The table and the handlers keep the promise of the outbox.
Delivery ==
  INSTANCE AtLeastOnce
    WITH sent <- stored, working <- Locked, delivered <- handled, done <- processed
ImplementsAtLeastOnce == Delivery!Spec

===============================================================================
