-------------------------- MODULE CloseRequestsProofs -------------------------
(***************************************************************************)
(* Theorems about CloseRequests, for any requests, idempotency keys and    *)
(* number of workers, any batch size and any number of faults.             *)
(***************************************************************************)
EXTENDS CloseRequests, TLAPS

-------------------------------------------------------------------------------
(* The inductive invariant. *)

\* The requests that took their key; those that met a taken one did not.
Passed == {e \in Events : answer[e] \in {"working", "accepted", "failed"}}

\* A request whose event is stored has an answer, and, as long as the server keeps
\* its keys, the requests that passed hold one key each.
Keyed ==
  /\ \A e \in stored : answer[e] \in {"accepted", "failed"}
  /\ restarts = 0 => \A e \in Passed : KeyOf[e] \in seen
  /\ restarts = 0 => \A e, f \in Passed : KeyOf[e] = KeyOf[f] => e = f

\* A dispatcher in a transaction is at a row that is not processed, and past the
\* handler only if the handler returned.
Transaction ==
  \A d \in Dispatchers :
    /\ pc[d] # "next" => at[d] \notin processed
    /\ pc[d] = "ok" => at[d] \in handled

IInv == TypeOK /\ Keyed /\ Transaction /\ OneHandlerAtATime

USE EventsAssumption, LimitsAssumption, FaultsAssumption, KeyOfAssumption, MaxServerRestartsAssumption

LEMMA InitIInv == Init => IInv
BY DEF Init, OutboxInit, IInv, TypeOK, OutboxTypeOK, Keyed, Passed, Transaction, OneHandlerAtATime

\* The dispatcher's fields keep their types when an event is taken or left.
LEMMA TypeStep == TypeOK /\ [Next]_vars => TypeOK'
<1> SUFFICES ASSUME TypeOK, [Next]_vars PROVE TypeOK'
  OBVIOUS
<1> USE DEF TypeOK, OutboxTypeOK, table, dispatch, faults, outboxVars, httpVars, engineVars
<1>1. ASSUME NEW e \in Events, Receive(e) PROVE TypeOK'
  BY <1>1 DEF Receive, Answer, SeenAfter
<1>2. ASSUME NEW e \in Events, RequestClose(e) PROVE TypeOK'
  <2>1. /\ stored' \in {stored, stored \cup {e}} /\ UNCHANGED <<processed, attempts, resting>>
        /\ answer' \in [Events -> {"none", "working", "accepted", "conflict", "failed"}]
        /\ dbFails' \in 0 .. MaxDbFails /\ crashes' = crashes
    BY <1>2 DEF RequestClose, Enqueue, Answer, Fail
  <2>2. UNCHANGED <<batch, at, pc, handled, seen, restarts, closeReq, taken>>
    BY <1>2 DEF RequestClose
  <2> QED
    BY <2>1, <2>2
<1>3. CASE ServerRestart
  BY <1>3 DEF ServerRestart
<1>4. ASSUME NEW d \in Dispatchers, Select(d), UNCHANGED <<httpVars, engineVars>> PROVE TypeOK'
  BY <1>4 DEF Select, Batch, Selectable
<1>5. ASSUME NEW d \in Dispatchers, Lock(d), UNCHANGED <<httpVars, engineVars>> PROVE TypeOK'
  BY <1>5 DEF Lock, To, Fail
<1>6. ASSUME NEW d \in Dispatchers, HandlerError(d), UNCHANGED <<httpVars, engineVars>> PROVE TypeOK'
  BY <1>6 DEF HandlerError, To
<1>7. ASSUME NEW d \in Dispatchers, Commit(d), UNCHANGED <<httpVars, engineVars>> PROVE TypeOK'
  <2>1. at[d] \in stored
    BY <1>7 DEF Commit
  <2>2. /\ attempts' \in [Events -> Nat] /\ stored' = stored
        /\ processed' \in {processed, processed \cup {at[d]}}
        /\ resting' \in {resting, resting \cup {at[d]}}
    BY <1>7, <2>1 DEF Commit, Write, Counted, MarkedBy
  <2>3. dbFails' \in 0 .. MaxDbFails /\ crashes' = crashes
    BY <1>7 DEF Commit, Fail
  <2>4. /\ at' = [at EXCEPT ![d] = 0] /\ pc' = [pc EXCEPT ![d] = "next"]
        /\ UNCHANGED <<batch, handled, httpVars, engineVars>>
    BY <1>7 DEF Commit, Return, To
  <2>5. at' \in [Dispatchers -> stored' \cup {0}] /\ \A x \in Dispatchers : at'[x] = 0 <=> pc'[x] = "next"
    BY <2>2, <2>4
  <2>6. pc' \in [Dispatchers -> {"next", "handler", "ok", "error"}]
    BY <2>4
  <2> QED
    BY <2>1, <2>2, <2>3, <2>4, <2>5, <2>6
<1>8. ASSUME NEW d \in Dispatchers, Handle(d) PROVE TypeOK'
  BY <1>8 DEF Handle, HandlerOk, To
<1>9. ASSUME NEW d \in Dispatchers, EngineTakes(d) PROVE TypeOK'
  BY <1>9 DEF EngineTakes
<1>10. ASSUME NEW d \in Dispatchers, WorkerRestart(d) PROVE TypeOK'
  BY <1>10 DEF WorkerRestart, Crash, Return, To
<1>11. CASE Due
  BY <1>11 DEF Due, RetryDue
<1>12. CASE UNCHANGED vars
  BY <1>12 DEF vars
<1> QED
  BY <1>1, <1>2, <1>3, <1>4, <1>5, <1>6, <1>7, <1>8, <1>9, <1>10, <1>11, <1>12 DEF Next, DispatcherStep

\* The idempotency keys: only Receive, RequestClose and a restart touch them.
LEMMA KeyedStep == TypeOK /\ Keyed /\ [Next]_vars => Keyed'
<1> SUFFICES ASSUME TypeOK /\ Keyed, [Next]_vars PROVE Keyed'
  OBVIOUS
<1> USE DEF Keyed, Passed, TypeOK, OutboxTypeOK, table, dispatch, faults, outboxVars, httpVars, engineVars
<1>1. ASSUME NEW e \in Events, Receive(e) PROVE Keyed'
  BY <1>1 DEF Receive, Answer, SeenAfter
<1>2. ASSUME NEW e \in Events, RequestClose(e) PROVE Keyed'
  <2>1. /\ answer[e] = "working"
        /\ answer' \in {[answer EXCEPT ![e] = "accepted"], [answer EXCEPT ![e] = "failed"]}
        /\ stored' \in {stored, stored \cup {e}} /\ UNCHANGED <<seen, restarts>>
    BY <1>2 DEF RequestClose, Enqueue, Answer
  <2>2. Passed' = Passed
    <3>1. \A f \in Events \ {e} : answer'[f] = answer[f]
      BY <2>1
    <3>2. answer'[e] \in {"accepted", "failed"}
      BY <2>1
    <3> QED
      BY <2>1, <3>1, <3>2
  <2>3. \A f \in stored' : answer'[f] \in {"accepted", "failed"}
    BY <2>1
  <2> QED
    BY <2>1, <2>2, <2>3
<1>3. CASE ServerRestart
  BY <1>3 DEF ServerRestart
<1>4. ASSUME NEW d \in Dispatchers, Select(d), UNCHANGED <<httpVars, engineVars>> PROVE Keyed'
  BY <1>4 DEF Select
<1>5. ASSUME NEW d \in Dispatchers, Lock(d), UNCHANGED <<httpVars, engineVars>> PROVE Keyed'
  BY <1>5 DEF Lock, CanLock, Locked, To
<1>6. ASSUME NEW d \in Dispatchers, HandlerError(d), UNCHANGED <<httpVars, engineVars>> PROVE Keyed'
  BY <1>6 DEF HandlerError, To
<1>7. ASSUME NEW d \in Dispatchers, Commit(d), UNCHANGED <<httpVars, engineVars>> PROVE Keyed'
  BY <1>7 DEF Commit, Write, MarkedBy, Return, To
<1>8. ASSUME NEW d \in Dispatchers, Handle(d) PROVE Keyed'
  BY <1>8 DEF Handle, HandlerOk, To
<1>9. ASSUME NEW d \in Dispatchers, EngineTakes(d) PROVE Keyed'
  BY <1>9 DEF EngineTakes
<1>10. ASSUME NEW d \in Dispatchers, WorkerRestart(d) PROVE Keyed'
  BY <1>10 DEF WorkerRestart, Crash, Return, To
<1>11. CASE Due
  BY <1>11 DEF Due, RetryDue
<1>12. CASE UNCHANGED vars
  BY <1>12 DEF vars
<1> QED
  BY <1>1, <1>2, <1>3, <1>4, <1>5, <1>6, <1>7, <1>8, <1>9, <1>10, <1>11, <1>12 DEF Next, DispatcherStep

\* The transactions of the dispatchers: the second lock keeps them apart.
LEMMA TransactionStep == TypeOK /\ Transaction /\ OneHandlerAtATime /\ [Next]_vars => (Transaction /\ OneHandlerAtATime)'
<1> SUFFICES ASSUME TypeOK /\ Transaction /\ OneHandlerAtATime, [Next]_vars PROVE (Transaction /\ OneHandlerAtATime)'
  OBVIOUS
<1> USE DEF Transaction, OneHandlerAtATime, TypeOK, OutboxTypeOK, table, dispatch, faults, outboxVars, httpVars, engineVars
<1>1. ASSUME NEW e \in Events, Receive(e) PROVE (Transaction /\ OneHandlerAtATime)'
  BY <1>1 DEF Receive, Answer, SeenAfter
<1>2. ASSUME NEW e \in Events, RequestClose(e) PROVE (Transaction /\ OneHandlerAtATime)'
  BY <1>2 DEF RequestClose, Enqueue, Answer
<1>3. CASE ServerRestart
  BY <1>3 DEF ServerRestart
<1>4. ASSUME NEW d \in Dispatchers, Select(d), UNCHANGED <<httpVars, engineVars>> PROVE (Transaction /\ OneHandlerAtATime)'
  BY <1>4 DEF Select
<1>5. ASSUME NEW d \in Dispatchers, Lock(d), UNCHANGED <<httpVars, engineVars>> PROVE (Transaction /\ OneHandlerAtATime)'
  BY <1>5 DEF Lock, CanLock, Locked, To
<1>6. ASSUME NEW d \in Dispatchers, HandlerError(d), UNCHANGED <<httpVars, engineVars>> PROVE (Transaction /\ OneHandlerAtATime)'
  BY <1>6 DEF HandlerError, To
<1>7. ASSUME NEW d \in Dispatchers, Commit(d), UNCHANGED <<httpVars, engineVars>> PROVE (Transaction /\ OneHandlerAtATime)'
  BY <1>7 DEF Commit, Write, MarkedBy, Return, To
<1>8. ASSUME NEW d \in Dispatchers, Handle(d) PROVE (Transaction /\ OneHandlerAtATime)'
  BY <1>8 DEF Handle, HandlerOk, To
<1>9. ASSUME NEW d \in Dispatchers, EngineTakes(d) PROVE (Transaction /\ OneHandlerAtATime)'
  BY <1>9 DEF EngineTakes
<1>10. ASSUME NEW d \in Dispatchers, WorkerRestart(d) PROVE (Transaction /\ OneHandlerAtATime)'
  BY <1>10 DEF WorkerRestart, Crash, Return, To
<1>11. CASE Due
  BY <1>11 DEF Due, RetryDue
<1>12. CASE UNCHANGED vars
  BY <1>12 DEF vars
<1> QED
  BY <1>1, <1>2, <1>3, <1>4, <1>5, <1>6, <1>7, <1>8, <1>9, <1>10, <1>11, <1>12 DEF Next, DispatcherStep

LEMMA Inductive == Spec => []IInv
<1>1. IInv /\ [Next]_vars => IInv'
  BY TypeStep, KeyedStep, TransactionStep DEF IInv
<1> QED
  BY InitIInv, <1>1, PTL DEF Spec

-------------------------------------------------------------------------------
(* The theorems. *)

\* The table, the dispatchers and both processes keep their types.
THEOREM TypeCorrect == Spec => []TypeOK
BY Inductive, PTL DEF IInv

\* No two dispatchers have one event in their handlers (processEvent).
THEOREM OneHandler == Spec => []OneHandlerAtATime
BY Inductive, PTL DEF IInv

\* While the server runs, one idempotency key leaves one event (idemMiddleware).
THEOREM OneEvent == Spec => []OneEventPerKey
<1>1. IInv => OneEventPerKey
  BY DEF IInv, TypeOK, OutboxTypeOK, Keyed, Passed, OneEventPerKey
<1> QED
  BY Inductive, <1>1, PTL

-------------------------------------------------------------------------------
(* The outbox implements AtLeastOnce. *)

\* What a transaction has locked when it begins and when it ends.
LEMMA LockedBegins ==
  ASSUME TypeOK, NEW d \in Dispatchers, NEW e \in stored, pc[d] = "next", To(d, e, "handler")
  PROVE  Locked' = Locked \cup {e}
<1> USE DEF TypeOK, OutboxTypeOK, To, Locked
<1>1. \A x \in Dispatchers \ {d} : at'[x] = at[x] /\ pc'[x] = pc[x]
  OBVIOUS
<1>2. at'[d] = e /\ pc'[d] = "handler"
  OBVIOUS
<1> QED
  BY <1>1, <1>2

LEMMA LockedStays ==
  ASSUME TypeOK, NEW d \in Dispatchers, NEW p \in {"ok", "error"}, pc[d] = "handler", To(d, at[d], p)
  PROVE  Locked' = Locked
<1> USE DEF TypeOK, OutboxTypeOK, To, Locked
<1>1. \A x \in Dispatchers : at'[x] = at[x] /\ (pc'[x] # "next" <=> pc[x] # "next")
  OBVIOUS
<1> QED
  BY <1>1

LEMMA LockedEnds ==
  ASSUME TypeOK, OneHandlerAtATime, NEW d \in Dispatchers, pc[d] # "next", Return(d)
  PROVE  Locked' = Locked \ {at[d]}
<1> USE DEF TypeOK, OutboxTypeOK, Return, To, Locked, OneHandlerAtATime
<1>1. \A x \in Dispatchers \ {d} : at'[x] = at[x] /\ pc'[x] = pc[x]
  OBVIOUS
<1>2. pc'[d] = "next"
  OBVIOUS
<1> QED
  BY <1>1, <1>2

\* Every step is a step of AtLeastOnce, or leaves its variables alone.
LEMMA DeliveryStep == IInv /\ [Next]_vars => [Delivery!Next]_Delivery!vars
<1> SUFFICES ASSUME IInv, [Next]_vars PROVE Delivery!Next \/ UNCHANGED Delivery!vars
  OBVIOUS
<1> DEFINE Quiet == UNCHANGED <<stored, processed, handled, at, pc>>
<1>0. Quiet => UNCHANGED Delivery!vars
  BY DEF Delivery!vars, Locked
<1> HIDE DEF Quiet
<1>1. stored \subseteq Events
  BY DEF IInv, TypeOK, OutboxTypeOK
<1>2. ASSUME NEW e \in Events, RequestClose(e) PROVE Delivery!Next \/ UNCHANGED Delivery!vars
  <2>1. stored' \in {stored, stored \cup {e}} /\ UNCHANGED <<processed, handled, at, pc>>
    BY <1>2 DEF RequestClose, Enqueue, table, dispatch
  <2>2. Locked' = Locked
    BY <2>1 DEF Locked
  <2>3. CASE stored' = stored
    BY <2>1, <2>2, <2>3 DEF Delivery!vars
  <2>4. CASE stored' = stored \cup {e}
    BY <2>1, <2>2, <2>4 DEF Delivery!Next, Delivery!Send
  <2> QED
    BY <2>1, <2>3, <2>4
<1>3. ASSUME NEW d \in Dispatchers, Lock(d) PROVE Delivery!Next \/ UNCHANGED Delivery!vars
  <2>1. PICK e \in batch[d] : \/ CanLock(e) /\ To(d, e, "handler")
                             \/ UNCHANGED <<at, pc>>
    BY <1>3 DEF Lock
  <2>2. e \in stored /\ UNCHANGED <<stored, processed, handled>> /\ pc[d] = "next"
    BY <1>3 DEF Lock, table, IInv, TypeOK, OutboxTypeOK
  <2>3. CASE CanLock(e) /\ To(d, e, "handler")
    <3>1. Locked' = Locked \cup {e}
      BY <2>2, <2>3, LockedBegins DEF IInv
    <3>2. Delivery!Take(e)
      BY <2>2, <2>3, <3>1 DEF Delivery!Take, CanLock
    <3> QED
      BY <1>1, <2>2, <3>2 DEF Delivery!Next
  <2>4. CASE UNCHANGED <<at, pc>>
    BY <1>0, <2>2, <2>4 DEF Quiet
  <2> QED
    BY <2>1, <2>3, <2>4
<1>4. ASSUME NEW d \in Dispatchers, HandlerError(d) PROVE Delivery!Next \/ UNCHANGED Delivery!vars
  <2>1. Locked' = Locked
    BY <1>4, LockedStays DEF HandlerError, IInv
  <2> QED
    BY <1>4, <2>1 DEF HandlerError, table, Delivery!vars
<1>5. ASSUME NEW d \in Dispatchers, Handle(d) PROVE Delivery!Next \/ UNCHANGED Delivery!vars
  <2>1. Locked' = Locked
    BY <1>5, LockedStays DEF Handle, HandlerOk, IInv
  <2>2. at[d] \in Locked /\ at[d] \in Events
    BY <1>1, <1>5 DEF Handle, HandlerOk, Locked, IInv, TypeOK, OutboxTypeOK
  <2>3. Delivery!Deliver(at[d])
    BY <1>5, <2>1, <2>2 DEF Handle, HandlerOk, table, Delivery!Deliver
  <2> QED
    BY <2>2, <2>3 DEF Delivery!Next
<1>6. ASSUME NEW d \in Dispatchers, Commit(d) PROVE Delivery!Next \/ UNCHANGED Delivery!vars
  <2>1. pc[d] # "next" /\ at[d] \in Locked /\ at[d] \in Events
    BY <1>1, <1>6 DEF Commit, Locked, IInv, TypeOK, OutboxTypeOK
  <2>2. Locked' = Locked \ {at[d]}
    BY <1>6, <2>1, LockedEnds DEF Commit, IInv
  <2>3. /\ UNCHANGED <<stored, handled>>
        /\ processed' = processed \/ (pc[d] = "ok" /\ processed' = processed \cup {at[d]})
    <3>1. CASE Write(at[d], pc[d])
      BY <1>6, <3>1 DEF Commit, Write, MarkedBy
    <3>2. CASE UNCHANGED table
      BY <1>6, <3>2 DEF Commit, table
    <3> QED
      BY <1>6, <3>1, <3>2 DEF Commit
  <2>4. pc[d] = "ok" => at[d] \in handled
    BY DEF IInv, Transaction
  <2>5. Delivery!End(at[d])
    BY <2>1, <2>2, <2>3, <2>4 DEF Delivery!End
  <2> QED
    BY <2>1, <2>5 DEF Delivery!Next
<1>7. ASSUME NEW d \in Dispatchers, WorkerRestart(d) PROVE Delivery!Next \/ UNCHANGED Delivery!vars
  <2>1. UNCHANGED <<stored, processed, handled>> /\ Return(d)
    BY <1>7 DEF WorkerRestart, Crash, table
  <2>2. CASE pc[d] = "next"
    <3>1. UNCHANGED <<at, pc>>
      BY <2>1, <2>2 DEF Return, To, IInv, TypeOK, OutboxTypeOK
    <3> QED
      BY <1>0, <2>1, <3>1 DEF Quiet
  <2>3. CASE pc[d] # "next"
    <3>1. at[d] \in Locked /\ at[d] \in Events
      BY <1>1, <2>3 DEF Locked, IInv, TypeOK, OutboxTypeOK
    <3>2. Locked' = Locked \ {at[d]}
      BY <2>1, <2>3, LockedEnds DEF IInv
    <3> QED
      BY <2>1, <3>1, <3>2 DEF Delivery!Next, Delivery!End
  <2> QED
    BY <2>2, <2>3
<1>8. CASE \/ \E e \in Events : Receive(e)
           \/ \E d \in Dispatchers : Select(d) \/ EngineTakes(d)
           \/ ServerRestart \/ Due \/ UNCHANGED vars
  <2>1. Quiet
    BY <1>8 DEF Quiet, Receive, Select, EngineTakes, ServerRestart, Due, RetryDue, vars, outboxVars,
                table, dispatch
  <2> QED
    BY <1>0, <2>1
<1> QED
  BY <1>2, <1>3, <1>4, <1>5, <1>6, <1>7, <1>8 DEF Next, DispatcherStep

\* The dispatchers keep the promise of the outbox: an event is done only after a
\* delivery and never worked on again (outbox.go:79-84).
THEOREM Delivered == Spec => ImplementsAtLeastOnce
<1>1. Init => Delivery!Init
  BY DEF Init, OutboxInit, Delivery!Init, Locked
<1> QED
  BY Inductive, DeliveryStep, <1>1, PTL DEF Spec, ImplementsAtLeastOnce, Delivery!Spec
===============================================================================
