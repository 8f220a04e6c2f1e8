----------------------------- MODULE CloseRequests ----------------------------
(***************************************************************************)
(* The way of a close request: HTTP handler, outbox, engine.  The handler  *)
(* takes the idempotency key of the request, kept in the server's memory,  *)
(* then writes the audit record and the event in one transaction.  A       *)
(* worker's dispatcher hands the event to its engine, which keeps it in    *)
(* the map closeReq until its loop comes to the position.                  *)
(*                                                                         *)
(* An event has the number of its request.  The outbox handler returns an  *)
(* error only for a payload it cannot read (Flaky).                        *)
(***************************************************************************)
EXTENDS Outbox

CONSTANTS
  Keys, KeyOf,         \* X-Idempotency-Key of each request
  MaxServerRestarts    \* bound on restarts of the server

ASSUME KeyOfAssumption == KeyOf \in [Events -> Keys]
ASSUME MaxServerRestartsAssumption == MaxServerRestarts \in Nat

VARIABLES
  seen,        \* MemoryIdemStore.seen
  answer,      \* of each request: not sent, in work, or what the client got
  closeReq,    \* Engine.closeReq of each worker
  taken,       \* requests the engine has begun to serve
  restarts     \* restarts of the server so far

httpVars == <<seen, answer, restarts>>
engineVars == <<closeReq, taken>>
vars == <<outboxVars, httpVars, engineVars>>

TypeOK ==
  /\ OutboxTypeOK
  /\ seen \subseteq Keys
  /\ answer \in [Events -> {"none", "working", "accepted", "conflict", "failed"}]
  /\ closeReq \in [Dispatchers -> SUBSET stored] /\ taken \subseteq stored
  /\ restarts \in 0 .. MaxServerRestarts

Init ==
  /\ OutboxInit
  /\ seen = {} /\ answer = [e \in Events |-> "none"]
  /\ closeReq = [d \in Dispatchers |-> {}] /\ taken = {}
  /\ restarts = 0

-------------------------------------------------------------------------------
(* The server. *)

Answer(e, a) == answer' = [answer EXCEPT ![e] = a]

\* Faulty variant: the key is looked up here and registered after the handler.
SeenAfter_LookupOnly(k) == seen
\* MemoryIdemStore.Seen looks the key up and registers it under one lock.
SeenAfter(k) == seen \cup {k}

\* idemMiddleware lets a request pass, or answers 409.
Receive(e) ==
  /\ answer[e] = "none"
  /\ IF KeyOf[e] \in seen
     THEN Answer(e, "conflict") /\ UNCHANGED seen
     ELSE Answer(e, "working") /\ seen' = SeenAfter(KeyOf[e])
  /\ UNCHANGED <<restarts, outboxVars, engineVars>>

\* RequestClose: audit and event are committed, 202; or rolled back, 500; or
\* committed with the answer lost, 500.  The key stays taken.
RequestClose(e) ==
  /\ answer[e] = "working"
  /\ \/ Enqueue(e) /\ Answer(e, "accepted") /\ UNCHANGED faults
     \/ Enqueue(e) /\ Answer(e, "failed") /\ Fail
     \/ UNCHANGED table /\ Answer(e, "failed") /\ Fail
  /\ UNCHANGED <<dispatch, handled, seen, restarts, engineVars>>

\* The keys are forgotten, the requests in work fail.
ServerRestart ==
  /\ restarts < MaxServerRestarts
  /\ restarts' = restarts + 1
  /\ seen' = {}
  /\ answer' = [e \in Events |-> IF answer[e] = "working" THEN "failed" ELSE answer[e]]
  /\ UNCHANGED <<outboxVars, engineVars>>

-------------------------------------------------------------------------------
(* The worker. *)

\* Faulty variant: the map holds one request only.
Handle_OneSlot(d) ==
  /\ HandlerOk(d)
  /\ closeReq' = [closeReq EXCEPT ![d] = {at[d]}]
  /\ UNCHANGED <<taken, httpVars>>
\* The outbox handler: Engine.RequestClose, under the engine's lock.
Handle(d) ==
  /\ HandlerOk(d)
  /\ closeReq' = [closeReq EXCEPT ![d] = @ \cup {at[d]}]
  /\ UNCHANGED <<taken, httpVars>>

\* monitor comes to the position and begins the close.
EngineTakes(d) ==
  /\ \E e \in closeReq[d] :
       /\ taken' = taken \cup {e}
       /\ closeReq' = [closeReq EXCEPT ![d] = @ \ {e}]
  /\ UNCHANGED <<outboxVars, httpVars>>

\* The worker dies with its dispatcher and its engine.
WorkerRestart(d) ==
  /\ Crash(d)
  /\ closeReq' = [closeReq EXCEPT ![d] = {}]
  /\ UNCHANGED <<taken, httpVars>>

DispatcherStep(d) ==
  \/ (Select(d) \/ Lock(d) \/ HandlerError(d) \/ Commit(d)) /\ UNCHANGED <<httpVars, engineVars>>
  \/ Handle(d)
Due == (\E e \in Events : RetryDue(e)) /\ UNCHANGED <<httpVars, engineVars>>

Next ==
  \/ \E e \in Events : Receive(e) \/ RequestClose(e)
  \/ ServerRestart
  \/ \E d \in Dispatchers : DispatcherStep(d) \/ EngineTakes(d) \/ WorkerRestart(d)
  \/ Due

\* A dispatcher's ticker fires and its calls return, time passes, the loop of the
\* engine comes round, and the server goes on with a request it has.
Fairness ==
  /\ \A d \in Dispatchers : WF_vars(DispatcherStep(d)) /\ WF_vars(EngineTakes(d))
  /\ WF_vars(Due)
  /\ \A e \in Events : WF_vars(RequestClose(e))

Spec == Init /\ [][Next]_vars /\ Fairness

-------------------------------------------------------------------------------
(* Properties. *)

\* Requests with one key leave one event, also when they meet between the check
\* and the commit, unless the server restarts (idemMiddleware, Seen).
OneEventPerKey ==
  restarts = 0 => \A e, f \in stored : KeyOf[e] = KeyOf[f] => e = f

\* A request answered 202 is served, if no worker dies and its handler does not
\* fail (providers.go:163, RunOnce, Engine.RequestClose).
AcceptedIsServed ==
  \A e \in Events \ Flaky :
    answer[e] = "accepted" ~> (e \in taken \/ crashes > 0)

\* What the comment of LockingCloseRequester says: the request outlives restarts
\* (providers.go:161).
SurvivesRestarts ==
  \A e \in Events : answer[e] = "accepted" =>
    e \in stored \ processed \/ e \in taken \/ \E d \in Dispatchers : e \in closeReq[d]

===============================================================================
