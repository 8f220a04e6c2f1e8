-------------------------- MODULE RebalanceExecutor --------------------------
(***************************************************************************)
(* The two-phase transfer of a rebalance plan                              *)
(* (internal/rebalance/executor.go): ExecuteTest moves a small amount and  *)
(* waits until it is credited, only then ExecuteMain moves the rest.       *)
(* Several plans run at the same time and share the circuit breaker of     *)
(* their source exchange.  The store, the exchange and the caller are      *)
(* external: a write may fail or succeed without an answer, a transfer may *)
(* be carried out although it returned an error, a deposit may come late,  *)
(* and the process may die between any two steps.                          *)
(***************************************************************************)
EXTENDS PlanStates, FiniteSets

CONSTANTS
  Plans,
  Scopes,         \* breaker scopes: one for each source exchange
  ScopeOf,        \* the scope of each plan
  Threshold,      \* failures that trip a breaker
  MaxTransfers,   \* bound on the transfers of one phase of a plan
  MaxDbFails,     \* bound on failing writes
  MaxCrashes      \* bound on restarts

ASSUME PlansAssumption == IsFiniteSet(Plans)
ASSUME ScopeAssumption == ScopeOf \in [Plans -> Scopes]
ASSUME NumbersAssumption ==
  /\ Threshold \in Nat \ {0} /\ MaxTransfers \in Nat
  /\ MaxDbFails \in Nat /\ MaxCrashes \in Nat

VARIABLES
  plan,       \* Plan.State in memory
  dryRun,     \* the plans with DryRun set
  row,        \* transfer_plans.state
  attempt,    \* transfer_attempts.status of both phases, "none" without a row
  breaker,    \* CircuitBreaker.states: failures and tripped of each scope
  pc,         \* where the call for each plan is
  phase,      \* the phase it works on
  fate,       \* the attempt status it writes before the plan fails
  moved,      \* transfers the exchange carried out, by phase
  credited,   \* is a deposit of the phase credited at the destination?
  strikes,    \* history variable: failures in a row at a scope, in this process
  dbFails, crashes

moneyVars == <<moved, credited>>
boundVars == <<dbFails, crashes>>
vars == <<plan, dryRun, row, attempt, breaker, pc, phase, fate, moneyVars, strikes, boundVars>>

Phases == {"TEST", "MAIN"}
Confirmed == [TEST |-> "TEST_CONFIRMED", MAIN |-> "MAIN_CONFIRMED"]
Steps == {"idle", "savePlan", "record", "transfer", "saveSent", "wait",
          "saveAttempt", "failPlan", "saveConfirmed", "saveOutcome"}
AttemptStatus == {"none", "CREATED", "SENT", "CONFIRMED", "TIMED_OUT", "FAILED"}

TypeOK ==
  /\ plan \in [Plans -> PlanStates] /\ row \in [Plans -> PlanStates]
  /\ dryRun \subseteq Plans
  /\ attempt \in [Plans -> [Phases -> AttemptStatus]]
  /\ breaker \in [Scopes -> [failures : 0 .. Threshold, tripped : BOOLEAN]]
  /\ pc \in [Plans -> Steps] /\ phase \in [Plans -> Phases]
  /\ fate \in [Plans -> {"TIMED_OUT", "FAILED"}]
  /\ moved \in [Plans -> [Phases -> 0 .. MaxTransfers]]
  /\ credited \in [Plans -> [Phases -> BOOLEAN]]
  /\ strikes \in [Scopes -> Nat]
  /\ dbFails \in 0 .. MaxDbFails /\ crashes \in 0 .. MaxCrashes

Both(x) == [ph \in Phases |-> x]

Init ==
  /\ plan = [p \in Plans |-> "DRAFT"] /\ row = [p \in Plans |-> "DRAFT"]
  /\ dryRun \in SUBSET Plans
  /\ attempt = [p \in Plans |-> Both("none")]
  /\ breaker = [s \in Scopes |-> NoFailures]
  /\ pc = [p \in Plans |-> "idle"] /\ phase = [p \in Plans |-> "TEST"]
  /\ fate = [p \in Plans |-> "FAILED"]
  /\ moved = [p \in Plans |-> Both(0)] /\ credited = [p \in Plans |-> Both(FALSE)]
  /\ strikes = [s \in Scopes |-> 0]
  /\ dbFails = 0 /\ crashes = 0

-------------------------------------------------------------------------------
Tripped(p) == breaker[ScopeOf[p]].tripped
Goto(p, step) == pc' = [pc EXCEPT ![p] = step]
Moved(p, to) == [plan EXCEPT ![p] = IF MayMove(@, to, p \in dryRun) THEN to ELSE @]

\* A failing write may have taken effect all the same.
WriteFails(p, otherwise) ==
  /\ dbFails < MaxDbFails
  /\ dbFails' = dbFails + 1
  /\ Goto(p, otherwise)

Wrote(p, next) == Goto(p, next) /\ UNCHANGED dbFails

WriteRow(p, s, next, otherwise) ==
  LET written == [row EXCEPT ![p] = s]
  IN \/ Wrote(p, next) /\ row' = written
     \/ WriteFails(p, otherwise) /\ row' \in {row, written}

WriteAttempt(p, s, next, otherwise) ==
  LET written == [attempt EXCEPT ![p][phase[p]] = s]
  IN \/ Wrote(p, next) /\ attempt' = written
     \/ WriteFails(p, otherwise) /\ attempt' \in {attempt, written}

Struck(p) ==
  /\ breaker' = [breaker EXCEPT ![ScopeOf[p]] = RecordFailure(@, Threshold)]
  /\ strikes' = [strikes EXCEPT ![ScopeOf[p]] = @ + 1]

-------------------------------------------------------------------------------
(* The caller, external: it plans, approves and cancels between two calls. *)

CallerMoves(p, to) ==
  /\ pc[p] = "idle"
  /\ to \in {"PLANNED", "AWAITING_APPROVAL", "CANCELLED"}
  /\ MayMove(plan[p], to, p \in dryRun)
  /\ plan' = [plan EXCEPT ![p] = to] /\ row' = [row EXCEPT ![p] = to]
  /\ UNCHANGED <<dryRun, attempt, breaker, pc, phase, fate, moneyVars, strikes, boundVars>>

\* CircuitBreaker.Reset, by the operator.
Reset(s) ==
  /\ breaker[s] # NoFailures
  /\ breaker' = [breaker EXCEPT ![s] = NoFailures]
  /\ strikes' = [strikes EXCEPT ![s] = 0]
  /\ UNCHANGED <<plan, dryRun, row, attempt, pc, phase, fate, moneyVars, boundVars>>

-------------------------------------------------------------------------------
(* ExecuteTest and ExecuteMain. *)

\* Faulty variant: the breaker is not asked.
BeginTest_Untripped(p) ==
  /\ pc[p] = "idle"
  /\ plan[p] \in {"AWAITING_APPROVAL", "TEST_SENT"}
  /\ plan' = Moved(p, "TEST_SENT")
  /\ phase' = [phase EXCEPT ![p] = "TEST"]
  /\ Goto(p, IF plan[p] = "TEST_SENT" THEN "record" ELSE "savePlan")
  /\ UNCHANGED <<dryRun, row, attempt, breaker, fate, moneyVars, strikes, boundVars>>

\* ExecuteTest is called under its precondition: the plan awaits approval, or its
\* test was begun before.  With a tripped breaker it returns at once.
BeginTest(p) ==
  /\ pc[p] = "idle"
  /\ plan[p] \in {"AWAITING_APPROVAL", "TEST_SENT"}
  /\ ~Tripped(p)
  /\ plan' = Moved(p, "TEST_SENT")
  /\ phase' = [phase EXCEPT ![p] = "TEST"]
  /\ Goto(p, IF plan[p] = "TEST_SENT" THEN "record" ELSE "savePlan")
  /\ UNCHANGED <<dryRun, row, attempt, breaker, fate, moneyVars, strikes, boundVars>>

\* Faulty variant: a test that was sent is enough.
BeginMain_TestSent(p) ==
  /\ pc[p] = "idle"
  /\ plan[p] \in {"TEST_SENT", "TEST_CONFIRMED"}
  /\ ~Tripped(p)
  /\ plan' = [plan EXCEPT ![p] = "MAIN_SENT"]
  /\ phase' = [phase EXCEPT ![p] = "MAIN"]
  /\ Goto(p, "savePlan")
  /\ UNCHANGED <<dryRun, row, attempt, breaker, fate, moneyVars, strikes, boundVars>>

\* Faulty variant: a main transfer is sent again, also for a plan that is over.
BeginMain_Again(p) ==
  /\ pc[p] = "idle"
  /\ plan[p] \in {"TEST_CONFIRMED", "MAIN_SENT", "FAILED"}
  /\ ~Tripped(p)
  /\ plan' = [plan EXCEPT ![p] = "MAIN_SENT"]
  /\ phase' = [phase EXCEPT ![p] = "MAIN"]
  /\ Goto(p, "savePlan")
  /\ UNCHANGED <<dryRun, row, attempt, breaker, fate, moneyVars, strikes, boundVars>>

\* ExecuteMain returns at once unless the test is confirmed.
BeginMain(p) ==
  /\ pc[p] = "idle"
  /\ plan[p] = "TEST_CONFIRMED"
  /\ ~Tripped(p)
  /\ plan' = Moved(p, "MAIN_SENT")
  /\ phase' = [phase EXCEPT ![p] = "MAIN"]
  /\ Goto(p, "savePlan")
  /\ UNCHANGED <<dryRun, row, attempt, breaker, fate, moneyVars, strikes, boundVars>>

\* The address of the route is not approved, or the fee is above the cap.
RouteRefused(p) ==
  /\ pc[p] = "idle"
  /\ plan[p] \in {"AWAITING_APPROVAL", "TEST_SENT", "TEST_CONFIRMED"}
  /\ phase' = [phase EXCEPT ![p] = IF plan[p] = "TEST_CONFIRMED" THEN "MAIN" ELSE "TEST"]
  /\ Goto(p, "failPlan")
  /\ UNCHANGED <<plan, dryRun, row, attempt, breaker, fate, moneyVars, strikes, boundVars>>

\* Faulty variant: the transfer goes on although the plan was not saved.
SavePlan_Anyway(p) ==
  /\ pc[p] = "savePlan"
  /\ WriteRow(p, plan[p], "record", "record")
  /\ UNCHANGED <<plan, dryRun, attempt, breaker, phase, fate, moneyVars, strikes, crashes>>

SavePlan(p) ==
  /\ pc[p] = "savePlan"
  /\ WriteRow(p, plan[p], "record", "idle")
  /\ UNCHANGED <<plan, dryRun, attempt, breaker, phase, fate, moneyVars, strikes, crashes>>

\* RecordAttempt does nothing for a request id that has a row.
Record(p) ==
  /\ pc[p] = "record"
  /\ LET old == attempt[p][phase[p]]
     IN WriteAttempt(p, IF old = "none" THEN "CREATED" ELSE old, "transfer", "idle")
  /\ UNCHANGED <<plan, dryRun, row, breaker, phase, fate, moneyVars, strikes, crashes>>

\* doTransfer: the exchange is not given the request id.
Transfer(p) ==
  /\ pc[p] = "transfer"
  /\ moved[p][phase[p]] < MaxTransfers
  /\ moved' = [moved EXCEPT ![p][phase[p]] = @ + 1]
  /\ Goto(p, "saveSent")
  /\ UNCHANGED <<plan, dryRun, row, attempt, breaker, phase, fate, credited, strikes, boundVars>>

\* An error leaves it open whether the money has left.
TransferFails(p) ==
  /\ pc[p] = "transfer"
  /\ \/ UNCHANGED moved
     \/ /\ moved[p][phase[p]] < MaxTransfers
        /\ moved' = [moved EXCEPT ![p][phase[p]] = @ + 1]
  /\ Struck(p)
  /\ fate' = [fate EXCEPT ![p] = "FAILED"]
  /\ Goto(p, "saveAttempt")
  /\ UNCHANGED <<plan, dryRun, row, attempt, phase, credited, boundVars>>

SaveSent(p) ==
  /\ pc[p] = "saveSent"
  /\ WriteAttempt(p, "SENT", "wait", "idle")
  /\ UNCHANGED <<plan, dryRun, row, breaker, phase, fate, moneyVars, strikes, crashes>>

\* Faulty variant: a deadline that passed is taken for a confirmation.
WaitConfirmed_Late(p) ==
  /\ pc[p] = "wait"
  /\ breaker' = [breaker EXCEPT ![ScopeOf[p]] = RecordSuccess(@)]
  /\ strikes' = [strikes EXCEPT ![ScopeOf[p]] = 0]
  /\ Goto(p, "saveConfirmed")
  /\ UNCHANGED <<plan, dryRun, row, attempt, phase, fate, moneyVars, boundVars>>

WaitConfirmed(p) ==
  /\ pc[p] = "wait"
  /\ credited[p][phase[p]]
  /\ breaker' = [breaker EXCEPT ![ScopeOf[p]] = RecordSuccess(@)]
  /\ strikes' = [strikes EXCEPT ![ScopeOf[p]] = 0]
  /\ Goto(p, "saveConfirmed")
  /\ UNCHANGED <<plan, dryRun, row, attempt, phase, fate, moneyVars, boundVars>>

\* The deadline passed, or the checker returned an error or the context ended.
WaitFails(p, how) ==
  /\ pc[p] = "wait"
  /\ Struck(p)
  /\ fate' = [fate EXCEPT ![p] = how]
  /\ Goto(p, "saveAttempt")
  /\ UNCHANGED <<plan, dryRun, row, attempt, phase, moneyVars, boundVars>>

\* A failure of this write does not keep the plan from failing.
SaveAttempt(p) ==
  /\ pc[p] = "saveAttempt"
  /\ WriteAttempt(p, fate[p], "failPlan", "failPlan")
  /\ UNCHANGED <<plan, dryRun, row, breaker, phase, fate, moneyVars, strikes, crashes>>

FailPlan(p) ==
  /\ pc[p] = "failPlan"
  /\ plan' = Moved(p, "FAILED")
  /\ WriteRow(p, "FAILED", "idle", "idle")
  /\ UNCHANGED <<dryRun, attempt, breaker, phase, fate, moneyVars, strikes, crashes>>

SaveConfirmed(p) ==
  /\ pc[p] = "saveConfirmed"
  /\ WriteAttempt(p, "CONFIRMED", "saveOutcome", "idle")
  /\ plan' = IF pc'[p] = "saveOutcome" THEN Moved(p, Confirmed[phase[p]]) ELSE plan
  /\ UNCHANGED <<dryRun, row, breaker, phase, fate, moneyVars, strikes, crashes>>

\* A confirmed main transfer is saved and moved on to COMPLETED.
SaveOutcome(p) ==
  /\ pc[p] = "saveOutcome"
  /\ WriteRow(p, plan[p], IF plan[p] = "MAIN_CONFIRMED" THEN "saveOutcome" ELSE "idle", "idle")
  /\ plan' = IF pc'[p] = "saveOutcome" THEN Moved(p, "COMPLETED") ELSE plan
  /\ UNCHANGED <<dryRun, attempt, breaker, phase, fate, moneyVars, strikes, crashes>>

CallStep(p) ==
  \/ SavePlan(p) \/ Record(p) \/ Transfer(p) \/ TransferFails(p) \/ SaveSent(p)
  \/ WaitConfirmed(p) \/ WaitFails(p, "FAILED") \/ WaitFails(p, "TIMED_OUT")
  \/ SaveAttempt(p) \/ FailPlan(p) \/ SaveConfirmed(p) \/ SaveOutcome(p)

-------------------------------------------------------------------------------
(* The destination exchange, and the process. *)

Credit(p, ph) ==
  /\ moved[p][ph] > 0 /\ ~credited[p][ph]
  /\ credited' = [credited EXCEPT ![p][ph] = TRUE]
  /\ UNCHANGED <<plan, dryRun, row, attempt, breaker, pc, phase, fate, moved, strikes, boundVars>>

\* The plans are read again from their rows.  Nothing reads or writes the
\* breaker's table: the breakers start anew.
Restart ==
  /\ crashes < MaxCrashes
  /\ crashes' = crashes + 1
  /\ plan' = row
  /\ breaker' = [s \in Scopes |-> NoFailures]
  /\ strikes' = [s \in Scopes |-> 0]
  /\ pc' = [p \in Plans |-> "idle"]
  /\ UNCHANGED <<dryRun, row, attempt, phase, fate, moneyVars, dbFails>>

Next ==
  \/ \E p \in Plans : \/ \E to \in PlanStates : CallerMoves(p, to)
                      \/ BeginTest(p) \/ BeginMain(p) \/ RouteRefused(p)
                      \/ CallStep(p)
                      \/ \E ph \in Phases : Credit(p, ph)
  \/ \E s \in Scopes : Reset(s)
  \/ Restart

Spec == Init /\ [][Next]_vars

-------------------------------------------------------------------------------
\* The main amount leaves at most once, whatever fails and however often the
\* plan is run again: MAIN_SENT is durable before the transfer (executor.go:366).
MainAtMostOnce == \A p \in Plans : moved[p]["MAIN"] <= 1

\* The main amount leaves only after the test was credited (executor.go:341).
MainAfterTest == \A p \in Plans : moved[p]["MAIN"] > 0 => credited[p]["TEST"]

\* A plan that the database shows as completed has both deposits credited and
\* both attempts recorded as confirmed.
CompletedIsCredited ==
  \A p \in Plans : row[p] = "COMPLETED" =>
    \A ph \in Phases : credited[p][ph] /\ attempt[p][ph] = "CONFIRMED"

\* After Threshold failures in a row no call begins to move money from the
\* exchange before the operator resets the breaker (circuit_breaker.go:55).
TrippedScopeRests ==
  [][\A p \in Plans : pc[p] = "idle" /\ pc'[p] \in {"savePlan", "record"} =>
       strikes[ScopeOf[p]] < Threshold]_vars

\* A plan that the database shows as over stays so, and no money leaves for it.
TerminalPlanIsFinal ==
  [][\A p \in Plans : row[p] \in Terminal =>
       row'[p] = row[p] /\ moved'[p] = moved[p]]_vars
===============================================================================
