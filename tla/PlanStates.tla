------------------------------ MODULE PlanStates ------------------------------
(***************************************************************************)
(* The states of a rebalance plan, the table of allowed transitions        *)
(* (internal/rebalance/state_machine.go) and the withdrawal circuit        *)
(* breaker of one scope (internal/rebalance/circuit_breaker.go).           *)
(* Constant-level.                                                         *)
(***************************************************************************)
EXTENDS Naturals

PlanStates == {"DRAFT", "PLANNED", "AWAITING_APPROVAL", "TEST_SENT",
               "TEST_CONFIRMED", "MAIN_SENT", "MAIN_CONFIRMED", "COMPLETED",
               "FAILED", "CANCELLED"}

Terminal == {"COMPLETED", "FAILED", "CANCELLED"}

\* allowedPlanTransitions: one way forward, with a way out of every active state
\* (a confirmed main transfer can no longer be cancelled).
Allowed(from, to) ==
  \/ from = "DRAFT"             /\ to \in {"PLANNED", "FAILED", "CANCELLED"}
  \/ from = "PLANNED"           /\ to \in {"AWAITING_APPROVAL", "FAILED", "CANCELLED"}
  \/ from = "AWAITING_APPROVAL" /\ to \in {"TEST_SENT", "FAILED", "CANCELLED"}
  \/ from = "TEST_SENT"         /\ to \in {"TEST_CONFIRMED", "FAILED", "CANCELLED"}
  \/ from = "TEST_CONFIRMED"    /\ to \in {"MAIN_SENT", "FAILED", "CANCELLED"}
  \/ from = "MAIN_SENT"         /\ to \in {"MAIN_CONFIRMED", "FAILED", "CANCELLED"}
  \/ from = "MAIN_CONFIRMED"    /\ to \in {"COMPLETED", "FAILED"}

\* Plan.Transition: a dry-run plan goes no further than PLANNED.
MayMove(from, to, dryRun) ==
  /\ Allowed(from, to)
  /\ dryRun /\ from = "PLANNED" => to \in {"FAILED", "CANCELLED"}

-------------------------------------------------------------------------------
NoFailures == [failures |-> 0, tripped |-> FALSE]

\* A tripped breaker changes no more, any other counts and trips at the threshold.
RecordFailure(b, threshold) ==
  IF b.tripped THEN b
  ELSE [failures |-> b.failures + 1, tripped |-> b.failures + 1 >= threshold]

\* A success forgets the failures; it does not untrip.
RecordSuccess(b) == IF b.tripped THEN b ELSE NoFailures
===============================================================================
