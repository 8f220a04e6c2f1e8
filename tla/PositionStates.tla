---------------------------- MODULE PositionStates ----------------------------
(***************************************************************************)
(* The states of a paired position and the table of allowed transitions    *)
(* (internal/portfolio/state_machine.go).  Constant-level: every module    *)
(* that keeps a position uses this table.                                  *)
(***************************************************************************)

States == {"DISCOVERED", "QUALIFIED", "AWAITING_USER_APPROVAL", "PREPARING",
           "OPENING", "PARTIALLY_HEDGED", "HEDGED", "MONITORING",
           "EXIT_REQUESTED", "EXITING", "RECONCILING", "CLOSED", "DEGRADED",
           "FAILED"}

Terminal == {"CLOSED", "FAILED"}

\* The states Engine.Restore loads from the positions table after a restart.
Restored == {"OPENING", "PARTIALLY_HEDGED", "HEDGED", "MONITORING",
             "EXIT_REQUESTED", "EXITING", "RECONCILING", "DEGRADED"}

\* allowedTransitions: one line per state, none for a terminal state.
CanTransition(from, to) ==
  \/ from = "DISCOVERED"              /\ to \in {"QUALIFIED", "FAILED"}
  \/ from = "QUALIFIED"               /\ to \in {"AWAITING_USER_APPROVAL", "PREPARING", "FAILED"}
  \/ from = "AWAITING_USER_APPROVAL"  /\ to \in {"PREPARING", "DISCOVERED", "FAILED"}
  \/ from = "PREPARING"               /\ to \in {"OPENING", "FAILED", "DISCOVERED"}
  \/ from = "OPENING"                 /\ to \in {"PARTIALLY_HEDGED", "HEDGED", "DEGRADED", "FAILED"}
  \/ from = "PARTIALLY_HEDGED"        /\ to \in {"HEDGED", "DEGRADED", "EXIT_REQUESTED", "FAILED"}
  \/ from = "HEDGED"                  /\ to \in {"MONITORING", "EXIT_REQUESTED"}
  \/ from = "MONITORING"              /\ to \in {"EXIT_REQUESTED", "DEGRADED", "RECONCILING"}
  \/ from = "EXIT_REQUESTED"          /\ to \in {"EXITING", "DEGRADED"}
  \/ from = "EXITING"                 /\ to \in {"RECONCILING", "DEGRADED", "FAILED"}
  \/ from = "RECONCILING"             /\ to \in {"CLOSED", "DEGRADED", "FAILED"}
  \/ from = "DEGRADED"                /\ to \in {"EXIT_REQUESTED", "RECONCILING", "FAILED", "CLOSED"}
===============================================================================
