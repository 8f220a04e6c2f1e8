------------------------- MODULE MCRebalanceExecutor -------------------------
(***************************************************************************)
(* Instances of RebalanceExecutor for TLC: the plans share one exchange.   *)
(***************************************************************************)
EXTENDS RebalanceExecutor, TLC

CONSTANTS p1, p2, s1

MCPlans == {p1, p2}
MCScopes == {s1}
MCScopeOf == [p \in MCPlans |-> s1]
PlanSymmetry == Permutations(MCPlans)
===============================================================================
