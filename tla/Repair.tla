-------------------------------- MODULE Repair --------------------------------
(***************************************************************************)
(* The decisions of the delta repair (internal/execution/repair.go), pure  *)
(* functions of the filled quantities of the two legs.  Constant-level.    *)
(***************************************************************************)
EXTENDS Integers

Legs == {"long", "short"}

Smaller(a, b) == IF a <= b THEN a ELSE b
Distance(a, b) == IF a >= b THEN a - b ELSE b - a

\* AnalyzeMismatch: within the tolerance nothing is done, beyond it the smaller
\* leg is topped up by the whole difference.
AnalyzeMismatch(long, short, tolerance) ==
  IF Distance(long, short) <= tolerance
  THEN [action |-> "none", shortfall |-> 0]
  ELSE [action |-> "topup", shortfall |-> Distance(long, short)]

\* ApplyTopUp: a top-up that filled nothing leaves the whole shortfall to reduce,
\* one that filled a part leaves what is still beyond the tolerance.
ApplyTopUp(shortfall, filled, long, short, tolerance) ==
  IF filled = 0
  THEN [action |-> "reduce", excess |-> shortfall]
  ELSE IF Distance(long, short) <= tolerance
       THEN [action |-> "none", excess |-> 0]
       ELSE [action |-> "reduce", excess |-> Distance(long, short)]

\* The leg repairImbalance tops up, and the one it reduces.
LaggingLeg(fill) == IF fill["long"] < fill["short"] THEN "long" ELSE "short"
HeavyLeg(fill) == IF fill["long"] > fill["short"] THEN "long" ELSE "short"
===============================================================================
