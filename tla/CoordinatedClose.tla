---------------------------- MODULE CoordinatedClose ----------------------------
(***************************************************************************)
(* CoordinatedClose (internal/execution/close.go): close both legs of a    *)
(* position by the same quantity with reduce-only orders sent in parallel, *)
(* re-sending to each leg what it still misses, at most MaxRequotes times. *)
(* Each order runs OrderExecutor.Place; its client id is determined by the *)
(* leg and the attempt.                                                    *)
(***************************************************************************)
EXTENDS OrderExecutor, Integers

CONSTANTS
  MaxRequotes,   \* CloseConfig.MaxRequotes
  MaxPosition    \* bound on the exposure a leg may really have

Legs == {"long", "short"}

ASSUME MaxRequotesAssumption == MaxRequotes \in Nat
ASSUME MaxPositionAssumption == MaxPosition \in Nat
ASSUME ClientIdsAssumption == ClientIds = Legs \X (0 .. MaxRequotes)

VARIABLES
  remaining,   \* CloseRequest: what the caller believes each leg still holds
  position,    \* the real exposure of each leg, which bounds reduce-only fills
  position0,   \* history variable: the exposure when the close began
  step,        \* where CoordinatedClose is
  attempt,     \* the loop counter
  left,        \* longLeft and shortLeft, the residuals of the result
  closed,      \* CloseResult.LongClosedQty and ShortClosedQty
  verdict      \* the error it returned, "open" before

closeVars == <<remaining, position, position0, step, attempt, left, closed, verdict>>
vars == <<execVars, closeVars>>

Verdicts == {"open", "nil", "incomplete", "ambiguous"}

TypeOK ==
  /\ TypeOKExec
  /\ remaining \in [Legs -> 0 .. MaxQty]
  /\ position \in [Legs -> 0 .. MaxPosition]
  /\ position0 \in [Legs -> 0 .. MaxPosition]
  /\ step \in {"start", "loop", "wait", "returned"}
  /\ attempt \in 0 .. MaxRequotes + 1
  /\ left \in [Legs -> 0 .. MaxQty]
  /\ closed \in [Legs -> 0 .. MaxQty]
  /\ verdict \in Verdicts

Smaller(a, b) == IF a <= b THEN a ELSE b

\* The same reduction on both legs keeps the delta.
Target == Smaller(remaining["long"], remaining["short"])

\* The order of a leg in the current attempt, and the legs that have one.
Current(l) == <<l, attempt>>
Working == {l \in Legs : left[l] > 0}

Init ==
  /\ InitExec
  /\ remaining \in [Legs -> 0 .. MaxQty]
  /\ position \in [Legs -> 0 .. MaxPosition]
  /\ position0 = position
  /\ step = "start"
  /\ attempt = 0
  /\ left = [l \in Legs |-> 0]
  /\ closed = [l \in Legs |-> 0]
  /\ verdict = "open"

-------------------------------------------------------------------------------
Return(v) == step' = "returned" /\ verdict' = v

NothingToClose ==
  /\ step = "start"
  /\ Target = 0
  /\ Return("nil")
  /\ UNCHANGED <<execVars, remaining, position, position0, attempt, left, closed>>

Start ==
  /\ step = "start"
  /\ Target > 0
  /\ left' = [l \in Legs |-> Target]
  /\ step' = "loop"
  /\ UNCHANGED <<execVars, remaining, position, position0, attempt, closed, verdict>>

\* No bid for the long leg or no ask for the short one, if it still has a
\* residual: the close ends with what it has done so far.
NoPrice ==
  /\ step = "loop"
  /\ attempt <= MaxRequotes
  /\ Working # {}
  /\ Return("incomplete")
  /\ UNCHANGED <<execVars, remaining, position, position0, attempt, left, closed>>

\* Both goroutines are started.
Launch ==
  /\ step = "loop"
  /\ attempt <= MaxRequotes
  /\ Working # {}
  /\ step' = "wait"
  /\ UNCHANGED <<execVars, remaining, position, position0, attempt, left, closed, verdict>>

SendLeg(l) ==
  /\ step = "wait"
  /\ l \in Working
  /\ Send(Current(l), left[l])
  /\ UNCHANGED closeVars

\* Orders of every attempt keep living at the exchange, those of a Place that
\* gave up included.  A reduce-only order fills no more than the leg holds.
ExchangeStep(id) ==
  \/ /\ Accept(id)
     /\ UNCHANGED closeVars
  \/ /\ position[id[1]] > 0
     /\ Fill(id)
     /\ position' = [position EXCEPT ![id[1]] = @ - 1]
     /\ UNCHANGED <<remaining, position0, step, attempt, left, closed, verdict>>

PlaceStepOf(id) == PlaceSteps(id) /\ UNCHANGED closeVars

\* placeCloseLeg: what an attempt of one leg counts for.
Counted(l) ==
  IF l \in Working /\ place[Current(l)].kind = "ok"
  THEN Smaller(place[Current(l)].reported, left[l])
  ELSE 0
Failed(l) == l \in Working /\ place[Current(l)].kind # "ok"

\* Faulty variant: a leg in an unknown state is an ordinary failure.
Ambiguous_Ignored(l) == FALSE

Ambiguous(l) == l \in Working /\ place[Current(l)].kind = "ambiguous"

Joined == step = "wait" /\ \A l \in Working : Returned(Current(l))

\* Faulty variant: each residual is reduced by the fill of the other leg.
Account_Swapped ==
  /\ left' = [long |-> left["long"] - Counted("short"), short |-> left["short"] - Counted("long")]
  /\ closed' = [l \in Legs |-> closed[l] + Counted(l)]

Account ==
  /\ left' = [l \in Legs |-> left[l] - Counted(l)]
  /\ closed' = [l \in Legs |-> closed[l] + Counted(l)]

\* Either leg in an unknown state stops the close at once.
JoinAmbiguous ==
  /\ Joined
  /\ \E l \in Legs : Ambiguous(l)
  /\ Account
  /\ Return("ambiguous")
  /\ UNCHANGED <<execVars, remaining, position, position0, attempt>>

\* Both legs were sent and both failed: no progress to expect.
JoinFailed ==
  /\ Joined
  /\ ~ \E l \in Legs : Ambiguous(l)
  /\ \A l \in Legs : Failed(l)
  /\ Return("incomplete")
  /\ UNCHANGED <<execVars, remaining, position, position0, attempt, left, closed>>

\* Faulty variant: both residuals shrink by the larger of the two fills.
JoinNext_CommonResidual ==
  /\ Joined
  /\ ~ \E l \in Legs : Ambiguous(l)
  /\ ~ \A l \in Legs : Failed(l)
  /\ \E m \in Legs : /\ \A l \in Legs : Counted(l) <= Counted(m)
                     /\ left' = [l \in Legs |-> left[l] - Counted(m)]
  /\ closed' = [l \in Legs |-> closed[l] + Counted(l)]
  /\ attempt' = attempt + 1
  /\ step' = "loop"
  /\ UNCHANGED <<execVars, remaining, position, position0, verdict>>

\* Faulty variant: a failed attempt does not count.
JoinNext_Unbounded ==
  /\ Joined
  /\ ~ \E l \in Legs : Ambiguous(l)
  /\ ~ \A l \in Legs : Failed(l)
  /\ Account
  /\ attempt' = IF \E l \in Legs : Failed(l) THEN attempt ELSE attempt + 1
  /\ step' = "loop"
  /\ UNCHANGED <<execVars, remaining, position, position0, verdict>>

JoinNext ==
  /\ Joined
  /\ ~ \E l \in Legs : Ambiguous(l)
  /\ ~ \A l \in Legs : Failed(l)
  /\ Account
  /\ attempt' = attempt + 1
  /\ step' = "loop"
  /\ UNCHANGED <<execVars, remaining, position, position0, verdict>>

AllClosed ==
  /\ step = "loop"
  /\ Working = {}
  /\ Return("nil")
  /\ UNCHANGED <<execVars, remaining, position, position0, attempt, left, closed>>

Exhausted ==
  /\ step = "loop"
  /\ attempt > MaxRequotes
  /\ Working # {}
  /\ Return("incomplete")
  /\ UNCHANGED <<execVars, remaining, position, position0, attempt, left, closed>>

CloseStep ==
  \/ NothingToClose \/ Start \/ NoPrice \/ Launch
  \/ \E l \in Legs : SendLeg(l)
  \/ \E id \in ClientIds : PlaceStepOf(id)
  \/ JoinAmbiguous \/ JoinFailed \/ JoinNext \/ AllClosed \/ Exhausted

Next == CloseStep \/ \E id \in ClientIds : ExchangeStep(id)

\* The code runs until it returns: every call of an adapter has a timeout.
\* Nothing is assumed of the exchange.
Fairness == WF_vars(CloseStep)

Spec == Init /\ [][Next]_vars
FairSpec == Spec /\ Fairness

-------------------------------------------------------------------------------
\* What the exchange really took off each leg.
Reduced(l) == position0[l] - position[l]

\* The counters of the result never claim a reduction that did not happen,
\* although orders of earlier attempts may fill unseen.
NoPhantomClose == \A l \in Legs : closed[l] <= Reduced(l)

\* Success means that each leg was really reduced by the whole common target.
SuccessClosesBoth == verdict = "nil" => \A l \in Legs : Reduced(l) >= Target

\* close.go:81 - after an attempt with a leg in an unknown state no other order
\* is sent.
StopsOnAmbiguity ==
  \A l, m \in Legs : \A a, b \in 0 .. MaxRequotes :
    /\ Returned(<<l, a>>) /\ place[<<l, a>>].kind = "ambiguous"
    /\ a < b
    => place[<<m, b>>].pc = "idle"

\* The close always returns, with a bounded number of orders.
CloseReturns == <>(verdict # "open")

\* The close implements PairReduction.
Abstract == INSTANCE PairReduction WITH target <- Target, confirmed <- closed
ImplementsPairReduction == Abstract!Spec
===============================================================================
