------------------------ MODULE RebalanceExecutorProofs ------------------------
(***************************************************************************)
(* Proofs about the two-phase transfer, for any number of plans and        *)
(* exchanges, any threshold and any number of failures and restarts.       *)
(***************************************************************************)
EXTENDS RebalanceExecutor, TLAPS

Early == {"DRAFT", "PLANNED", "AWAITING_APPROVAL", "TEST_SENT"}
TestDone == {"TEST_CONFIRMED", "MAIN_SENT", "MAIN_CONFIRMED", "COMPLETED"}
MainDone == {"MAIN_CONFIRMED", "COMPLETED"}
\* Where a plan may be once its main amount has left.
MainGone == {"MAIN_SENT", "MAIN_CONFIRMED", "COMPLETED", "FAILED", "CANCELLED"}
Sending == {"savePlan", "record", "transfer"}
UnderWay == Sending \cup {"saveSent", "wait", "saveAttempt", "saveConfirmed"}

(***************************************************************************)
(* Where a call stands tells what the plan is in memory, that MAIN_SENT is *)
(* durable before the main transfer, and that nothing has left before it.  *)
(***************************************************************************)
InTest(p) ==
  phase[p] = "TEST" =>
    /\ pc[p] \in UnderWay => plan[p] = "TEST_SENT"
    /\ pc[p] = "failPlan" => plan[p] \in {"AWAITING_APPROVAL", "TEST_SENT"}
    /\ pc[p] = "saveOutcome" => plan[p] = "TEST_CONFIRMED"

InMain(p) ==
  phase[p] = "MAIN" =>
    /\ pc[p] \in UnderWay => plan[p] = "MAIN_SENT"
    /\ pc[p] \in UnderWay \ {"savePlan"} => row[p] = "MAIN_SENT"
    /\ pc[p] \in Sending => moved[p]["MAIN"] = 0
    /\ pc[p] = "failPlan" => plan[p] \in {"TEST_CONFIRMED", "MAIN_SENT"}
    /\ pc[p] = "saveOutcome" => plan[p] \in MainDone

Seen(p) == pc[p] = "saveConfirmed" => credited[p][phase[p]]

(***************************************************************************)
(* What memory and row say of the money.  The row is never ahead of        *)
(* memory, so what a restart finds was true before it.                     *)
(***************************************************************************)
Backed(p) ==
  /\ plan[p] \in TestDone \/ row[p] \in TestDone => credited[p]["TEST"] /\ attempt[p]["TEST"] = "CONFIRMED"
  /\ plan[p] \in MainDone \/ row[p] \in MainDone => credited[p]["MAIN"] /\ attempt[p]["MAIN"] = "CONFIRMED"

NotAhead(p) ==
  /\ plan[p] \in Early => row[p] \in Early
  /\ plan[p] \in {"TEST_CONFIRMED", "MAIN_SENT"} => row[p] \in Early \cup {"TEST_CONFIRMED", "MAIN_SENT"}
  /\ row[p] \in Terminal => plan[p] = row[p] /\ pc[p] = "idle"

MainOnly(p) ==
  /\ moved[p]["MAIN"] <= 1
  /\ moved[p]["MAIN"] > 0 => /\ plan[p] \in MainGone /\ row[p] \in MainGone
                             /\ credited[p]["TEST"]

PlanInv(p) == InTest(p) /\ InMain(p) /\ Seen(p) /\ Backed(p) /\ NotAhead(p) /\ MainOnly(p)

\* A breaker that has not tripped counts the failures in a row.
Counting(s) ==
  /\ ~ breaker[s].tripped => strikes[s] = breaker[s].failures /\ breaker[s].failures < Threshold

RebalanceInv == TypeOK /\ (\A p \in Plans : PlanInv(p)) /\ \A s \in Scopes : Counting(s)

-------------------------------------------------------------------------------
LEMMA RebalanceInit == Init => RebalanceInv
  <1> SUFFICES ASSUME Init PROVE RebalanceInv
    OBVIOUS
  <1>1. TypeOK
    BY NumbersAssumption DEF Init, TypeOK, PlanStates, Steps, Phases, AttemptStatus, Both, NoFailures
  <1>2. ASSUME NEW p \in Plans PROVE PlanInv(p)
    BY DEF Init, PlanInv, InTest, InMain, Seen, Backed, NotAhead, MainOnly, Early, TestDone, MainDone,
       MainGone, Sending, UnderWay, Both, Phases, Terminal
  <1>3. ASSUME NEW s \in Scopes PROVE Counting(s)
    BY NumbersAssumption DEF Init, Counting, NoFailures
  <1> QED
    BY <1>1, <1>2, <1>3 DEF RebalanceInv

(***************************************************************************)
(* A step about one plan leaves the others as they are.                    *)
(***************************************************************************)
OnlyTouches(p) ==
  \A q \in Plans \ {p} :
    /\ plan'[q] = plan[q] /\ row'[q] = row[q] /\ attempt'[q] = attempt[q] /\ pc'[q] = pc[q]
    /\ phase'[q] = phase[q] /\ moved'[q] = moved[q] /\ credited'[q] = credited[q]

LEMMA OthersStay ==
  ASSUME RebalanceInv, NEW p \in Plans, OnlyTouches(p), PlanInv(p)'
  PROVE  \A q \in Plans : PlanInv(q)'
  <1> SUFFICES ASSUME NEW q \in Plans \ {p} PROVE PlanInv(q)'
    OBVIOUS
  <1>1. PlanInv(q)
    BY DEF RebalanceInv
  <1> QED
    BY <1>1 DEF OnlyTouches, PlanInv, InTest, InMain, Seen, Backed, NotAhead, MainOnly


-------------------------------------------------------------------------------
(* Type correctness and the breakers. *)

LEMMA MovedIsState ==
  ASSUME TypeOK, NEW p \in Plans, NEW to \in PlanStates
  PROVE  Moved(p, to) \in [Plans -> PlanStates]
  BY DEF Moved, TypeOK

\* What a write comes to, whether it got an answer or not.
WriteEnds(p, next, otherwise) ==
  \/ pc' = [pc EXCEPT ![p] = next] /\ dbFails' = dbFails
  \/ pc' = [pc EXCEPT ![p] = otherwise] /\ dbFails' = dbFails + 1 /\ dbFails < MaxDbFails

LEMMA WriteRowIs ==
  ASSUME NEW p, NEW s, NEW next, NEW otherwise, WriteRow(p, s, next, otherwise)
  PROVE  /\ row' = row \/ row' = [row EXCEPT ![p] = s]
         /\ WriteEnds(p, next, otherwise)
         /\ pc' = [pc EXCEPT ![p] = next] \/ pc' = [pc EXCEPT ![p] = otherwise]
         /\ next # otherwise /\ pc' = [pc EXCEPT ![p] = next] /\ pc' # [pc EXCEPT ![p] = otherwise]
              => row' = [row EXCEPT ![p] = s]
  BY DEF WriteRow, Wrote, WriteFails, Goto, WriteEnds

LEMMA WriteAttemptIs ==
  ASSUME NEW p, NEW s, NEW next, NEW otherwise, WriteAttempt(p, s, next, otherwise)
  PROVE  /\ attempt' = attempt \/ attempt' = [attempt EXCEPT ![p][phase[p]] = s]
         /\ WriteEnds(p, next, otherwise)
         /\ pc' = [pc EXCEPT ![p] = next] /\ pc' # [pc EXCEPT ![p] = otherwise]
              => attempt' = [attempt EXCEPT ![p][phase[p]] = s]
  BY DEF WriteAttempt, Wrote, WriteFails, Goto, WriteEnds

LEMMA WriteEndsType ==
  ASSUME TypeOK, NEW p \in Plans, NEW next \in Steps, NEW otherwise \in Steps,
         WriteEnds(p, next, otherwise)
  PROVE  pc' \in [Plans -> Steps] /\ dbFails' \in 0 .. MaxDbFails
  <1>1. MaxDbFails \in Nat /\ dbFails \in 0 .. MaxDbFails /\ pc \in [Plans -> Steps]
    BY NumbersAssumption DEF TypeOK
  <1> QED
    BY <1>1 DEF WriteEnds

LEMMA WritesType ==
  ASSUME TypeOK, NEW p \in Plans, NEW next \in Steps, NEW otherwise \in Steps
  PROVE  /\ \A s \in PlanStates : WriteRow(p, s, next, otherwise) =>
              row' \in [Plans -> PlanStates] /\ pc' \in [Plans -> Steps] /\ dbFails' \in 0 .. MaxDbFails
         /\ \A s \in AttemptStatus : WriteAttempt(p, s, next, otherwise) =>
              /\ attempt' \in [Plans -> [Phases -> AttemptStatus]]
              /\ pc' \in [Plans -> Steps] /\ dbFails' \in 0 .. MaxDbFails
  <1>1. ASSUME NEW s \in PlanStates, WriteRow(p, s, next, otherwise)
        PROVE  row' \in [Plans -> PlanStates] /\ pc' \in [Plans -> Steps] /\ dbFails' \in 0 .. MaxDbFails
    <2>1. row' = row \/ row' = [row EXCEPT ![p] = s]
      BY <1>1, WriteRowIs
    <2>2. row' \in [Plans -> PlanStates]
      BY <2>1 DEF TypeOK
    <2> QED
      BY <1>1, <2>2, WriteRowIs, WriteEndsType
  <1>2. ASSUME NEW s \in AttemptStatus, WriteAttempt(p, s, next, otherwise)
        PROVE  /\ attempt' \in [Plans -> [Phases -> AttemptStatus]]
               /\ pc' \in [Plans -> Steps] /\ dbFails' \in 0 .. MaxDbFails
    <2>1. attempt' = attempt \/ attempt' = [attempt EXCEPT ![p][phase[p]] = s]
      BY <1>2, WriteAttemptIs
    <2>2. attempt' \in [Plans -> [Phases -> AttemptStatus]]
      <3>1. attempt \in [Plans -> [Phases -> AttemptStatus]] /\ phase[p] \in Phases
        BY DEF TypeOK
      <3>2. [attempt[p] EXCEPT ![phase[p]] = s] \in [Phases -> AttemptStatus]
        BY <1>2, <3>1
      <3> QED
        BY <2>1, <3>1, <3>2
    <2> QED
      BY <1>2, <2>2, WriteAttemptIs, WriteEndsType
  <1> QED
    BY <1>1, <1>2

\* A failure or a success counts the same at the breaker and in the history.
LEMMA StruckCounts ==
  ASSUME RebalanceInv, NEW p \in Plans, Struck(p)
  PROVE  /\ breaker' \in [Scopes -> [failures : 0 .. Threshold, tripped : BOOLEAN]]
         /\ strikes' \in [Scopes -> Nat] /\ \A s \in Scopes : Counting(s)'
  <1> DEFINE b == breaker[ScopeOf[p]]
  <1>1. ScopeOf[p] \in Scopes /\ Threshold \in Nat \ {0}
    BY NumbersAssumption, ScopeAssumption
  <1>2. /\ breaker \in [Scopes -> [failures : 0 .. Threshold, tripped : BOOLEAN]]
        /\ strikes \in [Scopes -> Nat] /\ \A s \in Scopes : Counting(s)
    BY DEF RebalanceInv, TypeOK
  <1>3. /\ breaker' = [breaker EXCEPT ![ScopeOf[p]] = RecordFailure(b, Threshold)]
        /\ strikes' = [strikes EXCEPT ![ScopeOf[p]] = strikes[ScopeOf[p]] + 1]
    BY DEF Struck
  <1>4. CASE b.tripped
    <2>1. RecordFailure(b, Threshold) = b
      BY <1>4 DEF RecordFailure
    <2>2. breaker' = breaker
      BY <1>1, <1>2, <1>3, <2>1
    <2> QED
      BY <1>1, <1>2, <1>3, <1>4, <2>2 DEF Counting
  <1>5. CASE ~ b.tripped
    <2>1. /\ b.failures \in Nat /\ b.failures < Threshold /\ strikes[ScopeOf[p]] = b.failures
      BY <1>1, <1>2, <1>5 DEF Counting
    <2>2. RecordFailure(b, Threshold) = [failures |-> b.failures + 1, tripped |-> b.failures + 1 >= Threshold]
      BY <1>5 DEF RecordFailure
    <2>3. RecordFailure(b, Threshold) \in [failures : 0 .. Threshold, tripped : BOOLEAN]
      BY <1>1, <2>1, <2>2
    <2>4. ASSUME NEW s \in Scopes PROVE Counting(s)'
      <3>1. CASE s = ScopeOf[p]
        <4>1. breaker'[s] = RecordFailure(b, Threshold) /\ strikes'[s] = strikes[ScopeOf[p]] + 1
          BY <1>1, <1>2, <1>3, <3>1
        <4>2. breaker'[s].failures = b.failures + 1
          BY <2>2, <4>1
        <4>3. ~ breaker'[s].tripped => b.failures + 1 < Threshold
          <5>1. CASE b.failures + 1 >= Threshold
            <6>1. (b.failures + 1 >= Threshold) = TRUE
              BY <5>1
            <6>2. RecordFailure(b, Threshold) = [failures |-> b.failures + 1, tripped |-> TRUE]
              BY <2>2, <6>1, Zenon
            <6> QED
              BY <4>1, <6>2
          <5>2. CASE ~ (b.failures + 1 >= Threshold)
            BY <1>1, <2>1, <5>2
          <5> QED
            BY <5>1, <5>2
        <4> QED
          BY <2>1, <4>1, <4>2, <4>3 DEF Counting
      <3>2. CASE s # ScopeOf[p]
        BY <1>2, <1>3, <3>2 DEF Counting
      <3> QED
        BY <3>1, <3>2
    <2> QED
      BY <1>1, <1>2, <1>3, <2>3, <2>4
  <1> QED
    BY <1>4, <1>5

LEMMA SuccessCounts ==
  ASSUME RebalanceInv, NEW p \in Plans, WaitConfirmed(p)
  PROVE  /\ breaker' \in [Scopes -> [failures : 0 .. Threshold, tripped : BOOLEAN]]
         /\ strikes' \in [Scopes -> Nat] /\ \A s \in Scopes : Counting(s)'
  BY NumbersAssumption, ScopeAssumption
  DEF RebalanceInv, TypeOK, Counting, WaitConfirmed, RecordSuccess, NoFailures

\* The steps that leave the breakers alone.
LEMMA CountsStay ==
  ASSUME RebalanceInv, UNCHANGED <<breaker, strikes>>
  PROVE  \A s \in Scopes : Counting(s)'
  BY DEF RebalanceInv, Counting

-------------------------------------------------------------------------------
(* The steps about one plan: types, the plan itself, the others. *)

GoodStep(p) == TypeOK' /\ PlanInv(p)' /\ OnlyTouches(p)

LEMMA CallerStep ==
  ASSUME RebalanceInv, NEW p \in Plans, NEW to \in PlanStates, CallerMoves(p, to)
  PROVE  GoodStep(p)
  <1>1. TypeOK /\ PlanInv(p)
    BY DEF RebalanceInv
  <1>2. TypeOK'
    BY <1>1 DEF TypeOK, CallerMoves, moneyVars, boundVars
  <1>3. /\ plan'[p] = to /\ row'[p] = to /\ pc[p] = "idle" /\ OnlyTouches(p)
        /\ UNCHANGED <<attempt, pc, phase, moved, credited>>
    BY <1>1 DEF TypeOK, CallerMoves, moneyVars, OnlyTouches
  <1>4. Allowed(plan[p], to) /\ to \in {"PLANNED", "AWAITING_APPROVAL", "CANCELLED"}
    BY DEF CallerMoves, MayMove
  <1>5. to = "CANCELLED" \/ plan[p] \in {"DRAFT", "PLANNED"}
    BY <1>4 DEF Allowed
  <1>6. PlanInv(p)'
    BY <1>1, <1>3, <1>4, <1>5
    DEF PlanInv, InTest, InMain, Seen, Backed, NotAhead, MainOnly, Early, TestDone, MainDone,
        MainGone, Sending, UnderWay, Terminal
  <1> QED
    BY <1>2, <1>3, <1>6 DEF GoodStep

LEMMA BeginTestStep ==
  ASSUME RebalanceInv, NEW p \in Plans, BeginTest(p)
  PROVE  GoodStep(p)
  <1>1. TypeOK /\ PlanInv(p)
    BY DEF RebalanceInv
  <1>2. plan' = [plan EXCEPT ![p] = "TEST_SENT"]
    BY <1>1 DEF BeginTest, Moved, MayMove, Allowed, TypeOK
  <1>3. TypeOK'
    BY <1>1, <1>2 DEF TypeOK, BeginTest, Goto, Steps, Phases, PlanStates, moneyVars, boundVars
  <1>4. /\ plan'[p] = "TEST_SENT" /\ phase'[p] = "TEST" /\ pc'[p] \in {"record", "savePlan"}
        /\ plan[p] \in {"AWAITING_APPROVAL", "TEST_SENT"} /\ pc[p] = "idle"
        /\ OnlyTouches(p)
        /\ UNCHANGED <<row, attempt, moved, credited>>
    BY <1>1, <1>2 DEF TypeOK, BeginTest, Goto, moneyVars, OnlyTouches
  <1>5. PlanInv(p)'
    BY <1>1, <1>4
    DEF PlanInv, InTest, InMain, Seen, Backed, NotAhead, MainOnly, Early, TestDone, MainDone,
        MainGone, Sending, UnderWay, Terminal
  <1> QED
    BY <1>3, <1>4, <1>5 DEF GoodStep

LEMMA BeginMainStep ==
  ASSUME RebalanceInv, NEW p \in Plans, BeginMain(p)
  PROVE  GoodStep(p)
  <1>1. TypeOK /\ PlanInv(p)
    BY DEF RebalanceInv
  <1>2. plan' = [plan EXCEPT ![p] = "MAIN_SENT"]
    BY <1>1 DEF BeginMain, Moved, MayMove, Allowed, TypeOK
  <1>3. TypeOK'
    BY <1>1, <1>2 DEF TypeOK, BeginMain, Goto, Steps, Phases, PlanStates, moneyVars, boundVars
  <1>4. /\ plan'[p] = "MAIN_SENT" /\ phase'[p] = "MAIN" /\ pc'[p] = "savePlan"
        /\ plan[p] = "TEST_CONFIRMED" /\ pc[p] = "idle"
        /\ OnlyTouches(p)
        /\ UNCHANGED <<row, attempt, moved, credited>>
    BY <1>1, <1>2 DEF TypeOK, BeginMain, Goto, moneyVars, OnlyTouches
  <1>5. moved[p]["MAIN"] = 0
    <2>1. moved[p]["MAIN"] \in Nat
      BY <1>1, NumbersAssumption DEF TypeOK, Phases
    <2> QED
      BY <1>1, <1>4, <2>1 DEF PlanInv, MainOnly, MainGone
  <1>6. PlanInv(p)'
    BY <1>1, <1>4, <1>5
    DEF PlanInv, InTest, InMain, Seen, Backed, NotAhead, MainOnly, Early, TestDone, MainDone,
        MainGone, Sending, UnderWay, Terminal
  <1> QED
    BY <1>3, <1>4, <1>6 DEF GoodStep

LEMMA RouteRefusedStep ==
  ASSUME RebalanceInv, NEW p \in Plans, RouteRefused(p)
  PROVE  GoodStep(p)
  <1>1. TypeOK /\ PlanInv(p)
    BY DEF RebalanceInv
  <1>2. TypeOK'
    BY <1>1 DEF TypeOK, RouteRefused, Goto, Steps, Phases, moneyVars, boundVars
  <1>3. /\ plan[p] = "TEST_CONFIRMED" => phase'[p] = "MAIN"
        /\ plan[p] \in {"AWAITING_APPROVAL", "TEST_SENT"} => phase'[p] = "TEST"
        /\ plan[p] \in {"AWAITING_APPROVAL", "TEST_SENT", "TEST_CONFIRMED"}
        /\ pc'[p] = "failPlan"
        /\ OnlyTouches(p)
        /\ UNCHANGED <<plan, row, attempt, moved, credited>>
    BY <1>1 DEF TypeOK, RouteRefused, Goto, moneyVars, OnlyTouches
  <1>4. PlanInv(p)'
    BY <1>1, <1>3
    DEF PlanInv, InTest, InMain, Seen, Backed, NotAhead, MainOnly, Early, TestDone, MainDone,
        MainGone, Sending, UnderWay, Terminal
  <1> QED
    BY <1>2, <1>3, <1>4 DEF GoodStep

\* The values a write leaves behind.
LEMMA RowWritten ==
  ASSUME TypeOK, NEW p \in Plans, NEW s, NEW next, NEW otherwise, WriteRow(p, s, next, otherwise)
  PROVE  /\ row'[p] \in {row[p], s} /\ pc'[p] \in {next, otherwise}
         /\ pc'[p] # otherwise => row'[p] = s
         /\ \A q \in Plans \ {p} : row'[q] = row[q] /\ pc'[q] = pc[q]
  <1>1. row \in [Plans -> PlanStates] /\ pc \in [Plans -> Steps]
    BY DEF TypeOK
  <1> QED
    BY <1>1 DEF WriteRow, Wrote, WriteFails, Goto

LEMMA AttemptWritten ==
  ASSUME TypeOK, NEW p \in Plans, NEW s, NEW next, NEW otherwise, WriteAttempt(p, s, next, otherwise)
  PROVE  /\ pc'[p] \in {next, otherwise}
         /\ attempt'[p][phase[p]] \in {attempt[p][phase[p]], s}
         /\ pc'[p] # otherwise => attempt'[p][phase[p]] = s
         /\ \A ph \in Phases : ph # phase[p] => attempt'[p][ph] = attempt[p][ph]
         /\ \A q \in Plans \ {p} : attempt'[q] = attempt[q] /\ pc'[q] = pc[q]
  <1>1. attempt \in [Plans -> [Phases -> AttemptStatus]] /\ pc \in [Plans -> Steps] /\ phase[p] \in Phases
    BY DEF TypeOK
  <1>2. attempt[p] \in [Phases -> AttemptStatus]
    BY <1>1
  <1> QED
    BY <1>1, <1>2 DEF WriteAttempt, Wrote, WriteFails, Goto

LEMMA SavePlanStep ==
  ASSUME RebalanceInv, NEW p \in Plans, SavePlan(p)
  PROVE  GoodStep(p)
  <1>1. TypeOK /\ PlanInv(p)
    BY DEF RebalanceInv
  <1>2. WriteRow(p, plan[p], "record", "idle") /\ plan[p] \in PlanStates
    BY <1>1 DEF SavePlan, TypeOK
  <1>3. TypeOK'
    BY <1>1, <1>2, WritesType DEF TypeOK, SavePlan, Steps, moneyVars
  <1>4. /\ pc[p] = "savePlan" /\ pc'[p] \in {"record", "idle"} /\ row'[p] \in {row[p], plan[p]}
        /\ pc'[p] = "record" => row'[p] = plan[p]
        /\ OnlyTouches(p)
        /\ UNCHANGED <<plan, attempt, phase, moved, credited>>
    BY <1>1, <1>2, RowWritten DEF SavePlan, moneyVars, OnlyTouches
  <1>5. phase[p] \in {"TEST", "MAIN"}
    BY <1>1 DEF TypeOK, Phases
  <1>6. PlanInv(p)'
    BY <1>1, <1>4, <1>5
    DEF PlanInv, InTest, InMain, Seen, Backed, NotAhead, MainOnly, Early, TestDone, MainDone,
        MainGone, Sending, UnderWay, Terminal
  <1> QED
    BY <1>3, <1>4, <1>6 DEF GoodStep

LEMMA RecordStep ==
  ASSUME RebalanceInv, NEW p \in Plans, Record(p)
  PROVE  GoodStep(p)
  <1> DEFINE s == IF attempt[p][phase[p]] = "none" THEN "CREATED" ELSE attempt[p][phase[p]]
  <1>1. TypeOK /\ PlanInv(p)
    BY DEF RebalanceInv
  <1>2. phase[p] \in {"TEST", "MAIN"} /\ attempt[p][phase[p]] \in AttemptStatus
    BY <1>1 DEF TypeOK, Phases
  <1>3. WriteAttempt(p, s, "transfer", "idle") /\ s \in AttemptStatus
    BY <1>2 DEF Record, AttemptStatus
  <1>4. TypeOK'
    BY <1>1, <1>3, WritesType DEF TypeOK, Record, Steps, moneyVars
  <1>5. /\ pc[p] = "record" /\ pc'[p] \in {"transfer", "idle"}
        /\ \A ph \in Phases : attempt[p][ph] = "CONFIRMED" => attempt'[p][ph] = "CONFIRMED"
        /\ OnlyTouches(p)
        /\ UNCHANGED <<plan, row, phase, moved, credited>>
    BY <1>1, <1>3, AttemptWritten DEF Record, moneyVars, OnlyTouches
  <1>6. PlanInv(p)'
    BY <1>1, <1>2, <1>5
    DEF PlanInv, InTest, InMain, Seen, Backed, NotAhead, MainOnly, Early, TestDone, MainDone,
        MainGone, Sending, UnderWay, Terminal, Phases
  <1> QED
    BY <1>4, <1>5, <1>6 DEF GoodStep

LEMMA TransferStep ==
  ASSUME RebalanceInv, NEW p \in Plans, Transfer(p) \/ TransferFails(p)
  PROVE  GoodStep(p)
  <1>1. TypeOK /\ PlanInv(p)
    BY DEF RebalanceInv
  <1>2. phase[p] \in {"TEST", "MAIN"} /\ phase[p] \in Phases
    BY <1>1 DEF TypeOK, Phases
  <1>3. \/ moved' = moved
        \/ /\ moved[p][phase[p]] < MaxTransfers
           /\ moved' = [moved EXCEPT ![p][phase[p]] = moved[p][phase[p]] + 1]
    BY DEF Transfer, TransferFails
  <1>4. /\ moved \in [Plans -> [Phases -> 0 .. MaxTransfers]] /\ MaxTransfers \in Nat
        /\ moved[p] \in [Phases -> 0 .. MaxTransfers]
    BY <1>1, NumbersAssumption DEF TypeOK
  <1>5. moved' \in [Plans -> [Phases -> 0 .. MaxTransfers]]
    <2>1. CASE moved' = moved
      BY <1>4, <2>1
    <2>2. CASE /\ moved[p][phase[p]] < MaxTransfers
               /\ moved' = [moved EXCEPT ![p][phase[p]] = moved[p][phase[p]] + 1]
      <3>1. moved[p][phase[p]] + 1 \in 0 .. MaxTransfers
        BY <1>2, <1>4, <2>2
      <3>2. [moved[p] EXCEPT ![phase[p]] = moved[p][phase[p]] + 1] \in [Phases -> 0 .. MaxTransfers]
        BY <1>4, <3>1
      <3> QED
        BY <1>4, <2>2, <3>2
    <2> QED
      BY <1>3, <2>1, <2>2
  <1>6. TypeOK'
    <2>1. pc' \in [Plans -> Steps] /\ fate' \in [Plans -> {"TIMED_OUT", "FAILED"}]
      BY <1>1 DEF TypeOK, Transfer, TransferFails, Goto, Steps
    <2>2. CASE Transfer(p)
      BY <1>1, <1>5, <2>1, <2>2 DEF TypeOK, Transfer, boundVars
    <2>3. CASE TransferFails(p)
      BY <1>1, <1>5, <2>1, <2>3, StruckCounts DEF TypeOK, TransferFails, boundVars
    <2> QED
      BY <2>2, <2>3
  <1>7. /\ phase[p] = "MAIN" => moved'[p]["MAIN"] \in {moved[p]["MAIN"], moved[p]["MAIN"] + 1}
        /\ phase[p] = "TEST" => moved'[p]["MAIN"] = moved[p]["MAIN"]
        /\ \A q \in Plans \ {p} : moved'[q] = moved[q]
    BY <1>2, <1>3, <1>4 DEF Phases
  <1>8. /\ pc[p] = "transfer" /\ pc'[p] \in {"saveSent", "saveAttempt"}
        /\ OnlyTouches(p)
        /\ UNCHANGED <<plan, row, attempt, phase, credited>>
    BY <1>1, <1>7 DEF TypeOK, Transfer, TransferFails, Goto, OnlyTouches
  <1>9. phase[p] = "MAIN" => moved[p]["MAIN"] = 0 /\ plan[p] = "MAIN_SENT" /\ row[p] = "MAIN_SENT"
    BY <1>1, <1>8 DEF PlanInv, InMain, UnderWay, Sending
  <1>10. MainOnly(p)'
    <2>1. CASE phase[p] = "TEST"
      BY <1>1, <1>7, <1>8, <2>1 DEF PlanInv, MainOnly
    <2>2. CASE phase[p] = "MAIN"
      <3>1. moved'[p]["MAIN"] \in {0, 1} /\ plan'[p] = "MAIN_SENT" /\ row'[p] = "MAIN_SENT"
        BY <1>7, <1>8, <1>9, <2>2
      <3>2. credited'[p]["TEST"]
        BY <1>1, <1>8, <1>9, <2>2 DEF PlanInv, Backed, TestDone
      <3> QED
        BY <3>1, <3>2 DEF MainOnly, MainGone
    <2> QED
      BY <1>2, <2>1, <2>2
  <1>11. PlanInv(p)'
    BY <1>1, <1>2, <1>8, <1>10
    DEF PlanInv, InTest, InMain, Seen, Backed, NotAhead, Early, TestDone, MainDone,
        MainGone, Sending, UnderWay, Terminal
  <1> QED
    BY <1>6, <1>8, <1>11 DEF GoodStep

LEMMA SaveSentStep ==
  ASSUME RebalanceInv, NEW p \in Plans, SaveSent(p)
  PROVE  GoodStep(p)
  <1>1. TypeOK /\ PlanInv(p)
    BY DEF RebalanceInv
  <1>2. phase[p] \in {"TEST", "MAIN"}
    BY <1>1 DEF TypeOK, Phases
  <1>3. WriteAttempt(p, "SENT", "wait", "idle") /\ "SENT" \in AttemptStatus
    BY <1>1 DEF SaveSent, TypeOK, AttemptStatus
  <1>4. TypeOK'
    BY <1>1, <1>3, WritesType DEF TypeOK, SaveSent, Steps, moneyVars
  <1>5. /\ pc[p] = "saveSent" /\ pc'[p] \in {"wait", "idle"}
        /\ \A ph \in Phases : ph # phase[p] => attempt'[p][ph] = attempt[p][ph]
        /\ OnlyTouches(p)
        /\ UNCHANGED <<plan, row, phase, moved, credited>>
    BY <1>1, <1>3, AttemptWritten DEF SaveSent, moneyVars, OnlyTouches
  <1>6. PlanInv(p)'
    BY <1>1, <1>2, <1>5
    DEF PlanInv, InTest, InMain, Seen, Backed, NotAhead, MainOnly, Early, TestDone, MainDone,
        MainGone, Sending, UnderWay, Terminal, Phases
  <1> QED
    BY <1>4, <1>5, <1>6 DEF GoodStep

LEMMA SaveAttemptStep ==
  ASSUME RebalanceInv, NEW p \in Plans, SaveAttempt(p)
  PROVE  GoodStep(p)
  <1>1. TypeOK /\ PlanInv(p)
    BY DEF RebalanceInv
  <1>2. phase[p] \in {"TEST", "MAIN"}
    BY <1>1 DEF TypeOK, Phases
  <1>3. WriteAttempt(p, fate[p], "failPlan", "failPlan") /\ fate[p] \in AttemptStatus
    BY <1>1 DEF SaveAttempt, TypeOK, AttemptStatus
  <1>4. TypeOK'
    BY <1>1, <1>3, WritesType DEF TypeOK, SaveAttempt, Steps, moneyVars
  <1>5. /\ pc[p] = "saveAttempt" /\ pc'[p] \in {"failPlan", "failPlan"}
        /\ \A ph \in Phases : ph # phase[p] => attempt'[p][ph] = attempt[p][ph]
        /\ OnlyTouches(p)
        /\ UNCHANGED <<plan, row, phase, moved, credited>>
    BY <1>1, <1>3, AttemptWritten DEF SaveAttempt, moneyVars, OnlyTouches
  <1>6. PlanInv(p)'
    BY <1>1, <1>2, <1>5
    DEF PlanInv, InTest, InMain, Seen, Backed, NotAhead, MainOnly, Early, TestDone, MainDone,
        MainGone, Sending, UnderWay, Terminal, Phases
  <1> QED
    BY <1>4, <1>5, <1>6 DEF GoodStep

LEMMA WaitStep ==
  ASSUME RebalanceInv, NEW p \in Plans,
         WaitConfirmed(p) \/ WaitFails(p, "FAILED") \/ WaitFails(p, "TIMED_OUT")
  PROVE  GoodStep(p)
  <1>1. TypeOK /\ PlanInv(p)
    BY DEF RebalanceInv
  <1>2. phase[p] \in {"TEST", "MAIN"}
    BY <1>1 DEF TypeOK, Phases
  <1>3. TypeOK'
    <2>1. pc' \in [Plans -> Steps] /\ fate' \in [Plans -> {"TIMED_OUT", "FAILED"}]
      BY <1>1 DEF TypeOK, WaitConfirmed, WaitFails, Goto, Steps
    <2>2. CASE WaitConfirmed(p)
      BY <1>1, <2>1, <2>2, SuccessCounts DEF TypeOK, WaitConfirmed, moneyVars, boundVars
    <2>3. CASE WaitFails(p, "FAILED") \/ WaitFails(p, "TIMED_OUT")
      BY <1>1, <2>1, <2>3, StruckCounts DEF TypeOK, WaitFails, moneyVars, boundVars
    <2> QED
      BY <2>2, <2>3
  <1>4. /\ pc[p] = "wait" /\ pc'[p] \in {"saveConfirmed", "saveAttempt"}
        /\ pc'[p] = "saveConfirmed" => credited[p][phase[p]]
        /\ OnlyTouches(p)
        /\ UNCHANGED <<plan, row, attempt, phase, moved, credited>>
    BY <1>1 DEF TypeOK, WaitConfirmed, WaitFails, Goto, OnlyTouches, moneyVars
  <1>5. PlanInv(p)'
    BY <1>1, <1>2, <1>4
    DEF PlanInv, InTest, InMain, Seen, Backed, NotAhead, MainOnly, Early, TestDone, MainDone,
        MainGone, Sending, UnderWay, Terminal
  <1> QED
    BY <1>3, <1>4, <1>5 DEF GoodStep

LEMMA FailPlanStep ==
  ASSUME RebalanceInv, NEW p \in Plans, FailPlan(p)
  PROVE  GoodStep(p)
  <1>1. TypeOK /\ PlanInv(p)
    BY DEF RebalanceInv
  <1>2. phase[p] \in {"TEST", "MAIN"} /\ pc[p] = "failPlan"
    BY <1>1 DEF TypeOK, Phases, FailPlan
  <1>3. plan[p] \in {"AWAITING_APPROVAL", "TEST_SENT", "TEST_CONFIRMED", "MAIN_SENT"}
    BY <1>1, <1>2 DEF PlanInv, InTest, InMain
  <1>4. plan' = [plan EXCEPT ![p] = "FAILED"]
    BY <1>1, <1>3 DEF FailPlan, Moved, MayMove, Allowed, TypeOK
  <1>5. WriteRow(p, "FAILED", "idle", "idle") /\ "FAILED" \in PlanStates
    BY DEF FailPlan, PlanStates
  <1>6. TypeOK'
    <2>1. plan' \in [Plans -> PlanStates]
      BY <1>1, <1>4, <1>5 DEF TypeOK
    <2>2. row' \in [Plans -> PlanStates] /\ pc' \in [Plans -> Steps] /\ dbFails' \in 0 .. MaxDbFails
      <3>1. "idle" \in Steps
        BY DEF Steps
      <3> QED
        BY <1>1, <1>5, <3>1, WritesType
    <2>3. UNCHANGED <<dryRun, attempt, breaker, phase, fate, moneyVars, strikes, crashes>>
      BY DEF FailPlan
    <2> QED
      BY <1>1, <2>1, <2>2, <2>3 DEF TypeOK, moneyVars
  <1>7. /\ plan'[p] = "FAILED" /\ pc'[p] = "idle" /\ row'[p] \in {row[p], "FAILED"}
        /\ OnlyTouches(p)
        /\ UNCHANGED <<attempt, phase, moved, credited>>
    <2>1. plan'[p] = "FAILED" /\ \A q \in Plans \ {p} : plan'[q] = plan[q]
      BY <1>1, <1>4 DEF TypeOK
    <2>2. UNCHANGED <<attempt, phase, moved, credited>>
      BY DEF FailPlan, moneyVars
    <2> QED
      BY <1>1, <1>5, <2>1, <2>2, RowWritten DEF OnlyTouches
  <1>8. PlanInv(p)'
    BY <1>1, <1>2, <1>3, <1>7
    DEF PlanInv, InTest, InMain, Seen, Backed, NotAhead, MainOnly, Early, TestDone, MainDone,
        MainGone, Sending, UnderWay, Terminal
  <1> QED
    BY <1>6, <1>7, <1>8 DEF GoodStep

LEMMA SaveConfirmedStep ==
  ASSUME RebalanceInv, NEW p \in Plans, SaveConfirmed(p)
  PROVE  GoodStep(p)
  <1>1. TypeOK /\ PlanInv(p)
    BY DEF RebalanceInv
  <1>2. phase[p] \in {"TEST", "MAIN"} /\ pc[p] = "saveConfirmed" /\ credited[p][phase[p]]
    BY <1>1 DEF TypeOK, Phases, SaveConfirmed, PlanInv, Seen
  <1>3. /\ phase[p] = "TEST" => plan[p] = "TEST_SENT"
        /\ phase[p] = "MAIN" => plan[p] = "MAIN_SENT" /\ row[p] = "MAIN_SENT"
    BY <1>1, <1>2 DEF PlanInv, InTest, InMain, UnderWay, Sending
  <1>4. Moved(p, Confirmed[phase[p]]) = [plan EXCEPT ![p] = Confirmed[phase[p]]]
    <2>1. CASE phase[p] = "TEST"
      <3>1. Confirmed[phase[p]] = "TEST_CONFIRMED" /\ plan[p] = "TEST_SENT"
        BY <1>3, <2>1 DEF Confirmed
      <3> QED
        BY <1>1, <3>1 DEF Moved, MayMove, Allowed, TypeOK
    <2>2. CASE phase[p] = "MAIN"
      <3>1. Confirmed[phase[p]] = "MAIN_CONFIRMED" /\ plan[p] = "MAIN_SENT"
        BY <1>3, <2>2 DEF Confirmed
      <3> QED
        BY <1>1, <3>1 DEF Moved, MayMove, Allowed, TypeOK
    <2> QED
      BY <1>2, <2>1, <2>2
  <1>5. plan' = IF pc'[p] = "saveOutcome" THEN [plan EXCEPT ![p] = Confirmed[phase[p]]] ELSE plan
    BY <1>4 DEF SaveConfirmed
  <1>6. WriteAttempt(p, "CONFIRMED", "saveOutcome", "idle")
    BY DEF SaveConfirmed
  <1>7. Confirmed[phase[p]] \in PlanStates /\ "CONFIRMED" \in AttemptStatus
    BY <1>2 DEF Confirmed, PlanStates, AttemptStatus
  <1>8. TypeOK'
    <2>1. plan' \in [Plans -> PlanStates]
      BY <1>1, <1>5, <1>7 DEF TypeOK
    <2> QED
      BY <1>1, <1>6, <1>7, <2>1, WritesType DEF TypeOK, SaveConfirmed, Steps, moneyVars
  <1>9. /\ pc'[p] \in {"saveOutcome", "idle"}
        /\ pc'[p] = "saveOutcome" => /\ plan'[p] = Confirmed[phase[p]]
                                     /\ attempt'[p][phase[p]] = "CONFIRMED"
        /\ pc'[p] = "idle" => plan'[p] = plan[p]
        /\ \A ph \in Phases : ph # phase[p] => attempt'[p][ph] = attempt[p][ph]
        /\ OnlyTouches(p)
        /\ UNCHANGED <<row, phase, moved, credited>>
    <2>1. /\ pc'[p] = "saveOutcome" => plan'[p] = Confirmed[phase[p]]
          /\ pc'[p] = "idle" => plan'[p] = plan[p]
          /\ \A q \in Plans \ {p} : plan'[q] = plan[q]
      BY <1>1, <1>5 DEF TypeOK
    <2>2. UNCHANGED <<row, phase, moved, credited>>
      BY DEF SaveConfirmed, moneyVars
    <2> QED
      BY <1>1, <1>6, <2>1, <2>2, AttemptWritten DEF OnlyTouches
  <1>10. CASE pc'[p] = "idle"
    <2>1. PlanInv(p)'
      BY <1>1, <1>2, <1>3, <1>9, <1>10
      DEF PlanInv, InTest, InMain, Seen, Backed, NotAhead, MainOnly, Early, TestDone, MainDone,
          MainGone, Sending, UnderWay, Terminal, Phases
    <2> QED
      BY <1>8, <1>9, <2>1 DEF GoodStep
  <1>11. CASE pc'[p] = "saveOutcome"
    <2>1. CASE phase[p] = "TEST"
      <3>1. /\ plan'[p] = "TEST_CONFIRMED" /\ attempt'[p]["TEST"] = "CONFIRMED"
            /\ credited'[p]["TEST"] /\ row'[p] \in Early /\ phase'[p] = "TEST"
            /\ plan[p] = "TEST_SENT"
        BY <1>1, <1>2, <1>3, <1>9, <1>11, <2>1 DEF Confirmed, PlanInv, NotAhead, Early
      <3>2. moved'[p]["MAIN"] = moved[p]["MAIN"] /\ ~ (moved[p]["MAIN"] > 0)
        BY <1>1, <1>9, <3>1 DEF PlanInv, MainOnly, MainGone
      <3>3. PlanInv(p)'
        BY <1>1, <1>11, <3>1, <3>2
        DEF PlanInv, InTest, InMain, Seen, Backed, NotAhead, MainOnly, Early, TestDone, MainDone,
            UnderWay, Sending, Terminal
      <3> QED
        BY <1>8, <1>9, <3>3 DEF GoodStep
    <2>2. CASE phase[p] = "MAIN"
      <3>1. /\ plan'[p] = "MAIN_CONFIRMED" /\ attempt'[p]["MAIN"] = "CONFIRMED"
            /\ credited'[p]["MAIN"] /\ row'[p] = "MAIN_SENT" /\ phase'[p] = "MAIN"
            /\ plan[p] = "MAIN_SENT" /\ attempt'[p]["TEST"] = attempt[p]["TEST"]
        BY <1>2, <1>3, <1>9, <1>11, <2>2 DEF Confirmed, Phases
      <3>2. PlanInv(p)'
        BY <1>1, <1>9, <1>11, <3>1
        DEF PlanInv, InTest, InMain, Seen, Backed, NotAhead, MainOnly, Early, TestDone, MainDone,
            MainGone, UnderWay, Sending, Terminal
      <3> QED
        BY <1>8, <1>9, <3>2 DEF GoodStep
    <2> QED
      BY <1>2, <2>1, <2>2
  <1> QED
    BY <1>9, <1>10, <1>11

LEMMA SaveOutcomeStep ==
  ASSUME RebalanceInv, NEW p \in Plans, SaveOutcome(p)
  PROVE  GoodStep(p)
  <1> DEFINE next == IF plan[p] = "MAIN_CONFIRMED" THEN "saveOutcome" ELSE "idle"
  <1>1. TypeOK /\ PlanInv(p)
    BY DEF RebalanceInv
  <1>2. phase[p] \in {"TEST", "MAIN"} /\ pc[p] = "saveOutcome"
    BY <1>1 DEF TypeOK, Phases, SaveOutcome
  <1>3. /\ phase[p] = "TEST" => plan[p] = "TEST_CONFIRMED"
        /\ phase[p] = "MAIN" => plan[p] \in {"MAIN_CONFIRMED", "COMPLETED"}
    BY <1>1, <1>2 DEF PlanInv, InTest, InMain, MainDone
  <1>4. WriteRow(p, plan[p], next, "idle") /\ plan[p] \in PlanStates
    BY <1>1 DEF SaveOutcome, TypeOK
  <1>5. /\ pc'[p] \in {next, "idle"} /\ row'[p] \in {row[p], plan[p]}
        /\ pc'[p] # "idle" => row'[p] = plan[p] /\ plan[p] = "MAIN_CONFIRMED"
        /\ \A q \in Plans \ {p} : row'[q] = row[q] /\ pc'[q] = pc[q]
    BY <1>1, <1>4, RowWritten
  <1>6. plan' = IF pc'[p] = "saveOutcome" THEN [plan EXCEPT ![p] = "COMPLETED"] ELSE plan
    <2>1. CASE pc'[p] = "saveOutcome"
      BY <1>1, <1>5, <2>1 DEF SaveOutcome, Moved, MayMove, Allowed, TypeOK
    <2>2. CASE pc'[p] # "saveOutcome"
      BY <2>2 DEF SaveOutcome
    <2> QED
      BY <2>1, <2>2
  <1>7. TypeOK'
    <2>1. plan' \in [Plans -> PlanStates]
      BY <1>1, <1>6 DEF TypeOK, PlanStates
    <2>2. next \in Steps /\ "idle" \in Steps
      BY DEF Steps
    <2>3. row' \in [Plans -> PlanStates] /\ pc' \in [Plans -> Steps] /\ dbFails' \in 0 .. MaxDbFails
      BY <1>1, <1>4, <2>2, WritesType
    <2> QED
      BY <1>1, <2>1, <2>3 DEF TypeOK, SaveOutcome, moneyVars
  <1>8. /\ pc'[p] = "saveOutcome" => plan'[p] = "COMPLETED"
        /\ pc'[p] # "saveOutcome" => plan'[p] = plan[p]
        /\ OnlyTouches(p)
        /\ UNCHANGED <<attempt, phase, moved, credited>>
    <2>1. /\ pc'[p] = "saveOutcome" => plan'[p] = "COMPLETED"
          /\ pc'[p] # "saveOutcome" => plan'[p] = plan[p]
          /\ \A q \in Plans \ {p} : plan'[q] = plan[q]
      BY <1>1, <1>6 DEF TypeOK
    <2>2. UNCHANGED <<attempt, phase, moved, credited>>
      BY DEF SaveOutcome, moneyVars
    <2> QED
      BY <1>5, <2>1, <2>2 DEF OnlyTouches
  <1>9. PlanInv(p)'
    BY <1>1, <1>2, <1>3, <1>5, <1>8
    DEF PlanInv, InTest, InMain, Seen, Backed, NotAhead, MainOnly, Early, TestDone, MainDone,
        MainGone, Sending, UnderWay, Terminal
  <1> QED
    BY <1>7, <1>8, <1>9 DEF GoodStep

LEMMA CreditStep ==
  ASSUME RebalanceInv, NEW p \in Plans, NEW ph \in Phases, Credit(p, ph)
  PROVE  GoodStep(p)
  <1>1. TypeOK /\ PlanInv(p)
    BY DEF RebalanceInv
  <1>2. /\ credited \in [Plans -> [Phases -> BOOLEAN]] /\ credited[p] \in [Phases -> BOOLEAN]
        /\ phase[p] \in Phases
    BY <1>1 DEF TypeOK
  <1>3. [credited[p] EXCEPT ![ph] = TRUE] \in [Phases -> BOOLEAN]
    BY <1>2
  <1>4. credited' = [credited EXCEPT ![p] = [credited[p] EXCEPT ![ph] = TRUE]]
    BY <1>2 DEF Credit
  <1>5. TypeOK'
    BY <1>1, <1>2, <1>3, <1>4 DEF TypeOK, Credit, boundVars
  <1>6. /\ \A x \in Phases : credited[p][x] => credited'[p][x]
        /\ OnlyTouches(p)
        /\ UNCHANGED <<plan, row, attempt, pc, phase, moved>>
    BY <1>2, <1>4 DEF Credit, OnlyTouches
  <1>7. PlanInv(p)'
    BY <1>1, <1>2, <1>6
    DEF PlanInv, InTest, InMain, Seen, Backed, NotAhead, MainOnly, Phases
  <1> QED
    BY <1>5, <1>6, <1>7 DEF GoodStep

-------------------------------------------------------------------------------
(* All the steps. *)

PlanStep(p) ==
  \/ \E to \in PlanStates : CallerMoves(p, to)
  \/ BeginTest(p) \/ BeginMain(p) \/ RouteRefused(p)
  \/ CallStep(p)
  \/ \E ph \in Phases : Credit(p, ph)

LEMMA PlanStepIsGood ==
  ASSUME RebalanceInv, NEW p \in Plans, PlanStep(p)
  PROVE  GoodStep(p)
  <1>1. CASE CallStep(p)
    BY <1>1, SavePlanStep, RecordStep, TransferStep, SaveSentStep, WaitStep, SaveAttemptStep,
       FailPlanStep, SaveConfirmedStep, SaveOutcomeStep DEF CallStep
  <1>2. CASE ~ CallStep(p)
    BY <1>2, CallerStep, BeginTestStep, BeginMainStep, RouteRefusedStep, CreditStep DEF PlanStep
  <1> QED
    BY <1>1, <1>2

LEMMA PlanStepCounts ==
  ASSUME RebalanceInv, NEW p \in Plans, PlanStep(p)
  PROVE  \A s \in Scopes : Counting(s)'
  <1>1. CASE TransferFails(p) \/ WaitFails(p, "FAILED") \/ WaitFails(p, "TIMED_OUT")
    BY <1>1, StruckCounts DEF TransferFails, WaitFails
  <1>2. CASE WaitConfirmed(p)
    BY <1>2, SuccessCounts
  <1>3. CASE UNCHANGED <<breaker, strikes>>
    BY <1>3, CountsStay
  <1> QED
    BY <1>1, <1>2, <1>3
    DEF PlanStep, CallStep, CallerMoves, BeginTest, BeginMain, RouteRefused, Credit, SavePlan, Record,
        Transfer, SaveSent, SaveAttempt, FailPlan, SaveConfirmed, SaveOutcome

LEMMA ResetStep ==
  ASSUME RebalanceInv, NEW s \in Scopes, Reset(s)
  PROVE  RebalanceInv'
  <1>1. Threshold \in Nat \ {0}
    BY NumbersAssumption
  <1>2. NoFailures \in [failures : 0 .. Threshold, tripped : BOOLEAN]
    BY <1>1 DEF NoFailures
  <1>3. TypeOK'
    BY <1>2 DEF RebalanceInv, TypeOK, Reset, moneyVars, boundVars
  <1>4. ASSUME NEW p \in Plans PROVE PlanInv(p)'
    BY DEF RebalanceInv, Reset, PlanInv, InTest, InMain, Seen, Backed, NotAhead, MainOnly, moneyVars
  <1>5. ASSUME NEW t \in Scopes PROVE Counting(t)'
    BY <1>1 DEF RebalanceInv, TypeOK, Reset, Counting, NoFailures
  <1> QED
    BY <1>3, <1>4, <1>5 DEF RebalanceInv

\* What a restart finds in the rows was true before it.
LEMMA RestartStep ==
  ASSUME RebalanceInv, Restart
  PROVE  RebalanceInv'
  <1>1. Threshold \in Nat \ {0} /\ MaxCrashes \in Nat
    BY NumbersAssumption
  <1>2. TypeOK'
    <2>1. crashes' \in 0 .. MaxCrashes
      BY <1>1 DEF RebalanceInv, TypeOK, Restart
    <2>2. NoFailures \in [failures : 0 .. Threshold, tripped : BOOLEAN]
      BY <1>1 DEF NoFailures
    <2> QED
      BY <2>1, <2>2 DEF RebalanceInv, TypeOK, Restart, moneyVars, Steps
  <1>3. ASSUME NEW p \in Plans PROVE PlanInv(p)'
    <2>1. PlanInv(p) /\ pc'[p] = "idle" /\ plan'[p] = row[p]
          /\ UNCHANGED <<row, attempt, phase, moved, credited>>
      BY DEF RebalanceInv, Restart, moneyVars
    <2> QED
      BY <2>1
      DEF PlanInv, InTest, InMain, Seen, Backed, NotAhead, MainOnly, Early, TestDone, MainDone,
          MainGone, Sending, UnderWay, Terminal
  <1>4. ASSUME NEW s \in Scopes PROVE Counting(s)'
    BY <1>1 DEF Restart, Counting, NoFailures
  <1> QED
    BY <1>2, <1>3, <1>4 DEF RebalanceInv

LEMMA RebalanceStep == RebalanceInv /\ [Next]_vars => RebalanceInv'
  <1> SUFFICES ASSUME RebalanceInv, [Next]_vars PROVE RebalanceInv'
    OBVIOUS
  <1>1. ASSUME NEW p \in Plans, PlanStep(p) PROVE RebalanceInv'
    <2>1. GoodStep(p) /\ \A s \in Scopes : Counting(s)'
      BY <1>1, PlanStepIsGood, PlanStepCounts
    <2>2. \A q \in Plans : PlanInv(q)'
      BY <2>1, OthersStay DEF GoodStep
    <2> QED
      BY <2>1, <2>2 DEF GoodStep, RebalanceInv
  <1>2. CASE UNCHANGED vars
    BY <1>2
    DEF vars, moneyVars, boundVars, RebalanceInv, TypeOK, Counting, PlanInv, InTest, InMain, Seen,
        Backed, NotAhead, MainOnly
  <1> QED
    BY <1>1, <1>2, ResetStep, RestartStep DEF Next, PlanStep

-------------------------------------------------------------------------------
(* Plans, attempts, breakers and calls are always of their types           *)
(* (Plan.Transition, RecordFailure, ExecuteTest, ExecuteMain).             *)
THEOREM TypeCorrect == Spec => []TypeOK
  <1>1. RebalanceInv => TypeOK
    BY DEF RebalanceInv
  <1> QED
    BY <1>1, RebalanceInit, RebalanceStep, PTL DEF Spec

(* The main amount of a plan leaves at most once, whatever writes fail,    *)
(* however often the plan is run again and the process restarts            *)
(* (ExecuteMain saves MAIN_SENT before it transfers).                      *)
THEOREM MainOnce == Spec => []MainAtMostOnce
  <1>1. RebalanceInv => MainAtMostOnce
    BY DEF RebalanceInv, PlanInv, MainOnly, MainAtMostOnce
  <1> QED
    BY <1>1, RebalanceInit, RebalanceStep, PTL DEF Spec

(* The main amount leaves only after the test amount was credited          *)
(* (ExecuteMain returns unless the plan is TEST_CONFIRMED).                *)
THEOREM MainFollowsTest == Spec => []MainAfterTest
  <1>1. RebalanceInv => MainAfterTest
    BY DEF RebalanceInv, PlanInv, MainOnly, MainAfterTest
  <1> QED
    BY <1>1, RebalanceInit, RebalanceStep, PTL DEF Spec

(* A plan the database shows as COMPLETED has both deposits credited and   *)
(* both attempts recorded as confirmed (ExecuteMain, RecordAttempt).       *)
THEOREM CompletedMeansCredited == Spec => []CompletedIsCredited
  <1>1. RebalanceInv => CompletedIsCredited
    BY DEF RebalanceInv, PlanInv, Backed, TestDone, MainDone, CompletedIsCredited, Phases
  <1> QED
    BY <1>1, RebalanceInit, RebalanceStep, PTL DEF Spec

(* After Threshold failures in a row no call begins to move money from the *)
(* exchange (CircuitBreaker.IsTripped, RecordFailure, RecordSuccess).      *)
THEOREM ScopeRests == Spec => TrippedScopeRests
  <1>1. RebalanceInv /\ [Next]_vars =>
          [\A p \in Plans : pc[p] = "idle" /\ pc'[p] \in {"savePlan", "record"} =>
             strikes[ScopeOf[p]] < Threshold]_vars
    <2> SUFFICES ASSUME RebalanceInv, [Next]_vars, NEW p \in Plans,
                        pc[p] = "idle", pc'[p] \in {"savePlan", "record"}
                 PROVE  strikes[ScopeOf[p]] < Threshold
      OBVIOUS
    <2>1. ~ UNCHANGED pc
      OBVIOUS
    <2>2. ~ Restart /\ \A s \in Scopes : ~ Reset(s)
      BY <2>1 DEF Restart, Reset
    <2>3. PICK q \in Plans : PlanStep(q)
      BY <2>1, <2>2 DEF Next, PlanStep, vars
    <2>4. q = p
      BY <2>3, PlanStepIsGood DEF GoodStep, OnlyTouches
    <2>5. BeginTest(p) \/ BeginMain(p)
      <3>1. ~ CallStep(p)
        BY DEF CallStep, SavePlan, Record, Transfer, TransferFails, SaveSent, WaitConfirmed, WaitFails,
               SaveAttempt, FailPlan, SaveConfirmed, SaveOutcome
      <3>2. ~ RouteRefused(p)
        BY DEF RouteRefused, Goto, RebalanceInv, TypeOK
      <3> QED
        BY <2>1, <2>3, <2>4, <3>1, <3>2 DEF PlanStep, CallerMoves, Credit
    <2>6. ~ Tripped(p)
      BY <2>5 DEF BeginTest, BeginMain
    <2>7. ScopeOf[p] \in Scopes
      BY ScopeAssumption
    <2> QED
      BY <2>6, <2>7 DEF RebalanceInv, Counting, Tripped
  <1> QED
    BY <1>1, RebalanceInit, RebalanceStep, PTL DEF Spec, TrippedScopeRests

(* A plan the database shows as over stays so, and no money leaves for it  *)
(* (Plan.Transition, IsTerminal).                                          *)
THEOREM TerminalPlanStays == Spec => TerminalPlanIsFinal
  <1>1. RebalanceInv /\ [Next]_vars =>
          [\A p \in Plans : row[p] \in Terminal => row'[p] = row[p] /\ moved'[p] = moved[p]]_vars
    <2> SUFFICES ASSUME RebalanceInv, [Next]_vars, NEW p \in Plans, row[p] \in Terminal
                 PROVE  row'[p] = row[p] /\ moved'[p] = moved[p]
      OBVIOUS
    <2>1. plan[p] \in Terminal /\ pc[p] = "idle"
      BY DEF RebalanceInv, PlanInv, NotAhead
    <2>2. ASSUME PlanStep(p) PROVE UNCHANGED <<row, moved>>
      <3>1. ~ CallStep(p) /\ ~ BeginTest(p) /\ ~ BeginMain(p) /\ ~ RouteRefused(p)
        BY <2>1 DEF CallStep, SavePlan, Record, Transfer, TransferFails, SaveSent, WaitConfirmed, WaitFails,
               SaveAttempt, FailPlan, SaveConfirmed, SaveOutcome, BeginTest, BeginMain, RouteRefused, Terminal
      <3>2. ASSUME NEW to \in PlanStates PROVE ~ CallerMoves(p, to)
        BY <2>1 DEF CallerMoves, MayMove, Allowed, Terminal
      <3> QED
        BY <2>2, <3>1, <3>2 DEF PlanStep, Credit
    <2>3. ASSUME NEW q \in Plans \ {p}, PlanStep(q) PROVE row'[p] = row[p] /\ moved'[p] = moved[p]
      BY <2>3, PlanStepIsGood DEF GoodStep, OnlyTouches
    <2>4. CASE Restart \/ (\E s \in Scopes : Reset(s)) \/ UNCHANGED vars
      BY <2>4 DEF Restart, Reset, vars, moneyVars
    <2> QED
      BY <2>2, <2>3, <2>4 DEF Next, PlanStep
  <1> QED
    BY <1>1, RebalanceInit, RebalanceStep, PTL DEF Spec, TerminalPlanIsFinal
===============================================================================
