---------------------- MODULE PositionStateMachineProofs ----------------------
(***************************************************************************)
(* What PositionStateMachine guarantees for every set of callers, every    *)
(* set of quantities and every bound on the log.                           *)
(***************************************************************************)
EXTENDS PositionStateMachine, SequenceTheorems, TLAPS

USE DEF Steps

-------------------------------------------------------------------------------
\* The table leads from states to states.
LEMMA TransitionsLeadToStates ==
  ASSUME NEW s, NEW t, CanTransition(s, t) PROVE t \in States
BY DEF CanTransition, States

\* The table has no line for a terminal state.
LEMMA TerminalHasNoSuccessor ==
  ASSUME NEW s \in Terminal, NEW t PROVE ~CanTransition(s, t)
BY DEF Terminal, CanTransition

\* No terminal position is loaded again after a restart.
LEMMA TerminalIsNotRestored == Terminal \cap Restored = {}
BY DEF Terminal, Restored

LEMMA InitialState == "DISCOVERED" \in States \ Terminal
BY DEF States, Terminal

-------------------------------------------------------------------------------
\* Type correctness: every value the methods of Position and the persister
\* store is one the schema and the struct allow.
LEMMA LocalsType == NoCall \in Transition /\ NoSnap \in Snapshot
BY InitialState, DeltasAssumption DEF NoCall, NoSnap, Transition, Snapshot

LEMMA TypeInit == Init => TypeOK
<1> SUFFICES ASSUME Init PROVE TypeOK
  OBVIOUS
<1>1. row \in Row
  BY DeltasAssumption DEF Init, Row
<1>2. history \in Seq(Transition) /\ log \in Seq(Transition)
  BY DEF Init
<1>3. loaded \in BOOLEAN /\ persisting \in BOOLEAN /\ lost \in Losses
  BY DEF Init, Losses
<1> QED BY <1>1, <1>2, <1>3, LocalsType, InitialState, DeltasAssumption DEF Init, TypeOK

LEMMA ReturnType ==
  ASSUME TypeOK, NEW c \in Callers, Return(c)
  PROVE  /\ pc' \in [Callers -> Steps]
         /\ call' \in [Callers -> Transition]
         /\ snap' \in [Callers -> Snapshot]
BY LocalsType DEF TypeOK, Return

LEMMA TypeStep == TypeOK /\ [Next]_vars => TypeOK'
<1> SUFFICES ASSUME TypeOK, [Next]_vars PROVE TypeOK'
  OBVIOUS
<1>1. ASSUME NEW c \in Callers, NEW to \in States, Begin(c, to) PROVE TypeOK'
  <2>1. [from |-> state, to |-> to] \in Transition
    BY DEF TypeOK, Transition
  <2>2. history' \in Seq(Transition)
    BY <1>1, <2>1 DEF TypeOK, Begin
  <2> QED BY <1>1, <2>1, <2>2 DEF TypeOK, Begin
<1>2. ASSUME NEW c \in Callers, UpsertTx(c) PROVE TypeOK'
  BY <1>2 DEF TypeOK, UpsertTx, Snapshot
<1>3. ASSUME NEW c \in Callers, Written(c) PROVE row' \in Row /\ log' \in Seq(Transition)
  BY <1>3 DEF TypeOK, Written, Row, Snapshot
<1>4. ASSUME NEW c \in Callers, Commit(c) PROVE TypeOK'
  BY <1>3, <1>4 DEF TypeOK, Commit
<1>5. ASSUME NEW c \in Callers, CommitAnswerLost(c) PROVE TypeOK'
  BY <1>3, <1>5 DEF TypeOK, CommitAnswerLost, Losses
<1>6. ASSUME NEW c \in Callers, PersistFails(c) PROVE TypeOK'
  BY <1>6 DEF TypeOK, PersistFails
<1>7. ASSUME NEW c \in Callers, Finish(c) PROVE TypeOK'
  BY <1>7, ReturnType DEF TypeOK, Finish
<1>8. ASSUME NEW c \in Callers, Rollback(c) PROVE TypeOK'
  <2>1. history' \in Seq(Transition)
    <3>1. CASE history = <<>>
      BY <1>8, <3>1 DEF Rollback
    <3>2. CASE history # <<>>
      <4>1. Len(history) \in Nat /\ \A i \in 1 .. Len(history) - 1 : history[i] \in Transition
        BY DEF TypeOK
      <4> QED BY <1>8, <3>2, <4>1, SubSeqProperties DEF Rollback
    <3> QED BY <3>1, <3>2
  <2>2. call[c].from \in States
    BY DEF TypeOK, Transition
  <2> QED BY <1>8, <2>1, <2>2, ReturnType DEF TypeOK, Rollback
<1>9. ASSUME NEW d \in Deltas, SetQuantities(d) PROVE TypeOK'
  BY <1>9 DEF TypeOK, SetQuantities
<1>10. CASE Restart
  <2>1. RowState \in States /\ row.delta \in Deltas
    BY InitialState DEF TypeOK, Row, RowState
  <2>2. persisting' \in BOOLEAN
    BY <1>10 DEF Restart
  <2>3. history' \in Seq(Transition)
    BY <1>10 DEF Restart
  <2>4. loaded' \in BOOLEAN
    <3>1. CASE RowState \in Restored
      BY <1>10, <3>1 DEF Restart
    <3>2. CASE RowState \notin Restored
      BY <1>10, <3>2 DEF Restart
    <3> QED BY <3>1, <3>2
  <2>5. /\ state' \in States /\ delta' \in Deltas /\ row' \in Row /\ log' \in Seq(Transition)
        /\ pc' \in [Callers -> Steps] /\ call' \in [Callers -> Transition]
        /\ snap' \in [Callers -> Snapshot] /\ lost' \in Losses
    BY <1>10, <2>1, LocalsType DEF TypeOK, Restart, Losses
  <2> QED BY <2>2, <2>3, <2>4, <2>5 DEF TypeOK
<1>11. CASE UNCHANGED vars
  BY <1>11 DEF TypeOK, vars
<1> QED
  BY <1>1, <1>2, <1>4, <1>5, <1>6, <1>7, <1>8, <1>9, <1>10, <1>11
     DEF Next, PersistStep

\* Every reachable state is well typed.
THEOREM TypeCorrect == Spec => []TypeOK
BY TypeInit, TypeStep, PTL DEF Spec

-------------------------------------------------------------------------------
(***************************************************************************)
(* The inductive invariant.  RowAtMostOneStepAhead speaks of a position at *)
(* rest; a step of TransitionTo preserves it only because of what holds    *)
(* between its two critical sections:                                      *)
(*   - memory shows the target of the one caller in flight, reached by a   *)
(*     legal transition (otherwise Rollback would restore a wrong state);  *)
(*   - until that caller commits, the row is still at its start or, after  *)
(*     an earlier lost answer, one legal step from it;                     *)
(*   - the snapshot it will write shows its target and, for a terminal     *)
(*     target, the quantities of today: nobody may change them any more.   *)
(***************************************************************************)
Near(s) == RowState = s \/ CanTransition(s, RowState)

CallInv(c) ==
  /\ state = call[c].to
  /\ CanTransition(call[c].from, call[c].to)
  /\ pc[c] # "saved" => Near(call[c].from)
  /\ pc[c] = "saved" => /\ RowState = call[c].to
                        /\ call[c].to \in Terminal => row.delta = delta
  /\ pc[c] = "upserted" => /\ snap[c].state = call[c].to
                           /\ call[c].to \in Terminal => snap[c].delta = delta

IInv ==
  /\ TypeOK
  /\ persisting <=> (\E c \in Callers : pc[c] # "idle")
  /\ \A c, d \in InFlight : c = d
  /\ \A c \in InFlight : CallInv(c)
  /\ RowAtMostOneStepAhead
  /\ TerminalRowHasFinalDelta

LEMMA IInvInit == Init => IInv
<1> SUFFICES ASSUME Init PROVE IInv
  OBVIOUS
<1>1. InFlight = {}
  BY DEF Init, InFlight
<1>2. RowAtMostOneStepAhead /\ TerminalRowHasFinalDelta
  BY InitialState DEF Init, RowAtMostOneStepAhead, RowState, TerminalRowHasFinalDelta
<1> QED BY <1>1, <1>2, TypeInit DEF IInv, Init, InFlight

\* A written snapshot is a real row: RowState reads its state.
LEMMA WrittenRow ==
  ASSUME TypeOK, NEW c \in Callers, Written(c)
  PROVE  RowState' = snap[c].state /\ row'.delta = snap[c].delta
BY NoRowAssumption DEF TypeOK, Written, RowState, Snapshot

\* Only the caller in flight moves: everyone else is idle before and after.
LEMMA OthersIdle ==
  ASSUME IInv, NEW c \in Callers, pc[c] # "idle", NEW e \in Steps,
         pc' = [pc EXCEPT ![c] = e]
  PROVE  /\ persisting
         /\ CallInv(c)
         /\ \A d \in Callers \ {c} : pc[d] = "idle" /\ pc'[d] = "idle"
         /\ pc'[c] = e
         /\ InFlight' = IF e = "idle" THEN {} ELSE {c}
BY DEF IInv, InFlight, TypeOK

LEMMA IInvStep == IInv /\ [Next]_vars => IInv'
<1> SUFFICES ASSUME IInv, [Next]_vars PROVE IInv'
  OBVIOUS
<1>t. TypeOK /\ TypeOK'
  BY TypeStep DEF IInv
<1>1. ASSUME NEW c \in Callers, NEW to \in States, Begin(c, to) PROVE IInv'
  <2>1. InFlight = {}
    BY <1>1 DEF Begin, IInv, InFlight
  <2>2. InFlight' = {c} /\ pc'[c] = "called" /\ persisting'
    BY <1>1, <2>1, <1>t DEF Begin, InFlight, TypeOK
  <2>3. /\ call'[c].from = state /\ call'[c].to = to /\ state' = to
        /\ CanTransition(state, to)
    BY <1>1, <1>t DEF Begin, TypeOK
  <2>4. RowState' = RowState
    BY <1>1 DEF Begin, RowState
  <2>5. Near(state)
    BY <1>1 DEF Begin, IInv, RowAtMostOneStepAhead, Near
  <2>6. CallInv(c)'
    BY <2>2, <2>3, <2>4, <2>5 DEF CallInv, Near
  <2> QED BY <1>t, <2>2, <2>6 DEF IInv, RowAtMostOneStepAhead,
             TerminalRowHasFinalDelta, InFlight
<1>2. ASSUME NEW c \in Callers, UpsertTx(c) PROVE IInv'
  <2>1. /\ persisting /\ CallInv(c) /\ InFlight' = {c} /\ pc'[c] = "upserted"
        /\ pc[c] = "called"
    BY <1>2, OthersIdle DEF UpsertTx
  <2>2. snap'[c].state = state /\ snap'[c].delta = delta
    BY <1>2, <1>t DEF UpsertTx, TypeOK
  <2>3. CallInv(c)'
    BY <1>2, <2>1, <2>2 DEF UpsertTx, CallInv, Near, RowState
  <2>4. persisting'
    BY <1>2, <2>1 DEF UpsertTx
  <2> QED BY <1>t, <2>1, <2>3, <2>4 DEF IInv, RowAtMostOneStepAhead,
             TerminalRowHasFinalDelta, InFlight
<1>3. ASSUME NEW c \in Callers, Commit(c) PROVE IInv'
  <2>1. /\ persisting /\ CallInv(c) /\ InFlight' = {c} /\ pc'[c] = "saved"
        /\ pc[c] = "upserted"
    BY <1>3, OthersIdle DEF Commit
  <2>2. RowState' = call[c].to /\ row'.delta = snap[c].delta
    BY <1>3, <1>t, <2>1, WrittenRow DEF Commit, CallInv
  <2>3. CallInv(c)'
    BY <1>3, <2>1, <2>2 DEF Commit, CallInv
  <2>4. persisting'
    BY <1>3, <2>1 DEF Commit
  <2> QED BY <1>t, <2>1, <2>3, <2>4 DEF IInv, RowAtMostOneStepAhead,
             TerminalRowHasFinalDelta, InFlight
<1>4. ASSUME NEW c \in Callers, CommitAnswerLost(c) PROVE IInv'
  <2>1. /\ persisting /\ CallInv(c) /\ InFlight' = {c} /\ pc'[c] = "refused"
        /\ pc[c] = "upserted"
    BY <1>4, OthersIdle DEF CommitAnswerLost
  <2>2. RowState' = call[c].to
    BY <1>4, <1>t, <2>1, WrittenRow DEF CommitAnswerLost, CallInv
  <2>3. CallInv(c)'
    BY <1>4, <2>1, <2>2 DEF CommitAnswerLost, CallInv, Near
  <2>4. persisting'
    BY <1>4, <2>1 DEF CommitAnswerLost
  <2> QED BY <1>t, <2>1, <2>3, <2>4 DEF IInv, RowAtMostOneStepAhead,
             TerminalRowHasFinalDelta, InFlight
<1>5. ASSUME NEW c \in Callers, PersistFails(c) PROVE IInv'
  <2>1. /\ persisting /\ CallInv(c) /\ InFlight' = {c} /\ pc'[c] = "refused"
        /\ pc[c] # "saved"
    BY <1>5, OthersIdle DEF PersistFails
  <2>2. CallInv(c)'
    BY <1>5, <2>1 DEF PersistFails, CallInv, Near, RowState
  <2>3. persisting'
    BY <1>5, <2>1 DEF PersistFails
  <2> QED BY <1>t, <2>1, <2>2, <2>3 DEF IInv, RowAtMostOneStepAhead,
             TerminalRowHasFinalDelta, InFlight
<1>6. ASSUME NEW c \in Callers, Finish(c) PROVE IInv'
  <2>1. CallInv(c) /\ InFlight' = {} /\ pc[c] = "saved"
    BY <1>6, OthersIdle DEF Finish, Return
  <2>2. RowState' = state' /\ (state' \in Terminal => row'.delta = delta')
    BY <1>6, <2>1 DEF Finish, CallInv, RowState
  <2>3. ~persisting'
    BY <1>6 DEF Finish
  <2> QED BY <1>t, <2>1, <2>2, <2>3 DEF IInv, RowAtMostOneStepAhead,
             TerminalRowHasFinalDelta, InFlight
<1>7. ASSUME NEW c \in Callers, Rollback(c) PROVE IInv'
  <2>1. CallInv(c) /\ InFlight' = {} /\ pc[c] = "refused"
    BY <1>7, OthersIdle DEF Rollback, Return
  <2>2. state' = call[c].from /\ ~persisting' /\ RowState' = RowState
    BY <1>7 DEF Rollback, RowState
  <2>3. state' \notin Terminal
    BY <2>1, <2>2, TerminalHasNoSuccessor DEF CallInv
  <2>4. RowState' = state' \/ CanTransition(state', RowState')
    BY <2>1, <2>2 DEF CallInv, Near
  <2> QED BY <1>t, <2>1, <2>2, <2>3, <2>4 DEF IInv, RowAtMostOneStepAhead,
             TerminalRowHasFinalDelta, InFlight
<1>8. ASSUME NEW d \in Deltas, SetQuantities(d) PROVE IInv'
  <2>1. /\ state \notin Terminal /\ state' = state /\ pc' = pc /\ call' = call
        /\ RowState' = RowState /\ snap' = snap /\ InFlight' = InFlight
        /\ persisting' = persisting
    BY <1>8 DEF SetQuantities, RowState, InFlight
  <2>2. ASSUME NEW c \in InFlight PROVE CallInv(c)'
    BY <2>1, <2>2 DEF IInv, CallInv, Near
  <2>3. RowAtMostOneStepAhead'
    BY <2>1 DEF IInv, RowAtMostOneStepAhead
  <2>4. TerminalRowHasFinalDelta'
    BY <2>1 DEF TerminalRowHasFinalDelta
  <2> QED BY <1>t, <2>1, <2>2, <2>3, <2>4 DEF IInv
<1>9. CASE Restart
  <2>1. InFlight' = {} /\ (\A c \in Callers : pc'[c] = "idle")
    BY <1>9 DEF Restart, InFlight
  <2>2. state' = RowState /\ RowState' = RowState /\ ~persisting'
    BY <1>9 DEF Restart, RowState
  <2>3. loaded' => state' \in Restored
    BY <1>9, <2>2 DEF Restart
  <2>4. TerminalRowHasFinalDelta'
    BY <2>3, TerminalIsNotRestored DEF TerminalRowHasFinalDelta
  <2> QED BY <1>t, <2>1, <2>2, <2>4 DEF IInv, RowAtMostOneStepAhead
<1>10. CASE UNCHANGED vars
  BY <1>10, <1>t DEF vars, IInv, InFlight, CallInv, Near, RowState,
     RowAtMostOneStepAhead, TerminalRowHasFinalDelta
<1> QED
  BY <1>1, <1>2, <1>3, <1>4, <1>5, <1>6, <1>7, <1>8, <1>9, <1>10
     DEF Next, PersistStep

LEMMA Invariance == Spec => []IInv
BY IInvInit, IInvStep, PTL DEF Spec

\* The flag persisting serialises the calls of TransitionTo: at most one is in
\* flight and memory shows its target.
THEOREM OnePersister == Spec => []SinglePersister
<1>1. IInv => SinglePersister
  BY DEF IInv, SinglePersister, InFlight, CallInv
<1> QED BY <1>1, Invariance, PTL

\* Whatever fails (an insert, a commit, the answer of a commit, the process),
\* the row of a position at rest shows its state in memory or a legal successor.
THEOREM RowFollowsMemory == Spec => []RowAtMostOneStepAhead
<1>1. IInv => RowAtMostOneStepAhead
  BY DEF IInv
<1> QED BY <1>1, Invariance, PTL

\* The quantities of a closed or failed position are the ones in its row.
THEOREM FinalDeltaIsSaved == Spec => []TerminalRowHasFinalDelta
<1>1. IInv => TerminalRowHasFinalDelta
  BY DEF IInv
<1> QED BY <1>1, Invariance, PTL

-------------------------------------------------------------------------------
(***************************************************************************)
(* In a process that has lost no answer of a commit memory and row agree   *)
(* whenever no transition is in flight, hence a terminal row is final.  A  *)
(* restart reads the row, so it leaves nothing of an earlier loss.         *)
(***************************************************************************)
NoLossInv ==
  lost # "now" => /\ ~persisting => RowState = state
           /\ \A c \in InFlight : pc[c] # "saved" => RowState = call[c].from

LEMMA NoLossInit == Init => NoLossInv
BY DEF Init, NoLossInv, RowState, InFlight

LEMMA NoLossStep ==
  ASSUME IInv, NoLossInv, [Next]_vars
  PROVE  NoLossInv'
<1>t. TypeOK
  BY DEF IInv
<1>r. CASE Restart
  <2>1. InFlight' = {}
    BY <1>r DEF Restart, InFlight
  <2>2. RowState' = state'
    BY <1>r DEF Restart, RowState
  <2> QED BY <2>1, <2>2 DEF NoLossInv
<1>l. CASE lost' = "now"
  BY <1>l DEF NoLossInv
<1> SUFFICES ASSUME lost' # "now", ~Restart PROVE NoLossInv'
  BY <1>l, <1>r
<1>n. lost # "now"
  BY DEF Next, PersistStep, Begin, UpsertTx, Commit, CommitAnswerLost,
     PersistFails, Finish, Rollback, SetQuantities, vars
<1>o. /\ ~persisting => RowState = state
      /\ \A c \in InFlight : pc[c] # "saved" => RowState = call[c].from
  BY <1>n DEF NoLossInv
<1>1. ASSUME NEW c \in Callers, NEW to \in States, Begin(c, to) PROVE NoLossInv'
  <2>1. InFlight = {} /\ ~persisting /\ RowState = state
    BY <1>1, <1>o DEF Begin, IInv, InFlight
  <2>2. InFlight' = {c} /\ persisting'
    BY <1>1, <2>1, <1>t DEF Begin, InFlight, TypeOK
  <2>3. call'[c].from = RowState'
    BY <1>1, <2>1, <1>t DEF Begin, TypeOK, RowState
  <2> QED BY <2>2, <2>3 DEF NoLossInv
<1>2. ASSUME NEW c \in Callers, UpsertTx(c) PROVE NoLossInv'
  <2>1. persisting' /\ InFlight' = {c} /\ pc[c] = "called" /\ c \in InFlight
    BY <1>2, OthersIdle DEF UpsertTx, InFlight
  <2>2. RowState' = RowState /\ call' = call
    BY <1>2 DEF UpsertTx, RowState
  <2> QED BY <2>1, <2>2, <1>o DEF NoLossInv
<1>3. ASSUME NEW c \in Callers, Commit(c) PROVE NoLossInv'
  <2>1. persisting' /\ InFlight' = {c} /\ pc'[c] = "saved"
    BY <1>3, OthersIdle DEF Commit
  <2> QED BY <2>1 DEF NoLossInv
<1>4. ASSUME NEW c \in Callers, PersistFails(c) PROVE NoLossInv'
  <2>1. persisting' /\ InFlight' = {c} /\ pc[c] # "saved" /\ c \in InFlight
    BY <1>4, OthersIdle DEF PersistFails, InFlight
  <2>2. RowState' = RowState /\ call' = call
    BY <1>4 DEF PersistFails, RowState
  <2> QED BY <2>1, <2>2, <1>o DEF NoLossInv
<1>5. ASSUME NEW c \in Callers, Finish(c) PROVE NoLossInv'
  <2>1. CallInv(c) /\ InFlight' = {} /\ pc[c] = "saved"
    BY <1>5, OthersIdle DEF Finish, Return
  <2>2. RowState' = state'
    BY <1>5, <2>1 DEF Finish, CallInv, RowState
  <2> QED BY <2>1, <2>2, <1>o DEF NoLossInv
<1>6. ASSUME NEW c \in Callers, Rollback(c) PROVE NoLossInv'
  <2>1. InFlight' = {} /\ pc[c] = "refused" /\ c \in InFlight
    BY <1>6, OthersIdle DEF Rollback, Return, InFlight
  <2>2. RowState' = state'
    BY <1>6, <2>1, <1>o DEF Rollback, RowState
  <2> QED BY <2>1, <2>2, <1>o DEF NoLossInv
<1>7. ASSUME NEW d \in Deltas, SetQuantities(d) PROVE NoLossInv'
  BY <1>7, <1>o DEF SetQuantities, NoLossInv, InFlight, RowState
<1>8. CASE UNCHANGED vars
  BY <1>8, <1>o DEF vars, NoLossInv, InFlight, RowState
<1>9. ASSUME NEW c \in Callers, CommitAnswerLost(c) PROVE NoLossInv'
  BY <1>9 DEF CommitAnswerLost
<1> QED
  BY <1>1, <1>2, <1>3, <1>4, <1>5, <1>6, <1>7, <1>8, <1>9
     DEF Next, PersistStep

\* Memory at rest and the row agree in every process that has lost no answer of a
\* commit, whatever failed or was lost before it started.
THEOREM MemoryIsRow == Spec => []MemoryMatchesRow
<1>1. IInv /\ NoLossInv /\ [Next]_vars => NoLossInv'
  BY NoLossStep
<1>2. NoLossInv => MemoryMatchesRow
  BY DEF NoLossInv, MemoryMatchesRow
<1> QED BY <1>1, <1>2, NoLossInit, Invariance, PTL DEF Spec

\* The row of a closed or failed position is rewritten only by the process that
\* lost the answer of a commit, as long as it runs: not by one in which every
\* answer came, and not after a restart.
THEOREM TerminalUntilLoss == Spec => TerminalRowIsFinal
<1>1. IInv /\ NoLossInv /\ [Next]_vars => [row.state \in Terminal /\ lost # "now" => row' = row]_vars
  <2> SUFFICES ASSUME IInv, NoLossInv, Next, row.state \in Terminal, lost # "now" PROVE row' = row
    OBVIOUS
  <2>1. RowState \in Terminal
    BY NoRowAssumption DEF RowState, Terminal, States
  <2>2. ASSUME NEW c \in Callers, pc[c] = "upserted" PROVE FALSE
    <3>1. c \in InFlight
      BY <2>2 DEF InFlight
    <3>2. CanTransition(call[c].from, call[c].to) /\ RowState = call[c].from
      BY <2>2, <3>1 DEF IInv, CallInv, NoLossInv
    <3> QED BY <3>2, <2>1, TerminalHasNoSuccessor
  <2>3. ASSUME NEW c \in Callers, PersistStep(c) PROVE row' = row
    BY <2>2, <2>3 DEF PersistStep, UpsertTx, Commit, CommitAnswerLost,
       PersistFails, Finish, Rollback
  <2> QED BY <2>3 DEF Next, Begin, SetQuantities, Restart
<1>2. IInv /\ NoLossInv /\ [Next]_vars => NoLossInv'
  BY NoLossStep
<1> QED BY <1>1, <1>2, NoLossInit, Invariance, PTL DEF Spec, TerminalRowIsFinal

-------------------------------------------------------------------------------
(***************************************************************************)
(* Until an answer is lost the log is a path.  The first entry starts at   *)
(* DISCOVERED because an empty log means that there is no row.             *)
(***************************************************************************)
PathInv == lost = "never" => (log = <<>> => row.state = NoRow) /\ LogIsPath

\* A committed transition starts where the row was.
LEMMA PathGrows ==
  ASSUME IInv, NoLossInv, PathInv, lost = "never", NEW c \in Callers, pc[c] = "upserted", Written(c)
  PROVE  log' # <<>> /\ LogIsPath'
<1> DEFINE n == Len(log)
<1>1. TypeOK /\ c \in InFlight /\ log \in Seq(Transition) /\ n \in Nat
  BY DEF IInv, InFlight, TypeOK
<1>2. call[c].from = RowState /\ snap[c].state = call[c].to
  BY <1>1 DEF IInv, NoLossInv, CallInv
<1>3. /\ log' = Append(log, call[c]) /\ row'.state = call[c].to
  BY <1>2 DEF Written
<1>4. /\ Len(log') = n + 1 /\ log'[n + 1] = call[c]
      /\ \A i \in 1 .. n : log'[i] = log[i]
  BY <1>1, <1>3
<1>5. CASE n = 0
  <2>1. log = <<>> /\ RowState = "DISCOVERED"
    BY <1>1, <1>5 DEF PathInv, RowState
  <2>2. log'[1].from = "DISCOVERED" /\ log'[Len(log')].to = row'.state
    BY <1>2, <1>3, <1>4, <1>5, <2>1
  <2>3. 1 .. Len(log') - 1 = {}
    BY <1>4, <1>5
  <2> QED BY <1>4, <1>5, <2>2, <2>3 DEF LogIsPath
<1>6. CASE n # 0
  <2>1. log # <<>> /\ n >= 1
    BY <1>1, <1>6
  <2>2. /\ log[1].from = "DISCOVERED" /\ log[n].to = row.state
        /\ \A i \in 1 .. n - 1 : log[i].to = log[i + 1].from
    BY <2>1 DEF PathInv, LogIsPath
  <2>3. log[n].to \in States
    <3>1. n \in 1 .. Len(log)
      BY <1>1, <2>1
    <3>2. log[n] \in Transition
      BY <1>1, <3>1, ElementOfSeq
    <3> QED BY <3>2 DEF Transition
  <2>4. RowState = log[n].to
    BY <2>2, <2>3, NoRowAssumption DEF RowState
  <2>5. log'[1].from = "DISCOVERED" /\ log'[Len(log')].to = row'.state
    BY <1>3, <1>4, <2>1, <2>2
  <2>6. ASSUME NEW i \in 1 .. n PROVE log'[i].to = log'[i + 1].from
    <3>1. CASE i = n
      BY <1>2, <1>4, <2>1, <2>4, <3>1
    <3>2. CASE i # n
      <4>1. i \in 1 .. n - 1 /\ i + 1 \in 1 .. n
        BY <1>1, <3>2
      <4> QED BY <1>4, <2>2, <4>1
    <3> QED BY <3>1, <3>2
  <2>7. Len(log') - 1 = n /\ log' # <<>>
    BY <1>1, <1>3, <1>4
  <2> HIDE DEF n
  <2> QED BY <2>5, <2>6, <2>7 DEF LogIsPath
<1> QED BY <1>1, <1>5, <1>6

\* The rows of position_transitions tell the whole life of the position, in order,
\* as long as no answer of a commit is lost (OnTransition).
THEOREM LogTellsLife == Spec => []LogIsPath
<1>1. Init => PathInv
  BY DEF Init, PathInv, LogIsPath
<1>2. IInv /\ NoLossInv /\ PathInv /\ [Next]_vars => PathInv'
  <2> SUFFICES ASSUME IInv, NoLossInv, PathInv, [Next]_vars, lost' = "never" PROVE PathInv'
    BY DEF PathInv
  <2>1. lost = "never"
    BY DEF Next, PersistStep, Begin, UpsertTx, Commit, CommitAnswerLost,
       PersistFails, Finish, Rollback, SetQuantities, Restart, vars
  <2>2. CASE \E c \in Callers : Commit(c)
    <3>1. log' # <<>> /\ LogIsPath'
      BY <2>1, <2>2, PathGrows DEF Commit
    <3> QED BY <3>1 DEF PathInv
  <2>3. CASE UNCHANGED <<row, log>>
    BY <2>1, <2>3 DEF PathInv, LogIsPath
  <2>4. (\E c \in Callers : Commit(c)) \/ UNCHANGED <<row, log>>
    BY DEF Next, PersistStep, Begin, UpsertTx, CommitAnswerLost,
       PersistFails, Finish, Rollback, SetQuantities, Restart, vars
  <2> QED BY <2>2, <2>3, <2>4
<1>3. IInv /\ NoLossInv /\ [Next]_vars => NoLossInv'
  BY NoLossStep
<1>4. Spec => []PathInv
  BY <1>1, <1>2, <1>3, NoLossInit, Invariance, PTL DEF Spec
<1>5. PathInv => LogIsPath
  BY DEF PathInv, LogIsPath
<1> QED BY <1>4, <1>5, PTL
===============================================================================
