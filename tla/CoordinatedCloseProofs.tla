------------------------- MODULE CoordinatedCloseProofs -------------------------
(***************************************************************************)
(* What CoordinatedClose guarantees for every number of requotes, every    *)
(* quantity and every behaviour of the exchange.                           *)
(***************************************************************************)
EXTENDS CoordinatedClose, TLAPS

-------------------------------------------------------------------------------
(* Type correctness. *)

LEMMA ConstantFacts ==
  /\ MaxQty \in Nat /\ MaxQty > 0 /\ MaxRequotes \in Nat /\ MaxPosition \in Nat
  /\ \A l \in Legs : \A a \in 0 .. MaxRequotes : <<l, a>> \in ClientIds
  /\ \A id \in ClientIds : id[1] \in Legs /\ id[2] \in 0 .. MaxRequotes /\ id = <<id[1], id[2]>>
BY MaxQtyAssumption, MaxRequotesAssumption, MaxPositionAssumption, ClientIdsAssumption

\* The common target is a quantity, at most what either leg is believed to hold.
LEMMA TargetType ==
  ASSUME TypeOK
  PROVE  /\ Target \in 0 .. MaxQty
         /\ Target <= remaining["long"] /\ Target <= remaining["short"]
BY ConstantFacts DEF TypeOK, Target, Smaller, Legs

\* placeCloseLeg never counts more than the order asked for.
LEMMA CountedType ==
  ASSUME TypeOK, NEW l \in Legs, attempt <= MaxRequotes
  PROVE  /\ Counted(l) \in 0 .. MaxQty
         /\ Counted(l) <= left[l]
         /\ Counted(l) # 0 => /\ l \in Working
                              /\ place[Current(l)].kind = "ok"
                              /\ Counted(l) <= place[Current(l)].reported
<1>1. Current(l) \in ClientIds
  BY ConstantFacts DEF TypeOK, Current
<1>2. place[Current(l)].reported \in 0 .. MaxQty /\ left[l] \in 0 .. MaxQty
  BY <1>1 DEF TypeOK, TypeOKExec
<1> QED BY <1>2, ConstantFacts DEF Counted, Smaller

\* The operations of Place keep the exchange and the executor well typed.
LEMMA ExecType ==
  ASSUME TypeOKExec, NEW id \in ClientIds,
         \/ Accept(id) \/ Fill(id) \/ PlaceSteps(id)
         \/ \E q \in 0 .. MaxQty : Send(id, q)
  PROVE  TypeOKExec'
<1>1. CASE Accept(id)
  BY <1>1 DEF Accept, TypeOKExec, OrderStatus
<1>2. CASE Fill(id)
  <2>1. order[id].filled + 1 \in 0 .. MaxQty
    BY <1>2, ConstantFacts DEF Fill, TypeOKExec
  <2> QED BY <1>2, <2>1 DEF Fill, TypeOKExec
<1>3. CASE \E q \in 0 .. MaxQty : Send(id, q)
  <2>1. 0 \in 0 .. MaxQty
    BY ConstantFacts
  <2> QED BY <1>3, <2>1 DEF Send, TypeOKExec, OrderStatus, PlaceStep
<1>4. ASSUME NEW k \in Kinds, NEW r \in 0 .. MaxQty, Answer(id, k, r)
      PROVE  place' \in [ClientIds -> [pc : PlaceStep, kind : Kinds, reported : 0 .. MaxQty]]
  BY <1>4 DEF Answer, TypeOKExec, PlaceStep
<1>5. CASE PlaceSteps(id)
  <2>1. 0 \in 0 .. MaxQty /\ order[id].filled \in 0 .. MaxQty
    BY ConstantFacts DEF TypeOKExec
  <2>2. CASE Ack(id) \/ NoAck(id)
    <3>1. \E s \in PlaceStep : place' = [place EXCEPT ![id].pc = s]
      BY <2>2 DEF Ack, NoAck, PlaceStep
    <3>2. place' \in [ClientIds -> [pc : PlaceStep, kind : Kinds, reported : 0 .. MaxQty]]
      BY <3>1 DEF TypeOKExec
    <3>3. UNCHANGED order
      BY <2>2 DEF Ack, NoAck
    <3> QED BY <3>2, <3>3 DEF TypeOKExec
  <2>3. CASE Refuse(id)
    <3>1. order' \in [ClientIds -> [status : OrderStatus, qty : 0 .. MaxQty, filled : 0 .. MaxQty]]
      BY <2>3 DEF Refuse, TypeOKExec, OrderStatus
    <3> QED BY <2>1, <2>3, <3>1, <1>4 DEF Refuse, TypeOKExec, Kinds
  <2>4. CASE QueryAfterAck(id) \/ QueryAfterAckFails(id) \/ QueryFinds(id)
    BY <2>1, <2>4, <1>4 DEF QueryAfterAck, QueryAfterAckFails, QueryFinds, TypeOKExec, Kinds
  <2>5. CASE AckUnreadable(id) \/ QueryFindsNothing(id) \/ QueryTimesOut(id) \/ QueryFails(id)
    BY <2>1, <2>5, <1>4
    DEF AckUnreadable, QueryFindsNothing, QueryTimesOut, QueryFails, TypeOKExec, Kinds
  <2> QED BY <1>5, <2>2, <2>3, <2>4, <2>5 DEF PlaceSteps
<1> QED BY <1>1, <1>2, <1>3, <1>5

LEMMA TypeInit == Init => TypeOK
<1> SUFFICES ASSUME Init PROVE TypeOK
  OBVIOUS
<1>1. NoOrder \in [status : OrderStatus, qty : 0 .. MaxQty, filled : 0 .. MaxQty]
  BY ConstantFacts DEF NoOrder, OrderStatus
<1>2. NotPlaced \in [pc : PlaceStep, kind : Kinds, reported : 0 .. MaxQty]
  BY ConstantFacts DEF NotPlaced, PlaceStep, Kinds
<1> QED BY <1>1, <1>2, ConstantFacts DEF Init, InitExec, TypeOK, TypeOKExec, Verdicts

-------------------------------------------------------------------------------
(***************************************************************************)
(* The inductive invariant.                                                *)
(*   Control     where the close stands, and residual + closed = target;   *)
(*   Fresh       orders of attempts still to come do not exist;            *)
(*   Settled     an earlier attempt is over and none of its legs was       *)
(*               ambiguous;                                                *)
(*   Backed      what is counted as closed was really reduced, and what    *)
(*               the current order has filled comes on top of it.          *)
(* Backed is the heart: without the second part, counting the answer of    *)
(* the current order could count a fill twice.                             *)
(***************************************************************************)
Control ==
  /\ step = "wait" => attempt <= MaxRequotes
  /\ step = "start" => attempt = 0 /\ \A l \in Legs : left[l] = 0 /\ closed[l] = 0
  /\ step # "start" => \A l \in Legs : left[l] + closed[l] = Target
  /\ verdict = "open" <=> step # "returned"
  /\ verdict = "nil" => Working = {}

Unsent(l, a) ==
  /\ place[<<l, a>>].pc = "idle"
  /\ order[<<l, a>>].status = "none"
  /\ order[<<l, a>>].filled = 0

Fresh ==
  \A l \in Legs : \A a \in 0 .. MaxRequotes :
    \/ a > attempt
    \/ a = attempt /\ step \in {"start", "loop"}
    \/ a = attempt /\ step = "wait" /\ l \notin Working
    => Unsent(l, a)

Settled ==
  \A l \in Legs : \A a \in 0 .. MaxRequotes :
    a < attempt => /\ place[<<l, a>>].pc \in {"idle", "returned"}
                   /\ Returned(<<l, a>>) => place[<<l, a>>].kind # "ambiguous"

Sound ==
  \A id \in ClientIds :
    /\ order[id].filled <= order[id].qty
    /\ Returned(id) => IF place[id].kind = "ok"
                       THEN place[id].reported <= order[id].filled
                       ELSE place[id].reported = 0

Backed ==
  \A l \in Legs :
    /\ closed[l] <= Reduced(l)
    /\ step = "wait" => closed[l] + order[Current(l)].filled <= Reduced(l)

IInv == TypeOK /\ Control /\ Fresh /\ Settled /\ Sound /\ Backed

LEMMA IInvInit == Init => IInv
<1> SUFFICES ASSUME Init PROVE IInv
  OBVIOUS
<1>1. \A id \in ClientIds : order[id] = NoOrder /\ place[id] = NotPlaced
  BY DEF Init, InitExec
<1>2. Fresh
  BY <1>1, ConstantFacts DEF Fresh, Unsent, NoOrder, NotPlaced
<1>3. Settled /\ Sound
  BY <1>1, ConstantFacts DEF Init, Settled, Sound, Returned, NoOrder, NotPlaced
<1>4. Backed
  BY ConstantFacts DEF Init, Backed, Reduced
<1>5. Control
  BY DEF Init, Control
<1> QED BY TypeInit, <1>2, <1>3, <1>4, <1>5 DEF IInv

\* Steps of the close that send nothing and count nothing.
LEMMA QuietSteps ==
  ASSUME IInv, NothingToClose \/ Start \/ NoPrice \/ Launch \/ AllClosed
               \/ Exhausted \/ JoinFailed
  PROVE  IInv'
<1>e. order' = order /\ place' = place /\ closed' = closed /\ attempt' = attempt
      /\ position' = position /\ position0' = position0 /\ remaining' = remaining
  BY DEF NothingToClose, Start, NoPrice, Launch, AllClosed, Exhausted, JoinFailed, execVars
<1>f. Target' = Target /\ \A l \in Legs : Reduced(l)' = Reduced(l)
  BY <1>e DEF Target, Reduced
<1>1. TypeOK'
  BY <1>e, TargetType DEF IInv, NothingToClose, Start, NoPrice, Launch, AllClosed,
     Exhausted, JoinFailed, Return, TypeOK, TypeOKExec, Verdicts
<1>2. Sound'
  BY <1>e DEF IInv, Sound, Returned
<1>3. Settled'
  BY <1>e DEF IInv, Settled, Returned
<1>4. Control'
  <2>1. CASE NothingToClose
    BY <2>1, <1>e, <1>f DEF IInv, Control, NothingToClose, Return, Working, TypeOK
  <2>2. CASE Start
    BY <2>2, <1>e, <1>f, TargetType DEF IInv, Control, Start, Working, TypeOK
  <2>3. CASE NoPrice \/ Exhausted \/ JoinFailed \/ AllClosed
    BY <2>3, <1>e, <1>f DEF IInv, Control, NoPrice, Exhausted, JoinFailed, Joined,
       AllClosed, Return, Working
  <2>4. CASE Launch
    BY <2>4, <1>e, <1>f DEF IInv, Control, Launch, Working
  <2> QED BY <2>1, <2>2, <2>3, <2>4
<1>5. Fresh'
  <2>1. \A l \in Legs : \A a \in 0 .. MaxRequotes : Unsent(l, a)' = Unsent(l, a)
    BY <1>e DEF Unsent
  <2>2. CASE Launch
    BY <2>1, <2>2, <1>e DEF IInv, Fresh, Launch
  <2>3. CASE Start
    BY <2>1, <2>3, <1>e DEF IInv, Fresh, Start
  <2>4. CASE step' = "returned"
    BY <2>1, <2>4, <1>e DEF IInv, Fresh
  <2> QED BY <2>2, <2>3, <2>4 DEF NothingToClose, NoPrice, AllClosed, Exhausted,
             JoinFailed, Return
<1>6. Backed'
  <2>1. ASSUME NEW l \in Legs, Launch
        PROVE  closed[l] + order[Current(l)].filled <= Reduced(l)
    <3>1. order[Current(l)].filled = 0
      BY <2>1 DEF IInv, TypeOK, Fresh, Launch, Unsent, Current
    <3>2. closed[l] \in Nat
      BY ConstantFacts DEF IInv, TypeOK
    <3> QED BY <3>1, <3>2 DEF IInv, Backed
  <2>2. Launch \/ step' # "wait"
    BY DEF NothingToClose, Start, NoPrice, AllClosed, Exhausted, JoinFailed, Return
  <2> QED BY <1>e, <1>f, <2>1, <2>2 DEF IInv, Backed, Current
<1> QED BY <1>1, <1>2, <1>3, <1>4, <1>5, <1>6 DEF IInv

\* The two steps that count answers.
LEMMA JoinSteps ==
  ASSUME IInv, JoinAmbiguous \/ JoinNext
  PROVE  IInv'
<1>e. /\ order' = order /\ place' = place /\ position' = position
      /\ position0' = position0 /\ remaining' = remaining
      /\ Joined /\ Account /\ step = "wait" /\ attempt <= MaxRequotes
  BY DEF JoinAmbiguous, JoinNext, Joined, execVars, IInv, Control
<1>f. Target' = Target /\ \A l \in Legs : Reduced(l)' = Reduced(l)
  BY <1>e DEF Target, Reduced
<1>c. ASSUME NEW l \in Legs
      PROVE  /\ Counted(l) \in 0 .. MaxQty
             /\ Counted(l) <= left[l]
             /\ Counted(l) <= order[Current(l)].filled
             /\ left'[l] = left[l] - Counted(l)
             /\ closed'[l] = closed[l] + Counted(l)
             /\ left[l] \in Nat /\ closed[l] \in Nat
             /\ left[l] + closed[l] = Target
             /\ Target \in 0 .. MaxQty
  <2>1. Current(l) \in ClientIds
    BY <1>e, ConstantFacts DEF IInv, TypeOK, Current
  <2>2. order[Current(l)].filled \in Nat
    BY <2>1 DEF IInv, TypeOK, TypeOKExec
  <2>3. /\ Counted(l) \in 0 .. MaxQty
        /\ Counted(l) <= left[l]
        /\ Counted(l) # 0 => /\ l \in Working
                             /\ place[Current(l)].kind = "ok"
                             /\ Counted(l) <= place[Current(l)].reported
    BY <1>e, CountedType DEF IInv
  <2>4. place[Current(l)].reported \in Nat
    BY <2>1 DEF IInv, TypeOK, TypeOKExec
  <2>5. Counted(l) <= order[Current(l)].filled
    BY <1>e, <2>1, <2>2, <2>3, <2>4 DEF IInv, Sound, Joined
  <2>6. left'[l] = left[l] - Counted(l) /\ closed'[l] = closed[l] + Counted(l)
    BY <1>e DEF Account
  <2> QED BY <1>e, <2>3, <2>5, <2>6, TargetType, ConstantFacts DEF IInv, Control, TypeOK
<1>1. left' \in [Legs -> 0 .. MaxQty] /\ closed' \in [Legs -> 0 .. MaxQty]
  <2>1. \A l \in Legs : left[l] - Counted(l) \in 0 .. MaxQty /\ closed[l] + Counted(l) \in 0 .. MaxQty
    BY <1>c, ConstantFacts
  <2> QED BY <2>1, <1>e DEF Account
<1>2. TypeOK'
  BY <1>1, <1>e, ConstantFacts DEF IInv, TypeOK, TypeOKExec, JoinAmbiguous, JoinNext,
     Return, Verdicts
<1>3. Control'
  <2>1. \A l \in Legs : left'[l] + closed'[l] = Target'
    BY <1>c, <1>f
  <2> QED BY <2>1, <1>e, <1>f DEF JoinAmbiguous, JoinNext, Return, Control, IInv
<1>4. Fresh'
  <2>1. \A l \in Legs : \A a \in 0 .. MaxRequotes : Unsent(l, a)' = Unsent(l, a)
    BY <1>e DEF Unsent
  <2>2. attempt \in Nat
    BY ConstantFacts DEF IInv, TypeOK
  <2> QED BY <1>e, <2>1, <2>2, ConstantFacts DEF IInv, Fresh, JoinAmbiguous, JoinNext, Return
<1>5. Settled'
  <2>1. attempt \in Nat
    BY ConstantFacts DEF IInv, TypeOK
  <2>2. CASE JoinAmbiguous
    BY <2>2, <1>e DEF IInv, Settled, JoinAmbiguous, Returned
  <2>3. CASE JoinNext
    <3>1. ASSUME NEW l \in Legs
          PROVE  /\ place[Current(l)].pc \in {"idle", "returned"}
                 /\ Returned(Current(l)) => place[Current(l)].kind # "ambiguous"
      <4>1. CASE l \in Working
        BY <4>1, <2>3, <1>e DEF JoinNext, Joined, Ambiguous, Returned
      <4>2. CASE l \notin Working
        BY <4>2, <1>e, <2>1 DEF IInv, Fresh, Unsent, Current, Returned
      <4> QED BY <4>1, <4>2
    <3> QED BY <3>1, <2>1, <2>3, <1>e, ConstantFacts
            DEF IInv, Settled, JoinNext, Returned, Current
  <2> QED BY <2>2, <2>3
<1>6. Sound'
  BY <1>e DEF IInv, Sound, Returned
<1>7. Backed'
  <2>1. ASSUME NEW l \in Legs PROVE closed'[l] <= Reduced(l)'
    <3>1. order[Current(l)].filled \in Nat /\ Reduced(l) \in Int
      BY <1>e, ConstantFacts DEF IInv, TypeOK, TypeOKExec, Current, Reduced
    <3>2. closed[l] + order[Current(l)].filled <= Reduced(l)
      BY <1>e DEF IInv, Backed
    <3> QED BY <1>c, <1>f, <3>1, <3>2
  <2>2. step' # "wait"
    BY DEF JoinAmbiguous, JoinNext, Return
  <2> QED BY <2>1, <2>2 DEF Backed
<1> QED BY <1>2, <1>3, <1>4, <1>5, <1>6, <1>7 DEF IInv

\* The orders: sending one, a step of Place, a step of the exchange.
LEMMA SendSteps ==
  ASSUME IInv, NEW l \in Legs, SendLeg(l)
  PROVE  IInv'
<1> DEFINE id == Current(l)
<1>1. /\ id \in ClientIds /\ attempt <= MaxRequotes /\ attempt \in 0 .. MaxRequotes
      /\ left[l] \in 0 .. MaxQty /\ step = "wait" /\ l \in Working
  BY ConstantFacts DEF SendLeg, IInv, Control, TypeOK, Current
<1>2. /\ order' = [order EXCEPT ![id] = [status |-> "sent", qty |-> left[l], filled |-> 0]]
      /\ place' = [place EXCEPT ![id].pc = "placing"]
      /\ UNCHANGED closeVars
  BY DEF SendLeg, Send
<1>3. TypeOK'
  BY <1>1, <1>2, ExecType DEF SendLeg, IInv, TypeOK, closeVars
<1>4. \A d \in ClientIds : d # id => order'[d] = order[d] /\ place'[d] = place[d]
  BY <1>1, <1>2 DEF IInv, TypeOK, TypeOKExec
<1>5. /\ order'[id].filled = 0 /\ order'[id].qty = left[l]
      /\ place'[id].pc = "placing"
  BY <1>1, <1>2 DEF IInv, TypeOK, TypeOKExec
<1>6. Control'
  BY <1>2 DEF IInv, Control, closeVars, Working, Target
<1>7. Fresh'
  <2> SUFFICES ASSUME NEW m \in Legs, NEW a \in 0 .. MaxRequotes,
                      a > attempt \/ (a = attempt /\ m \notin Working)
               PROVE  Unsent(m, a)'
    BY <1>1, <1>2 DEF Fresh, closeVars, Working
  <2>1. <<m, a>> # id /\ <<m, a>> \in ClientIds
    BY <1>1, ConstantFacts DEF Current
  <2>2. Unsent(m, a)
    BY <1>1 DEF IInv, Fresh
  <2> QED BY <2>1, <2>2, <1>4 DEF Unsent
<1>8. Settled'
  <2> SUFFICES ASSUME NEW m \in Legs, NEW a \in 0 .. MaxRequotes, a < attempt
               PROVE  place'[<<m, a>>] = place[<<m, a>>]
    BY <1>2 DEF IInv, Settled, Returned, closeVars
  <2>1. <<m, a>> # id /\ <<m, a>> \in ClientIds
    BY <1>1, ConstantFacts DEF Current
  <2> QED BY <2>1, <1>4
<1>9. Sound'
  BY <1>1, <1>4, <1>5 DEF IInv, Sound, Returned
<1>10. Backed'
  <2> SUFFICES ASSUME NEW m \in Legs
               PROVE  closed[m] + order'[Current(m)].filled <= Reduced(m)
    BY <1>1, <1>2 DEF IInv, Backed, closeVars, Reduced, Current
  <2>1. CASE m = l
    <3>1. closed[l] \in Nat /\ closed[l] <= Reduced(l)
      BY ConstantFacts DEF IInv, TypeOK, Backed
    <3> QED BY <3>1, <2>1, <1>5
  <2>2. CASE m # l
    <3>1. Current(m) # id /\ Current(m) \in ClientIds
      BY <2>2, <1>1, ConstantFacts DEF Current
    <3> QED BY <3>1, <1>1, <1>4 DEF IInv, Backed
  <2> QED BY <2>1, <2>2
<1> QED BY <1>3, <1>6, <1>7, <1>8, <1>9, <1>10 DEF IInv

\* What a step of Place may do to the executor and to the exchange.
LEMMA PlaceEffect ==
  ASSUME TypeOKExec, Sound, NEW id \in ClientIds, PlaceSteps(id)
  PROVE  /\ place[id].pc \in {"placing", "acked", "unknown"}
         /\ \A d \in ClientIds : /\ order'[d].filled = order[d].filled
                                 /\ order'[d].qty = order[d].qty
         /\ \A d \in ClientIds : d # id => order'[d] = order[d] /\ place'[d] = place[d]
         /\ place'[id].pc = "returned" =>
              IF place'[id].kind = "ok" THEN place'[id].reported <= order[id].filled
              ELSE place'[id].reported = 0
<1>0. order[id].filled \in Nat
  BY DEF TypeOKExec
<1>1. CASE Refuse(id)
  BY <1>1 DEF Refuse, Answer, TypeOKExec
<1>2. CASE Ack(id) \/ NoAck(id)
  BY <1>2 DEF Ack, NoAck, TypeOKExec
<1>3. CASE QueryAfterAck(id) \/ QueryAfterAckFails(id) \/ QueryFinds(id)
  BY <1>0, <1>3 DEF QueryAfterAck, QueryAfterAckFails, QueryFinds, Answer, TypeOKExec
<1>4. CASE AckUnreadable(id) \/ QueryFindsNothing(id) \/ QueryTimesOut(id) \/ QueryFails(id)
  BY <1>4 DEF AckUnreadable, QueryFindsNothing, QueryTimesOut, QueryFails, Answer, TypeOKExec
<1> QED BY <1>1, <1>2, <1>3, <1>4 DEF PlaceSteps

LEMMA PlaceStepsKeep ==
  ASSUME IInv, NEW id \in ClientIds, PlaceStepOf(id)
  PROVE  IInv'
<1>1. /\ PlaceSteps(id) /\ UNCHANGED closeVars
  BY DEF PlaceStepOf
<1>2. TypeOK'
  BY <1>1, ExecType DEF IInv, TypeOK, closeVars
<1>3. /\ place[id].pc \in {"placing", "acked", "unknown"}
      /\ \A d \in ClientIds : /\ order'[d].filled = order[d].filled
                              /\ order'[d].qty = order[d].qty
      /\ \A d \in ClientIds : d # id => order'[d] = order[d] /\ place'[d] = place[d]
      /\ place'[id].pc = "returned" =>
           IF place'[id].kind = "ok" THEN place'[id].reported <= order[id].filled
           ELSE place'[id].reported = 0
  BY <1>1, PlaceEffect DEF IInv, TypeOK
<1>4. Control'
  BY <1>1 DEF IInv, Control, closeVars, Working, Target
<1>5. Fresh'
  <2> SUFFICES ASSUME NEW m \in Legs, NEW a \in 0 .. MaxRequotes, Unsent(m, a)
               PROVE  Unsent(m, a)'
    BY <1>1 DEF IInv, Fresh, closeVars, Working
  <2>1. <<m, a>> # id /\ <<m, a>> \in ClientIds
    BY <1>3, ConstantFacts DEF Unsent
  <2> QED BY <2>1, <1>3 DEF Unsent
<1>6. Settled'
  <2> SUFFICES ASSUME NEW m \in Legs, NEW a \in 0 .. MaxRequotes, a < attempt
               PROVE  place'[<<m, a>>] = place[<<m, a>>]
    BY <1>1 DEF IInv, Settled, Returned, closeVars
  <2>1. <<m, a>> # id /\ <<m, a>> \in ClientIds
    BY <1>3, ConstantFacts DEF IInv, Settled
  <2> QED BY <2>1, <1>3
<1>7. Sound'
  BY <1>3 DEF IInv, Sound, Returned
<1>8. Backed'
  <2> SUFFICES ASSUME NEW m \in Legs, step = "wait"
               PROVE  order'[Current(m)].filled = order[Current(m)].filled
    BY <1>1 DEF IInv, Backed, closeVars, Reduced, Current
  <2>1. Current(m) \in ClientIds
    BY ConstantFacts DEF IInv, TypeOK, Control, Current
  <2> QED BY <2>1, <1>3
<1> QED BY <1>2, <1>4, <1>5, <1>6, <1>7, <1>8 DEF IInv

LEMMA ExchangeStepsKeep ==
  ASSUME IInv, NEW id \in ClientIds, ExchangeStep(id)
  PROVE  IInv'
<1>1. CASE Accept(id) /\ UNCHANGED closeVars
  <2>1. /\ order[id].status = "sent" /\ place' = place
        /\ \A d \in ClientIds : /\ order'[d].filled = order[d].filled
                                /\ order'[d].qty = order[d].qty
        /\ \A d \in ClientIds : d # id => order'[d] = order[d]
    BY <1>1 DEF Accept, IInv, TypeOK, TypeOKExec
  <2>2. TypeOK'
    BY <1>1, ExecType DEF IInv, TypeOK, closeVars
  <2>3. Control'
    BY <1>1 DEF IInv, Control, closeVars, Working, Target
  <2>4. Fresh'
    <3> SUFFICES ASSUME NEW m \in Legs, NEW a \in 0 .. MaxRequotes, Unsent(m, a)
                 PROVE  Unsent(m, a)'
      BY <1>1 DEF IInv, Fresh, closeVars, Working
    <3>1. <<m, a>> # id /\ <<m, a>> \in ClientIds
      BY <2>1, ConstantFacts DEF Unsent
    <3> QED BY <3>1, <2>1 DEF Unsent
  <2>5. Settled' /\ Sound'
    BY <1>1, <2>1 DEF IInv, Settled, Sound, Returned, closeVars
  <2>6. Backed'
    <3> SUFFICES ASSUME NEW m \in Legs, step = "wait"
                 PROVE  order'[Current(m)].filled = order[Current(m)].filled
      BY <1>1 DEF IInv, Backed, closeVars, Reduced, Current
    <3>1. Current(m) \in ClientIds
      BY ConstantFacts DEF IInv, TypeOK, Control, Current
    <3> QED BY <3>1, <2>1
  <2> QED BY <2>2, <2>3, <2>4, <2>5, <2>6 DEF IInv
<1>2. CASE /\ position[id[1]] > 0
           /\ Fill(id)
           /\ position' = [position EXCEPT ![id[1]] = @ - 1]
           /\ UNCHANGED <<remaining, position0, step, attempt, left, closed, verdict>>
  <2>1. /\ order[id].status = "accepted" /\ place' = place
        /\ order[id].filled \in Nat /\ order[id].qty \in Nat
        /\ order[id].filled < order[id].qty
        /\ order'[id].filled = order[id].filled + 1
        /\ \A d \in ClientIds : order'[d].qty = order[d].qty
        /\ \A d \in ClientIds : d # id => order'[d] = order[d]
    BY <1>2 DEF Fill, IInv, TypeOK, TypeOKExec
  <2>2. /\ id[1] \in Legs
        /\ position'[id[1]] = position[id[1]] - 1
        /\ \A m \in Legs : m # id[1] => position'[m] = position[m]
        /\ \A m \in Legs : position[m] \in Nat /\ position0[m] \in Nat
    BY <1>2, ConstantFacts DEF IInv, TypeOK
  <2>3. TypeOK'
    <3>1. TypeOKExec'
      BY <1>2, ExecType DEF IInv, TypeOK
    <3>2. position[id[1]] - 1 \in 0 .. MaxPosition
      BY <1>2, <2>2, ConstantFacts DEF IInv, TypeOK
    <3> QED BY <1>2, <3>1, <3>2 DEF IInv, TypeOK
  <2>4. Control'
    BY <1>2 DEF IInv, Control, Working, Target
  <2>5. Fresh'
    <3> SUFFICES ASSUME NEW m \in Legs, NEW a \in 0 .. MaxRequotes, Unsent(m, a)
                 PROVE  Unsent(m, a)'
      BY <1>2 DEF IInv, Fresh, Working
    <3>1. <<m, a>> # id /\ <<m, a>> \in ClientIds
      BY <2>1, ConstantFacts DEF Unsent
    <3> QED BY <3>1, <2>1 DEF Unsent
  <2>6. Settled'
    BY <1>2, <2>1 DEF IInv, Settled, Returned
  <2>7. Sound'
    <3> SUFFICES ASSUME NEW d \in ClientIds
                 PROVE  /\ order'[d].filled <= order'[d].qty
                        /\ Returned(d) =>
                             IF place[d].kind = "ok"
                             THEN place[d].reported <= order'[d].filled
                             ELSE place[d].reported = 0
      BY <2>1 DEF Sound, Returned
    <3>1. place[d].reported \in Nat
      BY DEF IInv, TypeOK, TypeOKExec
    <3> QED BY <2>1, <3>1 DEF IInv, Sound
  <2>8. Backed'
    <3> SUFFICES ASSUME NEW m \in Legs
                 PROVE  /\ closed[m] <= position0[m] - position'[m]
                        /\ step = "wait" => closed[m] + order'[Current(m)].filled
                                              <= position0[m] - position'[m]
      BY <1>2 DEF Backed, Reduced, Current
    <3>1. /\ closed[m] \in Nat /\ closed[m] <= position0[m] - position[m]
          /\ step = "wait" => closed[m] + order[Current(m)].filled <= position0[m] - position[m]
      BY ConstantFacts DEF IInv, Backed, Reduced, TypeOK
    <3>2. step = "wait" => Current(m) \in ClientIds /\ order[Current(m)].filled \in Nat
      BY ConstantFacts DEF IInv, TypeOK, TypeOKExec, Control, Current
    <3>3. step = "wait" => \/ Current(m) # id /\ order'[Current(m)] = order[Current(m)]
                           \/ Current(m) = id /\ m = id[1]
      BY <2>1, <3>2 DEF Current
    <3> QED BY <2>1, <2>2, <3>1, <3>2, <3>3
  <2> QED BY <2>3, <2>4, <2>5, <2>6, <2>7, <2>8 DEF IInv
<1> QED BY <1>1, <1>2 DEF ExchangeStep

LEMMA IInvStep == IInv /\ [Next]_vars => IInv'
<1> SUFFICES ASSUME IInv, [Next]_vars PROVE IInv'
  OBVIOUS
<1>1. CASE UNCHANGED vars
  BY <1>1 DEF vars, execVars, closeVars, IInv, TypeOK, TypeOKExec, Control, Fresh,
     Settled, Sound, Backed, Unsent, Working, Target, Reduced, Returned, Current
<1>2. CASE CloseStep
  BY <1>2, QuietSteps, JoinSteps, SendSteps, PlaceStepsKeep DEF CloseStep
<1>3. CASE \E id \in ClientIds : ExchangeStep(id)
  BY <1>3, ExchangeStepsKeep
<1> QED BY <1>1, <1>2, <1>3 DEF Next

LEMMA Invariance == Spec => []IInv
BY IInvInit, IInvStep, PTL DEF Spec

-------------------------------------------------------------------------------
(* The results. *)

\* Every variable keeps its type: in particular no counter passes its bound.
THEOREM TypeCorrect == Spec => []TypeOK
<1>1. IInv => TypeOK
  BY DEF IInv
<1> QED BY <1>1, Invariance, PTL

\* Whatever the exchange does, before an answer of Place and after it: the fill
\* that comes with "ok" is at most the order's real one, and every other answer
\* reports none.  How much of the order is filled no answer tells.
THEOREM AnswersSound == Spec => []AnswersAreSound
<1>1. IInv => AnswersAreSound
  <2> SUFFICES ASSUME IInv, NEW id \in ClientIds, Returned(id)
               PROVE  [kind |-> place[id].kind, reported |-> place[id].reported,
                       filled |-> order[id].filled] \in Answers(order[id].qty)
    BY DEF AnswersAreSound
  <2>1. /\ place[id].kind \in Kinds /\ place[id].reported \in Nat
        /\ order[id].filled \in Nat /\ order[id].qty \in Nat
    BY DEF IInv, TypeOK, TypeOKExec
  <2>2. /\ order[id].filled <= order[id].qty
        /\ IF place[id].kind = "ok" THEN place[id].reported <= order[id].filled
           ELSE place[id].reported = 0
    BY DEF IInv, Sound
  <2>3. order[id].filled \in 0 .. order[id].qty /\ place[id].reported \in 0 .. order[id].qty
    BY <2>1, <2>2
  <2> QED BY <2>1, <2>2, <2>3 DEF Answers
<1> QED BY <1>1, Invariance, PTL

\* The counters of the result are backed by real fills.
THEOREM NoPhantom == Spec => []NoPhantomClose
<1>1. IInv => NoPhantomClose
  BY DEF IInv, Backed, NoPhantomClose
<1> QED BY <1>1, Invariance, PTL

\* A close that reports success really took the target off both legs.
THEOREM SuccessIsReal == Spec => []SuccessClosesBoth
<1>1. IInv => SuccessClosesBoth
  <2> SUFFICES ASSUME IInv, verdict = "nil", NEW l \in Legs PROVE Reduced(l) >= Target
    BY DEF SuccessClosesBoth
  <2>1. left[l] = 0 /\ step # "start"
    BY ConstantFacts DEF IInv, Control, Working, TypeOK
  <2>2. closed[l] = Target
    BY <2>1, ConstantFacts DEF IInv, Control, TypeOK
  <2>3. Target \in Int /\ Reduced(l) \in Int
    BY TargetType, ConstantFacts DEF IInv, TypeOK, Reduced
  <2> QED BY <2>2, <2>3 DEF IInv, Backed
<1> QED BY <1>1, Invariance, PTL

\* An unknown state of either leg ends the sending of orders.
THEOREM AmbiguityStops == Spec => []StopsOnAmbiguity
<1>1. IInv => StopsOnAmbiguity
  <2> SUFFICES ASSUME IInv, NEW l \in Legs, NEW m \in Legs,
                      NEW a \in 0 .. MaxRequotes, NEW b \in 0 .. MaxRequotes,
                      Returned(<<l, a>>), place[<<l, a>>].kind = "ambiguous", a < b
               PROVE  place[<<m, b>>].pc = "idle"
    BY DEF StopsOnAmbiguity
  <2>1. attempt \in Nat /\ a \in Nat /\ b \in Nat
    BY ConstantFacts DEF IInv, TypeOK
  <2>2. ~(a < attempt)
    BY DEF IInv, Settled
  <2>3. b > attempt
    BY <2>1, <2>2
  <2> QED BY <2>3 DEF IInv, Fresh, Unsent
<1> QED BY <1>1, Invariance, PTL

-------------------------------------------------------------------------------
(* Refinement. *)

\* A close makes the steps of PairReduction and no others.
THEOREM Refinement == Spec => ImplementsPairReduction
<1>1. Init => Abstract!Init
  <2> SUFFICES ASSUME Init PROVE Abstract!Init
    OBVIOUS
  <2>1. Target \in 0 .. MaxQty
    BY TypeInit, TargetType
  <2> QED BY <2>1 DEF Init, Abstract!Init
<1>2. IInv /\ IInv' /\ [Next]_vars => [Abstract!Next]_<<Target, closed, verdict>>
  <2> SUFFICES ASSUME IInv, IInv', [Next]_vars
               PROVE  Abstract!Next \/ UNCHANGED <<Target, closed, verdict>>
    OBVIOUS
  <2>1. CASE UNCHANGED vars
    BY <2>1 DEF vars, closeVars, Target
  <2>2. CASE \E id \in ClientIds : ExchangeStep(id)
    BY <2>2 DEF ExchangeStep, closeVars, Target
  <2>3. CASE \/ Start \/ Launch \/ \E l \in Legs : SendLeg(l)
             \/ \E id \in ClientIds : PlaceStepOf(id)
    BY <2>3 DEF Start, Launch, SendLeg, PlaceStepOf, closeVars, Target
  <2>4. /\ Target \in 0 .. MaxQty
        /\ \A l \in Legs : closed[l] \in Nat /\ left[l] \in Nat
        /\ step # "start" => \A l \in Legs : left[l] + closed[l] = Target
    BY TargetType, ConstantFacts DEF IInv, TypeOK, Control
  <2>5. closed \in [Legs -> 0 .. Target] /\ closed' \in [Legs -> 0 .. Target']
    <3>1. \A l \in Legs : closed[l] \in 0 .. Target
      BY <2>4 DEF IInv, Control
    <3>2. \A l \in Legs : closed'[l] \in 0 .. Target'
      <4>1. /\ Target' \in 0 .. MaxQty
            /\ \A l \in Legs : closed'[l] \in Nat /\ left'[l] \in Nat
            /\ step' # "start" => \A l \in Legs : left'[l] + closed'[l] = Target'
        BY ConstantFacts DEF IInv, TypeOK, Control, Target, Smaller, Legs
      <4> QED BY <4>1 DEF IInv, Control
    <3> QED BY <3>1, <3>2 DEF IInv, TypeOK
  <2>6. CASE NoPrice \/ Exhausted \/ JoinFailed
    <3>1. closed' = closed /\ Target' = Target /\ verdict = "open" /\ verdict' = "incomplete"
      BY <2>6 DEF NoPrice, Exhausted, JoinFailed, Joined, Return, Target, IInv, Control
    <3> QED BY <3>1, <2>4, <2>5 DEF Abstract!Next, Abstract!Confirm
  <2>7. CASE JoinAmbiguous \/ JoinNext
    <3>1. /\ Target' = Target /\ verdict = "open" /\ verdict' \in {"open", "ambiguous"}
          /\ closed' = [l \in Legs |-> closed[l] + Counted(l)]
          /\ attempt <= MaxRequotes
      BY <2>7 DEF JoinAmbiguous, JoinNext, Joined, Account, Return, Target, IInv, Control
    <3>2. \A l \in Legs : closed'[l] >= closed[l]
      <4>1. \A l \in Legs : Counted(l) \in Nat
        BY <3>1, CountedType DEF IInv
      <4> QED BY <3>1, <4>1, <2>4
    <3> QED BY <3>1, <3>2, <2>5 DEF Abstract!Next, Abstract!Confirm
  <2>8. CASE NothingToClose \/ AllClosed
    <3>1. /\ closed' = closed /\ Target' = Target
          /\ verdict = "open" /\ verdict' = "nil"
      BY <2>8 DEF NothingToClose, AllClosed, Return, Target, IInv, Control
    <3>2. \A l \in Legs : closed[l] = Target
      <4>1. CASE NothingToClose
        BY <4>1 DEF NothingToClose, IInv, Control
      <4>2. CASE AllClosed
        BY <4>2, <2>4 DEF AllClosed, Working
      <4> QED BY <2>8, <4>1, <4>2
    <3> QED BY <3>1, <3>2 DEF Abstract!Next, Abstract!Succeed
  <2> QED BY <2>1, <2>2, <2>3, <2>6, <2>7, <2>8 DEF Next, CloseStep
<1> QED
  BY <1>1, <1>2, Invariance, PTL DEF Spec, ImplementsPairReduction, Abstract!Spec
===============================================================================
