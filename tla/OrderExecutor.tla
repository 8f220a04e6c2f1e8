----------------------------- MODULE OrderExecutor -----------------------------
(***************************************************************************)
(* OrderExecutor.Place (internal/execution/order_executor.go): place an    *)
(* order, and when the acknowledgement does not come, query it before      *)
(* deciding.  The exchange and the network between are external: a request *)
(* may be lost (it stays "sent"), may arrive after Place gave up, and an   *)
(* accepted order may fill at any time or stop filling for good.           *)
(***************************************************************************)
EXTENDS OrderOutcomes

CONSTANTS
  ClientIds,   \* the client order ids; Place is called at most once for each
  MaxQty       \* bound on the quantity of an order

ASSUME MaxQtyAssumption == MaxQty \in Nat \ {0}

VARIABLES
  order,   \* the exchange's side of each client id
  place    \* the executor's side: where Place is, and what it answered

execVars == <<order, place>>

OrderStatus == {"none", "sent", "accepted"}
PlaceStep == {"idle", "placing", "acked", "unknown", "returned"}

TypeOKExec ==
  /\ order \in [ClientIds -> [status : OrderStatus, qty : 0 .. MaxQty, filled : 0 .. MaxQty]]
  /\ place \in [ClientIds -> [pc : PlaceStep, kind : Kinds, reported : 0 .. MaxQty]]

NoOrder == [status |-> "none", qty |-> 0, filled |-> 0]
NotPlaced == [pc |-> "idle", kind |-> "error", reported |-> 0]

InitExec ==
  /\ order = [id \in ClientIds |-> NoOrder]
  /\ place = [id \in ClientIds |-> NotPlaced]

Returned(id) == place[id].pc = "returned"

-------------------------------------------------------------------------------
(* The exchange. *)

Accept(id) ==
  /\ order[id].status = "sent"
  /\ order' = [order EXCEPT ![id].status = "accepted"]
  /\ UNCHANGED place

Fill(id) ==
  /\ order[id].status = "accepted"
  /\ order[id].filled < order[id].qty
  /\ order' = [order EXCEPT ![id].filled = @ + 1]
  /\ UNCHANGED place

-------------------------------------------------------------------------------
(* Place. *)

Send(id, qty) ==
  /\ place[id].pc = "idle"
  /\ place' = [place EXCEPT ![id].pc = "placing"]
  /\ order' = [order EXCEPT ![id] = [status |-> "sent", qty |-> qty, filled |-> 0]]

Answer(id, kind, reported) ==
  place' = [place EXCEPT ![id] = [pc |-> "returned", kind |-> kind, reported |-> reported]]

\* A deterministic error (rate limit, unauthorized, invalid symbol): no order.
Refuse(id) ==
  /\ place[id].pc = "placing"
  /\ order[id].status = "sent"
  /\ order' = [order EXCEPT ![id].status = "none"]
  /\ Answer(id, "error", 0)

\* The same branch for an order that was taken: the adapter could not read the
\* reply, and Place answers that error without a query.
AckUnreadable(id) ==
  /\ place[id].pc = "placing"
  /\ order[id].status = "accepted"
  /\ Answer(id, "error", 0)
  /\ UNCHANGED order

Ack(id) ==
  /\ place[id].pc = "placing"
  /\ order[id].status = "accepted"
  /\ place' = [place EXCEPT ![id].pc = "acked"]
  /\ UNCHANGED order

\* ErrTimeout or ErrNetwork from PlaceOrder, whatever became of the request.
NoAck(id) ==
  /\ place[id].pc = "placing"
  /\ place' = [place EXCEPT ![id].pc = "unknown"]
  /\ UNCHANGED order

\* The query for the fill details after an ack.
QueryAfterAck(id) ==
  /\ place[id].pc = "acked"
  /\ Answer(id, "ok", order[id].filled)
  /\ UNCHANGED order

\* The same query fails with any error: the order is returned with fill 0.
QueryAfterAckFails(id) ==
  /\ place[id].pc = "acked"
  /\ Answer(id, "ok", 0)
  /\ UNCHANGED order

\* Faulty variant: the requested quantity is taken for the filled one.
QueryFinds_Requested(id) ==
  /\ place[id].pc = "unknown"
  /\ order[id].status = "accepted"
  /\ Answer(id, "ok", order[id].qty)
  /\ UNCHANGED order

QueryFinds(id) ==
  /\ place[id].pc = "unknown"
  /\ order[id].status = "accepted"
  /\ Answer(id, "ok", order[id].filled)
  /\ UNCHANGED order

\* ErrOrderNotFound, also while the request is still on its way.
QueryFindsNothing(id) ==
  /\ place[id].pc = "unknown"
  /\ order[id].status # "accepted"
  /\ Answer(id, "not_found", 0)
  /\ UNCHANGED order

QueryTimesOut(id) ==
  /\ place[id].pc = "unknown"
  /\ Answer(id, "ambiguous", 0)
  /\ UNCHANGED order

\* Any other error of the query is returned as it is.
QueryFails(id) ==
  /\ place[id].pc = "unknown"
  /\ Answer(id, "error", 0)
  /\ UNCHANGED order

PlaceSteps(id) ==
  \/ Refuse(id) \/ AckUnreadable(id) \/ Ack(id) \/ NoAck(id)
  \/ QueryAfterAck(id) \/ QueryAfterAckFails(id)
  \/ QueryFinds(id) \/ QueryFindsNothing(id) \/ QueryTimesOut(id) \/ QueryFails(id)

-------------------------------------------------------------------------------
\* A returned answer is one of Answers: whatever the exchange does afterwards,
\* a reported fill never exceeds the real one.
AnswersAreSound ==
  \A id \in ClientIds :
    Returned(id) =>
      [kind |-> place[id].kind, reported |-> place[id].reported,
       filled |-> order[id].filled] \in Answers(order[id].qty)
===============================================================================
