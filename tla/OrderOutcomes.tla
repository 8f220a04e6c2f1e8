----------------------------- MODULE OrderOutcomes -----------------------------
(***************************************************************************)
(* What a caller of OrderExecutor.Place may conclude from its answer.      *)
(* Constant-level: OrderExecutor derives these answers step by step, the   *)
(* callers that need no more than the answer use Answers.                  *)
(***************************************************************************)
EXTENDS Naturals

(***************************************************************************)
(*   ok         an order with a filled quantity (from the ack or a query)  *)
(*   not_found  ErrOrderNotFound: the query did not find the order         *)
(*   ambiguous  ErrTimeout or ErrNetwork: neither ack nor query answered   *)
(*   error      any other error, of the placement or of the query          *)
(***************************************************************************)
Kinds == {"ok", "not_found", "ambiguous", "error"}

\* An answer: its kind, the fill it reports and the fill at the exchange.  Only
\* "ok" carries information, and only a lower bound of the real fill.
Answers(qty) ==
  {a \in [kind : Kinds, reported : 0 .. qty, filled : 0 .. qty] :
     IF a.kind = "ok" THEN a.reported <= a.filled ELSE a.reported = 0}
===============================================================================
