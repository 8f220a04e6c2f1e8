---------------------------- MODULE ExchangeAdapter ----------------------------
(***************************************************************************)
(* What the seven exchange adapters share (internal/exchange/adapter.go):  *)
(* the errors they answer with, the orders they are asked to place and the *)
(* way they read a number out of a reply.  Each adapter is a module of     *)
(* tables (Binance, Bybit, Bitget, Gate, Kucoin, Mexc, Okx) with the same  *)
(* operators; Adapters and MarketRefresh run them.                         *)
(***************************************************************************)
EXTENDS Integers, Sequences

\* The sentinel errors; "other" is an error that wraps none of them.
Errors == {"invalidSymbol", "insufficientMargin", "rateLimited", "unauthorized",
           "timeout", "notFound", "network", "other"}

\* The transport errors, after which the executor asks what became of the order.
Transport == {"timeout", "network"}

(***************************************************************************)
(* A reply that reached the adapter: the HTTP status and what its body     *)
(* says: "ok" (the success the venue documents), a code of the venue,      *)
(* "none" (JSON of something in between, with nothing the adapter knows)   *)
(* or "garbled" (no JSON).  Replies with 429 or 5xx never get here: the    *)
(* HTTP client turns them into errors.                                     *)
(***************************************************************************)
Replies(codes) ==
  {r \in [status : {200, 400, 401, 403, 418}, code : codes \cup {"ok", "none", "garbled"}] :
     r.code = "ok" => r.status = 200}

\* A configuration request whose "already so" codes count as done.
DoneUnless(result, benign) == IF result \in benign THEN "ok" ELSE result

(***************************************************************************)
(* Numbers in a reply.  A field is "good", "empty", "bad" (not a number)   *)
(* or "zero"; an adapter reads it in one of these ways:                    *)
(*   strict    empty and bad fail the entry                                *)
(*   positive  as strict, and zero fails too                               *)
(*   orZero    empty reads as zero, bad fails the entry                    *)
(*   lax       empty and bad read as zero                                  *)
(*   unread    the field is left zero                                      *)
(* A rule gives the way for each field and what a failed entry does:       *)
(* "skip" drops the entry, "fail" fails the call.                          *)
(***************************************************************************)
Qualities == {"good", "empty", "bad", "zero"}

FailsOn(way) ==
  [strict |-> {"empty", "bad"}, positive |-> {"empty", "bad", "zero"},
   orZero |-> {"bad"}, lax |-> {}, unread |-> {}][way]

Fails(rule, raw) == \E f \in DOMAIN rule.fields : raw[f] \in FailsOn(rule.fields[f])

\* The value of a field of an entry that did not fail.
Value(rule, raw, f) ==
  IF rule.fields[f] # "unread" /\ raw[f] = "good" THEN "good" ELSE "zero"

(***************************************************************************)
(* Orders, in whole units of the base asset.  A venue that trades in       *)
(* contracts gets as many whole contracts as the quantity covers.          *)
(***************************************************************************)
Sides == {"long", "short"}
Modes == {"ioc", "market"}
Requests(qtys) == [side : Sides, mode : Modes, tif : {"none", "IOC", "GTC"}, qty : qtys,
                   priced : BOOLEAN, reduceOnly : BOOLEAN]

Contracts(qty, mult) == qty \div mult
BaseQty(contracts, mult) == contracts * mult

\* Of the topics of a stream, those whose later messages carry only what changed,
\* and what the adapter does with the changes: by default there are none.
Channels == {"ticker", "bbo", "depth", "mark", "funding"}
Whole == [topic \in {} |-> "merged"]

(***************************************************************************)
(* Client order ids.  Every id the engine builds fills the 32 characters   *)
(* Format allows, and what tells the orders of one position apart stands   *)
(* at its end: _LONG_0_0.  An id is modelled by these parts.               *)
(***************************************************************************)
IdLength == 32
Ids == [purpose : {"ENTRY", "REPAIR", "EXIT"}, side : Sides, slice : 0 .. 2]

\* The id cut to its first n characters, below 32: the two numbers at the end go.
Cut(id, n) == IF n >= IdLength THEN id ELSE [purpose |-> id.purpose, side |-> id.side]
===============================================================================
