--------------------------------- MODULE Mexc ---------------------------------
(***************************************************************************)
(* The MEXC adapter (internal/exchange/mexc/adapter.go).                  *)
(***************************************************************************)
EXTENDS ExchangeAdapter

\* A code that is not listed is told by its text, the last four.
CodeErrors ==
  [c401 |-> "unauthorized", c1002 |-> "unauthorized", c429 |-> "rateLimited",
   c510 |-> "rateLimited", c2011 |-> "notFound", c2013 |-> "insufficientMargin",
   c2001 |-> "invalidSymbol", orderNotFound |-> "notFound", symbolInvalid |-> "invalidSymbol",
   marginInsufficient |-> "insufficientMargin", signature |-> "unauthorized",
   unlisted |-> "other"]
Codes == DOMAIN CodeErrors
ErrorStatuses == {200, 400, 401, 403}
Absent == {"c2011", "orderNotFound", "ok"}

\* The HTTP status is not read; a body without success and code 0 is an error.
Answer(reply) ==
  CASE reply.code = "ok" -> "ok"
    [] reply.code \in Codes -> CodeErrors[reply.code]
    [] OTHER -> "other"

\* domainSideToCode: 1 is open long, 2 close short, 3 open short, 4 close long.
SideCode(side, reduceOnly) ==
  CASE side = "long" /\ ~reduceOnly -> 1
    [] side = "short" /\ reduceOnly -> 2
    [] side = "short" /\ ~reduceOnly -> 3
    [] side = "long" /\ reduceOnly -> 4

\* What such an order does at the venue: it opens a long or closes a short by
\* buying, opens a short or closes a long by selling.
Deal(code) == IF code \in {1, 2} THEN "long" ELSE "short"

\* Whole contracts, none while their size is unknown (0).  The order has no
\* time in force: one that is not a market order is a plain limit order.
Wire(req, mult) ==
  [side |-> Deal(SideCode(req.side, req.reduceOnly)), size |-> IF mult = 0 THEN 0 ELSE Contracts(req.qty, mult),
   reduceOnly |-> req.reduceOnly, market |-> req.mode = "market",
   tif |-> IF req.mode = "market" THEN "none" ELSE "GTC",
   priced |-> req.mode # "market" /\ req.priced]

TooSmall == "other"
PlaceAck(reply) == Answer(reply)
MaxTextLen == IdLength

Sources(known) == <<"any">>
Found(reply) == Answer(reply)
Order == [onFail |-> "fail",
          fields |-> [size |-> "strict", filled |-> "orZero", price |-> "orZero", fee |-> "orZero"]]
\* With the contract size unknown, a fill is reported in contracts.
Filled(size, mult) == IF mult = 0 THEN size ELSE BaseQty(size, mult)

OrderStatus ==
  [s1 |-> "acknowledged", s2 |-> "partial", s3 |-> "filled", s4 |-> "cancelled",
   s5 |-> "cancelled"]
Live == {"s1", "s2"}

SetLeverage(reply) == Answer(reply)
SetMarginMode(reply) == Answer(reply)
SetPositionMode(reply) == Answer(reply)
CancelOrder(reply) == Answer(reply)
\* Not implemented: always an error, and nothing is sent.
Transfer(reply) == "unsent"

-------------------------------------------------------------------------------
(* Market data. *)

InstrumentFound(reply) == Answer(reply)
Instrument == [onFail |-> "skip",
               fields |-> [step |-> "strict", min |-> "strict", tick |-> "strict",
                           leverage |-> "orZero", multiplier |-> "strict"]]
\* Contracts in another state are kept, marked as delisted.
Listed == {"trading", "preopen", "suspended"}
\* The contract sizes of a round replace those of the round before.
KeepsCache == FALSE

TickerFound(reply) == Answer(reply)
NoTicker == "ok"
\* The next settlement is a number already; it may be missing.
Funding == [onFail |-> "fail", fields |-> [rate |-> "strict", next |-> "lax", later |-> "unread"]]
\* The current rate, that of the next event.
Forecast == FALSE
\* Not read: 8 hours, although GetFunding reads the cycle.
FundingInterval == "default"
Ticker == [onFail |-> "fail",
           fields |-> [last |-> "orZero", mark |-> "unread", volume |-> "orZero"]]
Book == [onFail |-> "fail", fields |-> [price |-> "strict", size |-> "strict"]]
-------------------------------------------------------------------------------
(* Streams (ws.go): the topic that carries a channel, the channels whose   *)
(* events a topic yields, and how a stream is read.                        *)

Topics == [ticker |-> "ticker", bbo |-> "ticker", funding |-> "ticker",
           depth |-> "depth", mark |-> "none"]
Emits == [ticker |-> {"ticker", "bbo", "funding"}, depth |-> {"depth"}]
\* The changes of a book are passed on as changes.
Stream == [token |-> FALSE, greeting |-> FALSE, watched |-> FALSE, topicsNeeded |-> FALSE,
           changes |-> [depth |-> "passed"]]
-------------------------------------------------------------------------------
\* The adapter's tables.
Adapter ==
  [codes |-> Codes, errorStatuses |-> ErrorStatuses, absent |-> Absent,
   place |-> [r \in Replies(Codes) |-> PlaceAck(r)],
   found |-> [r \in Replies(Codes) |-> Found(r)],
   told |-> [leverage |-> [r \in Replies(Codes) |-> SetLeverage(r)],
             margin |-> [r \in Replies(Codes) |-> SetMarginMode(r)],
             position |-> [r \in Replies(Codes) |-> SetPositionMode(r)],
             cancel |-> [r \in Replies(Codes) |-> CancelOrder(r)],
             transfer |-> [r \in Replies(Codes) |-> Transfer(r)]],
   unsent |-> {"transfer"},
   tooSmall |-> TooSmall, idLength |-> MaxTextLen,
   sources |-> [known \in BOOLEAN |-> Sources(known)],
   order |-> Order, status |-> OrderStatus, live |-> Live,
   instruments |-> [r \in Replies(Codes) |-> InstrumentFound(r)],
   instrument |-> Instrument, listed |-> Listed, keepsCache |-> KeepsCache,
   ticker |-> [r \in Replies(Codes) |-> TickerFound(r)], noTicker |-> NoTicker,
   funding |-> Funding, forecast |-> Forecast,
   interval |-> FundingInterval, prices |-> Ticker, book |-> Book]
===============================================================================
