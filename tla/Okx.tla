---------------------------------- MODULE Okx ----------------------------------
(***************************************************************************)
(* The OKX adapter (internal/exchange/okx/adapter.go).                    *)
(***************************************************************************)
EXTENDS ExchangeAdapter

\* Code 51000 is a bad symbol only if its text says so.
CodeErrors ==
  [c50011 |-> "rateLimited", c429 |-> "rateLimited",
   c50111 |-> "unauthorized", c50113 |-> "unauthorized", c50112 |-> "unauthorized",
   c50114 |-> "unauthorized", c51000instrument |-> "invalidSymbol", c51000 |-> "other",
   c51001 |-> "invalidSymbol", c51002 |-> "invalidSymbol",
   c51008 |-> "insufficientMargin", c51502 |-> "insufficientMargin",
   c51603 |-> "notFound", unlisted |-> "other"]
Codes == DOMAIN CodeErrors
ErrorStatuses == {200, 400, 401, 403}
Absent == {"c51603"}

\* The HTTP status is not read; a body without the code "0" is an error.
Answer(reply) ==
  CASE reply.code = "ok" -> "ok"
    [] reply.code \in Codes -> CodeErrors[reply.code]
    [] OTHER -> "other"

\* Whole contracts.  A time in force in the request overrides the mode, so a
\* market order with IOC becomes an IOC order, with a price if it has one.
Wire(req, mult) ==
  [side |-> req.side, size |-> Contracts(req.qty, mult), reduceOnly |-> req.reduceOnly,
   market |-> req.mode = "market" /\ req.tif = "none",
   tif |-> IF req.tif = "none" THEN "IOC" ELSE req.tif,
   priced |-> ~(req.mode = "market" /\ req.tif = "none") /\ req.priced]

TooSmall == "insufficientMargin"
\* The reply of an order that was refused may carry the code with the order.
PlaceAck(reply) == Answer(reply)

\* Separators are dropped; 27 characters are left of the 32.
MaxTextLen == IdLength

Sources(known) == <<"any">>
Found(reply) == Answer(reply)
Order == [onFail |-> "fail",
          fields |-> [size |-> "strict", filled |-> "orZero", price |-> "orZero", fee |-> "orZero"]]
\* Faulty variant: fills are reported in contracts.
Filled_InContracts(size, mult) == size

Filled(size, mult) == BaseQty(size, mult)

\* Faulty variant: an order filled in part counts as cancelled.
OrderStatus_PartEnds ==
  [live |-> "acknowledged", partially_filled |-> "cancelled", filled |-> "filled",
   canceled |-> "cancelled"]

OrderStatus ==
  [live |-> "acknowledged", partially_filled |-> "partial", filled |-> "filled",
   canceled |-> "cancelled"]
Live == {"live", "partially_filled"}

SetLeverage(reply) == Answer(reply)
SetMarginMode(reply) == Answer(reply)
SetPositionMode(reply) == Answer(reply)
CancelOrder(reply) == Answer(reply)
Transfer(reply) == Answer(reply)

-------------------------------------------------------------------------------
(* Market data. *)

InstrumentFound(reply) == Answer(reply)
Instrument == [onFail |-> "skip",
               fields |-> [step |-> "strict", min |-> "strict", tick |-> "strict",
                           leverage |-> "lax", multiplier |-> "positive"]]
\* A suspended contract is dropped, one before its opening is kept as reduce-only.
Listed == {"trading", "preopen"}
\* A contract value once read stays in the cache.
KeepsCache == TRUE

TickerFound(reply) == Answer(reply)
NoTicker == "invalidSymbol"
\* The time of the event after the next stands in for a missing time.
Funding == [onFail |-> "fail", fields |-> [rate |-> "orZero", next |-> "lax", later |-> "lax"]]
\* The rate of the event after the next, if there is one that is not zero.
Forecast == TRUE
\* Not read: 8 hours.
FundingInterval == "default"
Ticker == [onFail |-> "fail",
           fields |-> [last |-> "orZero", mark |-> "orZero", volume |-> "orZero"]]
Book == [onFail |-> "fail", fields |-> [price |-> "strict", size |-> "strict"]]
-------------------------------------------------------------------------------
(* Streams (ws.go): the topic that carries a channel, the channels whose   *)
(* events a topic yields, and how a stream is read.                        *)

Topics == [ticker |-> "tickers", bbo |-> "tickers", mark |-> "tickers",
           funding |-> "fundingRate", depth |-> "books5"]
\* The books of books5 are not read.
Emits == [tickers |-> {"ticker", "bbo"}, fundingRate |-> {"funding"}, books5 |-> {}]
Stream == [token |-> FALSE, greeting |-> FALSE, watched |-> FALSE, topicsNeeded |-> TRUE,
           changes |-> Whole]
-------------------------------------------------------------------------------
\* The adapter's tables.
Adapter ==
  [codes |-> Codes, errorStatuses |-> ErrorStatuses, absent |-> Absent,
   place |-> [r \in Replies(Codes) |-> PlaceAck(r)],
   found |-> [r \in Replies(Codes) |-> Found(r)],
   told |-> [leverage |-> [r \in Replies(Codes) |-> SetLeverage(r)],
             margin |-> [r \in Replies(Codes) |-> SetMarginMode(r)],
             position |-> [r \in Replies(Codes) |-> SetPositionMode(r)],
             cancel |-> [r \in Replies(Codes) |-> CancelOrder(r)],
             transfer |-> [r \in Replies(Codes) |-> Transfer(r)]],
   unsent |-> {},
   tooSmall |-> TooSmall, idLength |-> MaxTextLen,
   sources |-> [known \in BOOLEAN |-> Sources(known)],
   order |-> Order, status |-> OrderStatus, live |-> Live,
   instruments |-> [r \in Replies(Codes) |-> InstrumentFound(r)],
   instrument |-> Instrument, listed |-> Listed, keepsCache |-> KeepsCache,
   ticker |-> [r \in Replies(Codes) |-> TickerFound(r)], noTicker |-> NoTicker,
   funding |-> Funding, forecast |-> Forecast,
   interval |-> FundingInterval, prices |-> Ticker, book |-> Book]
===============================================================================
