-------------------------------- MODULE Bitget --------------------------------
(***************************************************************************)
(* The Bitget adapter (internal/exchange/bitget/adapter.go).              *)
(***************************************************************************)
EXTENDS ExchangeAdapter

\* A code that is not listed is told by its text, the last five.
CodeErrors ==
  [c429 |-> "rateLimited", c40429 |-> "rateLimited", c40001 |-> "unauthorized",
   c40009 |-> "unauthorized", c40034 |-> "invalidSymbol", c40754 |-> "insufficientMargin",
   c40109 |-> "notFound", tooMany |-> "rateLimited", sign |-> "unauthorized",
   symbol |-> "invalidSymbol", balance |-> "insufficientMargin", notFound |-> "notFound",
   unlisted |-> "other"]
Codes == DOMAIN CodeErrors
ErrorStatuses == {200, 400, 401, 403}
Absent == {"c40109", "notFound", "ok"}

\* The HTTP status is not read; a body without the code 00000 is an error.
Answer(reply) ==
  CASE reply.code = "ok" -> "ok"
    [] reply.code \in Codes -> CodeErrors[reply.code]
    [] OTHER -> "other"

Wire(req, mult) ==
  [side |-> req.side, size |-> req.qty, reduceOnly |-> req.reduceOnly,
   market |-> req.mode = "market",
   tif |-> IF req.tif = "none" THEN "IOC" ELSE req.tif,
   priced |-> req.mode # "market" /\ req.priced]

TooSmall == "sent"
PlaceAck(reply) == Answer(reply)
MaxTextLen == IdLength

Sources(known) == <<"any">>
Found(reply) == Answer(reply)
Order == [onFail |-> "fail",
          fields |-> [size |-> "orZero", filled |-> "orZero", price |-> "orZero", fee |-> "orZero"]]
Filled(size, mult) == size

OrderStatus ==
  [live |-> "acknowledged", new |-> "acknowledged", init |-> "acknowledged",
   partially_fill |-> "partial", full_fill |-> "filled", filled |-> "filled",
   cancelled |-> "cancelled", canceled |-> "cancelled", rejected |-> "rejected"]
Live == {"live", "new", "init", "partially_fill"}

SetLeverage(reply) == Answer(reply)
SetMarginMode(reply) == Answer(reply)
SetPositionMode(reply) == Answer(reply)
CancelOrder(reply) == Answer(reply)
Transfer(reply) == Answer(reply)

-------------------------------------------------------------------------------
(* Market data. *)

InstrumentFound(reply) == Answer(reply)
\* Steps are counts of decimals; a minimum of zero counts one step.
Instrument == [onFail |-> "skip",
               fields |-> [step |-> "unread", min |-> "orZero", tick |-> "unread",
                           leverage |-> "lax", multiplier |-> "unread"]]
Listed == {"trading"}
\* Sizes are in the base asset: there is no multiplier to know.
KeepsCache == TRUE

TickerFound(reply) == Answer(reply)
NoTicker == "ok"
\* The rate and the time come from two requests.
Funding == [onFail |-> "fail", fields |-> [rate |-> "strict", next |-> "lax", later |-> "unread"]]
\* The current rate, that of the next event.
Forecast == FALSE
\* Taken for hours; 8 hours if it is missing, zero or bad.
FundingInterval == "readOrDefault"
Ticker == [onFail |-> "fail",
           fields |-> [last |-> "orZero", mark |-> "orZero", volume |-> "orZero"]]
Book == [onFail |-> "fail", fields |-> [price |-> "strict", size |-> "strict"]]
-------------------------------------------------------------------------------
(* Streams (ws.go): the topic that carries a channel, the channels whose   *)
(* events a topic yields, and how a stream is read.                        *)

Topics == [ticker |-> "ticker", bbo |-> "ticker", funding |-> "ticker", mark |-> "ticker",
           depth |-> "books5"]
Emits == [ticker |-> {"ticker", "bbo", "funding"}, books5 |-> {"depth"}]
Stream == [token |-> FALSE, greeting |-> FALSE, watched |-> FALSE, topicsNeeded |-> TRUE,
           changes |-> Whole]
-------------------------------------------------------------------------------
\* The adapter's tables.
Adapter ==
  [codes |-> Codes, errorStatuses |-> ErrorStatuses, absent |-> Absent,
   place |-> [r \in Replies(Codes) |-> PlaceAck(r)],
   found |-> [r \in Replies(Codes) |-> Found(r)],
   told |-> [leverage |-> [r \in Replies(Codes) |-> SetLeverage(r)],
             margin |-> [r \in Replies(Codes) |-> SetMarginMode(r)],
             position |-> [r \in Replies(Codes) |-> SetPositionMode(r)],
             cancel |-> [r \in Replies(Codes) |-> CancelOrder(r)],
             transfer |-> [r \in Replies(Codes) |-> Transfer(r)]],
   unsent |-> {},
   tooSmall |-> TooSmall, idLength |-> MaxTextLen,
   sources |-> [known \in BOOLEAN |-> Sources(known)],
   order |-> Order, status |-> OrderStatus, live |-> Live,
   instruments |-> [r \in Replies(Codes) |-> InstrumentFound(r)],
   instrument |-> Instrument, listed |-> Listed, keepsCache |-> KeepsCache,
   ticker |-> [r \in Replies(Codes) |-> TickerFound(r)], noTicker |-> NoTicker,
   funding |-> Funding, forecast |-> Forecast,
   interval |-> FundingInterval, prices |-> Ticker, book |-> Book]
===============================================================================
