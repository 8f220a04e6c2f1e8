--------------------------------- MODULE Bybit ---------------------------------
(***************************************************************************)
(* The Bybit adapter (internal/exchange/bybit/adapter.go).                *)
(***************************************************************************)
EXTENDS ExchangeAdapter

\* retCode 10001 is a bad symbol only if its text says so.
CodeErrors ==
  [c10003 |-> "unauthorized", c10004 |-> "unauthorized", c33004 |-> "unauthorized",
   c10006 |-> "rateLimited", c110007 |-> "insufficientMargin",
   c10001symbol |-> "invalidSymbol", c10001 |-> "other", c110001 |-> "notFound",
   c110043 |-> "leverageNotModified", c110025 |-> "positionModeNotModified",
   unlisted |-> "other"]
Codes == DOMAIN CodeErrors
ErrorStatuses == {200, 400, 401, 403}
Absent == {"c110001"}

\* The HTTP status is not read, and a body without a retCode reads as retCode 0.
Answer(reply) ==
  CASE reply.code = "garbled" -> "other"
    [] reply.code \in Codes -> CodeErrors[reply.code]
    [] OTHER -> "ok"

\* Where the result is unmarshalled: a body without one is an error.
Result(reply) == IF reply.code = "none" THEN "other" ELSE Answer(reply)

Wire(req, mult) ==
  [side |-> req.side, size |-> req.qty, reduceOnly |-> req.reduceOnly,
   market |-> req.mode = "market",
   tif |-> IF req.tif = "none" THEN "IOC" ELSE req.tif,
   priced |-> req.mode # "market" /\ req.priced]

TooSmall == "sent"
PlaceAck(reply) == Result(reply)
MaxTextLen == IdLength

\* Faulty variant: the history is asked first.
Sources_HistoryFirst(known) == <<"finished", "open">>

\* GetOrder asks for the open orders, then the history; an error ends it.
Sources(known) == <<"open", "finished">>
Found(reply) == Result(reply)
Order == [onFail |-> "fail",
          fields |-> [size |-> "strict", filled |-> "orZero", price |-> "orZero", fee |-> "orZero"]]
Filled(size, mult) == size

OrderStatus ==
  [New |-> "acknowledged", PartiallyFilled |-> "partial", Filled |-> "filled",
   Cancelled |-> "cancelled", Rejected |-> "rejected", Deactivated |-> "expired"]
Live == {"New", "PartiallyFilled"}

SetLeverage(reply) == DoneUnless(Answer(reply), {"leverageNotModified"})
SetMarginMode(reply) == Answer(reply)
SetPositionMode(reply) == DoneUnless(Answer(reply), {"positionModeNotModified"})
CancelOrder(reply) == Answer(reply)
Transfer(reply) == Result(reply)

-------------------------------------------------------------------------------
(* Market data.  The instruments come in pages; one that fails fails the   *)
(* call.                                                                   *)

InstrumentFound(reply) == Result(reply)
Instrument == [onFail |-> "skip",
               fields |-> [step |-> "strict", min |-> "strict", tick |-> "strict",
                           leverage |-> "strict", multiplier |-> "unread"]]
Listed == {"trading"}
\* Sizes are in the base asset: there is no multiplier to know.
KeepsCache == TRUE

\* GetFunding and GetTicker read the same ticker; an unknown symbol has none.
TickerFound(reply) == Result(reply)
NoTicker == "invalidSymbol"
Funding == [onFail |-> "fail", fields |-> [rate |-> "strict", next |-> "strict", later |-> "unread"]]
\* The current rate, that of the next event.
Forecast == FALSE
\* In minutes; a missing one is zero.
FundingInterval == "read"
Ticker == [onFail |-> "fail",
           fields |-> [last |-> "orZero", mark |-> "orZero", volume |-> "orZero"]]
Book == [onFail |-> "fail", fields |-> [price |-> "strict", size |-> "strict"]]
-------------------------------------------------------------------------------
(* Streams (ws.go): the topic that carries a channel, the channels whose   *)
(* events a topic yields, and how a stream is read.                        *)

Topics == [ticker |-> "tickers", funding |-> "tickers", mark |-> "tickers",
           depth |-> "orderbook", bbo |-> "orderbook"]
Emits == [tickers |-> {"ticker", "funding", "mark"}, orderbook |-> {"depth"}]
\* The changes of a ticker are merged into the last one, those of a book skipped.
Stream == [token |-> FALSE, greeting |-> FALSE, watched |-> FALSE, topicsNeeded |-> TRUE,
           changes |-> [tickers |-> "merged", orderbook |-> "skipped"]]
\* Waits for the answer to its auth frame.
PrivateStream == [token |-> FALSE, greeting |-> TRUE, watched |-> FALSE, topicsNeeded |-> FALSE,
                  changes |-> Whole]
-------------------------------------------------------------------------------
\* The adapter's tables.
Adapter ==
  [codes |-> Codes, errorStatuses |-> ErrorStatuses, absent |-> Absent,
   place |-> [r \in Replies(Codes) |-> PlaceAck(r)],
   found |-> [r \in Replies(Codes) |-> Found(r)],
   told |-> [leverage |-> [r \in Replies(Codes) |-> SetLeverage(r)],
             margin |-> [r \in Replies(Codes) |-> SetMarginMode(r)],
             position |-> [r \in Replies(Codes) |-> SetPositionMode(r)],
             cancel |-> [r \in Replies(Codes) |-> CancelOrder(r)],
             transfer |-> [r \in Replies(Codes) |-> Transfer(r)]],
   unsent |-> {},
   tooSmall |-> TooSmall, idLength |-> MaxTextLen,
   sources |-> [known \in BOOLEAN |-> Sources(known)],
   order |-> Order, status |-> OrderStatus, live |-> Live,
   instruments |-> [r \in Replies(Codes) |-> InstrumentFound(r)],
   instrument |-> Instrument, listed |-> Listed, keepsCache |-> KeepsCache,
   ticker |-> [r \in Replies(Codes) |-> TickerFound(r)], noTicker |-> NoTicker,
   funding |-> Funding, forecast |-> Forecast,
   interval |-> FundingInterval, prices |-> Ticker, book |-> Book]
===============================================================================
