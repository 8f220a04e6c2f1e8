---------------------------------- MODULE Gate ---------------------------------
(***************************************************************************)
(* The Gate.io adapter (internal/exchange/gate/adapter.go).               *)
(***************************************************************************)
EXTENDS ExchangeAdapter

CodeErrors ==
  [INVALID_KEY |-> "unauthorized", INVALID_SIGNATURE |-> "unauthorized",
   MISSING_REQUIRED_HEADER |-> "other", INVALID_PARAM_VALUE |-> "other",
   ORDER_NOT_FOUND |-> "notFound",
   BALANCE_NOT_ENOUGH |-> "insufficientMargin", INSUFFICIENT_AVAILABLE |-> "insufficientMargin",
   CONTRACT_NOT_FOUND |-> "invalidSymbol", INVALID_CONTRACT |-> "invalidSymbol",
   unlisted |-> "other"]
Codes == DOMAIN CodeErrors
ErrorStatuses == {400, 401, 403}
Absent == {"ORDER_NOT_FOUND"}

Answer(reply) ==
  CASE reply.status = 200 -> "ok"
    [] reply.status \in {401, 403} -> "unauthorized"
    [] reply.status \in {400, 418} /\ reply.code \in Codes -> CodeErrors[reply.code]
    [] OTHER -> "other"

Result(reply) == IF Answer(reply) = "ok" /\ reply.code = "garbled" THEN "other" ELSE Answer(reply)

\* Faulty variant: the quantity is not converted to contracts.
Wire_InCoins(req, mult) ==
  [side |-> req.side, size |-> req.qty, reduceOnly |-> req.reduceOnly,
   market |-> req.mode = "market" \/ ~req.priced,
   tif |-> IF req.tif = "GTC" THEN "GTC" ELSE "IOC",
   priced |-> req.mode # "market" /\ req.priced]

\* Whole contracts, signed by the side; a market order is an order at price 0.
Wire(req, mult) ==
  [side |-> req.side, size |-> Contracts(req.qty, mult), reduceOnly |-> req.reduceOnly,
   market |-> req.mode = "market" \/ ~req.priced,
   tif |-> IF req.tif = "GTC" THEN "GTC" ELSE "IOC",
   priced |-> req.mode # "market" /\ req.priced]

TooSmall == "other"
PlaceAck(reply) == Result(reply)

\* The order carries the first 28 characters of its id; GetOrder compares with
\* the whole id.
MaxTextLen == 28

\* The number the venue gave an order this process placed, or else a search.
Sources(known) == IF known THEN <<"any">> ELSE <<"open", "finished">>
Found(reply) == Result(reply)
Order == [onFail |-> "skip",
          fields |-> [size |-> "strict", filled |-> "lax", price |-> "lax", fee |-> "unread"]]
Filled(size, mult) == BaseQty(size, mult)

\* open; finished, by the way it finished, filled for a way nobody listed.
OrderStatus ==
  [open |-> "acknowledged", filled |-> "filled", cancelled |-> "cancelled", ioc |-> "cancelled",
   reduce_only |-> "cancelled", position_closed |-> "cancelled", stp |-> "cancelled",
   auto_deleveraged |-> "filled", liquidated |-> "filled", otherwise |-> "filled"]
Live == {"open"}

SetLeverage(reply) == Answer(reply)
SetMarginMode(reply) == Answer(reply)
SetPositionMode(reply) == Answer(reply)
CancelOrder(reply) == Answer(reply)
Transfer(reply) == Answer(reply)

-------------------------------------------------------------------------------
(* Market data. *)

InstrumentFound(reply) == Result(reply)
\* The step is one contract; a size that does not parse counts one contract.
Instrument == [onFail |-> "skip",
               fields |-> [step |-> "unread", min |-> "lax", tick |-> "strict",
                           leverage |-> "lax", multiplier |-> "positive"]]
Listed == {"trading"}
\* A multiplier once read stays in the cache.
KeepsCache == TRUE

TickerFound(reply) == Result(reply)
NoTicker == "invalidSymbol"
Funding == [onFail |-> "fail", fields |-> [rate |-> "strict", next |-> "lax", later |-> "unread"]]
\* The current rate, that of the next event.
Forecast == FALSE
\* In seconds; a missing one is zero.
FundingInterval == "read"
Ticker == [onFail |-> "fail",
           fields |-> [last |-> "orZero", mark |-> "orZero", volume |-> "orZero"]]
Book == [onFail |-> "fail", fields |-> [price |-> "strict", size |-> "strict"]]
-------------------------------------------------------------------------------
(* Streams (ws.go): the topic that carries a channel, the channels whose   *)
(* events a topic yields, and how a stream is read.                        *)

Topics == [ticker |-> "tickers", bbo |-> "tickers", funding |-> "tickers",
           depth |-> "order_book", mark |-> "none"]
Emits == [tickers |-> {"ticker", "bbo", "funding"}, order_book |-> {"depth"}]
\* A goroutine closes the connection when the context ends.
Stream == [token |-> FALSE, greeting |-> FALSE, watched |-> TRUE, topicsNeeded |-> TRUE,
           changes |-> Whole]
-------------------------------------------------------------------------------
\* The adapter's tables.
Adapter ==
  [codes |-> Codes, errorStatuses |-> ErrorStatuses, absent |-> Absent,
   place |-> [r \in Replies(Codes) |-> PlaceAck(r)],
   found |-> [r \in Replies(Codes) |-> Found(r)],
   told |-> [leverage |-> [r \in Replies(Codes) |-> SetLeverage(r)],
             margin |-> [r \in Replies(Codes) |-> SetMarginMode(r)],
             position |-> [r \in Replies(Codes) |-> SetPositionMode(r)],
             cancel |-> [r \in Replies(Codes) |-> CancelOrder(r)],
             transfer |-> [r \in Replies(Codes) |-> Transfer(r)]],
   unsent |-> {},
   tooSmall |-> TooSmall, idLength |-> MaxTextLen,
   sources |-> [known \in BOOLEAN |-> Sources(known)],
   order |-> Order, status |-> OrderStatus, live |-> Live,
   instruments |-> [r \in Replies(Codes) |-> InstrumentFound(r)],
   instrument |-> Instrument, listed |-> Listed, keepsCache |-> KeepsCache,
   ticker |-> [r \in Replies(Codes) |-> TickerFound(r)], noTicker |-> NoTicker,
   funding |-> Funding, forecast |-> Forecast,
   interval |-> FundingInterval, prices |-> Ticker, book |-> Book]
===============================================================================
