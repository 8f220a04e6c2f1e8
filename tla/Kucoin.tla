-------------------------------- MODULE Kucoin --------------------------------
(***************************************************************************)
(* The KuCoin adapter (internal/exchange/kucoin/adapter.go).              *)
(***************************************************************************)
EXTENDS ExchangeAdapter

\* Code 100001 is a bad symbol only if its text says so.
CodeErrors ==
  [c429000 |-> "rateLimited", c400003 |-> "unauthorized", c400004 |-> "unauthorized",
   c400005 |-> "unauthorized", c100001symbol |-> "invalidSymbol", c100001 |-> "other",
   c300003 |-> "insufficientMargin", c200004 |-> "insufficientMargin",
   c100004 |-> "notFound", unlisted |-> "other"]
Codes == DOMAIN CodeErrors
ErrorStatuses == {200, 400, 401, 403}
Absent == {"c100004"}

\* The HTTP status is not read; a body without the code 200000 is an error.
Answer(reply) ==
  CASE reply.code = "ok" -> "ok"
    [] reply.code \in Codes -> CodeErrors[reply.code]
    [] OTHER -> "other"

\* Whole lots; none while the multiplier is unknown (0).
Wire(req, mult) ==
  [side |-> req.side, size |-> IF mult = 0 THEN 0 ELSE Contracts(req.qty, mult),
   reduceOnly |-> req.reduceOnly, market |-> req.mode = "market",
   tif |-> "IOC", priced |-> req.mode # "market" /\ req.priced]

TooSmall == "other"
PlaceAck(reply) == Answer(reply)
MaxTextLen == IdLength

Sources(known) == <<"any">>
Found(reply) == Answer(reply)
Order == [onFail |-> "fail",
          fields |-> [size |-> "strict", filled |-> "lax", price |-> "lax", fee |-> "lax"]]
\* An unknown multiplier turns every fill into zero.
Filled(size, mult) == BaseQty(size, mult)

OrderStatus ==
  [open |-> "acknowledged", new |-> "acknowledged", active |-> "acknowledged",
   match |-> "partial", done |-> "filled", cancel |-> "cancelled", cancelled |-> "cancelled"]
Live == {"open", "new", "active", "match"}

\* Leverage and margin mode go with the order: the three calls
\* send nothing and answer that all is well.
SetLeverage(reply) == "ok"
SetMarginMode(reply) == "ok"
SetPositionMode(reply) == "ok"
CancelOrder(reply) == Answer(reply)
Transfer(reply) == Answer(reply)

-------------------------------------------------------------------------------
(* Market data. *)

InstrumentFound(reply) == Answer(reply)
\* The step is one lot; an empty lot size counts one lot.
Instrument == [onFail |-> "skip",
               fields |-> [step |-> "unread", min |-> "orZero", tick |-> "strict",
                           leverage |-> "strict", multiplier |-> "strict"]]
Listed == {"trading"}
\* The multipliers of a round replace those of the round before.
KeepsCache == FALSE

TickerFound(reply) == Answer(reply)
NoTicker == "ok"
Funding == [onFail |-> "fail", fields |-> [rate |-> "orZero", next |-> "lax", later |-> "unread"]]
\* The predicted rate; a missing one is zero, a bad one the current rate.
Forecast == TRUE
\* In milliseconds; 8 hours if it is missing, zero or bad.
FundingInterval == "readOrDefault"
\* Neither a mark price nor a volume.
Ticker == [onFail |-> "fail",
           fields |-> [last |-> "orZero", mark |-> "unread", volume |-> "unread"]]
Book == [onFail |-> "fail", fields |-> [price |-> "strict", size |-> "strict"]]
-------------------------------------------------------------------------------
(* Streams (ws.go): the topic that carries a channel, the channels whose   *)
(* events a topic yields, and how a stream is read.                        *)

Topics == [ticker |-> "ticker", bbo |-> "tickerV2", funding |-> "instrument",
           mark |-> "instrument", depth |-> "none"]
Emits == [ticker |-> {"ticker", "bbo"}, tickerV2 |-> {"bbo"}, instrument |-> {"funding", "mark"}]
\* A token comes first, then a welcome; a goroutine closes the connection when
\* the context ends.  With no topic it connects all the same.
Stream == [token |-> TRUE, greeting |-> TRUE, watched |-> TRUE, topicsNeeded |-> FALSE,
           changes |-> Whole]
-------------------------------------------------------------------------------
\* The adapter's tables.
Adapter ==
  [codes |-> Codes, errorStatuses |-> ErrorStatuses, absent |-> Absent,
   place |-> [r \in Replies(Codes) |-> PlaceAck(r)],
   found |-> [r \in Replies(Codes) |-> Found(r)],
   told |-> [leverage |-> [r \in Replies(Codes) |-> SetLeverage(r)],
             margin |-> [r \in Replies(Codes) |-> SetMarginMode(r)],
             position |-> [r \in Replies(Codes) |-> SetPositionMode(r)],
             cancel |-> [r \in Replies(Codes) |-> CancelOrder(r)],
             transfer |-> [r \in Replies(Codes) |-> Transfer(r)]],
   unsent |-> {"leverage", "margin", "position"},
   tooSmall |-> TooSmall, idLength |-> MaxTextLen,
   sources |-> [known \in BOOLEAN |-> Sources(known)],
   order |-> Order, status |-> OrderStatus, live |-> Live,
   instruments |-> [r \in Replies(Codes) |-> InstrumentFound(r)],
   instrument |-> Instrument, listed |-> Listed, keepsCache |-> KeepsCache,
   ticker |-> [r \in Replies(Codes) |-> TickerFound(r)], noTicker |-> NoTicker,
   funding |-> Funding, forecast |-> Forecast,
   interval |-> FundingInterval, prices |-> Ticker, book |-> Book]
===============================================================================
