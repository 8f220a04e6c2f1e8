-------------------------------- MODULE Binance --------------------------------
(***************************************************************************)
(* The Binance adapter (internal/exchange/binance/adapter.go).            *)
(***************************************************************************)
EXTENDS ExchangeAdapter

CodeErrors ==
  [c2011 |-> "notFound", c2013 |-> "notFound", c2014 |-> "unauthorized", c2015 |-> "unauthorized",
   c1121 |-> "invalidSymbol", c2019 |-> "insufficientMargin",
   c4046 |-> "marginModeNotChanged", c4059 |-> "positionModeNotChanged",
   c4028 |-> "leverageNotChanged", unlisted |-> "other"]
Codes == DOMAIN CodeErrors
ErrorStatuses == {400, 401, 403, 418}
Absent == {"c2013", "c2011"}

\* The status decides first; the code is read only for the statuses left over.
Answer(reply) ==
  CASE reply.status = 418 -> "rateLimited"
    [] reply.status = 401 -> "unauthorized"
    [] reply.status = 200 -> "ok"
    [] reply.status \in {400, 403} /\ reply.code \in Codes -> CodeErrors[reply.code]
    [] OTHER -> "other"

Result(reply) == IF Answer(reply) = "ok" /\ reply.code = "garbled" THEN "other" ELSE Answer(reply)

\* A market order carries no time in force.
Wire(req, mult) ==
  [side |-> req.side, size |-> req.qty, reduceOnly |-> req.reduceOnly,
   market |-> req.mode = "market",
   tif |-> CASE req.mode = "market" -> "none"
             [] req.mode # "market" /\ req.tif # "none" -> req.tif
             [] OTHER -> "IOC",
   priced |-> req.mode # "market" /\ req.priced]

TooSmall == "sent"
PlaceAck(reply) == Result(reply)
MaxTextLen == IdLength

Sources(known) == <<"any">>
Found(reply) == Result(reply)
Order == [onFail |-> "fail",
          fields |-> [size |-> "strict", filled |-> "orZero", price |-> "orZero", fee |-> "unread"]]
Filled(size, mult) == size

OrderStatus ==
  [NEW |-> "acknowledged", PARTIALLY_FILLED |-> "partial", FILLED |-> "filled",
   CANCELED |-> "cancelled", REJECTED |-> "rejected", EXPIRED |-> "expired"]
Live == {"NEW", "PARTIALLY_FILLED"}

\* Faulty variant: an unknown code counts as done too.
SetLeverage_AnyCode(reply) == DoneUnless(Answer(reply), {"leverageNotChanged", "other"})

SetLeverage(reply) == DoneUnless(Answer(reply), {"leverageNotChanged"})
SetMarginMode(reply) == DoneUnless(Answer(reply), {"marginModeNotChanged"})
SetPositionMode(reply) == DoneUnless(Answer(reply), {"positionModeNotChanged"})
CancelOrder(reply) == Answer(reply)
Transfer(reply) == Result(reply)

-------------------------------------------------------------------------------
(* Market data.  The second request for instruments, the funding           *)
(* intervals, may fail.                                                    *)

InstrumentFound(reply) == Result(reply)
Instrument == [onFail |-> "skip",
               fields |-> [step |-> "positive", min |-> "strict", tick |-> "positive",
                           leverage |-> "unread", multiplier |-> "unread"]]
Listed == {"trading"}
\* Sizes are in the base asset: there is no multiplier to know.
KeepsCache == TRUE

TickerFound(reply) == Result(reply)
NoTicker == "other"
\* The next funding time is a number already; it may be missing.
Funding == [onFail |-> "fail", fields |-> [rate |-> "strict", next |-> "lax", later |-> "unread"]]
\* The current rate, that of the next event.
Forecast == FALSE
\* From a request of its own, whose failure does not matter: 8 hours then.
FundingInterval == "readOrDefault"
\* No mark price: the worker falls back to the last one.
Ticker == [onFail |-> "fail",
           fields |-> [last |-> "orZero", mark |-> "unread", volume |-> "orZero"]]
Book == [onFail |-> "fail", fields |-> [price |-> "strict", size |-> "strict"]]
-------------------------------------------------------------------------------
(* Streams (ws.go): the topic that carries a channel, the channels whose   *)
(* events a topic yields, and how a stream is read.                        *)

Topics == [ticker |-> "bookTicker", bbo |-> "bookTicker", mark |-> "markPrice",
           funding |-> "markPrice", depth |-> "depth20"]
\* The books of depth20 are not read.
Emits == [bookTicker |-> {"bbo"}, markPrice |-> {"mark", "funding"}, depth20 |-> {}]
Stream == [token |-> FALSE, greeting |-> FALSE, watched |-> FALSE, topicsNeeded |-> TRUE,
           changes |-> Whole]
\* Asks for a listenKey first.
PrivateStream == [token |-> TRUE, greeting |-> FALSE, watched |-> FALSE, topicsNeeded |-> FALSE,
                  changes |-> Whole]
-------------------------------------------------------------------------------
\* The adapter's tables.
Adapter ==
  [codes |-> Codes, errorStatuses |-> ErrorStatuses, absent |-> Absent,
   place |-> [r \in Replies(Codes) |-> PlaceAck(r)],
   found |-> [r \in Replies(Codes) |-> Found(r)],
   told |-> [leverage |-> [r \in Replies(Codes) |-> SetLeverage(r)],
             margin |-> [r \in Replies(Codes) |-> SetMarginMode(r)],
             position |-> [r \in Replies(Codes) |-> SetPositionMode(r)],
             cancel |-> [r \in Replies(Codes) |-> CancelOrder(r)],
             transfer |-> [r \in Replies(Codes) |-> Transfer(r)]],
   unsent |-> {},
   tooSmall |-> TooSmall, idLength |-> MaxTextLen,
   sources |-> [known \in BOOLEAN |-> Sources(known)],
   order |-> Order, status |-> OrderStatus, live |-> Live,
   instruments |-> [r \in Replies(Codes) |-> InstrumentFound(r)],
   instrument |-> Instrument, listed |-> Listed, keepsCache |-> KeepsCache,
   ticker |-> [r \in Replies(Codes) |-> TickerFound(r)], noTicker |-> NoTicker,
   funding |-> Funding, forecast |-> Forecast,
   interval |-> FundingInterval, prices |-> Ticker, book |-> Book]
===============================================================================
