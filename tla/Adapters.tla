------------------------------- MODULE Adapters -------------------------------
(***************************************************************************)
(* OrderExecutor.Place over the adapter of a real venue: the order as the  *)
(* venue gets it, the id it carries, the replies as the adapter reads them *)
(* and the queries that look for the order when no reply came.  The        *)
(* instruments are refreshed meanwhile by the market loop.  The venue and  *)
(* the network are external.                                               *)
(*                                                                         *)
(* Implements OrderExecutor, with quantities counted in contracts.         *)
(***************************************************************************)
EXTENDS Venues

CONSTANTS
  Traded,      \* the venues one of which is used
  Qtys,        \* quantities of an order, in the base asset
  MaxQty,      \* bound on them
  Legs,        \* the legs whose orders are placed, by their side
  Multiplier,  \* the size of a contract, on venues that trade in contracts
  Slices,      \* the orders of one position that differ only by their slice
  Lossy,       \* venues whose reply to an order may be lost
  Delistable   \* venues whose list of instruments may lose the instrument

ASSUME TradedAssumption == Traded \subseteq AllVenues
ASSUME QtysAssumption == MaxQty \in Nat \ {0} /\ Qtys \subseteq 1 .. MaxQty
ASSUME LegsAssumption == Legs \subseteq Sides
ASSUME MultiplierAssumption == Multiplier \in Nat \ {0}
ASSUME SlicesAssumption == Slices \subseteq 0 .. 2

VARIABLES
  venue,         \* the venue in use
  request,       \* what the engine asks for, the same for every slice
  contractSize,  \* as the adapter knows it; 0 is unknown
  known,         \* Gate: the slices whose number the venue has told
  book,          \* the venue's side of each slice
  place,         \* Place: its step, the source it asks, its answer
  setting        \* a setting or a transfer: carried out or not, what was answered,
                 \* and whether the reply held nothing the adapter knows

adapterVars == <<venue, request, contractSize, known, book, place, setting>>

A == AdapterTables[venue]
Mult == IF venue \in {"gate", "kucoin", "mexc", "okx"} THEN Multiplier ELSE 1

\* What the engine asks for, always immediate-or-cancel: the entry of a leg and
\* its top-up are limit orders, its close a limit order on the other side that
\* only reduces, its repair a market order that only reduces.
EngineRequests ==
  {r \in Requests(Qtys) :
     /\ r.tif = "IOC" /\ (r.mode = "ioc") = r.priced
     /\ r.mode = "market" => r.reduceOnly
     /\ \E leg \in Legs : r.reduceOnly = (r.side # leg)}

Id(s) == [purpose |-> "REPAIR", side |-> request.side, slice |-> s]
Text(s) == Cut(Id(s), A.idLength)
Wire == WireOf(venue, request, contractSize)

NoWire == WireOf("binance", [side |-> "long", mode |-> "ioc", tif |-> "none", qty |-> 0,
                             priced |-> FALSE, reduceOnly |-> FALSE], 1)
NotPlaced == [pc |-> "idle", at |-> 1, kind |-> "error", reported |-> 0, status |-> "new"]
NoSetting == [kind |-> "none", done |-> FALSE, told |-> "none", empty |-> FALSE]

InitAdapters ==
  /\ venue \in Traded
  /\ request \in EngineRequests
  /\ contractSize = 0
  /\ known = {}
  /\ book = [s \in Slices |-> [status |-> "none", wire |-> NoWire, filled |-> 0, live |-> TRUE]]
  /\ place = [s \in Slices |-> NotPlaced]
  /\ setting = NoSetting

Accepted(s) == book[s].status = "accepted"
Returned(s) == place[s].pc = "returned"

-------------------------------------------------------------------------------
(* The market loop's GetInstruments.                                       *)

GoodRow == [f \in {"step", "min", "tick", "leverage", "multiplier"} |-> "good"]
BadRows == {[GoodRow EXCEPT ![f] = q] : f \in DOMAIN GoodRow, q \in {"empty", "bad"}}

\* A row that is listed and parses is read.
RowsRead ==
  [v \in AllVenues |->
     LET a == AdapterTables[v]
     IN {(state \in a.listed /\ ~Fails(a.instrument, row)) :
           state \in {"trading", "preopen", "suspended"}, row \in {GoodRow} \cup BadRows}]

\* A row that is read gives the contract size.
RefreshInstruments(reads) ==
  /\ ~reads => contractSize # 0 /\ venue \in Delistable
  /\ contractSize' = CASE reads -> Mult [] ~reads /\ A.keepsCache -> contractSize [] OTHER -> 0
  /\ UNCHANGED <<venue, request, known, book, place, setting>>

-------------------------------------------------------------------------------
(* The venue. *)

\* It takes no order for nothing, and no limit order without a price.  One that
\* arrives late arrives before GetOrder asks its first source or after its last.
Accept(s) ==
  /\ book[s].status = "sent"
  /\ place[s].pc = "placing" \/ venue \in Lossy
  /\ place[s].at = 1 \/ Returned(s)
  /\ book[s].wire.size > 0
  /\ book[s].wire.market \/ book[s].wire.priced
  /\ book' = [book EXCEPT ![s].status = "accepted"]
  /\ UNCHANGED <<venue, request, contractSize, known, place, setting>>

Fill(s) ==
  /\ Accepted(s) /\ book[s].live
  /\ book[s].filled < book[s].wire.size
  /\ book' = [book EXCEPT ![s].filled = @ + 1]
  /\ UNCHANGED <<venue, request, contractSize, known, place, setting>>

\* Filled, or cancelled because nothing more matches now.
Finish(s) ==
  /\ Accepted(s) /\ book[s].live
  /\ book[s].wire.tif # "GTC" \/ book[s].filled = book[s].wire.size
  /\ book' = [book EXCEPT ![s].live = FALSE]
  /\ UNCHANGED <<venue, request, contractSize, known, place, setting>>

\* Replies that refuse a request; an answer that there is no such order is not one.
Refusals(a) ==
  {r \in Replies(a.codes) : r.status \in a.errorStatuses /\ r.code \notin a.absent \cup {"ok"}}

\* How each adapter reads them, as replies to an order and to a query.
RefusedAs == [v \in AllVenues |-> LET a == AdapterTables[v] IN {a.place[r] : r \in Refusals(a)}]
RefusedQueryAs ==
  [v \in AllVenues |-> LET a == AdapterTables[v] IN {a.found[r] : r \in Refusals(a)} \ {"ok"}]

\* Replies to a request that was carried out: the documented one, or with status
\* 200 a body that holds nothing the adapter knows, or none that parses.
OkReplies == {[status |-> 200, code |-> code] : code \in {"ok", "none", "garbled"}}
OkReply == [status |-> 200, code |-> "ok"]

\* How each adapter reads them after an order, and whether they hold its number.
AcceptedAs ==
  [v \in AllVenues |->
     {[error |-> AdapterTables[v].place[r], numbered |-> r = OkReply] : r \in OkReplies}]

-------------------------------------------------------------------------------
(* Place. *)

Return(s, kind, reported, status) ==
  place' = [place EXCEPT ![s].pc = "returned", ![s].kind = kind,
                         ![s].reported = reported, ![s].status = status]

\* The slices are tried one after the other, for an instrument that was listed.
Place(s) ==
  /\ place[s].pc = "idle"
  /\ \A t \in Slices : t < s => Returned(t)
  /\ (\A t \in Slices : place[t].pc = "idle") => contractSize # 0
  /\ place' = [place EXCEPT ![s].pc = "placing"]
  /\ book' = [book EXCEPT ![s].status = "sent", ![s].wire = Wire]
  /\ setting' = NoSetting
  /\ UNCHANGED <<venue, request, contractSize, known>>

\* The kind of an answer with this error.
Kind(error) ==
  CASE error \in Transport -> "ambiguous" [] error = "notFound" -> "not_found" [] OTHER -> "error"

\* Refused by the adapter, which sends nothing, or by the venue.
Refuse(s) ==
  /\ place[s].pc = "placing"
  /\ book[s].status = "sent"
  /\ \E error \in IF book[s].wire.size = 0 THEN {A.tooSmall} ELSE RefusedAs[venue] :
       IF error = "ok" THEN /\ place' = [place EXCEPT ![s].pc = "acked"]
                            /\ UNCHANGED book
                       ELSE /\ Return(s, Kind(error), 0, "new")
                            /\ book' = [book EXCEPT ![s].status = "none"]
  /\ UNCHANGED <<venue, request, contractSize, known, setting>>

\* The reply to an order that was taken.  One that does not parse is an error
\* like a refusal, although the order is at the venue.
Ack(s) ==
  /\ place[s].pc = "placing"
  /\ Accepted(s)
  /\ \E ack \in AcceptedAs[venue] :
       IF ack.error = "ok" THEN /\ place' = [place EXCEPT ![s].pc = "acked"]
                                /\ known' = IF ack.numbered THEN known \cup {s} ELSE known
                           ELSE /\ Return(s, Kind(ack.error), 0, "new")
                                /\ UNCHANGED known
  /\ UNCHANGED <<venue, request, contractSize, book, setting>>

\* No reply in time, a broken connection, or a status 429 or 5xx.
NoAck(s) ==
  /\ place[s].pc = "placing"
  /\ Accepted(s) => venue \in Lossy
  /\ book[s].wire.size > 0
  /\ place' = [place EXCEPT ![s].pc = "unknown"]
  /\ UNCHANGED <<venue, request, contractSize, known, book, setting>>

-------------------------------------------------------------------------------
(* GetOrder. *)

Querying(s) == place[s].pc \in {"acked", "unknown"}
Sources(s) == A.sources[(s \in known)]
Source(s) == Sources(s)[place[s].at]

\* The orders the source's reply shows for the id.
Shown(s) ==
  {t \in Slices : /\ Accepted(t)
                  /\ IF s \in known THEN t = s ELSE Text(t) = Id(s)
                  /\ Source(s) = "open" => book[t].live
                  /\ Source(s) = "finished" => ~book[t].live}

\* The words a venue has for an order in this state, and one nobody listed.
Words(t) == {w \in DOMAIN A.status : (w \in A.live) = book[t].live} \cup {"unlisted"}
Status(word) == IF word \in DOMAIN A.status THEN A.status[word] ELSE "new"

\* Rows as they come: whole, or with a number that does not parse; never the
\* filled quantity, which some adapters would read as zero.
GoodOrder == [f \in {"size", "filled", "price", "fee"} |-> "good"]
OrderRows == {[GoodOrder EXCEPT ![f] = q] : f \in {"size", "price", "fee"}, q \in {"good", "empty", "bad"}}
RowsFail == [v \in AllVenues |-> {Fails(AdapterTables[v].order, row) : row \in OrderRows}]

\* After an ack an error of the query is ignored.
Ends(s, error) ==
  IF place[s].pc = "acked" THEN Return(s, "ok", 0, "acknowledged")
                           ELSE Return(s, Kind(error), 0, "new")

QueryFails(s) ==
  /\ Querying(s)
  /\ \E error \in Transport \cup RefusedQueryAs[venue] : Ends(s, error)
  /\ UNCHANGED <<venue, request, contractSize, known, book, setting>>

QueryFinds(s) ==
  /\ Querying(s)
  /\ \E t \in Shown(s) :
       \/ TRUE \in RowsFail[venue] /\ Ends(s, "other")
       \/ \E status \in {Status(w) : w \in Words(t)} :
            Return(s, "ok", FilledOf(venue, book[t].filled, contractSize), status)
  /\ UNCHANGED <<venue, request, contractSize, known, book, setting>>

\* The next source, or after the last one ErrOrderNotFound.
QueryFindsNothing(s) ==
  /\ Querying(s)
  /\ Shown(s) = {}
  /\ IF place[s].at < Len(Sources(s)) THEN place' = [place EXCEPT ![s].at = @ + 1]
                                      ELSE Ends(s, "notFound")
  /\ UNCHANGED <<venue, request, contractSize, known, book, setting>>

-------------------------------------------------------------------------------
(* Settings, transfers and the cancelling of an order: one request, never  *)
(* repeated.  The engine sets the leverage before it places; the answer is *)
(* only logged.                                                            *)

\* The codes by which a venue says that it is so already.
DoneCodes ==
  [leverage |-> {"c110043", "c4028"}, margin |-> {"c4046"}, position |-> {"c110025", "c4059"},
   cancel |-> {}, transfer |-> {}]
Kinds == DOMAIN DoneCodes

\* Carried out, refused, or of unknown outcome; some are never sent.
Instruct(kind) ==
  /\ \A s \in Slices : place[s].pc = "idle"
  /\ \/ \E r \in OkReplies :
          /\ kind \notin A.unsent
          /\ setting' = [kind |-> kind, done |-> TRUE, told |-> A.told[kind][r], empty |-> FALSE]
     \/ \E r \in Refusals(A) :
          /\ kind \notin A.unsent
          /\ setting' = [kind |-> kind, done |-> r.code \in DoneCodes[kind],
                         told |-> A.told[kind][r], empty |-> r.code = "none"]
     \/ \E done \in BOOLEAN, error \in Transport :
          /\ kind \notin A.unsent
          /\ setting' = [kind |-> kind, done |-> done, told |-> error, empty |-> FALSE]
     \/ /\ kind \in A.unsent
        /\ setting' = [kind |-> kind, done |-> FALSE, told |-> A.told[kind][OkReply], empty |-> FALSE]
  /\ UNCHANGED <<venue, request, contractSize, known, book, place>>

-------------------------------------------------------------------------------
NextAdapters ==
  \/ \E reads \in RowsRead[venue] : RefreshInstruments(reads)
  \/ \E s \in Slices :
       \/ Accept(s) \/ Fill(s) \/ Finish(s)
       \/ Place(s) \/ Refuse(s) \/ Ack(s) \/ NoAck(s)
       \/ QueryFails(s) \/ QueryFinds(s) \/ QueryFindsNothing(s)
  \/ \E kind \in Kinds : Instruct(kind)

SpecAdapters == InitAdapters /\ [][NextAdapters]_adapterVars

-------------------------------------------------------------------------------
(* Properties. *)

\* GetOrder answers that there is no such order only if the venue has not taken
\* it: the engine then counts the leg as not opened (order_executor.go:130-134).
NotFoundMeansAbsent ==
  [][\A s \in Slices :
       ~Returned(s) /\ place'[s].pc = "returned" /\ place'[s].kind = "not_found"
       => ~Accepted(s)]_adapterVars

\* The order the venue takes is the one the engine asked for: reduce-only, no
\* more than the quantity and less than a contract below it, and never a market
\* order in the place of a limit.  So is its side, except of an order that only
\* reduces at MEXC (OrderHasItsSide).
OrderIsTheRequest ==
  \A s \in Slices :
    Accepted(s) =>
      LET w == book[s].wire
          rest == request.qty - w.size * Mult
      IN /\ w.side = request.side \/ (venue = "mexc" /\ request.reduceOnly)
         /\ w.reduceOnly = request.reduceOnly
         /\ rest >= 0 /\ rest < Mult
         /\ w.market => request.mode = "market"

\* The order sent to the venue buys where the engine buys and sells where it
\* sells (close.go:150 asks for SideShort to sell what a long leg holds).
OrderHasItsSide == \A s \in Slices : book[s].status # "none" => book[s].wire.side = request.side

\* An order reported as filled, cancelled, rejected or expired cannot fill any
\* more, whatever word the venue has for its state (parseOrderStatus).
TerminalIsFinal ==
  \A s \in Slices :
    /\ Returned(s)
    /\ place[s].status \in {"filled", "cancelled", "rejected", "expired"}
    => ~book[s].live

\* A setting, a transfer or the cancelling of an order that was answered without
\* an error has been carried out, but for two adapters: Bybit's reads a refusal
\* without a retCode as success (decodeEnvelope), except of a transfer, and KuCoin's
\* settings send nothing and answer that all is well (SetLeverage).
SettingIsDone ==
  setting.told = "ok" =>
    \/ setting.done
    \/ venue = "bybit" /\ setting.kind # "transfer" /\ setting.empty
    \/ venue = "kucoin" /\ setting.kind \in {"leverage", "margin", "position"}

\* In contracts, Place over a real adapter is Place over the abstract exchange:
\* the fills it reports are real ones, an unknown order stays unknown.
Abstract ==
  INSTANCE OrderExecutor WITH
    ClientIds <- Slices,
    order <- [s \in Slices |-> [status |-> book[s].status, qty |-> book[s].wire.size,
                                filled |-> book[s].filled]],
    place <- [s \in Slices |-> [pc |-> place[s].pc, kind |-> place[s].kind,
                                reported |-> place[s].reported \div Mult]]

ImplementsOrderExecutor ==
  /\ Abstract!InitExec
  /\ [][\E s \in Slices : \/ \E qty \in 0 .. MaxQty : Abstract!Send(s, qty)
                          \/ Abstract!Accept(s) \/ Abstract!Fill(s) \/ Abstract!PlaceSteps(s)]_Abstract!execVars
===============================================================================
