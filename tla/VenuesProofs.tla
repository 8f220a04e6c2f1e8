----------------------------- MODULE VenuesProofs -----------------------------
(***************************************************************************)
(* Proofs about the adapters of the venues as the engine uses them.        *)
(*                                                                         *)
(* The first part is about Adapters: Place over any of the venues, for any *)
(* requests, multiplier and slices.  The tables of each venue are looked   *)
(* through once, for the few facts Place rests on (TablesAreSound); what   *)
(* follows is the same for all of them.                                    *)
(*                                                                         *)
(* The second part is about MarketRefresh: the market loop and the engine's*)
(* search, for any pairs of venues, ages, intervals, rates and horizon.    *)
(***************************************************************************)
EXTENDS Adapters, MarketRefresh, FiniteSetTheorems, TLAPS

-------------------------------------------------------------------------------
(***************************************************************************)
(* What Place and the settings take from an adapter's tables.              *)
(***************************************************************************)
Over == {"filled", "cancelled", "rejected", "expired"}
OrderStatuses == Over \cup {"new", "acknowledged", "partial"}

\* No word for an order that can still fill reads as the end of the order.
WordsAreRight(a) ==
  /\ \A w \in DOMAIN a.status : /\ a.status[w] \in OrderStatuses
                                /\ w \in a.live => a.status[w] \notin Over
  /\ "unlisted" \notin DOMAIN a.status

\* A refusal is neither a success nor one of the errors after which the executor
\* asks for the order, and only the venue's words for it read as "not found".
RefusalIsError(a) ==
  \A r \in Refusals(a) :
    /\ a.place[r] \notin {"ok", "notFound"} \cup Transport
    /\ a.found[r] # "notFound"

TooSmallIsError(a) == a.tooSmall \notin {"ok", "notFound"} \cup Transport

\* The reply to an order that was taken is not read as one of them either.
AcceptIsError(a) == \A r \in OkReplies : a.place[r] \notin {"notFound"} \cup Transport

\* Of the refusals only those that say "already so" count as done, and at Bybit
\* those that hold nothing the adapter knows.
DoneIsDone(v, a) ==
  \A kind \in Kinds \ a.unsent, r \in Refusals(a) :
    a.told[kind][r] = "ok" => \/ r.code \in DoneCodes[kind]
                              \/ v = "bybit" /\ kind # "transfer" /\ r.code = "none"

\* Of the requests that are never sent only KuCoin's settings count as done.
UnsentIsKnown(v, a) ==
  \A kind \in a.unsent :
    a.told[kind][OkReply] = "ok" => v = "kucoin" /\ kind \in {"leverage", "margin", "position"}

\* GetOrder ends with a source that shows the order, whether it is live or not.
SourcesCover(a) ==
  \A k \in BOOLEAN : a.sources[k] \in {<<"any">>, <<"open", "finished">>}

TablesAreSound(v, a) ==
  /\ WordsAreRight(a) /\ RefusalIsError(a) /\ AcceptIsError(a) /\ TooSmallIsError(a)
  /\ DoneIsDone(v, a) /\ UnsentIsKnown(v, a) /\ SourcesCover(a)

\* Each venue's tables, by looking at every reply and word.
LEMMA BinanceTables ==
  /\ TablesAreSound("binance", AdapterTables["binance"])
  /\ AdapterTables["binance"].idLength = IdLength
  /\ AdapterTables["binance"].keepsCache = TRUE
  <1> DEFINE a == AdapterTables["binance"]
  <1>1. a = BinanceModule!Adapter
    BY DEF AdapterTables, AllVenues, Of
  <1>2. /\ a.live = BinanceModule!Live /\ a.status = BinanceModule!OrderStatus
        /\ a.codes = BinanceModule!Codes
        /\ a.errorStatuses = BinanceModule!ErrorStatuses
        /\ a.absent = BinanceModule!Absent
        /\ a.tooSmall = BinanceModule!TooSmall
        /\ a.unsent = {}
        /\ \A k \in BOOLEAN : a.sources[k] = BinanceModule!Sources(k)
        /\ a.idLength = BinanceModule!MaxTextLen /\ a.keepsCache = BinanceModule!KeepsCache
    BY <1>1 DEF BinanceModule!Adapter
  <1>3. /\ a.place = [r \in BinanceModule!Replies(BinanceModule!Codes) |-> BinanceModule!PlaceAck(r)]
        /\ a.found = [r \in BinanceModule!Replies(BinanceModule!Codes) |-> BinanceModule!Found(r)]
    BY <1>1 DEF BinanceModule!Adapter
  <1>4. a.told =
          [leverage |-> [r \in BinanceModule!Replies(BinanceModule!Codes) |-> BinanceModule!SetLeverage(r)],
           margin |-> [r \in BinanceModule!Replies(BinanceModule!Codes) |-> BinanceModule!SetMarginMode(r)],
           position |-> [r \in BinanceModule!Replies(BinanceModule!Codes) |-> BinanceModule!SetPositionMode(r)],
           cancel |-> [r \in BinanceModule!Replies(BinanceModule!Codes) |-> BinanceModule!CancelOrder(r)],
           transfer |-> [r \in BinanceModule!Replies(BinanceModule!Codes) |-> BinanceModule!Transfer(r)]]
    BY <1>1 DEF BinanceModule!Adapter
  <1>5. Replies(a.codes) = BinanceModule!Replies(BinanceModule!Codes)
    BY <1>2 DEF Replies, BinanceModule!Replies
  <1> HIDE DEF a
  <1>6. WordsAreRight(a)
    BY <1>2 DEF WordsAreRight, Over, OrderStatuses, BinanceModule!Live, BinanceModule!OrderStatus
  <1>7. RefusalIsError(a)
    <2> SUFFICES ASSUME NEW r \in Refusals(a)
                 PROVE  /\ a.place[r] \notin {"ok", "notFound"} \cup Transport
                        /\ a.found[r] # "notFound"
      BY DEF RefusalIsError
    <2>1. /\ r \in BinanceModule!Replies(BinanceModule!Codes) /\ r.status \in BinanceModule!ErrorStatuses
          /\ r.code \notin BinanceModule!Absent /\ r.code # "ok"
      BY <1>2, <1>5 DEF Refusals
    <2>2. a.place[r] = BinanceModule!PlaceAck(r) /\ a.found[r] = BinanceModule!Found(r)
      BY <1>3, <2>1
    <2>3. BinanceModule!Answer(r) \notin {"notFound", "timeout", "network", "ok"}
      <3>1. CASE r.code \in BinanceModule!Codes
        BY <2>1, <3>1
        DEF BinanceModule!Answer, BinanceModule!CodeErrors, BinanceModule!Codes,
            BinanceModule!ErrorStatuses, BinanceModule!Absent
      <3>2. CASE r.code \notin BinanceModule!Codes
        BY <2>1, <3>2 DEF BinanceModule!Answer, BinanceModule!ErrorStatuses
      <3> QED
        BY <3>1, <3>2
    <2> QED
      BY <2>2, <2>3 DEF Transport, BinanceModule!Result, BinanceModule!PlaceAck, BinanceModule!Found
  <1>8. DoneIsDone("binance", a)
    <2> SUFFICES ASSUME NEW kind \in Kinds \ a.unsent, NEW r \in Refusals(a),
                        a.told[kind][r] = "ok"
                 PROVE  r.code \in DoneCodes[kind]
      BY DEF DoneIsDone
    <2>1. /\ r \in BinanceModule!Replies(BinanceModule!Codes) /\ r.status \in BinanceModule!ErrorStatuses
          /\ r.code \in BinanceModule!Codes \cup {"none", "garbled"}
      BY <1>2, <1>5 DEF Refusals, BinanceModule!Replies
    <2>2. kind \in {"leverage", "margin", "position", "cancel", "transfer"}
      BY DEF Kinds, DoneCodes
    <2>3. CASE kind = "leverage"
      BY <1>4, <2>1, <2>3
      DEF DoneCodes, BinanceModule!SetLeverage, BinanceModule!DoneUnless,
          BinanceModule!Result, BinanceModule!Answer, BinanceModule!CodeErrors,
          BinanceModule!Codes, BinanceModule!ErrorStatuses
    <2>4. CASE kind = "margin"
      BY <1>4, <2>1, <2>4
      DEF DoneCodes, BinanceModule!SetMarginMode, BinanceModule!DoneUnless,
          BinanceModule!Result, BinanceModule!Answer, BinanceModule!CodeErrors,
          BinanceModule!Codes, BinanceModule!ErrorStatuses
    <2>5. CASE kind = "position"
      BY <1>4, <2>1, <2>5
      DEF DoneCodes, BinanceModule!SetPositionMode, BinanceModule!DoneUnless,
          BinanceModule!Result, BinanceModule!Answer, BinanceModule!CodeErrors,
          BinanceModule!Codes, BinanceModule!ErrorStatuses
    <2>6. CASE kind = "cancel"
      BY <1>4, <2>1, <2>6
      DEF DoneCodes, BinanceModule!CancelOrder, BinanceModule!Result, BinanceModule!Answer,
          BinanceModule!CodeErrors, BinanceModule!Codes, BinanceModule!ErrorStatuses
    <2>7. CASE kind = "transfer"
      BY <1>4, <2>1, <2>7
      DEF DoneCodes, BinanceModule!Transfer, BinanceModule!Result, BinanceModule!Answer,
          BinanceModule!CodeErrors, BinanceModule!Codes, BinanceModule!ErrorStatuses
    <2> QED
      BY <2>2, <2>3, <2>4, <2>5, <2>6, <2>7
  <1>9. TooSmallIsError(a) /\ SourcesCover(a)
    BY <1>2
    DEF TooSmallIsError, SourcesCover, Transport, BinanceModule!TooSmall,
        BinanceModule!Sources
  <1>10. OkReplies \subseteq BinanceModule!Replies(BinanceModule!Codes) /\ OkReply \in OkReplies
    BY DEF OkReplies, OkReply, BinanceModule!Replies
  <1>11. AcceptIsError(a)
    BY <1>3, <1>10
    DEF AcceptIsError, OkReplies, Transport, BinanceModule!PlaceAck, BinanceModule!Result, BinanceModule!Answer, BinanceModule!CodeErrors, BinanceModule!Codes
  <1>12. UnsentIsKnown("binance", a)
    BY <1>2 DEF UnsentIsKnown
  <1> QED
    BY <1>2, <1>6, <1>7, <1>8, <1>9, <1>11, <1>12
    DEF TablesAreSound, a, BinanceModule!MaxTextLen, BinanceModule!KeepsCache, IdLength,
        BinanceModule!IdLength

LEMMA BitgetTables ==
  /\ TablesAreSound("bitget", AdapterTables["bitget"])
  /\ AdapterTables["bitget"].idLength = IdLength
  /\ AdapterTables["bitget"].keepsCache = TRUE
  <1> DEFINE a == AdapterTables["bitget"]
  <1>1. a = BitgetModule!Adapter
    BY DEF AdapterTables, AllVenues, Of
  <1>2. /\ a.live = BitgetModule!Live /\ a.status = BitgetModule!OrderStatus
        /\ a.codes = BitgetModule!Codes
        /\ a.errorStatuses = BitgetModule!ErrorStatuses
        /\ a.absent = BitgetModule!Absent
        /\ a.tooSmall = BitgetModule!TooSmall
        /\ a.unsent = {}
        /\ \A k \in BOOLEAN : a.sources[k] = BitgetModule!Sources(k)
        /\ a.idLength = BitgetModule!MaxTextLen /\ a.keepsCache = BitgetModule!KeepsCache
    BY <1>1 DEF BitgetModule!Adapter
  <1>3. /\ a.place = [r \in BitgetModule!Replies(BitgetModule!Codes) |-> BitgetModule!PlaceAck(r)]
        /\ a.found = [r \in BitgetModule!Replies(BitgetModule!Codes) |-> BitgetModule!Found(r)]
    BY <1>1 DEF BitgetModule!Adapter
  <1>4. a.told =
          [leverage |-> [r \in BitgetModule!Replies(BitgetModule!Codes) |-> BitgetModule!SetLeverage(r)],
           margin |-> [r \in BitgetModule!Replies(BitgetModule!Codes) |-> BitgetModule!SetMarginMode(r)],
           position |-> [r \in BitgetModule!Replies(BitgetModule!Codes) |-> BitgetModule!SetPositionMode(r)],
           cancel |-> [r \in BitgetModule!Replies(BitgetModule!Codes) |-> BitgetModule!CancelOrder(r)],
           transfer |-> [r \in BitgetModule!Replies(BitgetModule!Codes) |-> BitgetModule!Transfer(r)]]
    BY <1>1 DEF BitgetModule!Adapter
  <1>5. Replies(a.codes) = BitgetModule!Replies(BitgetModule!Codes)
    BY <1>2 DEF Replies, BitgetModule!Replies
  <1> HIDE DEF a
  <1>6. WordsAreRight(a)
    BY <1>2 DEF WordsAreRight, Over, OrderStatuses, BitgetModule!Live, BitgetModule!OrderStatus
  <1>7. RefusalIsError(a)
    <2> SUFFICES ASSUME NEW r \in Refusals(a)
                 PROVE  /\ a.place[r] \notin {"ok", "notFound"} \cup Transport
                        /\ a.found[r] # "notFound"
      BY DEF RefusalIsError
    <2>1. /\ r \in BitgetModule!Replies(BitgetModule!Codes) /\ r.status \in BitgetModule!ErrorStatuses
          /\ r.code \notin BitgetModule!Absent /\ r.code # "ok"
      BY <1>2, <1>5 DEF Refusals
    <2>2. a.place[r] = BitgetModule!PlaceAck(r) /\ a.found[r] = BitgetModule!Found(r)
      BY <1>3, <2>1
    <2>3. BitgetModule!Answer(r) \notin {"notFound", "timeout", "network", "ok"}
      <3>1. CASE r.code \in BitgetModule!Codes
        BY <2>1, <3>1
        DEF BitgetModule!Answer, BitgetModule!CodeErrors, BitgetModule!Codes,
            BitgetModule!ErrorStatuses, BitgetModule!Absent
      <3>2. CASE r.code \notin BitgetModule!Codes
        BY <2>1, <3>2 DEF BitgetModule!Answer, BitgetModule!ErrorStatuses
      <3> QED
        BY <3>1, <3>2
    <2> QED
      BY <2>2, <2>3 DEF Transport, BitgetModule!PlaceAck, BitgetModule!Found
  <1>8. DoneIsDone("bitget", a)
    <2> SUFFICES ASSUME NEW kind \in Kinds \ a.unsent, NEW r \in Refusals(a),
                        a.told[kind][r] = "ok"
                 PROVE  r.code \in DoneCodes[kind]
      BY DEF DoneIsDone
    <2>1. /\ r \in BitgetModule!Replies(BitgetModule!Codes) /\ r.status \in BitgetModule!ErrorStatuses
          /\ r.code \in BitgetModule!Codes \cup {"none", "garbled"}
      BY <1>2, <1>5 DEF Refusals, BitgetModule!Replies
    <2>2. kind \in {"leverage", "margin", "position", "cancel", "transfer"}
      BY DEF Kinds, DoneCodes
    <2> QED
      BY <1>4, <2>1, <2>2
      DEF DoneCodes, BitgetModule!SetLeverage, BitgetModule!SetMarginMode, BitgetModule!SetPositionMode,
          BitgetModule!CancelOrder, BitgetModule!Transfer, BitgetModule!Answer,
          BitgetModule!CodeErrors, BitgetModule!Codes, BitgetModule!ErrorStatuses
  <1>9. TooSmallIsError(a) /\ SourcesCover(a)
    BY <1>2
    DEF TooSmallIsError, SourcesCover, Transport, BitgetModule!TooSmall,
        BitgetModule!Sources
  <1>10. OkReplies \subseteq BitgetModule!Replies(BitgetModule!Codes) /\ OkReply \in OkReplies
    BY DEF OkReplies, OkReply, BitgetModule!Replies
  <1>11. AcceptIsError(a)
    BY <1>3, <1>10
    DEF AcceptIsError, OkReplies, Transport, BitgetModule!PlaceAck, BitgetModule!Answer, BitgetModule!CodeErrors, BitgetModule!Codes
  <1>12. UnsentIsKnown("bitget", a)
    BY <1>2 DEF UnsentIsKnown
  <1> QED
    BY <1>2, <1>6, <1>7, <1>8, <1>9, <1>11, <1>12
    DEF TablesAreSound, a, BitgetModule!MaxTextLen, BitgetModule!KeepsCache, IdLength,
        BitgetModule!IdLength

LEMMA BybitTables ==
  /\ TablesAreSound("bybit", AdapterTables["bybit"])
  /\ AdapterTables["bybit"].idLength = IdLength
  /\ AdapterTables["bybit"].keepsCache = TRUE
  <1> DEFINE a == AdapterTables["bybit"]
  <1>1. a = BybitModule!Adapter
    BY DEF AdapterTables, AllVenues, Of
  <1>2. /\ a.live = BybitModule!Live /\ a.status = BybitModule!OrderStatus
        /\ a.codes = BybitModule!Codes
        /\ a.errorStatuses = BybitModule!ErrorStatuses
        /\ a.absent = BybitModule!Absent
        /\ a.tooSmall = BybitModule!TooSmall
        /\ a.unsent = {}
        /\ \A k \in BOOLEAN : a.sources[k] = BybitModule!Sources(k)
        /\ a.idLength = BybitModule!MaxTextLen /\ a.keepsCache = BybitModule!KeepsCache
    BY <1>1 DEF BybitModule!Adapter
  <1>3. /\ a.place = [r \in BybitModule!Replies(BybitModule!Codes) |-> BybitModule!PlaceAck(r)]
        /\ a.found = [r \in BybitModule!Replies(BybitModule!Codes) |-> BybitModule!Found(r)]
    BY <1>1 DEF BybitModule!Adapter
  <1>4. a.told =
          [leverage |-> [r \in BybitModule!Replies(BybitModule!Codes) |-> BybitModule!SetLeverage(r)],
           margin |-> [r \in BybitModule!Replies(BybitModule!Codes) |-> BybitModule!SetMarginMode(r)],
           position |-> [r \in BybitModule!Replies(BybitModule!Codes) |-> BybitModule!SetPositionMode(r)],
           cancel |-> [r \in BybitModule!Replies(BybitModule!Codes) |-> BybitModule!CancelOrder(r)],
           transfer |-> [r \in BybitModule!Replies(BybitModule!Codes) |-> BybitModule!Transfer(r)]]
    BY <1>1 DEF BybitModule!Adapter
  <1>5. Replies(a.codes) = BybitModule!Replies(BybitModule!Codes)
    BY <1>2 DEF Replies, BybitModule!Replies
  <1> HIDE DEF a
  <1>6. WordsAreRight(a)
    BY <1>2 DEF WordsAreRight, Over, OrderStatuses, BybitModule!Live, BybitModule!OrderStatus
  <1>7. RefusalIsError(a)
    <2> SUFFICES ASSUME NEW r \in Refusals(a)
                 PROVE  /\ a.place[r] \notin {"ok", "notFound"} \cup Transport
                        /\ a.found[r] # "notFound"
      BY DEF RefusalIsError
    <2>1. /\ r \in BybitModule!Replies(BybitModule!Codes) /\ r.status \in BybitModule!ErrorStatuses
          /\ r.code \notin BybitModule!Absent /\ r.code # "ok"
      BY <1>2, <1>5 DEF Refusals
    <2>2. a.place[r] = BybitModule!PlaceAck(r) /\ a.found[r] = BybitModule!Found(r)
      BY <1>3, <2>1
    <2>3. BybitModule!Answer(r) \notin {"notFound", "timeout", "network"}
      <3>1. CASE r.code \in BybitModule!Codes
        BY <2>1, <3>1
        DEF BybitModule!Answer, BybitModule!CodeErrors, BybitModule!Codes,
            BybitModule!ErrorStatuses, BybitModule!Absent
      <3>2. CASE r.code \notin BybitModule!Codes
        BY <2>1, <3>2 DEF BybitModule!Answer, BybitModule!ErrorStatuses
      <3> QED
        BY <3>1, <3>2
    <2> QED
      <3>1. BybitModule!Result(r) # "ok"
        <4>1. r.code = "none" \/ r.code = "garbled" \/ r.code \in BybitModule!Codes
          BY <2>1 DEF BybitModule!Replies
        <4> QED
          BY <4>1
          DEF BybitModule!Result, BybitModule!Answer, BybitModule!CodeErrors,
              BybitModule!Codes
      <3> QED
        BY <2>2, <2>3, <3>1
        DEF Transport, BybitModule!Result, BybitModule!PlaceAck, BybitModule!Found
  <1>8. DoneIsDone("bybit", a)
    <2> SUFFICES ASSUME NEW kind \in Kinds \ a.unsent, NEW r \in Refusals(a),
                        a.told[kind][r] = "ok"
                 PROVE  r.code \in DoneCodes[kind] \/ (kind # "transfer" /\ r.code = "none")
      BY DEF DoneIsDone
    <2>1. /\ r \in BybitModule!Replies(BybitModule!Codes) /\ r.status \in BybitModule!ErrorStatuses
          /\ r.code \in BybitModule!Codes \cup {"none", "garbled"}
      BY <1>2, <1>5 DEF Refusals, BybitModule!Replies
    <2>2. kind \in {"leverage", "margin", "position", "cancel", "transfer"}
      BY DEF Kinds, DoneCodes
    <2>3. CASE kind = "leverage"
      BY <1>4, <2>1, <2>3
      DEF DoneCodes, BybitModule!SetLeverage, BybitModule!DoneUnless, BybitModule!Result,
          BybitModule!Answer, BybitModule!CodeErrors, BybitModule!Codes, BybitModule!ErrorStatuses
    <2>4. CASE kind = "margin"
      BY <1>4, <2>1, <2>4
      DEF DoneCodes, BybitModule!SetMarginMode, BybitModule!DoneUnless, BybitModule!Result,
          BybitModule!Answer, BybitModule!CodeErrors, BybitModule!Codes, BybitModule!ErrorStatuses
    <2>5. CASE kind = "position"
      BY <1>4, <2>1, <2>5
      DEF DoneCodes, BybitModule!SetPositionMode, BybitModule!DoneUnless, BybitModule!Result,
          BybitModule!Answer, BybitModule!CodeErrors, BybitModule!Codes, BybitModule!ErrorStatuses
    <2>6. CASE kind = "cancel"
      BY <1>4, <2>1, <2>6
      DEF DoneCodes, BybitModule!CancelOrder, BybitModule!DoneUnless, BybitModule!Result,
          BybitModule!Answer, BybitModule!CodeErrors, BybitModule!Codes, BybitModule!ErrorStatuses
    <2>7. CASE kind = "transfer"
      BY <1>4, <2>1, <2>7
      DEF DoneCodes, BybitModule!Transfer, BybitModule!DoneUnless, BybitModule!Result,
          BybitModule!Answer, BybitModule!CodeErrors, BybitModule!Codes, BybitModule!ErrorStatuses
    <2> QED
      BY <2>2, <2>3, <2>4, <2>5, <2>6, <2>7
  <1>9. TooSmallIsError(a) /\ SourcesCover(a)
    BY <1>2 DEF TooSmallIsError, SourcesCover, Transport, BybitModule!TooSmall, BybitModule!Sources
  <1>10. OkReplies \subseteq BybitModule!Replies(BybitModule!Codes) /\ OkReply \in OkReplies
    BY DEF OkReplies, OkReply, BybitModule!Replies
  <1>11. AcceptIsError(a)
    BY <1>3, <1>10
    DEF AcceptIsError, OkReplies, Transport, BybitModule!PlaceAck, BybitModule!Result, BybitModule!Answer, BybitModule!CodeErrors, BybitModule!Codes
  <1>12. UnsentIsKnown("bybit", a)
    BY <1>2 DEF UnsentIsKnown
  <1> QED
    BY <1>2, <1>6, <1>7, <1>8, <1>9, <1>11, <1>12
    DEF TablesAreSound, a, BybitModule!MaxTextLen, BybitModule!KeepsCache, IdLength,
        BybitModule!IdLength

LEMMA GateTables ==
  /\ TablesAreSound("gate", AdapterTables["gate"])
  /\ AdapterTables["gate"].idLength = 28
  /\ AdapterTables["gate"].keepsCache = TRUE
  <1> DEFINE a == AdapterTables["gate"]
  <1>1. a = GateModule!Adapter
    BY DEF AdapterTables, AllVenues, Of
  <1>2. /\ a.live = GateModule!Live /\ a.status = GateModule!OrderStatus
        /\ a.codes = GateModule!Codes
        /\ a.errorStatuses = GateModule!ErrorStatuses
        /\ a.absent = GateModule!Absent
        /\ a.tooSmall = GateModule!TooSmall
        /\ a.unsent = {}
        /\ \A k \in BOOLEAN : a.sources[k] = GateModule!Sources(k)
        /\ a.idLength = GateModule!MaxTextLen /\ a.keepsCache = GateModule!KeepsCache
    BY <1>1 DEF GateModule!Adapter
  <1>3. /\ a.place = [r \in GateModule!Replies(GateModule!Codes) |-> GateModule!PlaceAck(r)]
        /\ a.found = [r \in GateModule!Replies(GateModule!Codes) |-> GateModule!Found(r)]
    BY <1>1 DEF GateModule!Adapter
  <1>4. a.told =
          [leverage |-> [r \in GateModule!Replies(GateModule!Codes) |-> GateModule!SetLeverage(r)],
           margin |-> [r \in GateModule!Replies(GateModule!Codes) |-> GateModule!SetMarginMode(r)],
           position |-> [r \in GateModule!Replies(GateModule!Codes) |-> GateModule!SetPositionMode(r)],
           cancel |-> [r \in GateModule!Replies(GateModule!Codes) |-> GateModule!CancelOrder(r)],
           transfer |-> [r \in GateModule!Replies(GateModule!Codes) |-> GateModule!Transfer(r)]]
    BY <1>1 DEF GateModule!Adapter
  <1>5. Replies(a.codes) = GateModule!Replies(GateModule!Codes)
    BY <1>2 DEF Replies, GateModule!Replies
  <1> HIDE DEF a
  <1>6. WordsAreRight(a)
    BY <1>2 DEF WordsAreRight, Over, OrderStatuses, GateModule!Live, GateModule!OrderStatus
  <1>7. RefusalIsError(a)
    <2> SUFFICES ASSUME NEW r \in Refusals(a)
                 PROVE  /\ a.place[r] \notin {"ok", "notFound"} \cup Transport
                        /\ a.found[r] # "notFound"
      BY DEF RefusalIsError
    <2>1. /\ r \in GateModule!Replies(GateModule!Codes) /\ r.status \in GateModule!ErrorStatuses
          /\ r.code \notin GateModule!Absent /\ r.code # "ok"
      BY <1>2, <1>5 DEF Refusals
    <2>2. a.place[r] = GateModule!PlaceAck(r) /\ a.found[r] = GateModule!Found(r)
      BY <1>3, <2>1
    <2>3. GateModule!Answer(r) \notin {"notFound", "timeout", "network", "ok"}
      <3>1. CASE r.code \in GateModule!Codes
        BY <2>1, <3>1
        DEF GateModule!Answer, GateModule!CodeErrors, GateModule!Codes,
            GateModule!ErrorStatuses, GateModule!Absent
      <3>2. CASE r.code \notin GateModule!Codes
        BY <2>1, <3>2 DEF GateModule!Answer, GateModule!ErrorStatuses
      <3> QED
        BY <3>1, <3>2
    <2> QED
      BY <2>2, <2>3 DEF Transport, GateModule!Result, GateModule!PlaceAck, GateModule!Found
  <1>8. DoneIsDone("gate", a)
    <2> SUFFICES ASSUME NEW kind \in Kinds \ a.unsent, NEW r \in Refusals(a),
                        a.told[kind][r] = "ok"
                 PROVE  r.code \in DoneCodes[kind]
      BY DEF DoneIsDone
    <2>1. /\ r \in GateModule!Replies(GateModule!Codes) /\ r.status \in GateModule!ErrorStatuses
          /\ r.code \in GateModule!Codes \cup {"none", "garbled"}
      BY <1>2, <1>5 DEF Refusals, GateModule!Replies
    <2>2. kind \in {"leverage", "margin", "position", "cancel", "transfer"}
      BY DEF Kinds, DoneCodes
    <2>3. CASE kind = "leverage"
      BY <1>4, <2>1, <2>3
      DEF DoneCodes, GateModule!SetLeverage, GateModule!Result, GateModule!Answer,
          GateModule!CodeErrors, GateModule!Codes, GateModule!ErrorStatuses
    <2>4. CASE kind = "margin"
      BY <1>4, <2>1, <2>4
      DEF DoneCodes, GateModule!SetMarginMode, GateModule!Result, GateModule!Answer,
          GateModule!CodeErrors, GateModule!Codes, GateModule!ErrorStatuses
    <2>5. CASE kind = "position"
      BY <1>4, <2>1, <2>5
      DEF DoneCodes, GateModule!SetPositionMode, GateModule!Result, GateModule!Answer,
          GateModule!CodeErrors, GateModule!Codes, GateModule!ErrorStatuses
    <2>6. CASE kind = "cancel"
      BY <1>4, <2>1, <2>6
      DEF DoneCodes, GateModule!CancelOrder, GateModule!Result, GateModule!Answer,
          GateModule!CodeErrors, GateModule!Codes, GateModule!ErrorStatuses
    <2>7. CASE kind = "transfer"
      BY <1>4, <2>1, <2>7
      DEF DoneCodes, GateModule!Transfer, GateModule!Result, GateModule!Answer,
          GateModule!CodeErrors, GateModule!Codes, GateModule!ErrorStatuses
    <2> QED
      BY <2>2, <2>3, <2>4, <2>5, <2>6, <2>7
  <1>9. TooSmallIsError(a) /\ SourcesCover(a)
    BY <1>2 DEF TooSmallIsError, SourcesCover, Transport, GateModule!TooSmall, GateModule!Sources
  <1>10. OkReplies \subseteq GateModule!Replies(GateModule!Codes) /\ OkReply \in OkReplies
    BY DEF OkReplies, OkReply, GateModule!Replies
  <1>11. AcceptIsError(a)
    BY <1>3, <1>10
    DEF AcceptIsError, OkReplies, Transport, GateModule!PlaceAck, GateModule!Result, GateModule!Answer, GateModule!CodeErrors, GateModule!Codes
  <1>12. UnsentIsKnown("gate", a)
    BY <1>2 DEF UnsentIsKnown
  <1> QED
    BY <1>2, <1>6, <1>7, <1>8, <1>9, <1>11, <1>12
    DEF TablesAreSound, a, GateModule!MaxTextLen, GateModule!KeepsCache, IdLength,
        GateModule!IdLength

LEMMA KucoinTables ==
  /\ TablesAreSound("kucoin", AdapterTables["kucoin"])
  /\ AdapterTables["kucoin"].idLength = IdLength
  /\ AdapterTables["kucoin"].keepsCache = FALSE
  <1> DEFINE a == AdapterTables["kucoin"]
  <1>1. a = KucoinModule!Adapter
    BY DEF AdapterTables, AllVenues, Of
  <1>2. /\ a.live = KucoinModule!Live /\ a.status = KucoinModule!OrderStatus
        /\ a.codes = KucoinModule!Codes
        /\ a.errorStatuses = KucoinModule!ErrorStatuses
        /\ a.absent = KucoinModule!Absent
        /\ a.tooSmall = KucoinModule!TooSmall
        /\ a.unsent = {"leverage", "margin", "position"}
        /\ \A k \in BOOLEAN : a.sources[k] = KucoinModule!Sources(k)
        /\ a.idLength = KucoinModule!MaxTextLen /\ a.keepsCache = KucoinModule!KeepsCache
    BY <1>1 DEF KucoinModule!Adapter
  <1>3. /\ a.place = [r \in KucoinModule!Replies(KucoinModule!Codes) |-> KucoinModule!PlaceAck(r)]
        /\ a.found = [r \in KucoinModule!Replies(KucoinModule!Codes) |-> KucoinModule!Found(r)]
    BY <1>1 DEF KucoinModule!Adapter
  <1>4. a.told =
          [leverage |-> [r \in KucoinModule!Replies(KucoinModule!Codes) |-> KucoinModule!SetLeverage(r)],
           margin |-> [r \in KucoinModule!Replies(KucoinModule!Codes) |-> KucoinModule!SetMarginMode(r)],
           position |-> [r \in KucoinModule!Replies(KucoinModule!Codes) |-> KucoinModule!SetPositionMode(r)],
           cancel |-> [r \in KucoinModule!Replies(KucoinModule!Codes) |-> KucoinModule!CancelOrder(r)],
           transfer |-> [r \in KucoinModule!Replies(KucoinModule!Codes) |-> KucoinModule!Transfer(r)]]
    BY <1>1 DEF KucoinModule!Adapter
  <1>5. Replies(a.codes) = KucoinModule!Replies(KucoinModule!Codes)
    BY <1>2 DEF Replies, KucoinModule!Replies
  <1> HIDE DEF a
  <1>6. WordsAreRight(a)
    BY <1>2 DEF WordsAreRight, Over, OrderStatuses, KucoinModule!Live, KucoinModule!OrderStatus
  <1>7. RefusalIsError(a)
    <2> SUFFICES ASSUME NEW r \in Refusals(a)
                 PROVE  /\ a.place[r] \notin {"ok", "notFound"} \cup Transport
                        /\ a.found[r] # "notFound"
      BY DEF RefusalIsError
    <2>1. /\ r \in KucoinModule!Replies(KucoinModule!Codes) /\ r.status \in KucoinModule!ErrorStatuses
          /\ r.code \notin KucoinModule!Absent /\ r.code # "ok"
      BY <1>2, <1>5 DEF Refusals
    <2>2. a.place[r] = KucoinModule!PlaceAck(r) /\ a.found[r] = KucoinModule!Found(r)
      BY <1>3, <2>1
    <2>3. KucoinModule!Answer(r) \notin {"notFound", "timeout", "network", "ok"}
      <3>1. CASE r.code \in KucoinModule!Codes
        BY <2>1, <3>1
        DEF KucoinModule!Answer, KucoinModule!CodeErrors, KucoinModule!Codes,
            KucoinModule!ErrorStatuses, KucoinModule!Absent
      <3>2. CASE r.code \notin KucoinModule!Codes
        BY <2>1, <3>2 DEF KucoinModule!Answer, KucoinModule!ErrorStatuses
      <3> QED
        BY <3>1, <3>2
    <2> QED
      BY <2>2, <2>3 DEF Transport, KucoinModule!PlaceAck, KucoinModule!Found
  <1>8. DoneIsDone("kucoin", a)
    <2> SUFFICES ASSUME NEW kind \in Kinds \ a.unsent, NEW r \in Refusals(a),
                        a.told[kind][r] = "ok"
                 PROVE  r.code \in DoneCodes[kind]
      BY DEF DoneIsDone
    <2>1. /\ r \in KucoinModule!Replies(KucoinModule!Codes) /\ r.status \in KucoinModule!ErrorStatuses
          /\ r.code \in KucoinModule!Codes \cup {"none", "garbled"}
      BY <1>2, <1>5 DEF Refusals, KucoinModule!Replies
    <2>2. kind \in {"cancel", "transfer"}
      BY <1>2 DEF Kinds, DoneCodes
    <2> QED
      BY <1>4, <2>1, <2>2
      DEF DoneCodes, KucoinModule!CancelOrder, KucoinModule!Transfer, KucoinModule!Answer,
          KucoinModule!CodeErrors, KucoinModule!Codes, KucoinModule!ErrorStatuses
  <1>9. TooSmallIsError(a) /\ SourcesCover(a)
    BY <1>2
    DEF TooSmallIsError, SourcesCover, Transport, KucoinModule!TooSmall,
        KucoinModule!Sources
  <1>10. OkReplies \subseteq KucoinModule!Replies(KucoinModule!Codes) /\ OkReply \in OkReplies
    BY DEF OkReplies, OkReply, KucoinModule!Replies
  <1>11. AcceptIsError(a)
    BY <1>3, <1>10
    DEF AcceptIsError, OkReplies, Transport, KucoinModule!PlaceAck, KucoinModule!Answer, KucoinModule!CodeErrors, KucoinModule!Codes
  <1>12. UnsentIsKnown("kucoin", a)
    BY <1>2 DEF UnsentIsKnown
  <1> QED
    BY <1>2, <1>6, <1>7, <1>8, <1>9, <1>11, <1>12
    DEF TablesAreSound, a, KucoinModule!MaxTextLen, KucoinModule!KeepsCache, IdLength,
        KucoinModule!IdLength

LEMMA MexcTables ==
  /\ TablesAreSound("mexc", AdapterTables["mexc"])
  /\ AdapterTables["mexc"].idLength = IdLength
  /\ AdapterTables["mexc"].keepsCache = FALSE
  <1> DEFINE a == AdapterTables["mexc"]
  <1>1. a = MexcModule!Adapter
    BY DEF AdapterTables, AllVenues, Of
  <1>2. /\ a.live = MexcModule!Live /\ a.status = MexcModule!OrderStatus
        /\ a.codes = MexcModule!Codes
        /\ a.errorStatuses = MexcModule!ErrorStatuses
        /\ a.absent = MexcModule!Absent
        /\ a.tooSmall = MexcModule!TooSmall
        /\ a.unsent = {"transfer"}
        /\ \A k \in BOOLEAN : a.sources[k] = MexcModule!Sources(k)
        /\ a.idLength = MexcModule!MaxTextLen /\ a.keepsCache = MexcModule!KeepsCache
    BY <1>1 DEF MexcModule!Adapter
  <1>3. /\ a.place = [r \in MexcModule!Replies(MexcModule!Codes) |-> MexcModule!PlaceAck(r)]
        /\ a.found = [r \in MexcModule!Replies(MexcModule!Codes) |-> MexcModule!Found(r)]
    BY <1>1 DEF MexcModule!Adapter
  <1>4. a.told =
          [leverage |-> [r \in MexcModule!Replies(MexcModule!Codes) |-> MexcModule!SetLeverage(r)],
           margin |-> [r \in MexcModule!Replies(MexcModule!Codes) |-> MexcModule!SetMarginMode(r)],
           position |-> [r \in MexcModule!Replies(MexcModule!Codes) |-> MexcModule!SetPositionMode(r)],
           cancel |-> [r \in MexcModule!Replies(MexcModule!Codes) |-> MexcModule!CancelOrder(r)],
           transfer |-> [r \in MexcModule!Replies(MexcModule!Codes) |-> MexcModule!Transfer(r)]]
    BY <1>1 DEF MexcModule!Adapter
  <1>5. Replies(a.codes) = MexcModule!Replies(MexcModule!Codes)
    BY <1>2 DEF Replies, MexcModule!Replies
  <1> HIDE DEF a
  <1>6. WordsAreRight(a)
    BY <1>2 DEF WordsAreRight, Over, OrderStatuses, MexcModule!Live, MexcModule!OrderStatus
  <1>7. RefusalIsError(a)
    <2> SUFFICES ASSUME NEW r \in Refusals(a)
                 PROVE  /\ a.place[r] \notin {"ok", "notFound"} \cup Transport
                        /\ a.found[r] # "notFound"
      BY DEF RefusalIsError
    <2>1. /\ r \in MexcModule!Replies(MexcModule!Codes) /\ r.status \in MexcModule!ErrorStatuses
          /\ r.code \notin MexcModule!Absent /\ r.code # "ok"
      BY <1>2, <1>5 DEF Refusals
    <2>2. a.place[r] = MexcModule!PlaceAck(r) /\ a.found[r] = MexcModule!Found(r)
      BY <1>3, <2>1
    <2>3. MexcModule!Answer(r) \notin {"notFound", "timeout", "network", "ok"}
      <3>1. CASE r.code \in MexcModule!Codes
        BY <2>1, <3>1
        DEF MexcModule!Answer, MexcModule!CodeErrors, MexcModule!Codes,
            MexcModule!ErrorStatuses, MexcModule!Absent
      <3>2. CASE r.code \notin MexcModule!Codes
        BY <2>1, <3>2 DEF MexcModule!Answer, MexcModule!ErrorStatuses
      <3> QED
        BY <3>1, <3>2
    <2> QED
      BY <2>2, <2>3 DEF Transport, MexcModule!PlaceAck, MexcModule!Found
  <1>8. DoneIsDone("mexc", a)
    <2> SUFFICES ASSUME NEW kind \in Kinds \ a.unsent, NEW r \in Refusals(a),
                        a.told[kind][r] = "ok"
                 PROVE  r.code \in DoneCodes[kind]
      BY DEF DoneIsDone
    <2>1. /\ r \in MexcModule!Replies(MexcModule!Codes) /\ r.status \in MexcModule!ErrorStatuses
          /\ r.code \in MexcModule!Codes \cup {"none", "garbled"}
      BY <1>2, <1>5 DEF Refusals, MexcModule!Replies
    <2>2. kind \in {"leverage", "margin", "position", "cancel", "transfer"}
      BY DEF Kinds, DoneCodes
    <2> QED
      BY <1>4, <2>1, <2>2
      DEF DoneCodes, MexcModule!SetLeverage, MexcModule!SetMarginMode, MexcModule!SetPositionMode,
          MexcModule!CancelOrder, MexcModule!Transfer, MexcModule!Answer,
          MexcModule!CodeErrors, MexcModule!Codes, MexcModule!ErrorStatuses
  <1>9. TooSmallIsError(a) /\ SourcesCover(a)
    BY <1>2 DEF TooSmallIsError, SourcesCover, Transport, MexcModule!TooSmall, MexcModule!Sources
  <1>10. OkReplies \subseteq MexcModule!Replies(MexcModule!Codes) /\ OkReply \in OkReplies
    BY DEF OkReplies, OkReply, MexcModule!Replies
  <1>11. AcceptIsError(a)
    BY <1>3, <1>10
    DEF AcceptIsError, OkReplies, Transport, MexcModule!PlaceAck, MexcModule!Answer, MexcModule!CodeErrors, MexcModule!Codes
  <1>12. UnsentIsKnown("mexc", a)
    BY <1>2, <1>4, <1>10 DEF UnsentIsKnown, MexcModule!Transfer
  <1> QED
    BY <1>2, <1>6, <1>7, <1>8, <1>9, <1>11, <1>12
    DEF TablesAreSound, a, MexcModule!MaxTextLen, MexcModule!KeepsCache, IdLength,
        MexcModule!IdLength

LEMMA OkxTables ==
  /\ TablesAreSound("okx", AdapterTables["okx"])
  /\ AdapterTables["okx"].idLength = IdLength
  /\ AdapterTables["okx"].keepsCache = TRUE
  <1> DEFINE a == AdapterTables["okx"]
  <1>1. a = OkxModule!Adapter
    BY DEF AdapterTables, AllVenues, Of
  <1>2. /\ a.live = OkxModule!Live /\ a.status = OkxModule!OrderStatus
        /\ a.codes = OkxModule!Codes
        /\ a.errorStatuses = OkxModule!ErrorStatuses
        /\ a.absent = OkxModule!Absent
        /\ a.tooSmall = OkxModule!TooSmall
        /\ a.unsent = {}
        /\ \A k \in BOOLEAN : a.sources[k] = OkxModule!Sources(k)
        /\ a.idLength = OkxModule!MaxTextLen /\ a.keepsCache = OkxModule!KeepsCache
    BY <1>1 DEF OkxModule!Adapter
  <1>3. /\ a.place = [r \in OkxModule!Replies(OkxModule!Codes) |-> OkxModule!PlaceAck(r)]
        /\ a.found = [r \in OkxModule!Replies(OkxModule!Codes) |-> OkxModule!Found(r)]
    BY <1>1 DEF OkxModule!Adapter
  <1>4. a.told =
          [leverage |-> [r \in OkxModule!Replies(OkxModule!Codes) |-> OkxModule!SetLeverage(r)],
           margin |-> [r \in OkxModule!Replies(OkxModule!Codes) |-> OkxModule!SetMarginMode(r)],
           position |-> [r \in OkxModule!Replies(OkxModule!Codes) |-> OkxModule!SetPositionMode(r)],
           cancel |-> [r \in OkxModule!Replies(OkxModule!Codes) |-> OkxModule!CancelOrder(r)],
           transfer |-> [r \in OkxModule!Replies(OkxModule!Codes) |-> OkxModule!Transfer(r)]]
    BY <1>1 DEF OkxModule!Adapter
  <1>5. Replies(a.codes) = OkxModule!Replies(OkxModule!Codes)
    BY <1>2 DEF Replies, OkxModule!Replies
  <1> HIDE DEF a
  <1>6. WordsAreRight(a)
    BY <1>2 DEF WordsAreRight, Over, OrderStatuses, OkxModule!Live, OkxModule!OrderStatus
  <1>7. RefusalIsError(a)
    <2> SUFFICES ASSUME NEW r \in Refusals(a)
                 PROVE  /\ a.place[r] \notin {"ok", "notFound"} \cup Transport
                        /\ a.found[r] # "notFound"
      BY DEF RefusalIsError
    <2>1. /\ r \in OkxModule!Replies(OkxModule!Codes) /\ r.status \in OkxModule!ErrorStatuses
          /\ r.code \notin OkxModule!Absent /\ r.code # "ok"
      BY <1>2, <1>5 DEF Refusals
    <2>2. a.place[r] = OkxModule!PlaceAck(r) /\ a.found[r] = OkxModule!Found(r)
      BY <1>3, <2>1
    <2>3. OkxModule!Answer(r) \notin {"notFound", "timeout", "network", "ok"}
      <3>1. CASE r.code \in OkxModule!Codes
        BY <2>1, <3>1
        DEF OkxModule!Answer, OkxModule!CodeErrors, OkxModule!Codes,
            OkxModule!ErrorStatuses, OkxModule!Absent
      <3>2. CASE r.code \notin OkxModule!Codes
        BY <2>1, <3>2 DEF OkxModule!Answer, OkxModule!ErrorStatuses
      <3> QED
        BY <3>1, <3>2
    <2> QED
      BY <2>2, <2>3 DEF Transport, OkxModule!PlaceAck, OkxModule!Found
  <1>8. DoneIsDone("okx", a)
    <2> SUFFICES ASSUME NEW kind \in Kinds \ a.unsent, NEW r \in Refusals(a),
                        a.told[kind][r] = "ok"
                 PROVE  r.code \in DoneCodes[kind]
      BY DEF DoneIsDone
    <2>1. /\ r \in OkxModule!Replies(OkxModule!Codes) /\ r.status \in OkxModule!ErrorStatuses
          /\ r.code \in OkxModule!Codes \cup {"none", "garbled"}
      BY <1>2, <1>5 DEF Refusals, OkxModule!Replies
    <2>2. kind \in {"leverage", "margin", "position", "cancel", "transfer"}
      BY DEF Kinds, DoneCodes
    <2> QED
      BY <1>4, <2>1, <2>2
      DEF DoneCodes, OkxModule!SetLeverage, OkxModule!SetMarginMode, OkxModule!SetPositionMode,
          OkxModule!CancelOrder, OkxModule!Transfer, OkxModule!Answer,
          OkxModule!CodeErrors, OkxModule!Codes, OkxModule!ErrorStatuses
  <1>9. TooSmallIsError(a) /\ SourcesCover(a)
    BY <1>2 DEF TooSmallIsError, SourcesCover, Transport, OkxModule!TooSmall, OkxModule!Sources
  <1>10. OkReplies \subseteq OkxModule!Replies(OkxModule!Codes) /\ OkReply \in OkReplies
    BY DEF OkReplies, OkReply, OkxModule!Replies
  <1>11. AcceptIsError(a)
    BY <1>3, <1>10
    DEF AcceptIsError, OkReplies, Transport, OkxModule!PlaceAck, OkxModule!Answer, OkxModule!CodeErrors, OkxModule!Codes
  <1>12. UnsentIsKnown("okx", a)
    BY <1>2 DEF UnsentIsKnown
  <1> QED
    BY <1>2, <1>6, <1>7, <1>8, <1>9, <1>11, <1>12
    DEF TablesAreSound, a, OkxModule!MaxTextLen, OkxModule!KeepsCache, IdLength,
        OkxModule!IdLength

LEMMA VenueTables ==
  ASSUME NEW v \in AllVenues
  PROVE  /\ TablesAreSound(v, AdapterTables[v])
         /\ v # "gate" => AdapterTables[v].idLength = IdLength
         /\ v \notin {"kucoin", "mexc"} => AdapterTables[v].keepsCache
  BY BinanceTables, BitgetTables, BybitTables, GateTables, KucoinTables, MexcTables, OkxTables
  DEF AllVenues

-------------------------------------------------------------------------------
(* Quantities. *)

LEMMA MultIsPositive == Mult \in Nat \ {0}
  BY MultiplierAssumption DEF Mult

LEMMA WholeContracts ==
  ASSUME NEW n \in Nat, NEW m \in Nat \ {0}
  PROVE  /\ n \div m \in 0 .. n
         /\ n - (n \div m) * m >= 0 /\ n - (n \div m) * m < m
  <1>1. n \div m \in Int /\ (n \div m) * m <= n /\ n < (n \div m) * m + m
    OBVIOUS
  <1>2. n \div m >= 0
    OBVIOUS
  <1>3. n \div m <= n
    OBVIOUS
  <1> QED
    BY <1>1, <1>2, <1>3

LEMMA ContractsAndBack ==
  ASSUME NEW n \in Nat, NEW m \in Nat \ {0}
  PROVE  (n * m) \div m = n
  OBVIOUS

\* An order as the adapter sends it, if the contract size is known where the
\* adapter divides by it; MEXC's turns the side of one that only reduces round.
AsAsked(w) ==
  /\ w.side = request.side \/ (venue = "mexc" /\ request.reduceOnly)
  /\ w.reduceOnly = request.reduceOnly
  /\ w.market => request.mode = "market"
  /\ w.size > 0 => request.qty - w.size * Mult >= 0 /\ request.qty - w.size * Mult < Mult

Wires == [side : Sides, size : 0 .. MaxQty, reduceOnly : BOOLEAN, market : BOOLEAN,
          tif : {"none", "IOC", "GTC"}, priced : BOOLEAN]

LEMMA WireIs ==
  ASSUME venue \in AllVenues, request \in EngineRequests,
         contractSize = Mult \/ (contractSize = 0 /\ venue \notin {"gate", "okx"})
  PROVE  Wire \in Wires /\ AsAsked(Wire)
  <1>1. /\ request.side \in Sides /\ request.mode \in Modes /\ request.tif = "IOC"
        /\ request.qty \in 1 .. MaxQty /\ request.priced \in BOOLEAN /\ request.reduceOnly \in BOOLEAN
        /\ (request.mode = "ioc") = request.priced
    BY QtysAssumption DEF EngineRequests, Requests
  <1>2. MaxQty \in Nat /\ request.qty \in Nat /\ Multiplier \in Nat \ {0}
    BY <1>1, QtysAssumption, MultiplierAssumption
  <1>3. /\ request.qty \div Multiplier \in 0 .. MaxQty
        /\ request.qty - (request.qty \div Multiplier) * Multiplier >= 0
        /\ request.qty - (request.qty \div Multiplier) * Multiplier < Multiplier
    <2>1. /\ request.qty \div Multiplier \in 0 .. request.qty
          /\ request.qty - (request.qty \div Multiplier) * Multiplier >= 0
          /\ request.qty - (request.qty \div Multiplier) * Multiplier < Multiplier
      BY <1>2, WholeContracts
    <2>2. \A k \in 0 .. request.qty : k \in 0 .. MaxQty
      BY <1>1, <1>2
    <2> QED
      BY <2>1, <2>2
  <1>4. ASSUME Mult = 1
        PROVE  request.qty \in 0 .. MaxQty /\ request.qty - request.qty * Mult = 0 /\ Mult > 0
    BY <1>1, <1>2, <1>4
  <1>5. ASSUME Wire.side = request.side \/ (venue = "mexc" /\ request.reduceOnly),
               Wire.reduceOnly = request.reduceOnly,
               Wire.market => request.mode = "market", Wire.size \in 0 .. MaxQty,
               \/ Wire.size = 0
               \/ Wire.size = request.qty /\ Mult = 1
               \/ Wire.size = request.qty \div Multiplier /\ Mult = Multiplier
        PROVE  AsAsked(Wire)
    <2>1. CASE Wire.size = 0
      BY <1>5, <2>1 DEF AsAsked
    <2>2. CASE Wire.size = request.qty /\ Mult = 1
      BY <1>4, <1>5, <2>2 DEF AsAsked
    <2>3. CASE Wire.size = request.qty \div Multiplier /\ Mult = Multiplier
      BY <1>3, <1>5, <2>3 DEF AsAsked
    <2> QED
      BY <1>5, <2>1, <2>2, <2>3
  <1>6. CASE venue = "binance"
    <2>1. Wire = BinanceModule!Wire(request, contractSize) /\ Mult = 1
      BY <1>6 DEF Wire, WireOf, Of, Mult
    <2>2. /\ Wire.side = request.side /\ Wire.reduceOnly = request.reduceOnly
          /\ Wire.market => request.mode = "market"
          /\ Wire.size = request.qty
      BY <1>1, <2>1 DEF BinanceModule!Wire, Modes
    <2>3. Wire.size \in 0 .. MaxQty
      BY <1>3, <1>4, <2>1, <2>2, <1>2
    <2>4. Wire \in Wires
      BY <1>1, <2>1, <2>3 DEF BinanceModule!Wire, Wires, Modes
    <2> QED
      BY <1>5, <2>1, <2>2, <2>3, <2>4
  <1>7. CASE venue = "bitget"
    <2>1. Wire = BitgetModule!Wire(request, contractSize) /\ Mult = 1
      BY <1>7 DEF Wire, WireOf, Of, Mult
    <2>2. /\ Wire.side = request.side /\ Wire.reduceOnly = request.reduceOnly
          /\ Wire.market => request.mode = "market"
          /\ Wire.size = request.qty
      BY <1>1, <2>1 DEF BitgetModule!Wire, Modes
    <2>3. Wire.size \in 0 .. MaxQty
      BY <1>3, <1>4, <2>1, <2>2, <1>2
    <2>4. Wire \in Wires
      BY <1>1, <2>1, <2>3 DEF BitgetModule!Wire, Wires, Modes
    <2> QED
      BY <1>5, <2>1, <2>2, <2>3, <2>4
  <1>8. CASE venue = "bybit"
    <2>1. Wire = BybitModule!Wire(request, contractSize) /\ Mult = 1
      BY <1>8 DEF Wire, WireOf, Of, Mult
    <2>2. /\ Wire.side = request.side /\ Wire.reduceOnly = request.reduceOnly
          /\ Wire.market => request.mode = "market"
          /\ Wire.size = request.qty
      BY <1>1, <2>1 DEF BybitModule!Wire, Modes
    <2>3. Wire.size \in 0 .. MaxQty
      BY <1>3, <1>4, <2>1, <2>2, <1>2
    <2>4. Wire \in Wires
      BY <1>1, <2>1, <2>3 DEF BybitModule!Wire, Wires, Modes
    <2> QED
      BY <1>5, <2>1, <2>2, <2>3, <2>4
  <1>9. CASE venue = "gate"
    <2>1. Wire = GateModule!Wire(request, Multiplier) /\ Mult = Multiplier
      BY <1>9 DEF Wire, WireOf, Of, Mult
    <2>2. /\ Wire.side = request.side /\ Wire.reduceOnly = request.reduceOnly
          /\ Wire.market => request.mode = "market"
          /\ Wire.size = request.qty \div Multiplier
      BY <1>1, <2>1 DEF GateModule!Wire, GateModule!Contracts, Modes
    <2>3. Wire.size \in 0 .. MaxQty
      BY <1>3, <2>1, <2>2, <1>2
    <2>4. Wire \in Wires
      BY <1>1, <2>1, <2>3 DEF GateModule!Wire, Wires, Modes
    <2> QED
      BY <1>5, <2>1, <2>2, <2>3, <2>4
  <1>10. CASE venue = "okx"
    <2>1. Wire = OkxModule!Wire(request, Multiplier) /\ Mult = Multiplier
      BY <1>10 DEF Wire, WireOf, Of, Mult
    <2>2. /\ Wire.side = request.side /\ Wire.reduceOnly = request.reduceOnly
          /\ Wire.market => request.mode = "market"
          /\ Wire.size = request.qty \div Multiplier
      BY <1>1, <2>1 DEF OkxModule!Wire, OkxModule!Contracts, Modes
    <2>3. Wire.size \in 0 .. MaxQty
      BY <1>3, <2>1, <2>2, <1>2
    <2>4. Wire \in Wires
      BY <1>1, <2>1, <2>3 DEF OkxModule!Wire, Wires, Modes
    <2> QED
      BY <1>5, <2>1, <2>2, <2>3, <2>4
  <1>11. CASE venue = "kucoin"
    <2>1. Wire = KucoinModule!Wire(request, contractSize) /\ Mult = Multiplier
      BY <1>11 DEF Wire, WireOf, Of, Mult
    <2>2. /\ Wire.side = request.side /\ Wire.reduceOnly = request.reduceOnly
          /\ Wire.market => request.mode = "market"
          /\ Wire.size = IF contractSize = 0 THEN 0 ELSE request.qty \div Multiplier
      BY <1>1, <2>1 DEF KucoinModule!Wire, KucoinModule!Contracts, Modes
    <2>3. Wire.size \in 0 .. MaxQty
      BY <1>3, <2>1, <2>2, <1>2
    <2>4. Wire \in Wires
      BY <1>1, <2>1, <2>3 DEF KucoinModule!Wire, Wires, Modes
    <2> QED
      BY <1>5, <2>1, <2>2, <2>3, <2>4
  <1>12. CASE venue = "mexc"
    <2>1. Wire = MexcModule!Wire(request, contractSize) /\ Mult = Multiplier
      BY <1>12 DEF Wire, WireOf, Of, Mult
    <2>2. /\ Wire.side = request.side \/ request.reduceOnly
          /\ Wire.reduceOnly = request.reduceOnly
          /\ Wire.market => request.mode = "market"
          /\ Wire.size = IF contractSize = 0 THEN 0 ELSE request.qty \div Multiplier
      <3>1. ASSUME ~request.reduceOnly
            PROVE  MexcModule!Deal(MexcModule!SideCode(request.side, request.reduceOnly)) = request.side
        <4>1. CASE request.side = "long"
          BY <3>1, <4>1 DEF MexcModule!SideCode, MexcModule!Deal
        <4>2. CASE request.side = "short"
          BY <3>1, <4>2 DEF MexcModule!SideCode, MexcModule!Deal
        <4> QED
          BY <1>1, <4>1, <4>2 DEF Sides
      <3>2. /\ Wire.side = MexcModule!Deal(MexcModule!SideCode(request.side, request.reduceOnly))
            /\ Wire.reduceOnly = request.reduceOnly
            /\ Wire.market = (request.mode = "market")
            /\ Wire.size = IF contractSize = 0 THEN 0 ELSE request.qty \div Multiplier
        BY <1>1, <1>12, <2>1 DEF MexcModule!Wire, MexcModule!Contracts, Mult
      <3> QED
        BY <3>1, <3>2
    <2>3. Wire.size \in 0 .. MaxQty
      BY <1>3, <2>1, <2>2, <1>2
    <2>4. Wire \in Wires
      BY <1>1, <2>1, <2>3 DEF MexcModule!Wire, MexcModule!Deal, Wires, Sides, Modes
    <2> QED
      BY <1>5, <1>12, <2>1, <2>2, <2>3, <2>4
  <1> QED
    BY <1>6, <1>7, <1>8, <1>9, <1>10, <1>11, <1>12 DEF AllVenues

\* A fill as the adapter reports it: with the contract size known, in the base asset.
LEMMA FilledIs ==
  ASSUME venue \in AllVenues, contractSize \in {0, Mult}, NEW n \in Nat
  PROVE  /\ FilledOf(venue, n, contractSize) \in Nat
         /\ contractSize = Mult => FilledOf(venue, n, contractSize) = n * Mult
  <1>1. Mult \in Nat \ {0} /\ contractSize \in Nat /\ n * Mult \in Nat /\ n * contractSize \in Nat
    BY MultIsPositive
  <1>2. CASE venue \in {"binance", "bitget", "bybit"}
    <2>1. FilledOf(venue, n, contractSize) = n /\ Mult = 1
      BY <1>2 DEF FilledOf, Of, Mult, BinanceModule!Filled, BitgetModule!Filled, BybitModule!Filled
    <2> QED
      BY <2>1
  <1>3. CASE venue \in {"gate", "kucoin", "okx"}
    <2>1. FilledOf(venue, n, contractSize) = n * contractSize
      BY <1>3 DEF FilledOf, Of, GateModule!Filled, KucoinModule!Filled, OkxModule!Filled,
                  GateModule!BaseQty, KucoinModule!BaseQty, OkxModule!BaseQty
    <2> QED
      BY <1>1, <2>1
  <1>4. CASE venue = "mexc"
    <2>1. FilledOf(venue, n, contractSize) = IF contractSize = 0 THEN n ELSE n * contractSize
      BY <1>4 DEF FilledOf, Of, MexcModule!Filled, MexcModule!BaseQty
    <2> QED
      BY <1>1, <2>1
  <1> QED
    BY <1>2, <1>3, <1>4 DEF AllVenues

-------------------------------------------------------------------------------
(***************************************************************************)
(* The inductive invariant: what is so of each slice of an order.          *)
(***************************************************************************)
Orders == [status : {"none", "sent", "accepted"}, wire : Wires, filled : Nat, live : BOOLEAN]
Places == [pc : {"idle", "placing", "acked", "unknown", "returned"}, at : {1, 2},
           kind : {"ok", "error", "ambiguous", "not_found"}, reported : Nat, status : OrderStatuses]

TypeOKAdapters ==
  /\ venue \in Traded /\ request \in EngineRequests
  /\ contractSize \in {0, Mult}
  /\ known \subseteq Slices
  /\ book \in [Slices -> Orders]
  /\ place \in [Slices -> Places]

\* Once an order was placed the contract size stays known, but on the two venues
\* whose sizes are replaced by each round of instruments.
SizeIsKept ==
  (venue \notin {"kucoin", "mexc"} \/ venue \notin Delistable)
  /\ (\E s \in Slices : place[s].pc # "idle")
  => contractSize = Mult

\* Nothing is at the venue before Place, and it takes what it was sent.
Sent(s) ==
  /\ place[s].pc = "idle" => book[s].status = "none" /\ book[s].filled = 0 /\ book[s].wire.size = 0
  /\ book[s].status # "none" => AsAsked(book[s].wire)
  /\ book[s].status = "accepted" => book[s].wire.size > 0

\* The venue shows the order for the id: Gate only by the number it has told.
Shows(s) == s \in known \/ venue # "gate"

\* The query is where it began, or what it has not found among the live orders
\* is not live; without an ack only a lost reply leaves an order at the venue.
Asked(s) ==
  /\ place[s].pc \in {"idle", "placing", "unknown"} => s \notin known
  /\ place[s].pc \in {"idle", "placing"} => place[s].at = 1
  /\ Querying(s) => place[s].at \in DOMAIN Sources(s)
  /\ Querying(s) /\ place[s].at # 1 /\ Accepted(s) /\ Shows(s) => ~book[s].live
  /\ place[s].pc = "unknown" /\ Accepted(s) => venue \in Lossy

Final(s) == Returned(s) /\ place[s].status \in Over => ~book[s].live

SliceInv(s) == Sent(s) /\ Asked(s) /\ Final(s)

AdaptersInv == TypeOKAdapters /\ SizeIsKept /\ SettingIsDone /\ \A s \in Slices : SliceInv(s)

LEMMA AdaptersInit == InitAdapters => AdaptersInv
  <1> SUFFICES ASSUME InitAdapters PROVE AdaptersInv
    OBVIOUS
  <1>1. Mult \in Nat /\ MaxQty \in Nat
    BY MultIsPositive, QtysAssumption
  <1>2. NoWire = [side |-> "long", size |-> 0, reduceOnly |-> FALSE, market |-> FALSE,
                  tif |-> "IOC", priced |-> FALSE]
    BY DEF NoWire, WireOf, Of, BinanceModule!Wire
  <1>3. NoWire \in Wires
    BY <1>1, <1>2 DEF Wires, Sides
  <1>4. TypeOKAdapters
    BY <1>1, <1>3 DEF InitAdapters, TypeOKAdapters, Orders, Places, NotPlaced, OrderStatuses
  <1>5. \A s \in Slices : SliceInv(s)
    BY <1>2 DEF InitAdapters, SliceInv, Sent, Asked, Final, NotPlaced, Querying, Returned, Accepted
  <1>6. SizeIsKept /\ SettingIsDone
    BY DEF InitAdapters, SizeIsKept, SettingIsDone, NotPlaced, NoSetting
  <1> QED
    BY <1>4, <1>5, <1>6 DEF AdaptersInv

\* What is so of a slice stays so in a step that leaves it alone.
LEMMA SliceSame ==
  ASSUME NEW s \in Slices, SliceInv(s), UNCHANGED <<venue, request, book[s], place[s]>>,
         (s \in known') = (s \in known)
  PROVE  SliceInv(s)'
  <1>1. venue' = venue /\ request' = request /\ book[s]' = book[s] /\ place[s]' = place[s]
    OBVIOUS
  <1>2. Mult' = Mult /\ A' = A /\ Sources(s)' = Sources(s)
    BY <1>1 DEF Mult, A, Sources
  <1>3. Sent(s)'
    BY <1>1, <1>2 DEF SliceInv, Sent, AsAsked
  <1>4. Asked(s)'
    BY <1>1, <1>2 DEF SliceInv, Asked, Querying, Accepted, Shows
  <1>5. Final(s)'
    BY <1>1 DEF SliceInv, Final, Returned
  <1> QED
    BY <1>3, <1>4, <1>5 DEF SliceInv

\* A step of one slice, by what it does to that slice.
LEMMA SliceStep ==
  ASSUME AdaptersInv, NEW s \in Slices, UNCHANGED <<venue, request, contractSize, setting>>,
         NEW o \in Orders, NEW p \in Places,
         book' = [book EXCEPT ![s] = o], place' = [place EXCEPT ![s] = p],
         known' = known \/ known' = known \cup {s},
         place[s].pc # "idle", SliceInv(s)'
  PROVE  AdaptersInv'
  <1>1. TypeOKAdapters /\ SizeIsKept /\ SettingIsDone /\ \A t \in Slices : SliceInv(t)
    BY DEF AdaptersInv
  <1>2. TypeOKAdapters'
    BY <1>1 DEF TypeOKAdapters, Mult
  <1>3. SizeIsKept'
    BY <1>1 DEF SizeIsKept, Mult
  <1>4. SettingIsDone'
    BY <1>1 DEF SettingIsDone
  <1>5. ASSUME NEW t \in Slices
        PROVE  SliceInv(t)'
    <2>1. CASE t = s
      BY <2>1
    <2>2. CASE t # s
      <3>1. book[t]' = book[t] /\ place[t]' = place[t] /\ (t \in known') = (t \in known)
        BY <1>1, <2>2 DEF TypeOKAdapters
      <3> QED
        BY <1>1, <3>1, SliceSame
    <2> QED
      BY <2>1, <2>2
  <1> QED
    BY <1>2, <1>3, <1>4, <1>5 DEF AdaptersInv

\* What the tables of the venue in use give.
LEMMA VenueInUse ==
  ASSUME TypeOKAdapters
  PROVE  /\ venue \in AllVenues
         /\ WordsAreRight(A) /\ RefusalIsError(A) /\ AcceptIsError(A) /\ TooSmallIsError(A)
         /\ DoneIsDone(venue, A) /\ UnsentIsKnown(venue, A) /\ SourcesCover(A)
         /\ venue # "gate" => A.idLength = IdLength
         /\ venue \notin {"kucoin", "mexc"} => A.keepsCache
  <1>1. venue \in AllVenues
    BY TradedAssumption DEF TypeOKAdapters
  <1> QED
    BY <1>1, VenueTables DEF A, TablesAreSound

LEMMA SourcesAre ==
  ASSUME TypeOKAdapters, NEW s \in Slices
  PROVE  \/ Len(Sources(s)) = 1 /\ DOMAIN Sources(s) = {1} /\ Sources(s)[1] = "any"
         \/ /\ Len(Sources(s)) = 2 /\ DOMAIN Sources(s) = {1, 2}
            /\ Sources(s)[1] = "open" /\ Sources(s)[2] = "finished"
  <1>1. Sources(s) = <<"any">> \/ Sources(s) = <<"open", "finished">>
    <2>1. \A k \in BOOLEAN : A.sources[k] = <<"any">> \/ A.sources[k] = <<"open", "finished">>
      BY VenueInUse DEF SourcesCover
    <2>2. CASE s \in known
      <3>1. Sources(s) = A.sources[TRUE]
        BY <2>2 DEF Sources
      <3> QED
        BY <2>1, <3>1
    <2>3. CASE s \notin known
      <3>1. Sources(s) = A.sources[FALSE]
        <4>1. (s \in known) = FALSE
          BY <2>3
        <4> QED
          BY <4>1, Zenon DEF Sources
      <3> QED
        BY <2>1, <3>1
    <2> QED
      BY <2>2, <2>3
  <1>2. CASE Sources(s) = <<"any">>
    BY <1>2
  <1>3. CASE Sources(s) = <<"open", "finished">>
    BY <1>3
  <1> QED
    BY <1>1, <1>2, <1>3

\* The invariant after a step of the venue, by what it does to the order.
LEMMA VenueStep ==
  ASSUME AdaptersInv, NEW s \in Slices,
         UNCHANGED <<venue, request, contractSize, known, place, setting>>,
         NEW o \in Orders, book' = [book EXCEPT ![s] = o],
         place[s].pc # "idle", SliceInv(s)'
  PROVE  AdaptersInv'
  <1>1. place[s] \in Places /\ place' = [place EXCEPT ![s] = place[s]]
    BY DEF AdaptersInv, TypeOKAdapters
  <1> QED
    BY <1>1, SliceStep

LEMMA PlaceStep ==
  ASSUME AdaptersInv, NEW s \in Slices,
         UNCHANGED <<venue, request, contractSize, known, book, setting>>,
         NEW p \in Places, place' = [place EXCEPT ![s] = p],
         place[s].pc # "idle", SliceInv(s)'
  PROVE  AdaptersInv'
  <1>1. book[s] \in Orders /\ book' = [book EXCEPT ![s] = book[s]]
    BY DEF AdaptersInv, TypeOKAdapters
  <1> QED
    BY <1>1, SliceStep

LEMMA SettingOnly ==
  ASSUME AdaptersInv, SettingIsDone', UNCHANGED <<venue, request, contractSize, known, book, place>>
  PROVE  AdaptersInv'
  <1>1. TypeOKAdapters' /\ SizeIsKept'
    BY DEF AdaptersInv, TypeOKAdapters, SizeIsKept, Mult
  <1>2. \A s \in Slices : SliceInv(s)'
    BY SliceSame DEF AdaptersInv
  <1> QED
    BY <1>1, <1>2 DEF AdaptersInv

-------------------------------------------------------------------------------
(* The venue. *)

LEMMA AcceptStep ==
  ASSUME AdaptersInv, NEW s \in Slices, Accept(s)
  PROVE  AdaptersInv'
  <1>1. TypeOKAdapters /\ SliceInv(s)
    BY DEF AdaptersInv
  <1>2. PICK o : o = [book[s] EXCEPT !.status = "accepted"]
    OBVIOUS
  <1>3. /\ o \in Orders /\ o.status = "accepted"
        /\ o.wire = book[s].wire /\ o.filled = book[s].filled /\ o.live = book[s].live
    BY <1>1, <1>2 DEF TypeOKAdapters, Orders
  <1>4. book' = [book EXCEPT ![s] = o] /\ book'[s] = o
    BY <1>1, <1>2 DEF Accept, TypeOKAdapters
  <1>5. UNCHANGED <<venue, request, contractSize, known, place, setting>>
    BY DEF Accept
  <1>6. Mult' = Mult /\ A' = A /\ Sources(s)' = Sources(s)
    BY <1>5 DEF Mult, A, Sources
  <1>7. place[s].pc # "idle"
    BY <1>1 DEF Accept, SliceInv, Sent
  <1>8. Sent(s)'
    BY <1>1, <1>3, <1>4, <1>5, <1>6, <1>7 DEF Accept, SliceInv, Sent, AsAsked
  <1>9. Asked(s)'
    BY <1>1, <1>3, <1>4, <1>5, <1>6 DEF Accept, SliceInv, Asked, Shows, Querying, Accepted, Returned
  <1>10. Final(s)'
    BY <1>1, <1>3, <1>4, <1>5 DEF SliceInv, Final, Returned
  <1> QED
    BY <1>3, <1>4, <1>5, <1>7, <1>8, <1>9, <1>10, VenueStep DEF SliceInv

LEMMA FillStep ==
  ASSUME AdaptersInv, NEW s \in Slices, Fill(s)
  PROVE  AdaptersInv'
  <1>1. TypeOKAdapters /\ SliceInv(s)
    BY DEF AdaptersInv
  <1>2. PICK o : o = [book[s] EXCEPT !.filled = @ + 1]
    OBVIOUS
  <1>3. /\ o \in Orders /\ o.status = book[s].status
        /\ o.wire = book[s].wire /\ o.live = book[s].live
    BY <1>1, <1>2 DEF TypeOKAdapters, Orders
  <1>4. book' = [book EXCEPT ![s] = o] /\ book'[s] = o
    BY <1>1, <1>2 DEF Fill, TypeOKAdapters
  <1>5. UNCHANGED <<venue, request, contractSize, known, place, setting>>
    BY DEF Fill
  <1>6. Mult' = Mult /\ A' = A /\ Sources(s)' = Sources(s)
    BY <1>5 DEF Mult, A, Sources
  <1>7. place[s].pc # "idle"
    BY <1>1 DEF Fill, Accepted, SliceInv, Sent
  <1>8. Sent(s)'
    BY <1>1, <1>3, <1>4, <1>5, <1>6, <1>7 DEF SliceInv, Sent, AsAsked
  <1>9. Asked(s)' /\ Final(s)'
    BY <1>1, <1>3, <1>4, <1>5, <1>6 DEF SliceInv, Asked, Shows, Final, Querying, Accepted, Returned
  <1> QED
    BY <1>3, <1>4, <1>5, <1>7, <1>8, <1>9, VenueStep DEF SliceInv

LEMMA FinishStep ==
  ASSUME AdaptersInv, NEW s \in Slices, Finish(s)
  PROVE  AdaptersInv'
  <1>1. TypeOKAdapters /\ SliceInv(s)
    BY DEF AdaptersInv
  <1>2. PICK o : o = [book[s] EXCEPT !.live = FALSE]
    OBVIOUS
  <1>3. /\ o \in Orders /\ o.status = book[s].status
        /\ o.wire = book[s].wire /\ o.filled = book[s].filled /\ o.live = FALSE
    BY <1>1, <1>2 DEF TypeOKAdapters, Orders
  <1>4. book' = [book EXCEPT ![s] = o] /\ book'[s] = o
    BY <1>1, <1>2 DEF Finish, TypeOKAdapters
  <1>5. UNCHANGED <<venue, request, contractSize, known, place, setting>>
    BY DEF Finish
  <1>6. Mult' = Mult /\ A' = A /\ Sources(s)' = Sources(s)
    BY <1>5 DEF Mult, A, Sources
  <1>7. place[s].pc # "idle"
    BY <1>1 DEF Finish, Accepted, SliceInv, Sent
  <1>8. Sent(s)'
    BY <1>1, <1>3, <1>4, <1>5, <1>6, <1>7 DEF SliceInv, Sent, AsAsked
  <1>9. Asked(s)' /\ Final(s)'
    BY <1>1, <1>3, <1>4, <1>5, <1>6 DEF SliceInv, Asked, Shows, Final, Querying, Accepted, Returned
  <1> QED
    BY <1>3, <1>4, <1>5, <1>7, <1>8, <1>9, VenueStep DEF SliceInv

LEMMA RefreshStep ==
  ASSUME AdaptersInv, NEW reads \in RowsRead[venue], RefreshInstruments(reads)
  PROVE  AdaptersInv'
  <1>1. TypeOKAdapters /\ SizeIsKept /\ SettingIsDone
    BY DEF AdaptersInv
  <1>2. UNCHANGED <<venue, request, known, book, place, setting>>
    BY DEF RefreshInstruments
  <1>3. Mult' = Mult
    BY <1>2 DEF Mult
  <1>4. \/ contractSize' = Mult
        \/ contractSize' = contractSize
        \/ contractSize' = 0 /\ ~A.keepsCache /\ venue \in Delistable
    BY DEF RefreshInstruments
  <1>5. TypeOKAdapters'
    BY <1>1, <1>2, <1>3, <1>4 DEF TypeOKAdapters
  <1>6. SizeIsKept'
    <2>1. CASE contractSize' = 0 /\ ~A.keepsCache /\ venue \in Delistable
      BY <1>1, <1>2, <2>1, VenueInUse DEF SizeIsKept
    <2> QED
      BY <1>1, <1>2, <1>3, <1>4, <2>1 DEF SizeIsKept
  <1>7. \A s \in Slices : SliceInv(s)'
    BY <1>2, SliceSame DEF AdaptersInv
  <1> QED
    BY <1>1, <1>2, <1>5, <1>6, <1>7 DEF AdaptersInv, SettingIsDone

LEMMA InstructStep ==
  ASSUME AdaptersInv, NEW kind \in Kinds, Instruct(kind)
  PROVE  AdaptersInv'
  <1>1. UNCHANGED <<venue, request, contractSize, known, book, place>>
    BY DEF Instruct
  <1>2. DoneIsDone(venue, A) /\ UnsentIsKnown(venue, A) /\ venue' = venue
    BY <1>1, VenueInUse DEF AdaptersInv
  <1>3. SettingIsDone'
    <2>1. ASSUME NEW r \in OkReplies,
                 setting' = [kind |-> kind, done |-> TRUE, told |-> A.told[kind][r], empty |-> FALSE]
          PROVE  SettingIsDone'
      BY <2>1 DEF SettingIsDone
    <2>2. ASSUME NEW r \in Refusals(A), kind \notin A.unsent,
                 setting' = [kind |-> kind, done |-> r.code \in DoneCodes[kind],
                             told |-> A.told[kind][r], empty |-> r.code = "none"]
          PROVE  SettingIsDone'
      <3>1. A.told[kind][r] = "ok" => \/ r.code \in DoneCodes[kind]
                                      \/ venue = "bybit" /\ kind # "transfer" /\ r.code = "none"
        BY <1>2, <2>2 DEF DoneIsDone
      <3>2. /\ setting'.kind = kind /\ setting'.told = A.told[kind][r]
            /\ setting'.done = (r.code \in DoneCodes[kind]) /\ setting'.empty = (r.code = "none")
        BY <2>2
      <3> QED
        BY <1>2, <3>1, <3>2 DEF SettingIsDone
    <2>3. ASSUME NEW done \in BOOLEAN, NEW error \in Transport,
                 setting' = [kind |-> kind, done |-> done, told |-> error, empty |-> FALSE]
          PROVE  SettingIsDone'
      BY <2>3 DEF SettingIsDone, Transport
    <2>4. CASE /\ kind \in A.unsent
               /\ setting' = [kind |-> kind, done |-> FALSE, told |-> A.told[kind][OkReply],
                              empty |-> FALSE]
      BY <1>2, <2>4 DEF SettingIsDone, UnsentIsKnown
    <2> QED
      BY <2>1, <2>2, <2>3, <2>4 DEF Instruct
  <1> QED
    BY <1>1, <1>3, SettingOnly

-------------------------------------------------------------------------------
(* Place and GetOrder. *)

\* What a step of the query, which changes neither the venue nor what is known,
\* does to the invariant of its slice.
LEMMA ReturnStep ==
  ASSUME AdaptersInv, NEW s \in Slices, Querying(s) \/ place[s].pc = "placing",
         UNCHANGED <<venue, request, contractSize, known, book, setting>>,
         NEW kind \in {"ok", "error", "ambiguous", "not_found"}, NEW reported \in Nat,
         NEW status \in OrderStatuses, Return(s, kind, reported, status),
         status \in Over => ~book[s].live
  PROVE  AdaptersInv'
  <1>1. TypeOKAdapters /\ SliceInv(s)
    BY DEF AdaptersInv
  <1>2. PICK p : p = [place[s] EXCEPT !.pc = "returned", !.kind = kind,
                                      !.reported = reported, !.status = status]
    OBVIOUS
  <1>3. p \in Places /\ p.pc = "returned" /\ p.status = status
    BY <1>1, <1>2 DEF TypeOKAdapters, Places
  <1>4. place' = [place EXCEPT ![s] = p] /\ place'[s] = p
    BY <1>1, <1>2 DEF Return, TypeOKAdapters
  <1>5. place[s].pc # "idle"
    BY DEF Querying
  <1>6. Sent(s)' /\ Asked(s)' /\ Final(s)'
    BY <1>1, <1>3, <1>4, <1>5
    DEF SliceInv, Sent, Asked, Shows, Final, Querying, Accepted, Returned, AsAsked, Mult, Sources, A
  <1> QED
    BY <1>3, <1>4, <1>5, <1>6, PlaceStep DEF SliceInv

LEMMA EndsStep ==
  ASSUME AdaptersInv, NEW s \in Slices, Querying(s),
         UNCHANGED <<venue, request, contractSize, known, book, setting>>,
         NEW error, Ends(s, error)
  PROVE  AdaptersInv'
  <1>1. Kind(error) \in {"ok", "error", "ambiguous", "not_found"}
    BY DEF Kind
  <1>2. "new" \in OrderStatuses \ Over /\ "acknowledged" \in OrderStatuses \ Over
    BY DEF OrderStatuses, Over
  <1> QED
    BY <1>1, <1>2, ReturnStep DEF Ends

\* Only the order itself is shown for its id, unless the venue cuts the id.
LEMMA ShownIsOwn ==
  ASSUME TypeOKAdapters, NEW s \in Slices, NEW t \in Shown(s)
  PROVE  /\ t = s /\ Accepted(s)
         /\ Source(s) = "open" => book[s].live
         /\ Source(s) = "finished" => ~book[s].live
  <1>1. /\ t \in Slices /\ Accepted(t)
        /\ IF s \in known THEN t = s ELSE Text(t) = Id(s)
        /\ Source(s) = "open" => book[t].live
        /\ Source(s) = "finished" => ~book[t].live
    BY DEF Shown
  <1>2. ASSUME Text(t) = Id(s)
        PROVE  t = s
    <2>1. CASE A.idLength >= IdLength
      <3>1. Id(t) = Id(s)
        BY <1>2, <2>1 DEF Text, Cut
      <3> QED
        BY <3>1 DEF Id
    <2>2. CASE ~(A.idLength >= IdLength)
      <3>1. [purpose |-> Id(t).purpose, side |-> Id(t).side] = Id(s)
        BY <1>2, <2>2 DEF Text, Cut
      <3>2. "slice" \notin DOMAIN [purpose |-> Id(t).purpose, side |-> Id(t).side]
        OBVIOUS
      <3>3. "slice" \in DOMAIN Id(s)
        BY DEF Id
      <3> QED
        BY <3>1, <3>2, <3>3
    <2> QED
      BY <2>1, <2>2
  <1>3. t = s
    BY <1>1, <1>2
  <1> QED
    BY <1>1, <1>3

\* A word for the order's state, read by the adapter's table, tells of its end
\* only if it has ended.
LEMMA StatusIs ==
  ASSUME TypeOKAdapters, NEW t \in Slices, NEW w \in Words(t)
  PROVE  Status(w) \in OrderStatuses /\ (Status(w) \in Over => ~book[t].live)
  <1>1. WordsAreRight(A)
    BY VenueInUse
  <1>2. book[t].live \in BOOLEAN
    BY DEF TypeOKAdapters, Orders
  <1>3. CASE w \in DOMAIN A.status
    <2>1. Status(w) = A.status[w] /\ A.status[w] \in OrderStatuses
      <3>1. Status(w) = A.status[w]
        BY <1>3 DEF Status
      <3>2. A.status[w] \in OrderStatuses
        BY <1>1, <1>3 DEF WordsAreRight
      <3> QED
        BY <3>1, <3>2
    <2>2. CASE w \in A.live
      BY <1>1, <1>3, <2>1, <2>2 DEF WordsAreRight
    <2>3. CASE w \notin A.live
      <3>1. w # "unlisted"
        BY <1>1, <1>3 DEF WordsAreRight
      <3>2. (w \in A.live) = book[t].live
        BY <3>1 DEF Words
      <3>3. ~book[t].live
        <4>1. CASE book[t].live = TRUE
          BY <2>3, <3>2, <4>1, Zenon
        <4>2. CASE book[t].live = FALSE
          BY <4>2
        <4> QED
          BY <1>2, <4>1, <4>2
      <3> QED
        BY <2>1, <3>3
    <2> QED
      BY <2>1, <2>2, <2>3
  <1>4. CASE w \notin DOMAIN A.status
    BY <1>4 DEF Status, OrderStatuses, Over
  <1> QED
    BY <1>3, <1>4

\* The order as it is sent.
LEMMA PlaceWire ==
  ASSUME AdaptersInv, NEW s \in Slices, Place(s)
  PROVE  Wire \in Wires /\ AsAsked(Wire)
  <1>1. TypeOKAdapters /\ SizeIsKept
    BY DEF AdaptersInv
  <1>2. contractSize = Mult \/ (contractSize = 0 /\ venue \notin {"gate", "okx"})
    <2>1. contractSize = 0 \/ contractSize = Mult
      BY <1>1 DEF TypeOKAdapters
    <2>2. (\A t \in Slices : place[t].pc = "idle") => contractSize # 0
      BY DEF Place
    <2>3. CASE \A t \in Slices : place[t].pc = "idle"
      BY <2>1, <2>2, <2>3
    <2>4. CASE ~\A t \in Slices : place[t].pc = "idle"
      <3>1. CASE venue \in {"gate", "okx"}
        <4>1. venue # "kucoin" /\ venue # "mexc"
          BY <3>1
        <4> QED
          BY <1>1, <2>4, <4>1 DEF SizeIsKept
      <3> QED
        BY <2>1, <3>1
    <2> QED
      BY <2>3, <2>4
  <1> QED
    BY <1>1, <1>2, VenueInUse, WireIs DEF TypeOKAdapters

LEMMA PlacingStep ==
  ASSUME AdaptersInv, NEW s \in Slices, Place(s)
  PROVE  AdaptersInv'
  <1>1. TypeOKAdapters /\ SizeIsKept /\ SliceInv(s)
    BY DEF AdaptersInv
  <1>2. UNCHANGED <<venue, request, contractSize, known>> /\ Mult' = Mult
    BY DEF Place, Mult
  <1>3. A' = A /\ Sources(s)' = Sources(s)
    BY <1>2 DEF A, Sources
  <1>5. Wire \in Wires /\ AsAsked(Wire)
    BY PlaceWire
  <1>6. PICK o, p : /\ o = [book[s] EXCEPT !.status = "sent", !.wire = Wire]
                    /\ p = [place[s] EXCEPT !.pc = "placing"]
    OBVIOUS
  <1>7. /\ o \in Orders /\ o.status = "sent" /\ o.wire = Wire /\ o.filled = book[s].filled
        /\ p \in Places /\ p.pc = "placing" /\ p.at = place[s].at /\ p.status = place[s].status
    <2>1. book[s] \in Orders /\ place[s] \in Places
      BY <1>1 DEF TypeOKAdapters
    <2>2. o \in Orders /\ o.status = "sent" /\ o.wire = Wire /\ o.filled = book[s].filled
      BY <1>5, <1>6, <2>1 DEF Orders
    <2>3. p \in Places /\ p.pc = "placing" /\ p.at = place[s].at /\ p.status = place[s].status
      BY <1>6, <2>1 DEF Places
    <2> QED
      BY <2>2, <2>3
  <1>8. /\ book' = [book EXCEPT ![s] = o] /\ book'[s] = o
        /\ place' = [place EXCEPT ![s] = p] /\ place'[s] = p
    BY <1>1, <1>6 DEF Place, TypeOKAdapters
  <1>9. TypeOKAdapters'
    BY <1>1, <1>2, <1>7, <1>8 DEF TypeOKAdapters
  <1>10. SizeIsKept'
    <2>1. ASSUME \A t \in Slices : place[t].pc = "idle"
          PROVE  contractSize' = Mult'
      BY <1>1, <1>2, <2>1 DEF Place, TypeOKAdapters
    <2> QED
      BY <1>1, <1>2, <2>1 DEF SizeIsKept
  <1>11. SettingIsDone'
    BY DEF Place, NoSetting, SettingIsDone
  <1>12. ASSUME NEW t \in Slices
         PROVE  SliceInv(t)'
    <2>1. CASE t = s
      <3>1. place[s].pc = "idle" /\ s \notin known /\ place[s].at = 1
        BY <1>1 DEF Place, SliceInv, Asked
      <3>2. Sent(s)'
        BY <1>2, <1>5, <1>7, <1>8 DEF Sent, AsAsked
      <3>3. Asked(s)'
        BY <1>2, <1>7, <1>8, <3>1 DEF Asked, Shows, Querying
      <3>4. Final(s)'
        BY <1>7, <1>8 DEF Final, Returned
      <3> QED
        BY <2>1, <3>2, <3>3, <3>4 DEF SliceInv
    <2>2. CASE t # s
      <3>1. book[t]' = book[t] /\ place[t]' = place[t] /\ (t \in known') = (t \in known)
        BY <1>1, <1>2, <1>8, <2>2 DEF TypeOKAdapters
      <3>2. SliceInv(t)
        BY DEF AdaptersInv
      <3> QED
        BY <1>2, <3>1, <3>2, SliceSame
    <2> QED
      BY <2>1, <2>2
  <1> QED
    BY <1>9, <1>10, <1>11, <1>12 DEF AdaptersInv

\* What refuses an order is an error to the executor.
LEMMA RefusedIs ==
  ASSUME TypeOKAdapters, NEW error \in RefusedAs[venue] \cup {A.tooSmall}
  PROVE  error # "ok" /\ Kind(error) = "error"
  <1>1. error \notin {"ok", "notFound"} \cup Transport
    <2>1. CASE error \in RefusedAs[venue]
      <3>1. RefusedAs[venue] = {A.place[r] : r \in Refusals(A)}
        BY VenueInUse DEF RefusedAs, A
      <3> QED
        BY <2>1, <3>1, VenueInUse DEF RefusalIsError
    <2>2. CASE error = A.tooSmall
      BY <2>2, VenueInUse DEF TooSmallIsError
    <2> QED
      BY <2>1, <2>2
  <1> QED
    BY <1>1 DEF Kind

LEMMA RefuseIs ==
  ASSUME TypeOKAdapters, NEW s \in Slices, Refuse(s)
  PROVE  /\ place[s].pc = "placing" /\ book[s].status = "sent"
         /\ Return(s, "error", 0, "new")
         /\ book' = [book EXCEPT ![s].status = "none"]
         /\ UNCHANGED <<venue, request, contractSize, known, setting>>
  <1>1. PICK error \in IF book[s].wire.size = 0 THEN {A.tooSmall} ELSE RefusedAs[venue] :
          IF error = "ok" THEN /\ place' = [place EXCEPT ![s].pc = "acked"]
                               /\ UNCHANGED book
                          ELSE /\ Return(s, Kind(error), 0, "new")
                               /\ book' = [book EXCEPT ![s].status = "none"]
    BY DEF Refuse
  <1>2. error # "ok" /\ Kind(error) = "error"
    BY <1>1, RefusedIs
  <1> QED
    BY <1>1, <1>2 DEF Refuse

LEMMA RefuseStep ==
  ASSUME AdaptersInv, NEW s \in Slices, Refuse(s)
  PROVE  AdaptersInv'
  <1>1. TypeOKAdapters /\ SliceInv(s)
    BY DEF AdaptersInv
  <1>2. /\ place[s].pc = "placing" /\ Return(s, "error", 0, "new")
        /\ book' = [book EXCEPT ![s].status = "none"]
        /\ UNCHANGED <<venue, request, contractSize, known, setting>>
    BY <1>1, RefuseIs
  <1>3. PICK o, p : /\ o = [book[s] EXCEPT !.status = "none"]
                    /\ p = [place[s] EXCEPT !.pc = "returned", !.kind = "error",
                                            !.reported = 0, !.status = "new"]
    OBVIOUS
  <1>4. /\ o \in Orders /\ o.status = "none"
        /\ p \in Places /\ p.pc = "returned" /\ p.status = "new"
    <2>1. book[s] \in Orders /\ place[s] \in Places
      BY <1>1 DEF TypeOKAdapters
    <2>2. o \in Orders /\ o.status = "none"
      BY <1>3, <2>1 DEF Orders
    <2>3. p \in Places /\ p.pc = "returned" /\ p.status = "new"
      BY <1>3, <2>1 DEF Places, OrderStatuses
    <2> QED
      BY <2>2, <2>3
  <1>5. /\ book' = [book EXCEPT ![s] = o] /\ book'[s] = o
        /\ place' = [place EXCEPT ![s] = p] /\ place'[s] = p
    BY <1>1, <1>2, <1>3 DEF Return, TypeOKAdapters
  <1>6. SliceInv(s)'
    BY <1>4, <1>5 DEF SliceInv, Sent, Asked, Shows, Final, Querying, Accepted, Returned, Over
  <1> QED
    BY <1>2, <1>4, <1>5, <1>6, SliceStep

\* The reply to an order that was taken is an ack, or an error to the executor.
LEMMA AckIs ==
  ASSUME TypeOKAdapters, NEW s \in Slices, Ack(s)
  PROVE  /\ place[s].pc = "placing" /\ Accepted(s)
         /\ UNCHANGED <<venue, request, contractSize, book, setting>>
         /\ \/ /\ place' = [place EXCEPT ![s].pc = "acked"]
               /\ known' = known \/ known' = known \cup {s}
            \/ Return(s, "error", 0, "new") /\ known' = known
  <1>1. PICK ack \in AcceptedAs[venue] :
          IF ack.error = "ok" THEN /\ place' = [place EXCEPT ![s].pc = "acked"]
                                   /\ known' = IF ack.numbered THEN known \cup {s} ELSE known
                              ELSE Return(s, Kind(ack.error), 0, "new") /\ UNCHANGED known
    BY DEF Ack
  <1>2. AcceptedAs[venue] = {[error |-> A.place[r], numbered |-> r = OkReply] : r \in OkReplies}
    BY VenueInUse DEF AcceptedAs, A
  <1>3. ack.error # "ok" => Kind(ack.error) = "error"
    BY <1>1, <1>2, VenueInUse DEF AcceptIsError, Kind
  <1> QED
    BY <1>1, <1>3 DEF Ack

LEMMA AckStep ==
  ASSUME AdaptersInv, NEW s \in Slices, Ack(s)
  PROVE  AdaptersInv'
  <1>1. TypeOKAdapters /\ SliceInv(s)
    BY DEF AdaptersInv
  <1>2. /\ place[s].pc = "placing" /\ place[s].at = 1
        /\ UNCHANGED <<venue, request, contractSize, book, setting>>
    BY <1>1, AckIs DEF SliceInv, Asked
  <1>3. CASE /\ place' = [place EXCEPT ![s].pc = "acked"]
             /\ known' = known \/ known' = known \cup {s}
    <2>1. PICK p : p = [place[s] EXCEPT !.pc = "acked"]
      OBVIOUS
    <2>2. p \in Places /\ p.pc = "acked" /\ p.at = 1
      BY <1>1, <1>2, <2>1 DEF TypeOKAdapters, Places
    <2>3. /\ place' = [place EXCEPT ![s] = p] /\ place'[s] = p /\ book[s] \in Orders
          /\ book' = [book EXCEPT ![s] = book[s]] /\ book'[s] = book[s]
      BY <1>1, <1>2, <1>3, <2>1 DEF TypeOKAdapters
    <2>4. Sent(s)'
      BY <1>1, <1>2, <2>2, <2>3 DEF SliceInv, Sent, AsAsked, Mult
    <2>5. TypeOKAdapters'
      BY <1>1, <1>2, <1>3, <2>2, <2>3 DEF TypeOKAdapters, Mult
    <2>6. 1 \in (DOMAIN Sources(s))'
      <3>1. \/ (Len(Sources(s)) = 1 /\ DOMAIN Sources(s) = {1} /\ Sources(s)[1] = "any")'
            \/ (/\ Len(Sources(s)) = 2 /\ DOMAIN Sources(s) = {1, 2}
                /\ Sources(s)[1] = "open" /\ Sources(s)[2] = "finished")'
        BY <2>5, SourcesAre, PTL
      <3> QED
        BY <3>1
    <2>7. Asked(s)'
      BY <2>2, <2>3, <2>6 DEF Asked, Shows, Querying
    <2>8. Final(s)'
      BY <2>2, <2>3 DEF Final, Returned
    <2> QED
      BY <1>2, <1>3, <2>2, <2>3, <2>4, <2>7, <2>8, SliceStep DEF SliceInv
  <1>4. CASE Return(s, "error", 0, "new") /\ known' = known
    BY <1>2, <1>4, ReturnStep DEF OrderStatuses, Over
  <1> QED
    BY <1>1, <1>3, <1>4, AckIs

LEMMA NoAckStep ==
  ASSUME AdaptersInv, NEW s \in Slices, NoAck(s)
  PROVE  AdaptersInv'
  <1>1. TypeOKAdapters /\ SliceInv(s)
    BY DEF AdaptersInv
  <1>2. /\ place[s].pc = "placing" /\ place[s].at = 1 /\ s \notin known
        /\ Accepted(s) => venue \in Lossy
        /\ place' = [place EXCEPT ![s].pc = "unknown"]
        /\ UNCHANGED <<venue, request, contractSize, known, book, setting>>
    BY <1>1 DEF NoAck, SliceInv, Asked
  <1>3. PICK p : p = [place[s] EXCEPT !.pc = "unknown"]
    OBVIOUS
  <1>4. p \in Places /\ p.pc = "unknown" /\ p.at = 1
    BY <1>1, <1>2, <1>3 DEF TypeOKAdapters, Places
  <1>5. place' = [place EXCEPT ![s] = p] /\ place'[s] = p
    BY <1>1, <1>2, <1>3 DEF TypeOKAdapters
  <1>6. Sources(s)' = Sources(s) /\ 1 \in DOMAIN Sources(s)
    BY <1>1, <1>2, SourcesAre DEF Sources, A
  <1>7. Sent(s)' /\ Asked(s)' /\ Final(s)'
    BY <1>1, <1>2, <1>4, <1>5, <1>6
    DEF SliceInv, Sent, Asked, Shows, Final, Querying, Accepted, Returned, AsAsked, Mult
  <1> QED
    BY <1>2, <1>4, <1>5, <1>7, PlaceStep DEF SliceInv

LEMMA QueryFailsStep ==
  ASSUME AdaptersInv, NEW s \in Slices, QueryFails(s)
  PROVE  AdaptersInv'
  <1>1. PICK error \in Transport \cup RefusedQueryAs[venue] : Ends(s, error)
    BY DEF QueryFails
  <1>2. Querying(s) /\ UNCHANGED <<venue, request, contractSize, known, book, setting>>
    BY DEF QueryFails
  <1> QED
    BY <1>1, <1>2, EndsStep

\* What QueryFinds does to the answer of Place.
LEMMA FindsIs ==
  ASSUME TypeOKAdapters, NEW s \in Slices, QueryFinds(s)
  PROVE  /\ Querying(s) /\ Accepted(s)
         /\ UNCHANGED <<venue, request, contractSize, known, book, setting>>
         /\ \/ Ends(s, "other")
            \/ \E status \in OrderStatuses :
                 /\ status \in Over => ~book[s].live
                 /\ Return(s, "ok", FilledOf(venue, book[s].filled, contractSize), status)
  <1>1. Querying(s) /\ UNCHANGED <<venue, request, contractSize, known, book, setting>>
    BY DEF QueryFinds
  <1>2. PICK t \in Shown(s) :
          \/ TRUE \in RowsFail[venue] /\ Ends(s, "other")
          \/ \E status \in {Status(w) : w \in Words(t)} :
               Return(s, "ok", FilledOf(venue, book[t].filled, contractSize), status)
    BY DEF QueryFinds
  <1>3. t = s /\ Accepted(s)
    BY ShownIsOwn
  <1>4. CASE Ends(s, "other")
    BY <1>1, <1>3, <1>4
  <1>5. ASSUME NEW w \in Words(s),
               Return(s, "ok", FilledOf(venue, book[s].filled, contractSize), Status(w))
        PROVE  \E status \in OrderStatuses :
                 /\ status \in Over => ~book[s].live
                 /\ Return(s, "ok", FilledOf(venue, book[s].filled, contractSize), status)
    BY <1>5, StatusIs
  <1> QED
    BY <1>1, <1>2, <1>3, <1>4, <1>5

\* What QueryFinds reports is a number.
LEMMA ReportedIs ==
  ASSUME TypeOKAdapters, NEW s \in Slices
  PROVE  FilledOf(venue, book[s].filled, contractSize) \in Nat
  <1>1. book[s].filled \in Nat /\ venue \in AllVenues /\ contractSize \in {0, Mult}
    BY VenueInUse DEF TypeOKAdapters, Orders
  <1> QED
    BY <1>1, FilledIs

LEMMA QueryFindsStep ==
  ASSUME AdaptersInv, NEW s \in Slices, QueryFinds(s)
  PROVE  AdaptersInv'
  <1>1. TypeOKAdapters
    BY DEF AdaptersInv
  <1>2. Querying(s) /\ UNCHANGED <<venue, request, contractSize, known, book, setting>>
    BY DEF QueryFinds
  <1>3. FilledOf(venue, book[s].filled, contractSize) \in Nat
    BY <1>1, ReportedIs
  <1>4. CASE Ends(s, "other")
    BY <1>2, <1>4, EndsStep
  <1>5. ASSUME NEW status \in OrderStatuses, status \in Over => ~book[s].live,
               Return(s, "ok", FilledOf(venue, book[s].filled, contractSize), status)
        PROVE  AdaptersInv'
    BY <1>2, <1>3, <1>5, ReturnStep
  <1> QED
    BY <1>1, <1>4, <1>5, FindsIs

\* Where the venue shows an order for its id, the source of its state shows it.
LEMMA OwnIsShown ==
  ASSUME TypeOKAdapters, NEW s \in Slices, Accepted(s), Shows(s),
         Source(s) = "open" => book[s].live, Source(s) = "finished" => ~book[s].live
  PROVE  Shown(s) # {}
  <1>1. s \notin known => Text(s) = Id(s)
    BY VenueInUse DEF Shows, Text, Cut, IdLength
  <1>2. s \in Shown(s)
    BY <1>1 DEF Shown
  <1> QED
    BY <1>2

\* Where the query goes on, or ends: an order there but not shown is one that
\* the venue does not show for the id.
LEMMA NothingFound ==
  ASSUME AdaptersInv, NEW s \in Slices, QueryFindsNothing(s)
  PROVE  /\ Querying(s) /\ UNCHANGED <<venue, request, contractSize, known, book, setting>>
         /\ \/ /\ place[s].at = 1 /\ 2 \in DOMAIN Sources(s)
               /\ place' = [place EXCEPT ![s].at = 2]
               /\ Accepted(s) /\ Shows(s) => ~book[s].live
            \/ /\ Ends(s, "notFound")
               /\ Accepted(s) => ~Shows(s)
  <1>1. TypeOKAdapters /\ Asked(s)
    BY DEF AdaptersInv, SliceInv
  <1>2. /\ Querying(s) /\ Shown(s) = {}
        /\ UNCHANGED <<venue, request, contractSize, known, book, setting>>
        /\ IF place[s].at < Len(Sources(s)) THEN place' = [place EXCEPT ![s].at = @ + 1]
                                            ELSE Ends(s, "notFound")
    BY DEF QueryFindsNothing
  <1>3. place[s].at \in DOMAIN Sources(s) /\ place[s].at \in {1, 2}
    BY <1>1, <1>2 DEF Asked, TypeOKAdapters, Places
  <1>4. CASE Len(Sources(s)) = 1 /\ DOMAIN Sources(s) = {1} /\ Sources(s)[1] = "any"
    <2>1. place[s].at = 1 /\ Source(s) = "any"
      BY <1>3, <1>4 DEF Source
    <2>2. Ends(s, "notFound")
      BY <1>2, <1>4, <2>1
    <2>3. Accepted(s) => ~Shows(s)
      BY <1>1, <1>2, <2>1, OwnIsShown
    <2> QED
      BY <1>2, <2>2, <2>3
  <1>5. CASE /\ Len(Sources(s)) = 2 /\ DOMAIN Sources(s) = {1, 2}
             /\ Sources(s)[1] = "open" /\ Sources(s)[2] = "finished"
    <2>1. CASE place[s].at = 1
      <3>1. Source(s) = "open"
        BY <1>5, <2>1 DEF Source
      <3>2. Accepted(s) /\ Shows(s) => ~book[s].live
        BY <1>1, <1>2, <3>1, OwnIsShown
      <3>3. place' = [place EXCEPT ![s].at = 2]
        BY <1>2, <1>5, <2>1
      <3> QED
        BY <1>2, <1>5, <2>1, <3>2, <3>3
    <2>2. CASE place[s].at = 2
      <3>1. Source(s) = "finished"
        BY <1>5, <2>2 DEF Source
      <3>2. Accepted(s) => ~Shows(s)
        BY <1>1, <1>2, <2>2, <3>1, OwnIsShown DEF Asked
      <3>3. Ends(s, "notFound")
        BY <1>2, <1>5, <2>2
      <3> QED
        BY <1>2, <3>2, <3>3
    <2> QED
      BY <1>3, <2>1, <2>2
  <1> QED
    BY <1>1, <1>4, <1>5, SourcesAre

LEMMA QueryFindsNothingStep ==
  ASSUME AdaptersInv, NEW s \in Slices, QueryFindsNothing(s)
  PROVE  AdaptersInv'
  <1>1. TypeOKAdapters /\ SliceInv(s)
    BY DEF AdaptersInv
  <1>2. Querying(s) /\ UNCHANGED <<venue, request, contractSize, known, book, setting>>
    BY DEF QueryFindsNothing
  <1>3. CASE Ends(s, "notFound")
    BY <1>2, <1>3, EndsStep
  <1>4. CASE /\ place[s].at = 1 /\ 2 \in DOMAIN Sources(s)
             /\ place' = [place EXCEPT ![s].at = 2]
             /\ Accepted(s) /\ Shows(s) => ~book[s].live
    <2>1. PICK p : p = [place[s] EXCEPT !.at = 2]
      OBVIOUS
    <2>2. /\ p \in Places /\ p.pc = place[s].pc /\ p.at = 2
          /\ p.status = place[s].status
      BY <1>1, <2>1 DEF TypeOKAdapters, Places
    <2>3. place' = [place EXCEPT ![s] = p] /\ place'[s] = p
      BY <1>1, <1>4, <2>1 DEF TypeOKAdapters
    <2>4. Sources(s)' = Sources(s) /\ Mult' = Mult
      BY <1>2 DEF Sources, A, Mult
    <2>5. Sent(s)' /\ Final(s)'
      BY <1>1, <1>2, <2>2, <2>3, <2>4 DEF SliceInv, Sent, Final, AsAsked, Returned, Querying
    <2>6. Asked(s)'
      BY <1>1, <1>2, <1>4, <2>2, <2>3, <2>4 DEF SliceInv, Asked, Shows, Querying, Accepted
    <2>7. place[s].pc # "idle"
      BY <1>2 DEF Querying
    <2> QED
      BY <1>2, <2>2, <2>3, <2>5, <2>6, <2>7, PlaceStep DEF SliceInv
  <1> QED
    BY <1>3, <1>4, NothingFound

-------------------------------------------------------------------------------
LEMMA AdaptersStep == AdaptersInv /\ [NextAdapters]_adapterVars => AdaptersInv'
  <1> SUFFICES ASSUME AdaptersInv, [NextAdapters]_adapterVars PROVE AdaptersInv'
    OBVIOUS
  <1>1. CASE UNCHANGED adapterVars
    <2>1. SettingIsDone'
      BY <1>1 DEF AdaptersInv, SettingIsDone, adapterVars
    <2> QED
      BY <1>1, <2>1, SettingOnly DEF adapterVars
  <1>2. ASSUME NEW reads \in RowsRead[venue], RefreshInstruments(reads)
        PROVE  AdaptersInv'
    BY <1>2, RefreshStep
  <1>3. ASSUME NEW s \in Slices, Accept(s) \/ Fill(s) \/ Finish(s)
        PROVE  AdaptersInv'
    BY <1>3, AcceptStep, FillStep, FinishStep
  <1>4. ASSUME NEW s \in Slices, Place(s) \/ Refuse(s) \/ Ack(s) \/ NoAck(s)
        PROVE  AdaptersInv'
    BY <1>4, PlacingStep, RefuseStep, AckStep, NoAckStep
  <1>5. ASSUME NEW s \in Slices, QueryFails(s) \/ QueryFinds(s) \/ QueryFindsNothing(s)
        PROVE  AdaptersInv'
    BY <1>5, QueryFailsStep, QueryFindsStep, QueryFindsNothingStep
  <1>6. ASSUME NEW kind \in Kinds, Instruct(kind)
        PROVE  AdaptersInv'
    BY <1>6, InstructStep
  <1> QED
    BY <1>1, <1>2, <1>3, <1>4, <1>5, <1>6 DEF NextAdapters

(***************************************************************************)
(* The state of an order over an adapter stays in its types, and an order  *)
(* at the venue is one that was asked for, is looked for in an order that  *)
(* cannot miss it, and is not called over while it can fill (adapter.go of *)
(* each venue, PlaceOrder, GetOrder, parseOrderStatus).                    *)
(***************************************************************************)
THEOREM AdaptersCorrect == SpecAdapters => []AdaptersInv
  <1>1. InitAdapters => AdaptersInv
    BY AdaptersInit
  <1>2. AdaptersInv /\ [NextAdapters]_adapterVars => AdaptersInv'
    BY AdaptersStep
  <1> QED
    BY <1>1, <1>2, PTL DEF SpecAdapters

(***************************************************************************)
(* On every venue the order that is taken is the one the engine asked for, *)
(* but that at MEXC the side of one that only reduces is turned round,     *)
(* which the run adapters_mexc shows (domainSideToCode).                   *)
(***************************************************************************)
THEOREM OrderIsRequest == SpecAdapters => []OrderIsTheRequest
  <1>1. AdaptersInv => OrderIsTheRequest
    BY DEF AdaptersInv, SliceInv, Sent, AsAsked, OrderIsTheRequest, Accepted
  <1> QED
    BY <1>1, AdaptersCorrect, PTL

(***************************************************************************)
(* No word of any venue makes parseOrderStatus report the end of an order  *)
(* that can still fill.                                                    *)
(***************************************************************************)
THEOREM TerminalFinal == SpecAdapters => []TerminalIsFinal
  <1>1. AdaptersInv => TerminalIsFinal
    BY DEF AdaptersInv, SliceInv, Final, Over, TerminalIsFinal
  <1> QED
    BY <1>1, AdaptersCorrect, PTL

(***************************************************************************)
(* A setting or a transfer answered without an error was carried out, but  *)
(* for Bybit's refusals without a retCode (decodeEnvelope) and KuCoin's    *)
(* settings, which are never sent (SetLeverage).                           *)
(***************************************************************************)
THEOREM SettingDone == SpecAdapters => []SettingIsDone
  <1>1. AdaptersInv => SettingIsDone
    BY DEF AdaptersInv
  <1> QED
    BY <1>1, AdaptersCorrect, PTL

-------------------------------------------------------------------------------
(***************************************************************************)
(* Place returns by a step of its own, and only the last query answers     *)
(* that there is no such order.                                            *)
(***************************************************************************)
PlaceStepOf(s) ==
  \/ Place(s) \/ Refuse(s) \/ Ack(s) \/ NoAck(s)
  \/ QueryFails(s) \/ QueryFinds(s) \/ QueryFindsNothing(s)

LEMMA ReturnIs ==
  ASSUME TypeOKAdapters, NEW s \in Slices,
         NEW kind \in {"ok", "error", "ambiguous", "not_found"}, NEW reported \in Nat,
         NEW status \in OrderStatuses, Return(s, kind, reported, status)
  PROVE  /\ place'[s].kind = kind
         /\ \E p : /\ place' = [place EXCEPT ![s] = p]
                  /\ p.pc = "returned" /\ p.kind = kind /\ p.reported = reported
  <1>1. s \in DOMAIN place /\ place[s] \in Places
    BY DEF TypeOKAdapters
  <1>2. PICK p : p = [place[s] EXCEPT !.pc = "returned", !.kind = kind,
                                      !.reported = reported, !.status = status]
    OBVIOUS
  <1>3. p.pc = "returned" /\ p.kind = kind /\ p.reported = reported
    BY <1>1, <1>2 DEF Places
  <1>4. place' = [place EXCEPT ![s] = p] /\ place'[s] = p
    BY <1>1, <1>2 DEF Return
  <1> QED
    BY <1>3, <1>4

\* Whatever Place answers here is typed.
LEMMA EndsIs ==
  ASSUME TypeOKAdapters, NEW s \in Slices, NEW error, Ends(s, error)
  PROVE  \E p : /\ place' = [place EXCEPT ![s] = p] /\ place'[s].kind = p.kind
               /\ p.pc = "returned" /\ p.reported = 0
               /\ p.kind = IF place[s].pc = "acked" THEN "ok" ELSE Kind(error)
  <1>1. /\ Kind(error) \in {"ok", "error", "ambiguous", "not_found"}
        /\ "new" \in OrderStatuses /\ "acknowledged" \in OrderStatuses /\ 0 \in Nat
    BY DEF Kind, OrderStatuses
  <1>2. CASE place[s].pc = "acked"
    <2>1. Return(s, "ok", 0, "acknowledged")
      BY <1>2 DEF Ends
    <2> QED
      BY <1>1, <1>2, <2>1, ReturnIs
  <1>3. CASE place[s].pc # "acked"
    <2>1. Return(s, Kind(error), 0, "new")
      BY <1>3 DEF Ends
    <2> QED
      BY <1>1, <1>3, <2>1, ReturnIs
  <1> QED
    BY <1>2, <1>3

LEMMA OthersKept ==
  ASSUME NEW s \in Slices, NEW t \in Slices, s # t, TypeOKAdapters, PlaceStepOf(t)
  PROVE  place'[s] = place[s]
  <1>1. s \in DOMAIN place
    BY DEF TypeOKAdapters
  <1>2. /\ \A kind, reported, status : Return(t, kind, reported, status) => place'[s] = place[s]
        /\ \A error : Ends(t, error) => place'[s] = place[s]
    <2>1. \A kind, reported, status : Return(t, kind, reported, status) => place'[s] = place[s]
      BY <1>1 DEF Return
    <2> QED
      BY <2>1 DEF Ends
  <1>3. ASSUME NEW step, place' = [place EXCEPT ![t].pc = step]
        PROVE  place'[s] = place[s]
    BY <1>1, <1>3
  <1>4. Place(t) \/ Ack(t) \/ NoAck(t) => place'[s] = place[s]
    <2>1. CASE Place(t)
      BY <1>3, <2>1 DEF Place
    <2>2. CASE Ack(t)
      BY <1>2, <1>3, <2>2, AckIs
    <2>3. CASE NoAck(t)
      BY <1>3, <2>3 DEF NoAck
    <2> QED
      BY <2>1, <2>2, <2>3
  <1>5. Refuse(t) => place'[s] = place[s]
    BY <1>2, RefuseIs
  <1>6. ASSUME QueryFails(t)
        PROVE  place'[s] = place[s]
    <2>1. PICK error : Ends(t, error)
      BY <1>6 DEF QueryFails
    <2> QED
      BY <1>2, <2>1
  <1>7. QueryFinds(t) => place'[s] = place[s]
    BY <1>2, FindsIs
  <1>8. ASSUME QueryFindsNothing(t)
        PROVE  place'[s] = place[s]
    <2>1. CASE Ends(t, "notFound")
      BY <1>2, <2>1
    <2>2. CASE place' = [place EXCEPT ![t].at = @ + 1]
      BY <1>1, <2>2
    <2> QED
      BY <1>8, <2>1, <2>2 DEF QueryFindsNothing
  <1> QED
    BY <1>4, <1>5, <1>6, <1>7, <1>8 DEF PlaceStepOf

LEMMA ReturnsByItself ==
  ASSUME AdaptersInv, NextAdapters, NEW s \in Slices, place'[s] # place[s]
  PROVE  PlaceStepOf(s)
  <1>1. ASSUME NEW reads \in RowsRead[venue], RefreshInstruments(reads)
        PROVE  FALSE
    BY <1>1 DEF RefreshInstruments
  <1>2. ASSUME NEW t \in Slices, Accept(t) \/ Fill(t) \/ Finish(t)
        PROVE  FALSE
    BY <1>2 DEF Accept, Fill, Finish
  <1>3. ASSUME NEW kind \in Kinds, Instruct(kind)
        PROVE  FALSE
    BY <1>3 DEF Instruct
  <1>4. ASSUME NEW t \in Slices, PlaceStepOf(t)
        PROVE  PlaceStepOf(s)
    BY <1>4, OthersKept DEF AdaptersInv
  <1> QED
    BY <1>1, <1>2, <1>3, <1>4 DEF NextAdapters, PlaceStepOf

\* The last query, when no acknowledgement came, ends with "no such order" only
\* if the venue, Gate aside, has none.
LEMMA UnknownIsAbsent ==
  ASSUME AdaptersInv, "gate" \notin Lossy, NEW s \in Slices, place[s].pc = "unknown",
         Accepted(s) => ~Shows(s)
  PROVE  ~Accepted(s)
  BY DEF AdaptersInv, SliceInv, Asked, Shows

LEMMA QueryErrorIs ==
  ASSUME AdaptersInv, NEW error \in Transport \cup RefusedQueryAs[venue]
  PROVE  Kind(error) \in {"ambiguous", "error"}
  <1>1. error # "notFound"
    <2>1. CASE error \in Transport
      BY <2>1 DEF Transport
    <2>2. CASE error \in RefusedQueryAs[venue]
      <3>1. RefusedQueryAs[venue] = {A.found[r] : r \in Refusals(A)} \ {"ok"}
        BY VenueInUse DEF AdaptersInv, RefusedQueryAs, A
      <3>2. RefusalIsError(A)
        BY VenueInUse DEF AdaptersInv
      <3> QED
        BY <2>2, <3>1, <3>2 DEF RefusalIsError
    <2> QED
      BY <2>1, <2>2
  <1> QED
    BY <1>1 DEF Kind

LEMMA NotFoundStep ==
  ASSUME AdaptersInv, "gate" \notin Lossy, [NextAdapters]_adapterVars, NEW s \in Slices,
         ~Returned(s), place'[s].pc = "returned", place'[s].kind = "not_found"
  PROVE  ~Accepted(s)
  <1>1. TypeOKAdapters /\ s \in DOMAIN place /\ place[s] \in Places
    BY DEF AdaptersInv, TypeOKAdapters
  <1>2. place'[s] # place[s]
    BY DEF Returned
  <1>3. PlaceStepOf(s)
    BY <1>2, ReturnsByItself DEF adapterVars
  <1>4. ~Place(s) /\ ~NoAck(s)
    BY <1>1 DEF Place, NoAck, Places
  <1>5. ~Refuse(s) /\ ~Ack(s)
    <2>1. "new" \in OrderStatuses
      BY DEF OrderStatuses
    <2>2. ~(place' = [place EXCEPT ![s].pc = "acked"])
      BY <1>1 DEF Places
    <2> QED
      BY <1>1, <2>1, <2>2, RefuseIs, AckIs, ReturnIs
  <1>6. \A error : Ends(s, error) => /\ place[s].pc # "acked"
                                     /\ Kind(error) = "not_found"
    BY <1>1, EndsIs
  <1>7. ~QueryFails(s)
    BY <1>6, QueryErrorIs DEF QueryFails
  <1>8. ~QueryFinds(s)
    <2>1. ~Ends(s, "other")
      BY <1>6 DEF Kind, Transport
    <2>2. ASSUME NEW status \in OrderStatuses,
                 Return(s, "ok", FilledOf(venue, book[s].filled, contractSize), status)
          PROVE  FALSE
      BY <1>1, <2>2, ReturnIs, ReportedIs
    <2> QED
      BY <1>1, <2>1, <2>2, FindsIs
  <1>9. QueryFindsNothing(s)
    BY <1>3, <1>4, <1>5, <1>7, <1>8 DEF PlaceStepOf
  <1>10. CASE place' = [place EXCEPT ![s].at = 2]
    BY <1>1, <1>10 DEF Returned, Places
  <1>11. CASE /\ Ends(s, "notFound")
              /\ Accepted(s) => ~Shows(s)
    <2>1. place[s].pc = "unknown"
      BY <1>6, <1>9, <1>11 DEF QueryFindsNothing, Querying
    <2> QED
      BY <1>11, <2>1, UnknownIsAbsent
  <1> QED
    BY <1>9, <1>10, <1>11, NothingFound

(***************************************************************************)
(* On every venue but Gate, "no such order" is answered only when the      *)
(* venue has not taken the order; Gate must not lose a reply, which the    *)
(* run adapters_gate shows is needed (GetOrder; order_executor.go:130-134).*)
(***************************************************************************)
THEOREM NotFoundAbsent ==
  ASSUME "gate" \notin Lossy
  PROVE  SpecAdapters => NotFoundMeansAbsent
  <1>1. AdaptersInv /\ [NextAdapters]_adapterVars
        => [\A s \in Slices :
              ~Returned(s) /\ place'[s].pc = "returned" /\ place'[s].kind = "not_found"
              => ~Accepted(s)]_adapterVars
    BY NotFoundStep
  <1> QED
    BY <1>1, AdaptersCorrect, PTL DEF SpecAdapters, NotFoundMeansAbsent

-------------------------------------------------------------------------------
(***************************************************************************)
(* The refinement: what OrderExecutor sees of the order and of Place.      *)
(***************************************************************************)
OrderSeen(o) == [status |-> o.status, qty |-> o.wire.size, filled |-> o.filled]
AnswerSeen(p) == [pc |-> p.pc, kind |-> p.kind, reported |-> p.reported \div Mult]
OrdersSeen == [s \in Slices |-> OrderSeen(book[s])]
AnswersSeen == [s \in Slices |-> AnswerSeen(place[s])]
Unseen == UNCHANGED <<OrdersSeen, AnswersSeen>>

\* In contracts nothing rounds, with a multiplier that does not change.
LEMMA AnswersChange ==
  ASSUME TypeOKAdapters, NEW s \in Slices, venue' = venue,
         NEW p, place' = [place EXCEPT ![s] = p]
  PROVE  AnswersSeen' = [AnswersSeen EXCEPT ![s] = AnswerSeen(p)]
  <1>1. Mult' = Mult
    BY DEF Mult
  <1>2. place \in [Slices -> Places]
    BY DEF TypeOKAdapters
  <1>3. ASSUME NEW t \in Slices
        PROVE  AnswersSeen'[t] = [AnswersSeen EXCEPT ![s] = AnswerSeen(p)][t]
    <2>1. CASE t = s
      BY <1>1, <1>2, <2>1 DEF AnswersSeen, AnswerSeen
    <2>2. CASE t # s
      BY <1>1, <1>2, <2>2 DEF AnswersSeen, AnswerSeen
    <2> QED
      BY <2>1, <2>2
  <1> QED
    BY <1>3 DEF AnswersSeen

LEMMA OrdersChange ==
  ASSUME TypeOKAdapters, NEW s \in Slices,
         NEW o, book' = [book EXCEPT ![s] = o]
  PROVE  OrdersSeen' = [OrdersSeen EXCEPT ![s] = OrderSeen(o)]
  <1>1. book \in [Slices -> Orders]
    BY DEF TypeOKAdapters
  <1>2. ASSUME NEW t \in Slices
        PROVE  OrdersSeen'[t] = [OrdersSeen EXCEPT ![s] = OrderSeen(o)][t]
    <2>1. CASE t = s
      BY <1>1, <2>1 DEF OrdersSeen, OrderSeen
    <2>2. CASE t # s
      BY <1>1, <2>2 DEF OrdersSeen, OrderSeen
    <2> QED
      BY <2>1, <2>2
  <1> QED
    BY <1>2 DEF OrdersSeen

LEMMA KeptSeen ==
  /\ venue' = venue /\ place' = place => AnswersSeen' = AnswersSeen
  /\ book' = book => OrdersSeen' = OrdersSeen
  BY DEF AnswersSeen, AnswerSeen, OrdersSeen, OrderSeen, Mult

\* An answer without a fill.
LEMMA NothingReported == 0 \div Mult = 0
  <1>1. Mult \in Nat \ {0}
    BY MultIsPositive
  <1>2. (0 * Mult) \div Mult = 0 /\ 0 * Mult = 0
    BY <1>1, ContractsAndBack
  <1> QED
    BY <1>2

\* The fill the adapter reports, counted in contracts, is the order's.
LEMMA FillReported ==
  ASSUME AdaptersInv, Delistable \cap {"kucoin", "mexc"} = {},
         NEW s \in Slices, place[s].pc # "idle"
  PROVE  FilledOf(venue, book[s].filled, contractSize) \div Mult = book[s].filled
  <1>1. TypeOKAdapters /\ SizeIsKept
    BY DEF AdaptersInv
  <1>2. contractSize = Mult
    <2>1. venue \notin {"kucoin", "mexc"} \/ venue \notin Delistable
      OBVIOUS
    <2> QED
      BY <1>1, <2>1 DEF SizeIsKept
  <1>3. book[s].filled \in Nat /\ venue \in AllVenues /\ contractSize \in {0, Mult}
    BY <1>1, VenueInUse DEF TypeOKAdapters, Orders
  <1>4. FilledOf(venue, book[s].filled, contractSize) = book[s].filled * Mult
    BY <1>2, <1>3, FilledIs
  <1> QED
    BY <1>3, <1>4, MultIsPositive, ContractsAndBack

\* The steps of OrderExecutor over what it sees.
SeenStep(s) ==
  \/ \E qty \in 0 .. MaxQty : Abstract!Send(s, qty)
  \/ Abstract!Accept(s) \/ Abstract!Fill(s) \/ Abstract!PlaceSteps(s)

LEMMA PlaceSeen ==
  ASSUME AdaptersInv, NEW s \in Slices, Place(s)
  PROVE  SeenStep(s)
  <1>1. TypeOKAdapters /\ SizeIsKept /\ SliceInv(s)
    BY DEF AdaptersInv
  <1>2. PICK qty \in 0 .. MaxQty : qty = Wire.size
    BY PlaceWire DEF Wires
  <1>3. PICK o, p : /\ o = [book[s] EXCEPT !.status = "sent", !.wire = Wire]
                    /\ p = [place[s] EXCEPT !.pc = "placing"]
    OBVIOUS
  <1>4. place[s].pc = "idle" /\ book[s].filled = 0
    BY <1>1 DEF Place, SliceInv, Sent
  <1>5. book[s] \in Orders /\ place[s] \in Places
    BY <1>1 DEF TypeOKAdapters
  <1>6. OrderSeen(o) = [status |-> "sent", qty |-> qty, filled |-> 0]
    BY <1>2, <1>3, <1>4, <1>5 DEF OrderSeen, Orders
  <1>7. AnswerSeen(p) = [AnswersSeen[s] EXCEPT !.pc = "placing"]
    BY <1>3, <1>5 DEF AnswersSeen, AnswerSeen, Places
  <1>8. /\ book' = [book EXCEPT ![s] = o] /\ place' = [place EXCEPT ![s] = p]
        /\ venue' = venue
    BY <1>1, <1>3 DEF Place, TypeOKAdapters
  <1>9. /\ OrdersSeen' = [OrdersSeen EXCEPT ![s] = OrderSeen(o)]
        /\ AnswersSeen' = [AnswersSeen EXCEPT ![s] = AnswerSeen(p)]
    BY <1>1, <1>8, OrdersChange, AnswersChange
  <1>10. AnswersSeen[s].pc = "idle"
    BY <1>4 DEF AnswersSeen, AnswerSeen
  <1>11. Abstract!Send(s, qty)
    BY <1>6, <1>7, <1>9, <1>10
    DEF Abstract!Send, OrdersSeen, AnswersSeen, OrderSeen, AnswerSeen
  <1> QED
    BY <1>2, <1>11 DEF SeenStep

\* A step of the venue, and a step of Place after which only its answer differs.
LEMMA OrderChanged ==
  ASSUME AdaptersInv, NEW s \in Slices, UNCHANGED <<venue, place>>,
         NEW o \in Orders, book' = [book EXCEPT ![s] = o]
  PROVE  /\ OrdersSeen[s] = OrderSeen(book[s]) /\ AnswersSeen' = AnswersSeen
         /\ OrdersSeen' = [OrdersSeen EXCEPT ![s] = OrderSeen(o)]
  BY OrdersChange, KeptSeen DEF AdaptersInv, OrdersSeen

LEMMA AnswerChanged ==
  ASSUME AdaptersInv, NEW s \in Slices, UNCHANGED <<venue, book>>,
         NEW p, place' = [place EXCEPT ![s] = p]
  PROVE  /\ AnswersSeen[s] = AnswerSeen(place[s]) /\ OrdersSeen' = OrdersSeen
         /\ AnswersSeen' = [AnswersSeen EXCEPT ![s] = AnswerSeen(p)]
  BY AnswersChange, KeptSeen DEF AdaptersInv, AnswersSeen

LEMMA VenueSeen ==
  ASSUME AdaptersInv, NEW s \in Slices, Accept(s) \/ Fill(s) \/ Finish(s)
  PROVE  SeenStep(s) \/ Unseen
  <1>1. book[s] \in Orders /\ s \in DOMAIN book
    BY DEF AdaptersInv, TypeOKAdapters
  <1>2. UNCHANGED <<venue, place>>
    BY DEF Accept, Fill, Finish
  <1>3. CASE Accept(s)
    <2>1. PICK o : o = [book[s] EXCEPT !.status = "accepted"]
      OBVIOUS
    <2>2. o \in Orders /\ OrderSeen(o) = [OrderSeen(book[s]) EXCEPT !.status = "accepted"]
      BY <1>1, <2>1 DEF Orders, OrderSeen
    <2>3. book' = [book EXCEPT ![s] = o] /\ book[s].status = "sent"
      BY <1>1, <1>3, <2>1 DEF Accept
    <2>4. /\ AnswersSeen' = AnswersSeen /\ OrdersSeen[s].status = "sent"
          /\ OrdersSeen' = [OrdersSeen EXCEPT ![s] = [OrdersSeen[s] EXCEPT !.status = "accepted"]]
      <3>1. /\ OrdersSeen[s] = OrderSeen(book[s]) /\ AnswersSeen' = AnswersSeen
            /\ OrdersSeen' = [OrdersSeen EXCEPT ![s] = OrderSeen(o)]
        BY <1>2, <2>2, <2>3, OrderChanged
      <3>2. OrdersSeen[s].status = "sent"
        BY <2>3, <3>1 DEF OrderSeen
      <3>3. OrderSeen(o) = [OrdersSeen[s] EXCEPT !.status = "accepted"]
        BY <2>2, <3>1
      <3> QED
        BY <3>1, <3>2, <3>3
    <2>5. Abstract!Accept(s)
      BY <2>4 DEF Abstract!Accept, OrdersSeen, AnswersSeen, OrderSeen, AnswerSeen
    <2> QED
      BY <2>5 DEF SeenStep
  <1>4. CASE Fill(s)
    <2>1. PICK o : o = [book[s] EXCEPT !.filled = @ + 1]
      OBVIOUS
    <2>2. o \in Orders /\ OrderSeen(o) = [OrderSeen(book[s]) EXCEPT !.filled = @ + 1]
      BY <1>1, <2>1 DEF Orders, OrderSeen
    <2>3. /\ book' = [book EXCEPT ![s] = o] /\ book[s].status = "accepted"
          /\ book[s].filled < book[s].wire.size
      BY <1>1, <1>4, <2>1 DEF Fill, Accepted
    <2>4. /\ AnswersSeen' = AnswersSeen
          /\ OrdersSeen[s].status = "accepted" /\ OrdersSeen[s].filled < OrdersSeen[s].qty
          /\ OrdersSeen' = [OrdersSeen EXCEPT ![s] = [OrdersSeen[s] EXCEPT !.filled = @ + 1]]
      <3>1. /\ OrdersSeen[s] = OrderSeen(book[s]) /\ AnswersSeen' = AnswersSeen
            /\ OrdersSeen' = [OrdersSeen EXCEPT ![s] = OrderSeen(o)]
        BY <1>2, <2>2, <2>3, OrderChanged
      <3>2. OrdersSeen[s].status = "accepted" /\ OrdersSeen[s].filled < OrdersSeen[s].qty
        BY <2>3, <3>1 DEF OrderSeen
      <3>3. OrderSeen(o) = [OrdersSeen[s] EXCEPT !.filled = @ + 1]
        BY <2>2, <3>1
      <3> QED
        BY <3>1, <3>2, <3>3
    <2>5. Abstract!Fill(s)
      BY <2>4 DEF Abstract!Fill, OrdersSeen, AnswersSeen, OrderSeen, AnswerSeen
    <2> QED
      BY <2>5 DEF SeenStep
  <1>5. CASE Finish(s)
    <2>1. PICK o : o = [book[s] EXCEPT !.live = FALSE]
      OBVIOUS
    <2>2. o \in Orders /\ OrderSeen(o) = OrderSeen(book[s])
      BY <1>1, <2>1 DEF Orders, OrderSeen
    <2>3. book' = [book EXCEPT ![s] = o]
      BY <1>1, <1>5, <2>1 DEF Finish
    <2>4. AnswersSeen' = AnswersSeen /\ OrdersSeen' = [OrdersSeen EXCEPT ![s] = OrdersSeen[s]]
      BY <1>2, <2>2, <2>3, OrderChanged
    <2>5. OrdersSeen' = OrdersSeen
      BY <2>4 DEF OrdersSeen
    <2> QED
      BY <2>4, <2>5 DEF Unseen
  <1> QED
    BY <1>3, <1>4, <1>5

LEMMA RefuseSeen ==
  ASSUME AdaptersInv, NEW s \in Slices, Refuse(s)
  PROVE  SeenStep(s)
  <1>1. /\ TypeOKAdapters /\ "new" \in OrderStatuses
        /\ book[s] \in Orders /\ s \in DOMAIN book
    BY DEF AdaptersInv, TypeOKAdapters, OrderStatuses
  <1>2. /\ place[s].pc = "placing" /\ book[s].status = "sent"
        /\ Return(s, "error", 0, "new")
        /\ book' = [book EXCEPT ![s].status = "none"] /\ venue' = venue
    BY <1>1, RefuseIs
  <1>3. PICK o : o = [book[s] EXCEPT !.status = "none"]
    OBVIOUS
  <1>4. OrderSeen(o) = [OrderSeen(book[s]) EXCEPT !.status = "none"]
    BY <1>1, <1>3 DEF Orders, OrderSeen
  <1>5. book' = [book EXCEPT ![s] = o]
    BY <1>1, <1>2, <1>3
  <1>6. PICK p : /\ place' = [place EXCEPT ![s] = p]
                 /\ p.pc = "returned" /\ p.kind = "error" /\ p.reported = 0
    BY <1>1, <1>2, ReturnIs
  <1>7. AnswerSeen(p) = [pc |-> "returned", kind |-> "error", reported |-> 0]
    BY <1>6, NothingReported DEF AnswerSeen
  <1>8. /\ OrdersSeen' = [OrdersSeen EXCEPT ![s] = OrderSeen(o)]
        /\ AnswersSeen' = [AnswersSeen EXCEPT ![s] = AnswerSeen(p)]
    BY <1>1, <1>2, <1>5, <1>6, OrdersChange, AnswersChange
  <1>9. /\ OrdersSeen[s] = OrderSeen(book[s]) /\ OrdersSeen[s].status = "sent"
        /\ AnswersSeen[s].pc = "placing"
    BY <1>2 DEF OrdersSeen, AnswersSeen, OrderSeen, AnswerSeen
  <1>10. Abstract!Refuse(s)
    BY <1>4, <1>7, <1>8, <1>9
    DEF Abstract!Refuse, Abstract!Answer, OrdersSeen, AnswersSeen, OrderSeen, AnswerSeen
  <1> QED
    BY <1>10 DEF SeenStep, Abstract!PlaceSteps

LEMMA AckSeen ==
  ASSUME AdaptersInv, NEW s \in Slices, Ack(s) \/ NoAck(s)
  PROVE  SeenStep(s)
  <1>1. TypeOKAdapters
    BY DEF AdaptersInv
  <1>2. /\ place[s] \in Places /\ s \in DOMAIN place
        /\ place[s].pc = "placing" /\ UNCHANGED <<venue, book>>
    BY DEF AdaptersInv, TypeOKAdapters, Ack, NoAck
  <1>3. CASE Ack(s) /\ place' = [place EXCEPT ![s].pc = "acked"]
    <2>1. PICK p : p = [place[s] EXCEPT !.pc = "acked"]
      OBVIOUS
    <2>2. place' = [place EXCEPT ![s] = p] /\ book[s].status = "accepted"
      BY <1>2, <1>3, <2>1 DEF Ack, Accepted
    <2>3. AnswerSeen(p) = [AnswerSeen(place[s]) EXCEPT !.pc = "acked"]
      BY <1>2, <2>1 DEF AnswerSeen, Places
    <2>4. AnswersSeen[s].pc = "placing" /\ OrdersSeen[s].status = "accepted"
      BY <1>2, <2>2 DEF OrdersSeen, AnswersSeen, OrderSeen, AnswerSeen
    <2>5. /\ OrdersSeen' = OrdersSeen
          /\ AnswersSeen' = [AnswersSeen EXCEPT ![s] = [AnswersSeen[s] EXCEPT !.pc = "acked"]]
      <3>1. /\ AnswersSeen[s] = AnswerSeen(place[s]) /\ OrdersSeen' = OrdersSeen
            /\ AnswersSeen' = [AnswersSeen EXCEPT ![s] = AnswerSeen(p)]
        BY <1>2, <2>2, AnswerChanged
      <3> QED
        BY <2>3, <3>1
    <2>6. Abstract!Ack(s)
      BY <2>4, <2>5 DEF Abstract!Ack, OrdersSeen, AnswersSeen, OrderSeen, AnswerSeen
    <2> QED
      BY <2>6 DEF SeenStep, Abstract!PlaceSteps
  <1>4. CASE NoAck(s)
    <2>1. PICK p : p = [place[s] EXCEPT !.pc = "unknown"]
      OBVIOUS
    <2>2. place' = [place EXCEPT ![s] = p]
      BY <1>2, <1>4, <2>1 DEF NoAck
    <2>3. AnswerSeen(p) = [AnswerSeen(place[s]) EXCEPT !.pc = "unknown"]
      BY <1>2, <2>1 DEF AnswerSeen, Places
    <2>4. AnswersSeen[s].pc = "placing"
      BY <1>2, <2>2 DEF OrdersSeen, AnswersSeen, OrderSeen, AnswerSeen
    <2>5. /\ OrdersSeen' = OrdersSeen
          /\ AnswersSeen' = [AnswersSeen EXCEPT ![s] = [AnswersSeen[s] EXCEPT !.pc = "unknown"]]
      <3>1. /\ AnswersSeen[s] = AnswerSeen(place[s]) /\ OrdersSeen' = OrdersSeen
            /\ AnswersSeen' = [AnswersSeen EXCEPT ![s] = AnswerSeen(p)]
        BY <1>2, <2>2, AnswerChanged
      <3> QED
        BY <2>3, <3>1
    <2>6. Abstract!NoAck(s)
      BY <2>4, <2>5 DEF Abstract!NoAck, OrdersSeen, AnswersSeen, OrderSeen, AnswerSeen
    <2> QED
      BY <2>6 DEF SeenStep, Abstract!PlaceSteps
  <1>5. CASE Ack(s) /\ Return(s, "error", 0, "new")
    <2>1. PICK p : /\ place' = [place EXCEPT ![s] = p]
                   /\ p.pc = "returned" /\ p.kind = "error" /\ p.reported = 0
      BY <1>1, <1>2, <1>5, ReturnIs DEF OrderStatuses
    <2>2. AnswerSeen(p) = [pc |-> "returned", kind |-> "error", reported |-> 0]
      BY <2>1, NothingReported DEF AnswerSeen
    <2>3. /\ AnswersSeen' = [AnswersSeen EXCEPT ![s] = AnswerSeen(p)]
          /\ OrdersSeen' = OrdersSeen
      BY <1>2, <2>1, AnswerChanged
    <2>4. AnswersSeen[s].pc = "placing" /\ OrdersSeen[s].status = "accepted"
      BY <1>2, <1>5 DEF Ack, Accepted, OrdersSeen, AnswersSeen, OrderSeen, AnswerSeen
    <2>5. Abstract!AckUnreadable(s)
      BY <2>2, <2>3, <2>4
      DEF Abstract!AckUnreadable, Abstract!Answer, OrdersSeen, AnswersSeen, OrderSeen, AnswerSeen
    <2> QED
      BY <2>5 DEF SeenStep, Abstract!PlaceSteps
  <1> QED
    BY <1>1, <1>3, <1>4, <1>5, AckIs

\* Place returns without a fill, after an ack or as the error says.
LEMMA EndsSeen ==
  ASSUME AdaptersInv, NEW s \in Slices, Querying(s), UNCHANGED <<venue, book>>,
         NEW error, Ends(s, error),
         place[s].pc = "unknown" /\ Kind(error) = "not_found" => ~Accepted(s)
  PROVE  SeenStep(s)
  <1>1. TypeOKAdapters /\ Kind(error) \in {"ambiguous", "not_found", "error"}
    BY DEF AdaptersInv, Kind
  <1>2. PICK p : /\ place' = [place EXCEPT ![s] = p]
                 /\ p.pc = "returned" /\ p.reported = 0
                 /\ p.kind = IF place[s].pc = "acked" THEN "ok" ELSE Kind(error)
    BY <1>1, EndsIs
  <1>3. AnswerSeen(p) = [pc |-> "returned", kind |-> p.kind, reported |-> 0]
    BY <1>2, NothingReported DEF AnswerSeen
  <1>4. /\ AnswersSeen' =
             [AnswersSeen EXCEPT ![s] = [pc |-> "returned", kind |-> p.kind, reported |-> 0]]
        /\ OrdersSeen' = OrdersSeen
    <2>1. /\ AnswersSeen' = [AnswersSeen EXCEPT ![s] = AnswerSeen(p)]
          /\ OrdersSeen' = OrdersSeen
      BY <1>2, AnswerChanged
    <2> QED
      BY <1>3, <2>1
  <1>5. /\ AnswersSeen[s].pc = place[s].pc /\ OrdersSeen[s].status = book[s].status
    BY DEF AnswersSeen, AnswerSeen, OrdersSeen, OrderSeen
  <1>6. CASE place[s].pc = "acked"
    <2>1. Abstract!QueryAfterAckFails(s)
      BY <1>2, <1>4, <1>5, <1>6
      DEF Abstract!QueryAfterAckFails, Abstract!Answer, OrdersSeen, AnswersSeen, OrderSeen, AnswerSeen
    <2> QED
      BY <2>1 DEF SeenStep, Abstract!PlaceSteps
  <1>7. CASE place[s].pc = "unknown" /\ Kind(error) = "ambiguous"
    <2>1. Abstract!QueryTimesOut(s)
      BY <1>2, <1>4, <1>5, <1>7
      DEF Abstract!QueryTimesOut, Abstract!Answer, OrdersSeen, AnswersSeen, OrderSeen, AnswerSeen
    <2> QED
      BY <2>1 DEF SeenStep, Abstract!PlaceSteps
  <1>8. CASE place[s].pc = "unknown" /\ Kind(error) = "error"
    <2>1. Abstract!QueryFails(s)
      BY <1>2, <1>4, <1>5, <1>8
      DEF Abstract!QueryFails, Abstract!Answer, OrdersSeen, AnswersSeen, OrderSeen, AnswerSeen
    <2> QED
      BY <2>1 DEF SeenStep, Abstract!PlaceSteps
  <1>9. CASE place[s].pc = "unknown" /\ Kind(error) = "not_found"
    <2>1. OrdersSeen[s].status # "accepted"
      BY <1>5, <1>9 DEF Accepted
    <2>2. Abstract!QueryFindsNothing(s)
      BY <1>2, <1>4, <1>5, <1>9, <2>1
      DEF Abstract!QueryFindsNothing, Abstract!Answer, OrdersSeen, AnswersSeen, OrderSeen, AnswerSeen
    <2> QED
      BY <2>2 DEF SeenStep, Abstract!PlaceSteps
  <1> QED
    BY <1>1, <1>6, <1>7, <1>8, <1>9 DEF Querying

LEMMA QueryFailsSeen ==
  ASSUME AdaptersInv, NEW s \in Slices, QueryFails(s)
  PROVE  SeenStep(s)
  <1>1. PICK error \in Transport \cup RefusedQueryAs[venue] : Ends(s, error)
    BY DEF QueryFails
  <1>2. Querying(s) /\ UNCHANGED <<venue, book>>
    BY DEF QueryFails
  <1>3. Kind(error) # "not_found"
    BY QueryErrorIs
  <1> QED
    BY <1>1, <1>2, <1>3, EndsSeen

LEMMA QueryFindsSeen ==
  ASSUME AdaptersInv, Delistable \cap {"kucoin", "mexc"} = {}, NEW s \in Slices, QueryFinds(s)
  PROVE  SeenStep(s)
  <1>1. TypeOKAdapters /\ Querying(s) /\ Accepted(s) /\ UNCHANGED <<venue, book>>
    BY FindsIs DEF AdaptersInv
  <1>2. CASE Ends(s, "other")
    <2>1. Kind("other") = "error"
      BY DEF Kind, Transport
    <2> QED
      BY <1>1, <1>2, <2>1, EndsSeen
  <1>3. ASSUME NEW status \in OrderStatuses,
               Return(s, "ok", FilledOf(venue, book[s].filled, contractSize), status)
        PROVE  SeenStep(s)
    <2>1. PICK n \in Nat : n = FilledOf(venue, book[s].filled, contractSize)
      BY <1>1, ReportedIs
    <2>2. Return(s, "ok", n, status)
      BY <1>3, <2>1
    <2>3. PICK p : /\ place' = [place EXCEPT ![s] = p]
                   /\ p.pc = "returned" /\ p.kind = "ok" /\ p.reported = n
      BY <1>1, <2>2, ReturnIs
    <2>4. n \div Mult = book[s].filled
      BY <1>1, <2>1, FillReported DEF Querying
    <2>5. AnswerSeen(p) = [pc |-> "returned", kind |-> "ok", reported |-> book[s].filled]
      BY <2>3, <2>4 DEF AnswerSeen
    <2>6. /\ OrdersSeen' = OrdersSeen
          /\ AnswersSeen' = [AnswersSeen EXCEPT ![s] = AnswerSeen(p)]
      BY <1>1, <2>3, AnswerChanged
    <2>7. /\ AnswersSeen[s].pc = place[s].pc /\ OrdersSeen[s].filled = book[s].filled
          /\ OrdersSeen[s].status = "accepted"
      BY <1>1 DEF AnswersSeen, AnswerSeen, OrdersSeen, OrderSeen, Accepted
    <2>8. AnswersSeen' = [AnswersSeen EXCEPT ![s] = [pc |-> "returned", kind |-> "ok",
                                                     reported |-> OrdersSeen[s].filled]]
      BY <2>5, <2>6, <2>7
    <2>9. CASE place[s].pc = "acked"
      <3>1. Abstract!QueryAfterAck(s)
        BY <2>6, <2>7, <2>8, <2>9
        DEF Abstract!QueryAfterAck, Abstract!Answer, OrdersSeen, AnswersSeen, OrderSeen, AnswerSeen
      <3> QED
        BY <3>1 DEF SeenStep, Abstract!PlaceSteps
    <2>10. CASE place[s].pc = "unknown"
      <3>1. Abstract!QueryFinds(s)
        BY <2>6, <2>7, <2>8, <2>10
        DEF Abstract!QueryFinds, Abstract!Answer, OrdersSeen, AnswersSeen, OrderSeen, AnswerSeen
      <3> QED
        BY <3>1 DEF SeenStep, Abstract!PlaceSteps
    <2> QED
      BY <1>1, <2>9, <2>10 DEF Querying
  <1> QED
    BY <1>1, <1>2, <1>3, FindsIs

LEMMA QueryFindsNothingSeen ==
  ASSUME AdaptersInv, "gate" \notin Lossy, NEW s \in Slices, QueryFindsNothing(s)
  PROVE  SeenStep(s) \/ Unseen
  <1>1. Querying(s) /\ UNCHANGED <<venue, book>>
    BY DEF QueryFindsNothing
  <1>2. CASE place' = [place EXCEPT ![s].at = 2]
    <2>1. place[s] \in Places /\ s \in DOMAIN place
      BY DEF AdaptersInv, TypeOKAdapters
    <2>2. PICK p : p = [place[s] EXCEPT !.at = 2]
      OBVIOUS
    <2>3. place' = [place EXCEPT ![s] = p] /\ AnswerSeen(p) = AnswerSeen(place[s])
      BY <1>2, <2>1, <2>2 DEF AnswerSeen, Places
    <2>4. /\ OrdersSeen' = OrdersSeen
          /\ AnswersSeen' = [AnswersSeen EXCEPT ![s] = AnswersSeen[s]]
      BY <1>1, <2>3, AnswerChanged
    <2>5. AnswersSeen' = AnswersSeen
      BY <2>4 DEF AnswersSeen
    <2> QED
      BY <2>4, <2>5 DEF Unseen
  <1>3. CASE /\ Ends(s, "notFound")
             /\ Accepted(s) => ~Shows(s)
    <2>1. place[s].pc = "unknown" => ~Accepted(s)
      BY <1>3, UnknownIsAbsent
    <2> QED
      BY <1>1, <1>3, <2>1, EndsSeen
  <1> QED
    BY <1>2, <1>3, NothingFound

LEMMA QuietStep ==
  ASSUME UNCHANGED <<venue, book, place>>
  PROVE  Unseen
  BY KeptSeen DEF Unseen

LEMMA AdaptersSeen ==
  ASSUME AdaptersInv, [NextAdapters]_adapterVars,
         "gate" \notin Lossy, Delistable \cap {"kucoin", "mexc"} = {}
  PROVE  (\E s \in Slices : SeenStep(s)) \/ Unseen
  <1>1. CASE UNCHANGED adapterVars
    BY <1>1, QuietStep DEF adapterVars
  <1>2. ASSUME NEW reads \in RowsRead[venue], RefreshInstruments(reads)
        PROVE  Unseen
    BY <1>2, QuietStep DEF RefreshInstruments
  <1>3. ASSUME NEW kind \in Kinds, Instruct(kind)
        PROVE  Unseen
    BY <1>3, QuietStep DEF Instruct
  <1>4. ASSUME NEW s \in Slices, Accept(s) \/ Fill(s) \/ Finish(s)
        PROVE  SeenStep(s) \/ Unseen
    BY <1>4, VenueSeen
  <1>5. ASSUME NEW s \in Slices, PlaceStepOf(s)
        PROVE  SeenStep(s) \/ Unseen
    BY <1>5, PlaceSeen, RefuseSeen, AckSeen, QueryFailsSeen, QueryFindsSeen,
       QueryFindsNothingSeen DEF PlaceStepOf
  <1> QED
    BY <1>1, <1>2, <1>3, <1>4, <1>5 DEF NextAdapters, PlaceStepOf

LEMMA InitSeen == InitAdapters => Abstract!InitExec
  <1> SUFFICES ASSUME InitAdapters PROVE Abstract!InitExec
    OBVIOUS
  <1>1. NoWire.size = 0
    BY DEF NoWire, WireOf, Of, BinanceModule!Wire
  <1>2. OrdersSeen = [s \in Slices |-> Abstract!NoOrder]
    BY <1>1 DEF InitAdapters, OrdersSeen, OrderSeen, Abstract!NoOrder
  <1>3. AnswersSeen = [s \in Slices |-> Abstract!NotPlaced]
    BY NothingReported DEF InitAdapters, AnswersSeen, AnswerSeen, NotPlaced, Abstract!NotPlaced
  <1> QED
    BY <1>2, <1>3 DEF Abstract!InitExec, OrdersSeen, AnswersSeen, OrderSeen, AnswerSeen

(***************************************************************************)
(* Place over the adapter of any venue makes the steps of Place over the   *)
(* abstract exchange and no others, counted in contracts: the fill it      *)
(* reports is the order's, and what it could not find out stays unknown    *)
(* (order_executor.go, GetOrder and parseOrder of each adapter).  Gate     *)
(* must not lose a reply (see NotFoundAbsent), and KuCoin and MEXC must    *)
(* keep the instrument listed: both read a fill with the contract size of  *)
(* the last round of instruments and take 0 or 1 for one that is not in it.*)
(***************************************************************************)
THEOREM AdaptersRefine ==
  ASSUME "gate" \notin Lossy, Delistable \cap {"kucoin", "mexc"} = {}
  PROVE  SpecAdapters => ImplementsOrderExecutor
  <1>1. InitAdapters => Abstract!InitExec
    BY InitSeen
  <1>2. AdaptersInv /\ [NextAdapters]_adapterVars
        => [\E s \in Slices : \/ \E qty \in 0 .. MaxQty : Abstract!Send(s, qty)
                              \/ Abstract!Accept(s) \/ Abstract!Fill(s) \/ Abstract!PlaceSteps(s)]_Abstract!execVars
    BY AdaptersSeen
    DEF SeenStep, Unseen, OrdersSeen, AnswersSeen, OrderSeen, AnswerSeen, Abstract!execVars
  <1> QED
    BY <1>1, <1>2, AdaptersCorrect, PTL DEF SpecAdapters, ImplementsOrderExecutor

-------------------------------------------------------------------------------
(***************************************************************************)
(* The market loop and the engine's search.                                *)
(***************************************************************************)
Instruments == [status : {"active", "halted", "none"}, interval : Nat]
Snapshots == [there : BOOLEAN, age : Nat, read : Nat, rate : Int, next : Nat, late : BOOLEAN,
              lacks : {"nothing", "price", "time", "liquidity"}]
TermsOf == [rate : Int, told : Int, interval : Nat \ {0}, read : Nat]
Rounds(venues) ==
  [pc : {"idle", "venue", "funding", "ticker", "book"}, left : SUBSET venues,
   venue : venues \cup {"none"}, listed : [venues -> Instruments], snap : Snapshots]

TypeOKMarket ==
  /\ terms \in Offers
  /\ market \in [pair -> Nat \ {0}]
  /\ \A v \in pair : market[v] <= terms[v].interval
  /\ cache \in [pair -> Snapshots]
  /\ round \in Rounds(pair)
  /\ round.pc \in {"funding", "ticker", "book"} => round.venue \in pair

(***************************************************************************)
(* What a snapshot that may lead to an entry says: the rate the adapter    *)
(* takes for the venue's, its next event as long as that is ahead, unless  *)
(* the reply had the time of a later one only, and all of it read no       *)
(* longer ago than the age and the time of three requests.                 *)
(***************************************************************************)
Truthful(snap, t, next) ==
  /\ Dated(snap) => /\ snap.rate = t.told
                    /\ snap.read <= snap.age + Slow
                    /\ snap.next > 0 /\ ~snap.late => snap.next = next
  /\ ~ Dated(snap) => snap.next = 0

SnapshotsAreTrue ==
  /\ \A v \in pair : Truthful(cache[v], terms[v], market[v])
  /\ round.pc \in {"ticker", "book"} => /\ Truthful(round.snap, terms[round.venue], market[round.venue])
                                        /\ round.snap.age = 0
  /\ round.pc \notin {"ticker", "book"} => round.snap = NoSnapshot

MarketInv == TypeOKMarket /\ SnapshotsAreTrue

-------------------------------------------------------------------------------
LEMMA PairIsOfVenues ==
  ASSUME terms \in Offers
  PROVE  pair \subseteq AllVenues /\ \A v \in pair : terms[v] \in TermsOf
  BY OffersAssumption DEF pair, TermsOf

LEMMA NoSnapshotType == NoSnapshot \in Snapshots /\ ~ Dated(NoSnapshot) /\ NoSnapshot.next = 0
  BY DEF NoSnapshot, Snapshots, Dated

LEMMA UselessType ==
  ASSUME NEW lack \in {"time", "liquidity"}
  PROVE  /\ Useless(lack) \in Snapshots /\ ~ Dated(Useless(lack))
         /\ Useless(lack).next = 0 /\ Useless(lack).age = 0
  BY DEF Useless, Snapshots, Dated

(* What the tables of the adapters may answer. *)
LEMMA LackingsAre ==
  ASSUME NEW v \in AllVenues
  PROVE  /\ TickerRead[v] \subseteq {"nothing", "price", "liquidity"}
         /\ BookRead[v] \subseteq {"nothing", "liquidity"}
  <1>1. TickerRead[v] \subseteq {"nothing", "price", "liquidity"}
    BY DEF TickerRead
  <1>2. BookRead[v] \subseteq {"nothing", "liquidity"}
    BY DEF BookRead
  <1> QED
    BY <1>1, <1>2

LEMMA InstrumentsAre ==
  ASSUME NEW v \in AllVenues
  PROVE  InstrumentsRead[v] \subseteq {"active", "halted", "none"}
  BY DEF InstrumentsRead

LEMMA NoInstrumentType == NoInstrument \in Instruments
  BY DEF NoInstrument, Instruments

-------------------------------------------------------------------------------
LEMMA MarketInit == Init => MarketInv
  <1> SUFFICES ASSUME Init PROVE MarketInv
    OBVIOUS
  <1>1. /\ terms \in Offers /\ market \in [pair -> Nat \ {0}]
        /\ \A v \in pair : market[v] <= terms[v].interval
    <2>1. terms \in Offers
      BY DEF Init
    <2>2. \A v \in pair : terms[v].interval \in Nat
      BY <2>1, PairIsOfVenues DEF TermsOf
    <2>3. /\ market \in [pair -> UNION {1 .. terms[v].interval : v \in pair}]
          /\ \A v \in pair : market[v] <= terms[v].interval
      BY DEF Init
    <2>4. UNION {1 .. terms[v].interval : v \in pair} \subseteq Nat \ {0}
      BY <2>2
    <2> QED
      BY <2>1, <2>3, <2>4
  <1>2. cache \in [pair -> Snapshots] /\ \A v \in pair : cache[v] = NoSnapshot
    BY NoSnapshotType DEF Init
  <1>3. round \in Rounds(pair) /\ round.pc = "idle" /\ round.snap = NoSnapshot
    BY NoSnapshotType, NoInstrumentType DEF Init, AtRest, NoInstruments, Rounds
  <1> QED
    BY <1>1, <1>2, <1>3, NoSnapshotType DEF MarketInv, TypeOKMarket, SnapshotsAreTrue, Truthful

-------------------------------------------------------------------------------
(* The market loop. *)

LEMMA StartRound ==
  ASSUME MarketInv, BeginRound \/ Replace
  PROVE  MarketInv'
  <1>1. UNCHANGED <<terms, market, cache>> /\ round.snap = NoSnapshot
    BY DEF BeginRound, Replace, MarketInv, SnapshotsAreTrue
  <1>2. round' = AtRest \/ round' = [AtRest EXCEPT !.pc = "venue", !.left = pair]
    BY DEF BeginRound, Replace
  <1>3. round' \in Rounds(pair) /\ round'.pc \in {"idle", "venue"} /\ round'.snap = NoSnapshot
    <2>1. /\ AtRest \in Rounds(pair) /\ AtRest.pc = "idle" /\ AtRest.snap = NoSnapshot
      BY NoSnapshotType, NoInstrumentType DEF AtRest, NoInstruments, Rounds
    <2>2. CASE round' = AtRest
      BY <2>1, <2>2
    <2>3. CASE round' = [AtRest EXCEPT !.pc = "venue", !.left = pair]
      BY <2>1, <2>3 DEF Rounds
    <2> QED
      BY <1>2, <2>2, <2>3
  <1> QED
    BY <1>1, <1>3 DEF MarketInv, TypeOKMarket, SnapshotsAreTrue, Truthful, Dated, pair

LEMMA InstrumentsStep ==
  ASSUME MarketInv, NEW v \in pair, GetInstruments(v)
  PROVE  MarketInv'
  <1>1. PICK status \in InstrumentsRead[v] \cup {"none"} :
          round' = [round EXCEPT !.left = @ \ {v}, !.venue = v,
                      !.listed[v] = IF status = "none" THEN NoInstrument
                                    ELSE [status |-> status, interval |-> terms[v].read],
                      !.pc = IF status = "none" THEN "venue" ELSE "funding"]
    BY Zenon DEF GetInstruments
  <1> DEFINE listed == IF status = "none" THEN NoInstrument
                       ELSE [status |-> status, interval |-> terms[v].read]
  <1>2. listed \in Instruments
    <2>1. status \in {"active", "halted", "none"} /\ terms[v].read \in Nat
      BY PairIsOfVenues, InstrumentsAre DEF MarketInv, TypeOKMarket, TermsOf
    <2> QED
      BY <2>1, NoInstrumentType DEF Instruments
  <1>3. round \in Rounds(pair) /\ round.pc = "venue" /\ round.snap = NoSnapshot
    BY DEF GetInstruments, MarketInv, TypeOKMarket, SnapshotsAreTrue
  <1>4. /\ round' \in Rounds(pair) /\ round'.pc \in {"venue", "funding"}
        /\ round'.venue = v /\ round'.snap = NoSnapshot
    BY <1>1, <1>2, <1>3 DEF Rounds
  <1>5. UNCHANGED <<terms, market, cache>>
    BY DEF GetInstruments
  <1> QED
    BY <1>4, <1>5 DEF MarketInv, TypeOKMarket, SnapshotsAreTrue, Truthful, Dated, pair

LEMMA FundingStep ==
  ASSUME MarketInv, GetFunding
  PROVE  MarketInv'
  <1> DEFINE v == round.venue
             t == terms[v]
             n == market[v]
  <1>1. PICK snap : /\ snap \in {Told(t.told, n, FALSE), Useless("time"), Told(t.told, n + t.interval, TRUE)}
                    /\ round' = [round EXCEPT !.pc = "ticker", !.snap = snap]
    <2>1. PICK read \in FundingRead[v] :
            \E snap \in SnapshotsTold(v, read) : round' = [round EXCEPT !.pc = "ticker", !.snap = snap]
      BY Zenon DEF GetFunding
    <2>2. SnapshotsTold(v, read)
            \subseteq {Told(t.told, n, FALSE), Useless("time"), Told(t.told, n + t.interval, TRUE)}
      BY DEF SnapshotsTold
    <2> QED
      BY <2>1, <2>2, Zenon
  <1>2. round \in Rounds(pair) /\ v \in pair /\ t \in TermsOf /\ n \in Nat \ {0}
    BY PairIsOfVenues DEF GetFunding, MarketInv, TypeOKMarket
  <1>3. snap \in Snapshots /\ Truthful(snap, t, n) /\ snap.age = 0
    <2>1. t.told \in Int /\ n + t.interval \in Nat /\ n \in Nat /\ Slow \in Nat
      BY <1>2, TimesAssumption DEF TermsOf
    <2>2. CASE snap = Told(t.told, n, FALSE)
      <3> HIDE DEF t, n
      <3> QED
        BY <2>1, <2>2 DEF Told, Snapshots, Truthful, Dated
    <2>3. CASE snap = Told(t.told, n + t.interval, TRUE)
      <3> HIDE DEF t, n
      <3> QED
        BY <2>1, <2>3 DEF Told, Snapshots, Truthful, Dated
    <2>4. CASE snap = Useless("time")
      BY <2>4, UselessType DEF Truthful
    <2> QED
      BY <1>1, <2>2, <2>3, <2>4
  <1>5. /\ round' \in Rounds(pair) /\ round'.pc = "ticker" /\ round'.venue = v
        /\ Truthful(round'.snap, t, n) /\ round'.snap.age = 0
    BY <1>1, <1>2, <1>3 DEF Rounds
  <1>6. UNCHANGED <<terms, market, cache>>
    BY DEF GetFunding
  <1> QED
    BY <1>2, <1>5, <1>6 DEF MarketInv, TypeOKMarket, SnapshotsAreTrue, Truthful, Dated, pair

(* What the ticker and the book leave of a snapshot. *)
LEMMA LackingType ==
  ASSUME MarketInv, round.pc \in {"ticker", "book"},
         NEW lack \in {"nothing", "price", "liquidity"}, Lacks(lack)
  PROVE  /\ Lacking(lack) \in Snapshots
         /\ Truthful(Lacking(lack), terms[round.venue], market[round.venue])
         /\ Lacking(lack).age = 0
  <1>1. round.snap \in Snapshots /\ Truthful(round.snap, terms[round.venue], market[round.venue]) /\ round.snap.age = 0
    BY DEF MarketInv, TypeOKMarket, SnapshotsAreTrue, Rounds
  <1>2. CASE lack = "nothing"
    BY <1>1, <1>2 DEF Lacking
  <1>3. CASE lack = "price"
    <2>1. Lacking(lack) = [round.snap EXCEPT !.lacks = "price"] /\ round.snap.lacks = "nothing"
      BY <1>3 DEF Lacking, Lacks
    <2> QED
      BY <1>1, <2>1 DEF Truthful, Dated, Snapshots
  <1>4. CASE lack = "liquidity"
    BY <1>4, UselessType DEF Lacking, Truthful
  <1> QED
    BY <1>2, <1>3, <1>4

LEMMA TickerStep ==
  ASSUME MarketInv, GetTicker
  PROVE  MarketInv'
  <1>1. round \in Rounds(pair) /\ round.pc = "ticker" /\ round.venue \in pair /\ pair \subseteq AllVenues
    BY PairIsOfVenues DEF GetTicker, MarketInv, TypeOKMarket
  <1>2. PICK lack \in TickerRead[round.venue] :
          Lacks(lack) /\ round' = [round EXCEPT !.pc = "book", !.snap = Lacking(lack)]
    BY Zenon DEF GetTicker
  <1>3. lack \in {"nothing", "price", "liquidity"}
    BY <1>1, LackingsAre
  <1>4. /\ Lacking(lack) \in Snapshots /\ Lacking(lack).age = 0
        /\ Truthful(Lacking(lack), terms[round.venue], market[round.venue])
    BY <1>1, <1>2, <1>3, LackingType
  <1>5. /\ round' \in Rounds(pair) /\ round'.pc = "book" /\ round'.venue = round.venue
        /\ round'.snap = Lacking(lack)
    BY <1>1, <1>2, <1>4 DEF Rounds
  <1>6. UNCHANGED <<terms, market, cache>>
    BY DEF GetTicker
  <1> QED
    BY <1>1, <1>4, <1>5, <1>6 DEF MarketInv, TypeOKMarket, SnapshotsAreTrue, Truthful, Dated, pair

LEMMA BookStep ==
  ASSUME MarketInv, GetOrderBook
  PROVE  MarketInv'
  <1>1. round \in Rounds(pair) /\ round.pc = "book" /\ round.venue \in pair /\ pair \subseteq AllVenues
    BY PairIsOfVenues DEF GetOrderBook, MarketInv, TypeOKMarket
  <1>2. PICK lack \in BookRead[round.venue] :
          Lacks(lack) /\ cache' = [cache EXCEPT ![round.venue] = Lacking(lack)]
    BY DEF GetOrderBook
  <1>3. lack \in {"nothing", "price", "liquidity"}
    BY <1>1, LackingsAre
  <1>4. Lacking(lack) \in Snapshots /\ Truthful(Lacking(lack), terms[round.venue], market[round.venue])
    BY <1>1, <1>2, <1>3, LackingType
  <1>5. round' \in Rounds(pair) /\ round'.pc = "venue" /\ round'.snap = NoSnapshot
    BY <1>1, NoSnapshotType DEF GetOrderBook, Rounds
  <1>6. cache \in [pair -> Snapshots] /\ \A v \in pair : Truthful(cache[v], terms[v], market[v])
    BY DEF MarketInv, TypeOKMarket, SnapshotsAreTrue
  <1>7. cache' \in [pair -> Snapshots] /\ \A v \in pair : Truthful(cache'[v], terms[v], market[v])
    BY <1>1, <1>2, <1>4, <1>6
  <1>8. UNCHANGED <<terms, market>>
    BY DEF GetOrderBook
  <1> QED
    BY <1>5, <1>7, <1>8 DEF MarketInv, TypeOKMarket, SnapshotsAreTrue, Truthful, Dated, pair

LEMMA FailedStep ==
  ASSUME MarketInv, RequestFails
  PROVE  MarketInv'
  <1>1. round \in Rounds(pair)
    BY DEF MarketInv, TypeOKMarket
  <1>2. round' \in Rounds(pair) /\ round'.pc = "venue" /\ round'.snap = NoSnapshot
    BY <1>1, NoSnapshotType DEF RequestFails, Rounds
  <1>3. UNCHANGED <<terms, market, cache>>
    BY DEF RequestFails
  <1> QED
    BY <1>2, <1>3 DEF MarketInv, TypeOKMarket, SnapshotsAreTrue, Truthful, Dated, pair

-------------------------------------------------------------------------------
(* Time. *)

(* The venue's clock. *)
After(t, n) == IF n = 1 THEN t.interval ELSE n - 1

LEMMA AfterType ==
  ASSUME NEW t \in TermsOf, NEW n \in Nat \ {0}, n <= t.interval
  PROVE  After(t, n) \in Nat \ {0} /\ After(t, n) <= t.interval
  BY DEF After, TermsOf

(* A snapshot and the venue's clock go on together until the event. *)
LEMMA OlderIsTruthful ==
  ASSUME NEW snap \in Snapshots, NEW t \in TermsOf, NEW n \in Nat \ {0}, Truthful(snap, t, n),
         NEW grown \in Nat, Dated(snap) => snap.read < grown + Slow
  PROVE  /\ Older(snap) \in Snapshots
         /\ Older(snap).age = snap.age
         /\ Dated(Older(snap)) <=> Dated(snap)
         /\ ~ Dated(snap) => Older(snap) = snap
         /\ Dated(snap) => /\ Older(snap).rate = t.told
                           /\ Older(snap).read <= grown + Slow
                           /\ Older(snap).next > 0 /\ ~Older(snap).late => Older(snap).next = After(t, n)
  <1>1. CASE ~ Dated(snap)
    BY <1>1 DEF Older
  <1>2. CASE Dated(snap)
    <2>1. Older(snap) = [snap EXCEPT !.read = snap.read + 1, !.next = Down(snap.next)]
      BY <1>2 DEF Older
    <2>2. Down(snap.next) \in Nat /\ snap.read + 1 \in Nat
      BY DEF Down, Snapshots
    <2>3. /\ Older(snap) \in Snapshots /\ Older(snap).age = snap.age /\ Older(snap).there = snap.there
          /\ Older(snap).lacks = snap.lacks /\ Older(snap).rate = snap.rate
          /\ Older(snap).late = snap.late
          /\ Older(snap).read = snap.read + 1 /\ Older(snap).next = Down(snap.next)
      BY <2>1, <2>2 DEF Snapshots
    <2>4. Down(snap.next) > 0 /\ ~snap.late => Down(snap.next) = After(t, n)
      <3> SUFFICES ASSUME Down(snap.next) > 0, ~snap.late
                   PROVE  Down(snap.next) = After(t, n)
        OBVIOUS
      <3>1. snap.next \in Nat /\ snap.next > 0
        BY DEF Down, Snapshots
      <3>2. snap.next = n
        BY <1>2, <3>1 DEF Truthful
      <3> QED
        BY <3>1, <3>2 DEF Down, After
    <2>5. snap.read + 1 <= grown + Slow
      BY <1>2, TimesAssumption DEF Snapshots
    <2>6. Dated(Older(snap)) <=> Dated(snap)
      BY <2>3 DEF Dated
    <2>7. Older(snap).rate = t.told
      BY <1>2, <2>3 DEF Truthful
    <2> QED
      BY <1>2, <2>3, <2>4, <2>5, <2>6, <2>7
  <1> QED
    BY <1>1, <1>2

LEMMA AgedIsTruthful ==
  ASSUME NEW snap \in Snapshots, NEW t \in TermsOf, NEW n \in Nat \ {0}, Truthful(snap, t, n)
  PROVE  Aged(snap) \in Snapshots /\ Truthful(Aged(snap), t, After(t, n))
  <1>1. MaxAge \in Nat /\ Slow \in Nat
    BY TimesAssumption
  <1>2. CASE ~ Dated(snap)
    <2>1. Aged(snap) = snap
      BY <1>2 DEF Aged
    <2> QED
      BY <1>2, <2>1 DEF Truthful
  <1>3. CASE Dated(snap) /\ snap.age <= MaxAge
    <2> DEFINE old == Older(snap)
    <2>1. snap.age + 1 \in Nat /\ snap.read < snap.age + 1 + Slow
      BY <1>1, <1>3 DEF Truthful, Snapshots
    <2>2. /\ old \in Snapshots /\ Dated(old) /\ old.age = snap.age /\ old.rate = t.told
          /\ old.read <= snap.age + 1 + Slow
          /\ old.next > 0 /\ ~old.late => old.next = After(t, n)
      BY <1>3, <2>1, OlderIsTruthful
    <2>3. Aged(snap) = [old EXCEPT !.age = old.age + 1]
      BY <1>3 DEF Aged
    <2> HIDE DEF old
    <2>4. /\ Aged(snap) \in Snapshots /\ Aged(snap).there = old.there /\ Aged(snap).lacks = old.lacks
          /\ Aged(snap).age = snap.age + 1 /\ Aged(snap).rate = old.rate
          /\ Aged(snap).read = old.read /\ Aged(snap).next = old.next /\ Aged(snap).late = old.late
      BY <2>2, <2>3 DEF Snapshots
    <2>5. Dated(Aged(snap))
      BY <2>2, <2>4 DEF Dated
    <2> QED
      BY <2>2, <2>4, <2>5 DEF Truthful
  <1>4. CASE Dated(snap) /\ ~ (snap.age <= MaxAge)
    <2>1. Aged(snap) = NoSnapshot
      BY <1>4 DEF Aged
    <2> QED
      BY <2>1, NoSnapshotType DEF Truthful
  <1> QED
    BY <1>2, <1>3, <1>4

LEMMA TickStep ==
  ASSUME MarketInv, Tick
  PROVE  MarketInv'
  <1>1. /\ terms \in Offers /\ market \in [pair -> Nat \ {0}] /\ cache \in [pair -> Snapshots]
        /\ \A v \in pair : market[v] <= terms[v].interval /\ terms[v] \in TermsOf
        /\ round \in Rounds(pair)
        /\ round.pc \in {"funding", "ticker", "book"} => round.venue \in pair
    BY PairIsOfVenues DEF MarketInv, TypeOKMarket
  <1>2. /\ terms' = terms /\ market' = [v \in pair |-> After(terms[v], market[v])]
        /\ cache' = [v \in pair |-> Aged(cache[v])]
        /\ round' = [round EXCEPT !.snap = Older(round.snap)]
    BY DEF Tick, After
  <1>3. market' \in [pair -> Nat \ {0}] /\ \A v \in pair : market'[v] <= terms[v].interval
    BY <1>1, <1>2, AfterType
  <1>4. cache' \in [pair -> Snapshots] /\ \A v \in pair : Truthful(cache'[v], terms[v], market'[v])
    <2> SUFFICES ASSUME NEW v \in pair
                 PROVE  /\ Aged(cache[v]) \in Snapshots
                        /\ Truthful(Aged(cache[v]), terms[v], After(terms[v], market[v]))
      BY <1>2
    <2>1. Truthful(cache[v], terms[v], market[v])
      BY DEF MarketInv, SnapshotsAreTrue
    <2> QED
      BY <1>1, <2>1, AgedIsTruthful
  <1>5. CASE round.pc \in {"ticker", "book"}
    <2> DEFINE t == terms[round.venue]
               n == market[round.venue]
    <2>1. /\ round.snap \in Snapshots /\ t \in TermsOf /\ n \in Nat \ {0}
          /\ Truthful(round.snap, t, n) /\ round.snap.age = 0 /\ round.venue \in pair
      BY <1>1, <1>5 DEF MarketInv, SnapshotsAreTrue, Rounds
    <2>2. Dated(round.snap) => round.snap.read < 0 + Slow
      BY <2>1, TimesAssumption DEF Tick, Snapshots
    <2>3. /\ Older(round.snap) \in Snapshots /\ Older(round.snap).age = 0
          /\ Truthful(Older(round.snap), t, After(t, n))
      <3>1. /\ Older(round.snap) \in Snapshots
            /\ Older(round.snap).age = round.snap.age
            /\ Dated(Older(round.snap)) <=> Dated(round.snap)
            /\ ~ Dated(round.snap) => Older(round.snap) = round.snap
            /\ Dated(round.snap) =>
                 /\ Older(round.snap).rate = t.told
                 /\ Older(round.snap).read <= 0 + Slow
                 /\ Older(round.snap).next > 0 /\ ~Older(round.snap).late
                      => Older(round.snap).next = After(t, n)
        BY <2>1, <2>2, OlderIsTruthful
      <3> HIDE DEF t, n
      <3> QED
        BY <2>1, <3>1 DEF Truthful
    <2>4. /\ round' \in Rounds(pair) /\ round'.pc = round.pc /\ round'.venue = round.venue
          /\ round'.snap = Older(round.snap)
      BY <1>1, <1>2, <2>3 DEF Rounds
    <2>5. market'[round.venue] = After(t, n)
      BY <1>2, <2>1
    <2> QED
      BY <1>1, <1>2, <1>3, <1>4, <1>5, <2>1, <2>3, <2>4, <2>5
      DEF MarketInv, TypeOKMarket, SnapshotsAreTrue, pair
  <1>6. CASE round.pc \notin {"ticker", "book"}
    <2>1. round.snap = NoSnapshot
      BY <1>6 DEF MarketInv, SnapshotsAreTrue
    <2>2. Older(round.snap) = NoSnapshot
      BY <2>1, NoSnapshotType DEF Older
    <2>3. round' = round
      BY <1>1, <1>2, <2>1, <2>2 DEF Rounds
    <2> QED
      BY <1>1, <1>2, <1>3, <1>4, <1>6, <2>1, <2>3
      DEF MarketInv, TypeOKMarket, SnapshotsAreTrue, pair
  <1> QED
    BY <1>5, <1>6

LEMMA MarketStep == MarketInv /\ [Next]_vars => MarketInv'
  <1> SUFFICES ASSUME MarketInv, [Next]_vars PROVE MarketInv'
    OBVIOUS
  <1>1. CASE UNCHANGED <<terms, market, round, cache>>
    BY <1>1 DEF MarketInv, TypeOKMarket, SnapshotsAreTrue, Truthful, Dated, pair
  <1>2. CASE BeginRound \/ Replace
    BY <1>2, StartRound
  <1>3. CASE \E v \in pair : GetInstruments(v)
    BY <1>3, InstrumentsStep
  <1>4. CASE GetFunding \/ GetTicker \/ GetOrderBook \/ RequestFails
    BY <1>4, FundingStep, TickerStep, BookStep, FailedStep
  <1>5. CASE Tick
    BY <1>5, TickStep
  <1>6. CASE Open \/ \E long, short \in pair : Scan(long, short)
    BY <1>1, <1>6 DEF Open, Scan
  <1>7. CASE UNCHANGED vars
    BY <1>1, <1>7 DEF vars
  <1> QED
    BY <1>2, <1>3, <1>4, <1>5, <1>6, <1>7 DEF Next

(***************************************************************************)
(* Whatever the loop, the venues and the clock do, a snapshot in the cache *)
(* has the rate the adapter took for the venue's and, while that event is  *)
(* ahead, the venue's own next event, unless the reply had the time of a   *)
(* later one only; and it was read no longer ago than its age and the time *)
(* of three requests (marketRefreshLoop).                                  *)
(***************************************************************************)
THEOREM SnapshotsCorrect == Spec => []MarketInv
  BY MarketInit, MarketStep, PTL DEF Spec

-------------------------------------------------------------------------------
(* The engine's choice. *)

LEMMA PickIsEligible ==
  ASSUME MarketInv, [Next]_vars, Picks
  PROVE  /\ engine'.long \in pair /\ engine'.short \in pair
         /\ engine' = [pc |-> "picked", long |-> engine'.long, short |-> engine'.short]
         /\ Eligible(engine'.long, engine'.short)
  <1>1. engine.pc # engine'.pc
    BY DEF Picks
  <1>2. UNCHANGED engine \/ Open \/ \E long, short \in pair : Scan(long, short)
    <2>1. CASE UNCHANGED vars
      BY <2>1 DEF vars
    <2>2. CASE BeginRound \/ Replace
      <3>1. BeginRound => UNCHANGED engine
        BY Zenon DEF BeginRound
      <3>2. Replace => UNCHANGED engine
        BY Zenon DEF Replace
      <3> QED
        BY <2>2, <3>1, <3>2
    <2>3. ASSUME NEW v \in pair, GetInstruments(v)
          PROVE  UNCHANGED engine
      BY <2>3, Zenon DEF GetInstruments
    <2>4. CASE GetFunding
      BY <2>4, Zenon DEF GetFunding
    <2>5. CASE GetTicker
      BY <2>5, Zenon DEF GetTicker
    <2>6. CASE GetOrderBook
      BY <2>6, Zenon DEF GetOrderBook
    <2>7. CASE RequestFails
      BY <2>7, Zenon DEF RequestFails
    <2>8. CASE Tick
      BY <2>8, Zenon DEF Tick
    <2> QED
      BY <2>1, <2>2, <2>3, <2>4, <2>5, <2>6, <2>7, <2>8 DEF Next
  <1>3. ~Open
    BY DEF Open, Picks
  <1>4. PICK long \in pair, short \in pair : Scan(long, short)
    BY <1>1, <1>2, <1>3
  <1>5. engine' = [pc |-> "picked", long |-> long, short |-> short] /\ Eligible(long, short)
    BY <1>4 DEF Scan
  <1> QED
    BY <1>5

\* What Eligible says of the two snapshots, with what is known of them.
LEMMA EligibleIsTrue ==
  ASSUME MarketInv, NEW long \in pair, NEW short \in pair, Eligible(long, short)
  PROVE  /\ \A v \in {long, short} :
              /\ cache[v].there /\ Dated(cache[v]) /\ cache[v].age <= MaxAge
              /\ cache[v].read <= MaxAge + Slow
              /\ cache[v].next >= MinSeconds
              /\ cache[v].late \/ cache[v].next = market[v]
         /\ cache[long].lacks # "price"
         /\ NetPnL(long, short) >= MinNet
  <1>1. /\ cache[long].there /\ cache[short].there
        /\ cache[long].age <= MaxAge /\ cache[short].age <= MaxAge
        /\ cache[long].lacks # "liquidity" /\ cache[short].lacks # "liquidity"
        /\ cache[long].lacks # "price"
        /\ NetPnL(long, short) >= MinNet
        /\ SecondsToFunding(long, short) >= MinSeconds
    BY DEF Eligible, PrimaryFilters, Fresh, CheckEligibility
  <1>2. /\ cache[long] \in Snapshots /\ cache[short] \in Snapshots
        /\ Truthful(cache[long], terms[long], market[long])
        /\ Truthful(cache[short], terms[short], market[short])
    BY DEF MarketInv, TypeOKMarket, SnapshotsAreTrue
  <1>3. MinSeconds \in Nat \ {0} /\ MaxAge \in Nat /\ Slow \in Nat
    BY TimesAssumption
  <1>4. cache[long].next >= MinSeconds /\ cache[short].next >= MinSeconds
    BY <1>1, <1>2, <1>3 DEF SecondsToFunding, Snapshots
  <1>5. ASSUME NEW v \in {long, short}
        PROVE  /\ cache[v].there /\ Dated(cache[v]) /\ cache[v].age <= MaxAge
               /\ cache[v].read <= MaxAge + Slow
               /\ cache[v].next >= MinSeconds
               /\ cache[v].late \/ cache[v].next = market[v]
    <2>1. /\ cache[v].there /\ cache[v].age <= MaxAge /\ cache[v].next >= MinSeconds
          /\ cache[v] \in Snapshots /\ Truthful(cache[v], terms[v], market[v])
      BY <1>1, <1>2, <1>4
    <2>2. cache[v].next > 0
      BY <1>3, <2>1 DEF Snapshots
    <2>3. Dated(cache[v])
      BY <2>1, <2>2 DEF Truthful
    <2> QED
      BY <1>3, <2>1, <2>2, <2>3 DEF Truthful, Snapshots
  <1> QED
    BY <1>1, <1>5

(***************************************************************************)
(* Whatever pair the engine picks, the venues' own next funding is         *)
(* MinSeconds away or more, but for a venue whose last reply had the time  *)
(* of the event after the next only (SecondsToFunding, CheckEligibility).  *)
(***************************************************************************)
THEOREM EntryTimely == Spec => EntryIsTimely
  <1>1. MarketInv /\ [Next]_vars
          => [Picks => \A v \in Picked : market[v] >= MinSeconds \/ cache[v].late]_vars
    <2> SUFFICES ASSUME MarketInv, [Next]_vars, Picks, NEW v \in Picked
                 PROVE  market[v] >= MinSeconds \/ cache[v].late
      OBVIOUS
    <2> QED
      BY PickIsEligible, EligibleIsTrue DEF Picked
  <1> QED
    BY <1>1, SnapshotsCorrect, PTL DEF Spec, EntryIsTimely

(* What it picks by was read from the venues, and not long ago              *)
(* (primaryFilters, marketRefreshLoop).                                     *)
THEOREM EntryReal == Spec => EntryIsReal
  <1>1. MarketInv /\ [Next]_vars =>
          [Picks => /\ \A v \in Picked : cache[v].there /\ cache[v].read <= MaxAge + Slow
                    /\ cache[engine'.long].lacks # "price"]_vars
    <2> SUFFICES ASSUME MarketInv, [Next]_vars, Picks
                 PROVE  /\ \A v \in Picked : cache[v].there /\ cache[v].read <= MaxAge + Slow
                        /\ cache[engine'.long].lacks # "price"
      OBVIOUS
    <2> QED
      BY PickIsEligible, EligibleIsTrue DEF Picked
  <1> QED
    BY <1>1, SnapshotsCorrect, PTL DEF Spec, EntryIsReal

(* A calendar that starts at the venue's next event and has its interval   *)
(* is its schedule.                                                        *)
LEMMA CalendarIsSchedule ==
  ASSUME NEW v, cache[v].next = market[v], market[v] \in Nat \ {0},
         registry[v].interval = terms[v].interval, terms[v].interval \in Nat \ {0}
  PROVE  Cardinality(Calendar(v)) = Payments(v) /\ Payments(v) \in Nat
  <1> DEFINE n == market[v]
             interval == terms[v].interval
             due == {t \in 1 .. Horizon : t >= n /\ (t - n) % interval = 0}
  <1>1. Horizon \in Nat \ {0}
    BY TimesAssumption
  <1>2. Calendar(v) = {t \in n .. Horizon : (t - n) % interval = 0}
    BY <1>1 DEF Calendar, BuildFundingCalendar
  <1>3. \A t : t \in n .. Horizon <=> t \in 1 .. Horizon /\ t >= n
    BY <1>1
  <1>4. Calendar(v) = due
    BY <1>2, <1>3
  <1>5. IsFiniteSet(due) /\ Cardinality(due) \in Nat
    <2>1. IsFiniteSet(1 .. Horizon)
      <3>1. 1 \in Int /\ Horizon \in Int
        BY <1>1
      <3> QED
        BY <3>1, FS_Interval, Zenon
    <2>2. due \subseteq 1 .. Horizon
      OBVIOUS
    <2> QED
      BY <2>1, <2>2, FS_Subset, FS_CardinalityType
  <1> QED
    BY <1>4, <1>5 DEF Payments

LEMMA CashFlows ==
  ASSUME NEW r \in Int, NEW n \in Int
  PROVE  FundingCashFlow("long", r, n) = -1 * r * n /\ FundingCashFlow("short", r, n) = 1 * r * n
  BY DEF FundingCashFlow

LEMMA NetOfPayments ==
  ASSUME NEW a \in Int, NEW b \in Int, NEW r \in Int, NEW s \in Int, NEW n \in Int
  PROVE  a * (-1 * r * n) + b * (1 * s * n) = n * (b * s - a * r)
  OBVIOUS

(***************************************************************************)
(* Of whatever pair the engine picks and has right (interval, rate and     *)
(* time of the next event, at both venues) the payments due until the      *)
(* horizon by the venues' own schedules come to MinNet after the fees      *)
(* (BuildFundingCalendar, FundingCashFlow, ExpectedNetPnL).                *)
(***************************************************************************)
THEOREM EntryIsPaid == Spec => EntryPays
  <1>1. MarketInv /\ [Next]_vars =>
          [Picks /\ (\A v \in Picked : AsTheVenueHasIt(v)) =>
             Notional * (Payments(engine'.short) * terms[engine'.short].rate
                         - Payments(engine'.long) * terms[engine'.long].rate)
             >= MinNet + Fees]_vars
    <2> SUFFICES ASSUME MarketInv, [Next]_vars, Picks, \A v \in Picked : AsTheVenueHasIt(v)
                 PROVE  Notional * (Payments(engine'.short) * terms[engine'.short].rate
                                    - Payments(engine'.long) * terms[engine'.long].rate)
                        >= MinNet + Fees
      OBVIOUS
    <2>1. PICK long \in pair, short \in pair :
            engine'.long = long /\ engine'.short = short /\ Eligible(long, short)
      BY PickIsEligible
    <2>2. /\ cache[long].rate = terms[long].rate /\ cache[short].rate = terms[short].rate
          /\ cache[long].next = market[long] /\ cache[short].next = market[short]
          /\ registry[long].interval = terms[long].interval
          /\ registry[short].interval = terms[short].interval
          /\ NetPnL(long, short) >= MinNet
      <3>1. /\ cache[long].late \/ cache[long].next = market[long]
            /\ cache[short].late \/ cache[short].next = market[short]
            /\ NetPnL(long, short) >= MinNet
        BY <2>1, EligibleIsTrue
      <3>2. AsTheVenueHasIt(long) /\ AsTheVenueHasIt(short)
        BY <2>1 DEF Picked
      <3> QED
        BY <3>1, <3>2 DEF AsTheVenueHasIt
    <2>3. /\ terms[long].rate \in Int /\ terms[short].rate \in Int
          /\ terms[long].interval \in Nat \ {0} /\ terms[short].interval \in Nat \ {0}
          /\ market[long] \in Nat \ {0} /\ market[short] \in Nat \ {0}
      BY <2>1, PairIsOfVenues DEF MarketInv, TypeOKMarket, TermsOf
    <2>4. /\ Cardinality(Calendar(long)) = Payments(long) /\ Payments(long) \in Nat
          /\ Cardinality(Calendar(short)) = Payments(short) /\ Payments(short) \in Nat
      BY <2>2, <2>3, CalendarIsSchedule
    <2>5. Notional \in Int /\ Fees \in Int /\ MinNet \in Int
      BY MoneyAssumption
    <2>6. NetPnL(long, short) =
            (Payments(long) * (-1 * terms[long].rate * Notional)
             + Payments(short) * (1 * terms[short].rate * Notional)) - Fees
      <3>1. /\ FundingCashFlow("long", cache[long].rate, Notional) = -1 * terms[long].rate * Notional
            /\ FundingCashFlow("short", cache[short].rate, Notional) = 1 * terms[short].rate * Notional
        BY <2>2, <2>3, <2>5, CashFlows
      <3>2. /\ SumExpectedFundingCashFlow(Calendar(long), "long", cache[long].rate, Notional)
               = Payments(long) * (-1 * terms[long].rate * Notional)
            /\ SumExpectedFundingCashFlow(Calendar(short), "short", cache[short].rate, Notional)
               = Payments(short) * (1 * terms[short].rate * Notional)
        BY <2>4, <3>1 DEF SumExpectedFundingCashFlow
      <3> QED
        BY <3>2 DEF NetPnL, ExpectedNetPnL, ExpectedFundingPnL
    <2> DEFINE sum == Notional * (Payments(short) * terms[short].rate - Payments(long) * terms[long].rate)
    <2>7. sum \in Int
      BY <2>3, <2>4, <2>5
    <2>8. NetPnL(long, short) = sum - Fees
      BY <2>3, <2>4, <2>5, <2>6, NetOfPayments
    <2>9. sum >= MinNet + Fees
      <3> HIDE DEF sum
      <3> QED
        BY <2>2, <2>5, <2>7, <2>8
    <2> QED
      BY <2>1, <2>9
  <1> QED
    BY <1>1, SnapshotsCorrect, PTL DEF Spec, EntryPays
===============================================================================
