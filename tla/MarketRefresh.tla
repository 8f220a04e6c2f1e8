----------------------------- MODULE MarketRefresh -----------------------------
(***************************************************************************)
(* The worker's market loop (cmd/worker/main.go, marketRefreshLoop) and    *)
(* the engine's search for an entry, for one asset at two venues.  The     *)
(* loop asks venue by venue for the instruments, the funding, the ticker   *)
(* and the book, and fills the registry and the cache; meanwhile the       *)
(* engine scans what is there (scanner.Scan) and opens what it picked.     *)
(* The venues are external; time is counted in ticks.                      *)
(*                                                                         *)
(* Both venues quote the same prices, so that the basis is nothing.  The   *)
(* interval and the rate of each are its own and stay as they are, and so  *)
(* does what its adapter makes of them.                                    *)
(***************************************************************************)
EXTENDS Venues, FundingCalendar

CONSTANTS
  Offers,      \* the terms there may be at two venues, see OffersAssumption
  MaxAge,      \* Config.MaxDataAgeMs
  MinSeconds,  \* Config.MinSecondsBeforeFunding
  Default,     \* the interval an adapter takes when it knows none
  Horizon,
  Notional, Fees, MinNet,
  Slow         \* bounds the ticks from the answer for funding to the cache update

\* What an adapter takes the rate of the next event for: that rate, or a forecast,
\* which may be any; without a forecast OKX falls back to the rate, KuCoin to zero,
\* and OKX reads a rate that is not there as zero.
RatesTold(v, own) == IF AdapterTables[v].forecast THEN Int ELSE {own}

\* What an adapter takes the interval between two events for.
IntervalsTold(v, own) ==
  LET interval == AdapterTables[v].interval
  IN CASE interval = "read" -> {own, 0}
       [] interval = "readOrDefault" -> {own, Default}
       [] interval = "default" -> {Default}

\* Terms: the contract's rate, per unit of notional, and interval, and what the
\* adapter makes of them (told, read).
ASSUME OffersAssumption ==
  \A t \in Offers :
    /\ DOMAIN t \subseteq AllVenues /\ Cardinality(DOMAIN t) = 2
    /\ \A v \in DOMAIN t :
         /\ t[v] \in [rate : Int, told : Int, interval : Nat \ {0}, read : Nat]
         /\ t[v].told \in RatesTold(v, t[v].rate)
         /\ t[v].read \in IntervalsTold(v, t[v].interval)
ASSUME TimesAssumption ==
  /\ MaxAge \in Nat /\ MinSeconds \in Nat \ {0} /\ Default \in Nat \ {0}
  /\ Horizon \in Nat \ {0} /\ Slow \in Nat
ASSUME MoneyAssumption == Notional \in Nat /\ Fees \in Nat /\ MinNet \in Nat

VARIABLES
  terms,     \* of the contract at each of the two venues
  market,    \* the ticks to the next event of each
  round,     \* the loop: its step, the venues left, what it read
  registry,  \* the instrument of each venue: its status, or "none", and interval
  cache,     \* the snapshot of each venue
  engine     \* what the engine picked

pair == DOMAIN terms
vars == <<terms, market, round, registry, cache, engine>>

NoSnapshot == [there |-> FALSE, age |-> 0, read |-> 0, rate |-> 0, next |-> 0,
               late |-> FALSE, lacks |-> "nothing"]
NoInstrument == [status |-> "none", interval |-> 0]
NoInstruments == [v \in pair |-> NoInstrument]
AtRest == [pc |-> "idle", left |-> {}, venue |-> "none", listed |-> NoInstruments,
           snap |-> NoSnapshot]
NoPick == [pc |-> "idle", long |-> "none", short |-> "none"]

-------------------------------------------------------------------------------
(* What the adapters make of the replies.                                  *)

Ok == [status |-> 200, code |-> "ok"]

\* Rows in which at most one field is missing or zero.
RowsOf(fields) ==
  {[f \in fields |-> "good"]} \cup
  {[[f \in fields |-> "good"] EXCEPT ![g] = q] : g \in fields, q \in {"empty", "zero"}}

\* The rows a reply may hold: one that is read as good without being so holds none.
EmptyRow(fields) == [f \in fields |-> "empty"]
RowsIn(a, r, fields) == IF r = Ok THEN RowsOf(fields) ELSE {EmptyRow(fields)}
RepliesToRead(a, answer) ==
  {r \in Replies(a.codes) : (r = Ok \/ r.status \in a.errorStatuses \ {200}) /\ answer[r] = "ok"}

\* The outcomes of a request that is read without an error, by its rule.
Reads(a, answer, rule) ==
  LET fields == DOMAIN rule.fields
      rows == UNION {RowsIn(a, r, fields) : r \in RepliesToRead(a, answer)}
  IN {[f \in fields |-> Value(rule, row, f) = "good"] : row \in {w \in rows : ~Fails(rule, w)}}

\* A listed instrument that parses; what is not "trading" is kept under another status.
InstrumentsRead ==
  [v \in AllVenues |->
     LET a == AdapterTables[v]
         parses == Reads(a, a.instruments, a.instrument) # {}
     IN {IF parses /\ state \in a.listed
         THEN (IF state = "trading" THEN "active" ELSE "halted") ELSE "none" :
           state \in {"trading", "preopen", "suspended"}}]

FundingRead ==
  [v \in AllVenues |-> Reads(AdapterTables[v], AdapterTables[v].ticker, AdapterTables[v].funding)]

\* What a ticker lacks: without a volume the price does not matter, and the last
\* price stands in for a mark price of zero.  A venue that does not know the
\* symbol answers with no ticker: an error, or zeros.
TickerRead ==
  [v \in AllVenues |->
     LET a == AdapterTables[v]
         lack(r) == CASE ~r.volume -> "liquidity" [] r.volume /\ ~r.mark /\ ~r.last -> "price" [] OTHER -> "nothing"
     IN {lack(r) : r \in Reads(a, a.ticker, a.prices)}
        \cup IF a.noTicker = "ok" THEN {"liquidity"} ELSE {}]

\* The best level of a book that parses, or an empty book.
BookRead ==
  [v \in AllVenues |->
     LET a == AdapterTables[v]
     IN {IF r.price /\ r.size THEN "nothing" ELSE "liquidity" : r \in Reads(a, a.ticker, a.book)}
        \cup {"liquidity"}]

-------------------------------------------------------------------------------
Init ==
  /\ terms \in Offers
  /\ market \in {next \in [pair -> UNION {1 .. terms[v].interval : v \in pair}] :
                  \A v \in pair : next[v] <= terms[v].interval}
  /\ round = AtRest
  /\ registry = NoInstruments
  /\ cache = [v \in pair |-> NoSnapshot]
  /\ engine = NoPick

-------------------------------------------------------------------------------
(* The market loop. *)

BeginRound ==
  /\ round.pc = "idle"
  /\ round' = [AtRest EXCEPT !.pc = "venue", !.left = pair]
  /\ UNCHANGED <<terms, market, registry, cache, engine>>

\* The answer for the instruments; without one nothing more is asked.
GetInstruments(v) ==
  /\ round.pc = "venue" /\ v \in round.left
  /\ \E status \in InstrumentsRead[v] \cup {"none"} :
       round' = [round EXCEPT !.left = @ \ {v}, !.venue = v,
                   !.listed[v] = IF status = "none" THEN NoInstrument
                                 ELSE [status |-> status, interval |-> terms[v].read],
                   !.pc = IF status = "none" THEN "venue" ELSE "funding"]
  /\ UNCHANGED <<terms, market, registry, cache, engine>>

\* Whatever else it holds, no entry comes of it: the next event is long past or
\* there is nothing to trade.  The rest of it is left out.
Useless(lack) ==
  [there |-> TRUE, age |-> 0, read |-> 0, rate |-> 0, next |-> 0, late |-> FALSE, lacks |-> lack]

Told(rate, next, late) ==
  [there |-> TRUE, age |-> 0, read |-> 0, rate |-> rate, next |-> next, late |-> late,
   lacks |-> "nothing"]

\* Without its time the next event is long past, or, if the adapter makes do with
\* the time of the event after it and the reply has that, too late by an interval.
SnapshotsTold(v, read) ==
  LET told == terms[v].told
  IN IF read.next THEN {Told(told, market[v], FALSE)}
     ELSE {Useless("time")} \cup
          IF read.later THEN {Told(told, market[v] + terms[v].interval, TRUE)} ELSE {}

GetFunding ==
  /\ round.pc = "funding"
  /\ \E read \in FundingRead[round.venue] :
       \E snap \in SnapshotsTold(round.venue, read) :
         round' = [round EXCEPT !.pc = "ticker", !.snap = snap]
  /\ UNCHANGED <<terms, market, registry, cache, engine>>

\* A bound: at most one of the three answers lacks something.
Lacks(lack) == lack # "nothing" => round.snap.lacks = "nothing" /\ ~round.snap.late
Lacking(lack) ==
  CASE lack = "nothing" -> round.snap
    [] lack = "price" -> [round.snap EXCEPT !.lacks = lack]
    [] lack = "liquidity" -> Useless(lack)

GetTicker ==
  /\ round.pc = "ticker"
  /\ \E lack \in TickerRead[round.venue] :
       /\ Lacks(lack)
       /\ round' = [round EXCEPT !.pc = "book", !.snap = Lacking(lack)]
  /\ UNCHANGED <<terms, market, registry, cache, engine>>

\* The third answer completes the snapshot, which gets its time now.
GetOrderBook ==
  /\ round.pc = "book"
  /\ \E lack \in BookRead[round.venue] :
       /\ Lacks(lack)
       /\ cache' = [cache EXCEPT ![round.venue] = Lacking(lack)]
  /\ round' = [round EXCEPT !.pc = "venue", !.snap = NoSnapshot]
  /\ UNCHANGED <<terms, market, registry, engine>>

\* One of the three requests failed: the snapshot stays as it was.
RequestFails ==
  /\ round.pc \in {"funding", "ticker", "book"}
  /\ round' = [round EXCEPT !.pc = "venue", !.snap = NoSnapshot]
  /\ UNCHANGED <<terms, market, registry, cache, engine>>

\* With no instrument at all the registry stays as it was.
Replace ==
  /\ round.pc = "venue" /\ round.left = {}
  /\ registry' = IF round.listed = NoInstruments THEN registry ELSE round.listed
  /\ round' = AtRest
  /\ UNCHANGED <<terms, market, cache, engine>>

-------------------------------------------------------------------------------
(* The engine. *)

\* Faulty variant: only the long leg's age counts.
Fresh_Long(long, short) == cache[long].age <= MaxAge

Fresh(long, short) == cache[long].age <= MaxAge /\ cache[short].age <= MaxAge

PrimaryFilters(long, short) ==
  /\ registry[long].status = "active" /\ registry[short].status = "active"
  /\ Fresh(long, short)
  /\ cache[long].lacks # "liquidity" /\ cache[short].lacks # "liquidity"

Calendar(v) == BuildFundingCalendar(cache[v].next, registry[v].interval, Horizon)

ExpectedFundingPnL(long, short) ==
  SumExpectedFundingCashFlow(Calendar(long), "long", cache[long].rate, Notional)
  + SumExpectedFundingCashFlow(Calendar(short), "short", cache[short].rate, Notional)

NetPnL(long, short) == ExpectedNetPnL(ExpectedFundingPnL(long, short), Fees)

\* Faulty variant: the later of the two events counts.
SecondsToFunding_Later(long, short) ==
  IF cache[long].next < cache[short].next THEN cache[short].next ELSE cache[long].next

\* The sooner of the two events.
SecondsToFunding(long, short) ==
  IF cache[long].next < cache[short].next THEN cache[long].next ELSE cache[short].next

\* Only the long leg's price is looked at.
Eligible(long, short) ==
  /\ cache[long].there /\ cache[short].there
  /\ PrimaryFilters(long, short)
  /\ cache[long].lacks # "price"
  /\ CheckEligibility(NetPnL(long, short), MinNet, SecondsToFunding(long, short), MinSeconds)

\* The best of the eligible candidates.
Scan(long, short) ==
  /\ engine.pc = "idle"
  /\ long # short
  /\ Eligible(long, short)
  /\ Eligible(short, long) => NetPnL(long, short) >= NetPnL(short, long)
  /\ engine' = [pc |-> "picked", long |-> long, short |-> short]
  /\ UNCHANGED <<terms, market, round, registry, cache>>

Registered(long, short) == registry[long] # NoInstrument /\ registry[short] # NoInstrument

\* openPosition: it enters, if the registry still has both instruments.
Open ==
  /\ engine.pc = "picked"
  /\ engine' = IF Registered(engine.long, engine.short) THEN [engine EXCEPT !.pc = "entered"]
                                                        ELSE NoPick
  /\ UNCHANGED <<terms, market, round, registry, cache>>

-------------------------------------------------------------------------------
(* Time and the venues. *)

Down(n) == IF n > 0 THEN n - 1 ELSE 0

Dated(snap) == snap.there /\ snap.lacks \in {"nothing", "price"}
Older(snap) == IF Dated(snap) THEN [snap EXCEPT !.read = @ + 1, !.next = Down(@)] ELSE snap

\* A snapshot past MaxAge is of no more use, and after one tick more forgotten.
Aged(snap) ==
  CASE ~Dated(snap) -> snap
    [] Dated(snap) /\ snap.age <= MaxAge -> [Older(snap) EXCEPT !.age = @ + 1]
    [] OTHER -> NoSnapshot

\* At an event the next one is an interval away.  The rates stay: every event of the
\* calendar is reckoned at the rate of the next one anyway.  Between a scan and
\* the look at the registry nothing is waited for.
Tick ==
  /\ engine.pc # "picked"
  /\ Dated(round.snap) => round.snap.read < Slow
  /\ market' = [v \in pair |-> IF market[v] = 1 THEN terms[v].interval ELSE market[v] - 1]
  /\ cache' = [v \in pair |-> Aged(cache[v])]
  /\ round' = [round EXCEPT !.snap = Older(@)]
  /\ UNCHANGED <<terms, registry, engine>>

\* The search ends with the entry: there is one position at a time (Engine).
Next ==
  /\ engine.pc # "entered"
  /\ \/ BeginRound \/ Replace
     \/ \E v \in pair : GetInstruments(v)
     \/ GetFunding \/ GetTicker \/ GetOrderBook \/ RequestFails
     \/ \E long, short \in pair : Scan(long, short)
     \/ Open \/ Tick

Spec == Init /\ [][Next]_vars

-------------------------------------------------------------------------------
(* Properties, about the step in which the engine picks its candidate.     *)

Picks == engine.pc = "idle" /\ engine'.pc = "picked"
Picked == {engine'.long, engine'.short}

\* When the engine picks a pair the venues' own next funding is MinSeconds away
\* or more at both, however old the snapshots (SecondsToFunding; a missing time
\* reads as long past).  Left out is a venue whose last reply had the time of the
\* event after the next only: the adapter takes that for the next (okx GetFunding),
\* and the engine may then enter right before an event.
EntryIsTimely ==
  [][Picks => \A v \in Picked : market[v] >= MinSeconds \/ cache[v].late]_vars

\* The numbers the engine picks a pair by are numbers the venues gave, no longer
\* ago than MaxAge and the time three requests took: the snapshot gets its time
\* after the last of them, and the long leg has a price (primaryFilters).
EntryIsReal ==
  [][Picks => /\ \A v \in Picked : cache[v].there /\ cache[v].read <= MaxAge + Slow
              /\ cache[engine'.long].lacks # "price"]_vars

\* The payments of a venue until the horizon, as its own schedule has them.
Payments(v) ==
  Cardinality({t \in 1 .. Horizon : t >= market[v] /\ (t - market[v]) % terms[v].interval = 0})

\* The program has the contract's interval (not a default in its place), the rate
\* of the next event (not a forecast of another) and the time of it.
AsTheVenueHasIt(v) ==
  registry[v].interval = terms[v].interval /\ cache[v].rate = terms[v].rate /\ ~cache[v].late

\* When the engine picks a pair it has right, the payments that fall due until
\* the horizon by the venues' own schedules come to MinNet after the fees: the long
\* leg pays a positive rate and the short one receives it, each by its own interval
\* (BuildFundingCalendar, ExpectedNetPnL).  Of a contract with an interval its
\* adapter does not read it says nothing.
EntryPays ==
  [][Picks /\ (\A v \in Picked : AsTheVenueHasIt(v)) =>
       Notional * (Payments(engine'.short) * terms[engine'.short].rate
                   - Payments(engine'.long) * terms[engine'.long].rate) >= MinNet + Fees]_vars
===============================================================================
