-------------------------------- MODULE Engine --------------------------------
(***************************************************************************)
(* The trading loop (internal/engine/engine.go).  One goroutine runs Tick: *)
(* monitor every open position, close those that must be closed, then open *)
(* a new one.  Another goroutine, the outbox handler, calls RequestClose.  *)
(* Every transition and both leg rows are separate database writes, any of *)
(* which may fail, and the process may die between any two steps.          *)
(*                                                                         *)
(* TransitionTo is taken as a whole (PositionStateMachine has its steps),  *)
(* so are an order (OrderExecutor) and a close (CoordinatedClose): the     *)
(* exposure they leave includes what an unanswered order fills later.      *)
(***************************************************************************)
EXTENDS PositionStates, OrderOutcomes, Repair, FiniteSets

CONSTANTS
  Assets,
  NoLeg,        \* position_legs has no row for a leg
  TargetQty,    \* Scan.TargetQty, quantised by both exchanges
  Tolerance,    \* DeltaToleranceBase
  MaxOpen,      \* MaxOpenPositions
  MaxIds,       \* bound on the positions ever opened
  MaxDbFails,   \* bound on failing database calls
  MaxCrashes    \* bound on restarts

ASSUME TargetQtyAssumption == TargetQty \in Nat \ {0}
ASSUME ToleranceAssumption == Tolerance \in Nat
ASSUME NoLegAssumption == NoLeg \notin Int
ASSUME BoundsAssumption ==
  /\ MaxOpen \in Nat \ {0} /\ MaxIds \in Nat
  /\ MaxDbFails \in Nat /\ MaxCrashes \in Nat

VARIABLES
  seq,        \* Engine.seq: the positions started so far are 1 .. seq
  asset,      \* the asset of each position
  state,      \* Position.State in memory
  qty,        \* Position.LongBaseQty and ShortBaseQty
  open,       \* Engine.open
  closeReq,   \* the keys of Engine.closeReq
  row,        \* table positions: state and actual_delta
  legsRow,    \* table position_legs: base_qty of each leg
  real,       \* the exposure of each leg at its exchange
  exited,     \* positions whose EXIT_ client ids have been used
  pc, cur, todo,        \* where Tick is, on which position, which are left
  fill, sent, verdict,  \* its locals: fills, answers of both legs, close result
  registry,   \* do both instruments resolve?
  halted,     \* Halter.IsHalted
  dbFails, crashes

seqVars == <<seq, asset>>
posVars == <<state, qty>>
bookVars == <<open, closeReq>>
dbVars == <<row, legsRow, dbFails>>
exchangeVars == <<real, exited>>
locals == <<fill, sent, verdict>>
envVars == <<registry, halted, crashes>>
vars == <<seqVars, posVars, bookVars, dbVars, exchangeVars, pc, cur, todo, locals, envVars>>

Ids == 1 .. MaxIds
Zero == [l \in Legs |-> 0]
NotSent == [l \in Legs |-> "none"]
NoRow == [state |-> "none", delta |-> 0]
NoAsset == "none"

Steps == {"idle", "monitor", "exitRequested", "exiting", "close", "settle",
          "closed", "degradeClosed", "scan", "qualify", "prepare", "opening",
          "entry", "partial", "topUp", "reduce", "repaired", "fail", "degrade",
          "hedge", "monitoring", "saveLong", "saveShort", "register"}

TypeOK ==
  /\ seq \in 0 .. MaxIds
  /\ asset \in [Ids -> Assets \cup {NoAsset}]
  /\ state \in [Ids -> States]
  /\ qty \in [Ids -> [Legs -> -TargetQty .. TargetQty]]
  /\ open \subseteq Ids /\ closeReq \subseteq Ids
  /\ row \in [Ids -> [state : States \cup {"none"}, delta : -TargetQty .. TargetQty]]
  /\ legsRow \in [Ids -> [Legs -> {NoLeg} \cup -TargetQty .. TargetQty]]
  /\ real \in [Ids -> [Legs -> 0 .. 2 * TargetQty]]
  /\ exited \subseteq Ids
  /\ pc \in Steps /\ cur \in 0 .. MaxIds /\ todo \subseteq Ids
  /\ fill \in [Legs -> 0 .. TargetQty]
  /\ sent \in [Legs -> Kinds \cup {"none"}]
  /\ verdict \in {"none", "nil", "incomplete", "ambiguous"}
  /\ registry \in BOOLEAN /\ halted \in BOOLEAN
  /\ dbFails \in 0 .. MaxDbFails /\ crashes \in 0 .. MaxCrashes

Init ==
  /\ seq = 0 /\ asset = [id \in Ids |-> NoAsset]
  /\ state = [id \in Ids |-> "DISCOVERED"]
  /\ qty = [id \in Ids |-> Zero]
  /\ open = {} /\ closeReq = {}
  /\ row = [id \in Ids |-> NoRow]
  /\ legsRow = [id \in Ids |-> [l \in Legs |-> NoLeg]]
  /\ real = [id \in Ids |-> Zero]
  /\ exited = {}
  /\ pc = "idle" /\ cur = 0 /\ todo = {}
  /\ fill = Zero /\ sent = NotSent /\ verdict = "none"
  /\ registry = FALSE /\ halted = FALSE
  /\ dbFails = 0 /\ crashes = 0

-------------------------------------------------------------------------------
\* Go on with the current position, or leave it.
To(p) == pc' = p /\ UNCHANGED <<cur, locals>>
Leave(p) ==
  /\ pc' = p /\ cur' = 0
  /\ fill' = Zero /\ sent' = NotSent /\ verdict' = "none"

\* The row a transition of position id writes.
Snap(id, s) == [state |-> s, delta |-> qty[id]["long"] - qty[id]["short"]]
\* Faulty variant: a refused transition stays in memory.
Transitions_NoRollback(id, to) ==
  LET outcome(ok, s, r, fails) == [ok |-> ok, state |-> s, row |-> r, fails |-> fails]
  IN IF ~CanTransition(state[id], to)
     THEN {outcome(FALSE, state[id], row[id], 0)}
     ELSE {outcome(TRUE, to, Snap(id, to), 0)}
          \cup {t \in {outcome(TRUE, to, row[id], 1)} : dbFails < MaxDbFails}

\* What Position.TransitionTo may do to memory and to the row of position id: not
\* allowed, saved, refused by the database, or saved with the answer lost.
Transitions(id, to) ==
  LET outcome(ok, s, r, fails) == [ok |-> ok, state |-> s, row |-> r, fails |-> fails]
      kept == state[id]
  IN IF ~CanTransition(kept, to)
     THEN {outcome(FALSE, kept, row[id], 0)}
     ELSE {outcome(TRUE, to, Snap(id, to), 0)}
          \cup {t \in {outcome(FALSE, kept, row[id], 1),
                       outcome(FALSE, kept, Snap(id, to), 1)} : dbFails < MaxDbFails}

Apply(t) ==
  /\ state' = [state EXCEPT ![cur] = t.state]
  /\ row' = [row EXCEPT ![cur] = t.row]
  /\ dbFails' = dbFails + t.fails
  /\ UNCHANGED <<qty, legsRow>>

\* A transition whose failure ends the work on the position.
Advance(at, to, next, otherwise) ==
  /\ pc = at
  /\ \E t \in Transitions(cur, to) :
       Apply(t) /\ IF t.ok THEN To(next) ELSE Leave(otherwise)
  /\ UNCHANGED <<seqVars, bookVars, exchangeVars, todo, envVars>>

\* A transition whose failure is ignored.
AdvanceAnyway(at, to, next) ==
  /\ pc = at
  /\ \E t \in Transitions(cur, to) : Apply(t)
  /\ To(next)
  /\ UNCHANGED <<seqVars, bookVars, exchangeVars, todo, envVars>>

-------------------------------------------------------------------------------
(* Tick and monitor. *)

\* A halted engine returns before monitor.
Tick ==
  /\ pc = "idle"
  /\ ~halted
  /\ todo' = open
  /\ Leave("monitor")
  /\ UNCHANGED <<seqVars, posVars, bookVars, dbVars, exchangeVars, envVars>>

\* Faulty variant: a degraded position is closed without a request.
MonitorClose_Degraded(id) ==
  /\ pc = "monitor" /\ id \in todo
  /\ state[id] \in {"MONITORING", "DEGRADED"}
  /\ todo' = todo \ {id}
  /\ registry
  /\ pc' = "exitRequested" /\ cur' = id
  /\ UNCHANGED <<seqVars, posVars, bookVars, dbVars, exchangeVars, locals, envVars>>

\* Faulty variant: a request for an open position is not looked at.
MonitorClose_OnlyDegraded(id) ==
  /\ pc = "monitor" /\ id \in todo
  /\ state[id] = "DEGRADED" /\ id \in closeReq
  /\ todo' = todo \ {id}
  /\ registry
  /\ pc' = "exitRequested" /\ cur' = id
  /\ UNCHANGED <<seqVars, posVars, bookVars, dbVars, exchangeVars, locals, envVars>>

\* Close on request, and a monitored position also on a funding flip.
MonitorClose(id) ==
  /\ pc = "monitor" /\ id \in todo
  /\ \/ state[id] = "MONITORING"   \* closeReq[id], or ~closeReq[id] and a flip
     \/ state[id] = "DEGRADED" /\ id \in closeReq
  /\ todo' = todo \ {id}
  /\ registry
  /\ pc' = "exitRequested" /\ cur' = id
  /\ UNCHANGED <<seqVars, posVars, bookVars, dbVars, exchangeVars, locals, envVars>>

\* Nothing to do: no request and no flip, symbols not resolved (the close is
\* deferred), or a state monitor has no case for.  A terminal position in Engine.open
\* would be forgotten here, but none stays there.
MonitorSkip(id) ==
  /\ pc = "monitor" /\ id \in todo
  /\ state[id] \in {"MONITORING", "DEGRADED"} => id \notin closeReq \/ ~registry
  /\ todo' = todo \ {id}
  /\ UNCHANGED <<seqVars, posVars, bookVars, dbVars, exchangeVars, pc, cur, locals, envVars>>

Scan ==
  /\ pc = "monitor" /\ todo = {}
  /\ Leave("scan")
  /\ UNCHANGED <<seqVars, posVars, bookVars, dbVars, exchangeVars, todo, envVars>>

-------------------------------------------------------------------------------
(* closePosition. *)

ExitRequested == Advance("exitRequested", "EXIT_REQUESTED", "exiting", "monitor")
Exiting == Advance("exiting", "EXITING", "close", "monitor")

\* CoordinatedClose.  It closes the common quantity of both legs.  Its orders may
\* fill unseen; what it confirms is real on the first close, while the reused
\* client ids of a second one may answer with the orders of the first.
CloseTarget ==
  LET common == Smaller(qty[cur]["long"], qty[cur]["short"])
  IN IF common > 0 THEN common ELSE 0
CloseResults ==
  {c \in [took : [Legs -> 0 .. 2 * TargetQty], closed : [Legs -> 0 .. CloseTarget],
          verdict : {"nil", "incomplete", "ambiguous"}] :
     /\ \A l \in Legs : c.took[l] <= real[cur][l]
     /\ cur \notin exited => \A l \in Legs : c.closed[l] <= c.took[l]
     /\ c.verdict = "nil" <=> \A l \in Legs : c.closed[l] = CloseTarget
     /\ CloseTarget = 0 => c.took = Zero}

Subtract(f, g) == [l \in Legs |-> f[l] - g[l]]

Close ==
  /\ pc = "close"
  /\ \E c \in CloseResults :
       /\ real' = [real EXCEPT ![cur] = Subtract(@, c.took)]
       /\ qty' = [qty EXCEPT ![cur] = Subtract(@, c.closed)]
       /\ verdict' = c.verdict
       /\ exited' = IF CloseTarget > 0 THEN exited \cup {cur} ELSE exited
  /\ pc' = "saveLong"
  /\ UNCHANGED <<seqVars, state, bookVars, dbVars, cur, todo, fill, sent, envVars>>

\* The switch on the error of the close: RECONCILING unless it is incomplete.
Settle ==
  /\ verdict # "incomplete"
  /\ AdvanceAnyway("settle", "RECONCILING", IF verdict = "nil" THEN "closed" ELSE "degradeClosed")

Forget(id) == open' = open \ {id} /\ closeReq' = closeReq \ {id}

\* A failed transition to CLOSED returns without forgetting the position and
\* without taking the request back.
Closed ==
  /\ pc = "closed"
  /\ \E t \in Transitions(cur, "CLOSED") :
       /\ Apply(t)
       /\ IF t.ok THEN Forget(cur) ELSE UNCHANGED bookVars
  /\ Leave("monitor")
  /\ UNCHANGED <<seqVars, exchangeVars, todo, envVars>>

DegradeClosed ==
  /\ \/ pc = "degradeClosed"
     \/ pc = "settle" /\ verdict = "incomplete"
  /\ \E t \in Transitions(cur, "DEGRADED") : Apply(t)
  /\ closeReq' = closeReq \ {cur}
  /\ Leave("monitor")
  /\ UNCHANGED <<seqVars, open, exchangeVars, todo, envVars>>

-------------------------------------------------------------------------------
(* persistLegs: one upsert per leg, whose failure is logged and ignored. *)

SaveLeg(l, at, next) ==
  /\ pc = at
  /\ \/ legsRow' = [legsRow EXCEPT ![cur][l] = qty[cur][l]] /\ UNCHANGED dbFails
     \/ dbFails < MaxDbFails /\ dbFails' = dbFails + 1 /\ UNCHANGED legsRow
  /\ To(next)
  /\ UNCHANGED <<seqVars, posVars, bookVars, row, exchangeVars, todo, envVars>>

SaveLong == SaveLeg("long", "saveLong", "saveShort")
SaveShort ==
  SaveLeg("short", "saveShort", IF verdict = "none" THEN "register" ELSE "settle")

RegisterOpen ==
  /\ pc = "register"
  /\ open' = open \cup {cur}
  /\ Leave("idle")
  /\ UNCHANGED <<seqVars, posVars, closeReq, dbVars, exchangeVars, todo, envVars>>

-------------------------------------------------------------------------------
(* tryOpen and openPosition. *)

\* Enough positions, or no eligible candidate (or the observe-only mode).
NoOpen ==
  /\ pc = "scan"
  /\ Leave("idle")
  /\ UNCHANGED <<seqVars, posVars, bookVars, dbVars, exchangeVars, todo, envVars>>

\* pickCandidate: no position of the same asset is open.
Candidate(a) == \A id \in open : asset[id] # a

\* A new position starts; without its instruments, or with a quantity below a
\* minimum, it ends there.
TryOpen(a, next) ==
  /\ pc = "scan"
  /\ Cardinality(open) < MaxOpen
  /\ registry \/ next = "idle"
  /\ seq < MaxIds
  /\ Candidate(a)
  /\ seq' = seq + 1
  /\ asset' = [asset EXCEPT ![seq + 1] = a]
  /\ IF next = "idle" THEN Leave("idle") ELSE pc' = next /\ cur' = seq + 1 /\ UNCHANGED locals
  /\ UNCHANGED <<posVars, bookVars, dbVars, exchangeVars, todo, envVars>>

Qualify == Advance("qualify", "QUALIFIED", "prepare", "idle")
Prepare == Advance("prepare", "PREPARING", "opening", "idle")

\* Faulty variant: the entry goes on although OPENING was not saved.
StartEntry_Anyway == AdvanceAnyway("opening", "OPENING", "entry")

StartEntry == Advance("opening", "OPENING", "entry", "idle")

\* Faulty variant: orders are still sent after the transition to FAILED.
NoMarketData_GoesOn == sent = NotSent /\ AdvanceAnyway("entry", "FAILED", "entry")

\* No market data for a leg: FAILED before any order.
NoMarketData ==
  /\ pc = "entry" /\ sent = NotSent
  /\ To("fail")
  /\ UNCHANGED <<seqVars, posVars, bookVars, dbVars, exchangeVars, todo, envVars>>

\* placeEntryLegs: one goroutine per leg.  A leg without an executor is an error.
EntryLeg(l) ==
  /\ pc = "entry" /\ sent[l] = "none"
  /\ \E a \in Answers(TargetQty) :
       /\ real' = [real EXCEPT ![cur][l] = @ + a.filled]
       /\ fill' = [fill EXCEPT ![l] = a.reported]
       /\ sent' = [sent EXCEPT ![l] = a.kind]
  /\ UNCHANGED <<seqVars, posVars, bookVars, dbVars, exited, pc, cur, todo, verdict, envVars>>

BothSent == pc = "entry" /\ \A l \in Legs : sent[l] # "none"

EntryUnknown ==
  /\ BothSent
  /\ \E l \in Legs : sent[l] = "ambiguous"
  /\ To("degrade")
  /\ UNCHANGED <<seqVars, posVars, bookVars, dbVars, exchangeVars, todo, envVars>>

EntryUnfilled ==
  /\ BothSent
  /\ \A l \in Legs : sent[l] # "ambiguous" /\ fill[l] = 0
  /\ To("fail")
  /\ UNCHANGED <<seqVars, posVars, bookVars, dbVars, exchangeVars, todo, envVars>>

Mismatch == AnalyzeMismatch(fill["long"], fill["short"], Tolerance)

EntryFilled ==
  /\ BothSent
  /\ \A l \in Legs : sent[l] # "ambiguous"
  /\ \E l \in Legs : fill[l] > 0
  /\ qty' = [qty EXCEPT ![cur] = fill]
  /\ To(IF Mismatch.action = "none" THEN "hedge" ELSE "partial")
  /\ UNCHANGED <<seqVars, state, bookVars, dbVars, exchangeVars, todo, envVars>>

Fail ==
  /\ pc = "fail"
  /\ \E t \in Transitions(cur, "FAILED") : Apply(t)
  /\ Leave("idle")
  /\ UNCHANGED <<seqVars, bookVars, exchangeVars, todo, envVars>>

-------------------------------------------------------------------------------
(* repairImbalance. *)

PartiallyHedged == Advance("partial", "PARTIALLY_HEDGED", "topUp", "idle")

\* Faulty variant: an unanswered top-up counts as filled.
TopUp_Optimistic ==
  /\ pc = "topUp"
  /\ LET lag == LaggingLeg(fill) IN
     \E a \in Answers(Mismatch.shortfall) :
       LET filled == IF a.kind = "ambiguous" THEN Mismatch.shortfall ELSE a.reported
           topped == [fill EXCEPT ![lag] = @ + filled]
           after == ApplyTopUp(Mismatch.shortfall, filled, topped["long"], topped["short"], Tolerance)
       IN /\ real' = [real EXCEPT ![cur][lag] = @ + a.filled]
          /\ fill' = topped
          /\ pc' = IF after.action = "reduce" /\ after.excess > 0 THEN "reduce" ELSE "repaired"
  /\ UNCHANGED <<seqVars, posVars, bookVars, dbVars, exited, cur, todo, sent, verdict, envVars>>

\* One top-up of the lagging leg; any error counts as unfilled.
TopUp ==
  /\ pc = "topUp"
  /\ LET lag == LaggingLeg(fill) IN
     \E a \in Answers(Mismatch.shortfall) :
       LET topped == [fill EXCEPT ![lag] = @ + a.reported]
           after == ApplyTopUp(Mismatch.shortfall, a.reported, topped["long"], topped["short"], Tolerance)
       IN /\ real' = [real EXCEPT ![cur][lag] = @ + a.filled]
          /\ fill' = topped
          /\ pc' = IF after.action = "reduce" /\ after.excess > 0 THEN "reduce" ELSE "repaired"
  /\ UNCHANGED <<seqVars, posVars, bookVars, dbVars, exited, cur, todo, sent, verdict, envVars>>

\* One reduce-only order for the excess of the heavy leg.  An answer, whatever it
\* filled, levels both legs; an error leaves the fills as they are.
Reduce ==
  /\ pc = "reduce"
  /\ LET heavy == HeavyLeg(fill) IN
     \E a \in Answers(Distance(fill["long"], fill["short"])) :
       /\ a.filled <= real[cur][heavy]
       /\ real' = [real EXCEPT ![cur][heavy] = @ - a.filled]
       /\ fill' = IF a.kind = "ok"
                  THEN [l \in Legs |-> Smaller(fill["long"], fill["short"])]
                  ELSE fill
  /\ pc' = "repaired"
  /\ UNCHANGED <<seqVars, posVars, bookVars, dbVars, exited, cur, todo, sent, verdict, envVars>>

\* Faulty variant: the result of the repair is not looked at.
Repaired_Unchecked ==
  /\ pc = "repaired"
  /\ qty' = [qty EXCEPT ![cur] = fill]
  /\ To("hedge")
  /\ UNCHANGED <<seqVars, state, bookVars, dbVars, exchangeVars, todo, envVars>>

Repaired ==
  /\ pc = "repaired"
  /\ qty' = [qty EXCEPT ![cur] = fill]
  /\ To(IF Distance(fill["long"], fill["short"]) > Tolerance \/ fill = Zero
        THEN "degrade" ELSE "hedge")
  /\ UNCHANGED <<seqVars, state, bookVars, dbVars, exchangeVars, todo, envVars>>

Degrade == AdvanceAnyway("degrade", "DEGRADED", "saveLong")
Hedge == Advance("hedge", "HEDGED", "monitoring", "idle")
Monitoring == Advance("monitoring", "MONITORING", "saveLong", "idle")

EngineStep ==
  \/ Tick \/ Scan \/ \E id \in Ids : MonitorClose(id) \/ MonitorSkip(id)
  \/ ExitRequested \/ Exiting \/ Close \/ Settle \/ Closed \/ DegradeClosed
  \/ SaveLong \/ SaveShort \/ RegisterOpen
  \/ NoOpen \/ (\E a \in Assets : TryOpen(a, "qualify") \/ TryOpen(a, "idle"))
  \/ Qualify \/ Prepare \/ StartEntry
  \/ NoMarketData \/ (\E l \in Legs : EntryLeg(l))
  \/ EntryUnknown \/ EntryUnfilled \/ EntryFilled \/ Fail
  \/ PartiallyHedged \/ TopUp \/ Reduce \/ Repaired \/ Degrade \/ Hedge \/ Monitoring

-------------------------------------------------------------------------------
(* The other goroutines, and the process. *)

\* RequestClose takes any position id.  A request for a position that is neither
\* open nor being opened is never read, and gone after a restart: left out.
RequestClose(id) ==
  /\ id \in open \cup {cur}
  /\ closeReq' = closeReq \cup {id}
  /\ id \notin closeReq
  /\ UNCHANGED <<seqVars, posVars, open, dbVars, exchangeVars, pc, cur, todo, locals, envVars>>

\* The market refresh fills the instrument registry.
RefreshInstruments ==
  /\ ~registry /\ registry' = TRUE
  /\ UNCHANGED <<seqVars, posVars, bookVars, dbVars, exchangeVars, pc, cur, todo, locals, halted, crashes>>

Halt ==
  /\ ~halted /\ halted' = TRUE
  /\ UNCHANGED <<seqVars, posVars, bookVars, dbVars, exchangeVars, pc, cur, todo, locals, registry, crashes>>

\* Restore: the state comes from the row; the quantities from the leg rows if any
\* was found (a missing one is zero), else from the delta of the row.
RestoredQty(id, legsLoaded) ==
  IF legsLoaded /\ \E l \in Legs : legsRow[id][l] # NoLeg
  THEN [l \in Legs |-> IF legsRow[id][l] = NoLeg THEN 0 ELSE legsRow[id][l]]
  ELSE [long |-> row[id].delta, short |-> 0]

RestoredIds == {id \in Ids : row[id].state \in Restored}

\* The process dies and starts again; reading the legs of some position may fail.
\* Requests are gone, the registry is empty, the halt is what the lock row says.
Restart ==
  /\ crashes < MaxCrashes
  /\ crashes' = crashes + 1
  /\ \E unread \in SUBSET RestoredIds :
       /\ dbFails + Cardinality(unread) <= MaxDbFails
       /\ dbFails' = dbFails + Cardinality(unread)
       /\ qty' = [id \in Ids |-> IF id \in RestoredIds
                                 THEN RestoredQty(id, id \notin unread) ELSE Zero]
  /\ state' = [id \in Ids |-> IF row[id].state = "none" THEN "DISCOVERED" ELSE row[id].state]
  /\ open' = RestoredIds
  /\ closeReq' = {}
  /\ registry' = FALSE
  /\ halted' \in BOOLEAN
  /\ todo' = {}
  /\ Leave("idle")
  /\ UNCHANGED <<seqVars, row, legsRow, exchangeVars>>

Next ==
  \/ EngineStep
  \/ \E id \in Ids : RequestClose(id)
  \/ RefreshInstruments \/ Halt \/ Restart

\* The ticker fires and every call of Tick returns: adapters and database calls
\* have timeouts.  The operator, the registry and the halt are free.
Fairness == WF_vars(EngineStep)

Spec == Init /\ [][Next]_vars
FairSpec == Spec /\ Fairness

-------------------------------------------------------------------------------
\* A position in work holds at its exchanges at least what it records: only
\* confirmed fills are counted (openPosition, repairImbalance), also after a
\* restart.
RecordedIsReal ==
  \A id \in Ids : state[id] \in {"HEDGED", "MONITORING"} =>
    \A l \in Legs : qty[id][l] <= real[id][l]

\* A hedged position records legs within the tolerance, unless a restart found the
\* row of one leg only.
HedgeWithinTolerance ==
  \A id \in Ids :
    /\ state[id] \in {"HEDGED", "MONITORING"}
    /\ (legsRow[id]["long"] = NoLeg) <=> (legsRow[id]["short"] = NoLeg)
    => Distance(qty[id]["long"], qty[id]["short"]) <= Tolerance

\* While no database call has failed the engine holds no more positions than the
\* limit, whatever a crash interrupted and a restart restored.
OpenWithinLimit == dbFails = 0 => Cardinality(open) <= MaxOpen

\* Whatever fails, is lost or crashes, the row of a position moves along the table.
RowFollowsTable ==
  [][\A id \in Ids : row'[id].state # row[id].state =>
       CanTransition(IF row[id] = NoRow THEN "DISCOVERED" ELSE row[id].state,
                     row'[id].state)]_vars

\* A degraded position is left to the operator: without a request, the running
\* process does not move it.
DegradedWaitsForOperator ==
  [][\A id \in Ids : state[id] = "DEGRADED" /\ state'[id] # "DEGRADED" =>
       id \in closeReq \/ crashes' # crashes]_vars

\* An order of an entry, a repair or a close fills only at a position whose row
\* shows the state it is in, one that a restart takes up: none before OPENING is
\* saved, none once the row says that the position is over, and none while a lost
\* answer keeps memory and row apart.  What a position holds when it ends is
\* another matter: no restart reads the row of one that is over (NoLegAlone).
OrdersHaveRow ==
  [][\A id \in Ids : real'[id] # real[id] =>
       row[id].state \in Restored /\ row[id].state = state[id]]_vars

\* A close request for a monitored position is taken up, or the engine is halted.
CloseRequestIsTaken ==
  \A id \in Ids :
    (id \in open \cap closeReq /\ state[id] = "MONITORING" /\ registry)
      ~> (state[id] # "MONITORING" \/ id \notin closeReq \/ halted)

-------------------------------------------------------------------------------
\* engine.go:7 - one leg never stays without the other unnoticed: a position that
\* is over holds nothing on either leg, or the same on both.
NoLegAlone ==
  \A id \in Ids : state[id] \in Terminal => real[id]["long"] = real[id]["short"]

\* MANUAL.md:337 - a close ends as CLOSED or as DEGRADED.
CloseEnds ==
  \A id \in Ids :
    (state[id] \in {"EXIT_REQUESTED", "EXITING", "RECONCILING"} /\ ~halted)
      ~> (state[id] \in {"CLOSED", "DEGRADED"} \/ halted)

\* MANUAL.md:228 - in SAFE_HALT the open positions are still attended to: the
\* request to close one is taken up.
HaltedStillCloses ==
  \A id \in Ids :
    (id \in open \cap closeReq /\ state[id] = "MONITORING" /\ registry)
      ~> (state[id] # "MONITORING" \/ id \notin closeReq)
===============================================================================
