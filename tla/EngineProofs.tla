----------------------------- MODULE EngineProofs -----------------------------
(***************************************************************************)
(* Proofs about the trading loop, for any assets, quantities, tolerance    *)
(* and limits, and any number of positions, failing database calls and     *)
(* restarts.                                                               *)
(***************************************************************************)
EXTENDS Engine, FiniteSetTheorems, TLAPS

Qtys == -TargetQty .. TargetQty
Hedged == {"HEDGED", "MONITORING"}

EntrySteps == {"qualify", "prepare", "opening", "entry", "fail", "partial", "topUp",
               "reduce", "repaired", "degrade", "hedge", "monitoring"}
ExitSteps == {"exitRequested", "exiting", "close", "settle", "closed", "degradeClosed"}
Saves == {"saveLong", "saveShort"}
\* Tick is opening cur, or closing it.
Entering == pc \in EntrySteps \cup {"register"} \/ (pc \in Saves /\ verdict = "none")
Leaving == pc \in ExitSteps \/ (pc \in Saves /\ verdict # "none")

(***************************************************************************)
(* What the row of a position may show while memory shows s: the same, or  *)
(* the transition Tick tries next, whose answer was lost.                  *)
(***************************************************************************)
Behind(s, r) ==
  \/ s = "DISCOVERED"       /\ r \in {"none", "QUALIFIED"}
  \/ s = "QUALIFIED"        /\ r \in {s, "PREPARING"}
  \/ s = "PREPARING"        /\ r \in {s, "OPENING"}
  \/ s = "OPENING"          /\ r \in {s, "PARTIALLY_HEDGED", "HEDGED", "DEGRADED", "FAILED"}
  \/ s = "PARTIALLY_HEDGED" /\ r \in {s, "HEDGED", "DEGRADED"}
  \/ s = "HEDGED"           /\ r \in {s, "MONITORING"}
  \/ s = "MONITORING"       /\ r \in {s, "EXIT_REQUESTED"}
  \/ s = "EXIT_REQUESTED"   /\ r \in {s, "EXITING"}
  \/ s = "EXITING"          /\ r \in {s, "RECONCILING", "DEGRADED"}
  \/ s = "RECONCILING"      /\ r \in {s, "CLOSED", "DEGRADED"}
  \/ s = "DEGRADED"         /\ r \in {s, "EXIT_REQUESTED"}
  \/ s \in Terminal         /\ r = s

(***************************************************************************)
(* Of every position: what memory records is real while it is hedged, and  *)
(* so is what a restart would read; the same for the tolerance.  A restart *)
(* that cannot read the legs puts the difference into the long one, which  *)
(* is then all there is: a negative leg is saved only by a close, and      *)
(* after it the position is over or stays where it is.                     *)
(***************************************************************************)
Near(id) == Behind(state[id], row[id].state)

Saved(id, l) == legsRow[id][l] # NoLeg

Held(id) ==
  /\ state[id] \in Hedged => \A l \in Legs : qty[id][l] <= real[id][l]
  /\ row[id].state \in Hedged => /\ \A l \in Legs : Saved(id, l) => legsRow[id][l] <= real[id][l]
                                 /\ row[id].delta <= real[id]["long"]

Even(id) ==
  /\ state[id] \in Hedged /\ (Saved(id, "long") <=> Saved(id, "short"))
       => Distance(qty[id]["long"], qty[id]["short"]) <= Tolerance
  /\ row[id].state \in Hedged =>
       /\ row[id].delta \in -Tolerance .. Tolerance
       /\ Saved(id, "long") /\ Saved(id, "short")
            => Distance(legsRow[id]["long"], legsRow[id]["short"]) <= Tolerance

Straight(q) == q["long"] < 0 => q["short"] = 0

Sane(id) ==
  /\ qty[id]["short"] >= 0
  /\ state[id] \in {"MONITORING", "DEGRADED"} => Straight(qty[id])
  /\ Saved(id, "short") => legsRow[id]["short"] >= 0
  /\ Saved(id, "long") /\ row[id].state \notin {"EXITING", "RECONCILING", "CLOSED"}
       => legsRow[id]["long"] >= 0

Fresh(id) ==
  id > seq => /\ state[id] = "DISCOVERED" /\ row[id] = NoRow
              /\ qty[id] = Zero /\ real[id] = Zero /\ ~Saved(id, "long") /\ ~Saved(id, "short")

PosInv(id) == Near(id) /\ Held(id) /\ Even(id) /\ Sane(id) /\ Fresh(id)

(***************************************************************************)
(* Of the position Tick works on: where Tick stands tells its state, that  *)
(* its row is not ahead, and what the fills counted so far are worth.      *)
(***************************************************************************)
Backed == \A l \in Legs : fill[l] <= real[cur][l]
Within(q) == Distance(q["long"], q["short"]) <= Tolerance

StateAt ==
  /\ pc = "qualify" => state[cur] = "DISCOVERED"
  /\ pc = "prepare" => state[cur] = "QUALIFIED"
  /\ pc = "opening" => state[cur] = "PREPARING"
  /\ pc \in {"entry", "fail", "partial"} => state[cur] = "OPENING"
  /\ pc \in {"topUp", "reduce", "repaired"} => state[cur] = "PARTIALLY_HEDGED"
  /\ pc \in {"hedge", "degrade"} => state[cur] \in {"OPENING", "PARTIALLY_HEDGED"}
  /\ pc = "monitoring" => state[cur] = "HEDGED"
  /\ pc \in Saves /\ verdict = "none" =>
       \/ state[cur] = "MONITORING" /\ row[cur].state = "MONITORING"
       \/ /\ state[cur] \in {"OPENING", "PARTIALLY_HEDGED", "DEGRADED"}
          /\ row[cur].state \in {"OPENING", "PARTIALLY_HEDGED", "DEGRADED"}
  /\ pc = "exitRequested" => \/ state[cur] = "MONITORING"
                             \/ state[cur] = "DEGRADED" /\ cur \in closeReq
  /\ pc = "exiting" => state[cur] = "EXIT_REQUESTED"
  /\ pc \in {"close", "settle"} \/ (pc \in Saves /\ verdict # "none") => state[cur] = "EXITING"
  /\ pc \in {"closed", "degradeClosed"} =>
       \/ state[cur] = "RECONCILING" /\ row[cur].state = "RECONCILING"
       \/ state[cur] = "EXITING" /\ row[cur].state \in {"EXITING", "RECONCILING"}

RowAt ==
  /\ pc = "qualify" => row[cur] = NoRow
  /\ \/ pc \in EntrySteps \ {"qualify"}
     \/ pc \in {"exiting", "close", "settle"}
     \/ pc \in Saves /\ verdict # "none"
     => row[cur].state = state[cur]

EntryAt ==
  /\ pc \in EntrySteps \cup {"saveLong"} /\ verdict = "none" =>
       ~Saved(cur, "long") /\ ~Saved(cur, "short")
  /\ Entering => qty[cur]["long"] >= 0
  /\ pc \in {"qualify", "prepare", "opening"} =>
       fill = Zero /\ sent = NotSent /\ real[cur] = Zero
  /\ pc \in {"entry", "partial", "topUp"} => Backed /\ \A l \in Legs : real[cur][l] <= TargetQty
  /\ pc = "entry" => \A l \in Legs : sent[l] = "none" => real[cur][l] = 0
  /\ pc \in {"partial", "topUp", "reduce"} => ~Within(fill)
  /\ pc = "reduce" => Backed
  /\ pc = "repaired" => Backed \/ ~Within(fill)
  /\ pc = "hedge" => Backed /\ qty[cur] = fill
  /\ pc \in {"hedge", "monitoring"} => Within(qty[cur])
  /\ pc \in Saves /\ verdict = "none" /\ state[cur] = "MONITORING" => Within(qty[cur])
  /\ pc = "saveShort" /\ verdict = "none" =>
       ~Saved(cur, "short") /\ (Saved(cur, "long") => legsRow[cur]["long"] = qty[cur]["long"])

ExitAt ==
  /\ Leaving => cur \in open /\ cur \notin todo
  /\ pc \in {"closed", "settle", "degradeClosed"} => verdict # "none"
  /\ pc = "closed" => verdict = "nil"
  /\ pc = "degradeClosed" => verdict # "nil"
  /\ pc \in {"exitRequested", "exiting", "close", "register"} \cup EntrySteps => verdict = "none"
  /\ verdict \notin {"none", "nil"} => qty[cur]["long"] >= 0
  /\ (pc \in {"exiting", "close"} \/ verdict \notin {"none", "nil"}) /\ Saved(cur, "long")
       => legsRow[cur]["long"] >= 0

Cursor ==
  /\ todo \subseteq open /\ open \subseteq 1 .. seq
  /\ IF pc \in {"idle", "monitor", "scan"}
     THEN cur = 0 /\ verdict = "none" /\ fill = Zero /\ sent = NotSent
     ELSE cur \in 1 .. seq /\ Straight(qty[cur])
  /\ cur # 0 => StateAt /\ RowAt /\ EntryAt /\ ExitAt

\* What a restart would restore is open, or being opened.
WithinLimit ==
  dbFails = 0 =>
    /\ RestoredIds \subseteq open \cup (IF Entering THEN {cur} ELSE {})
    /\ Cardinality(open) <= MaxOpen
    /\ Entering => Cardinality(open) < MaxOpen

EngineInv == TypeOK /\ (\A id \in Ids : PosInv(id)) /\ Cursor /\ WithinLimit

-------------------------------------------------------------------------------
(* Facts about the operators of the model. *)

LEMMA Bounds ==
  /\ TargetQty \in Nat /\ TargetQty > 0 /\ Tolerance \in Nat
  /\ MaxOpen \in Nat /\ MaxOpen > 0 /\ MaxIds \in Nat
  /\ MaxDbFails \in Nat /\ MaxCrashes \in Nat /\ NoLeg \notin Int
  BY TargetQtyAssumption, ToleranceAssumption, NoLegAssumption, BoundsAssumption

LEMMA DistanceIs ==
  ASSUME NEW a \in Int, NEW b \in Int
  PROVE  /\ Distance(a, b) \in Nat /\ Distance(a, b) = Distance(b, a)
         /\ Distance(a, b) <= Tolerance => a - b \in -Tolerance .. Tolerance
         /\ a - b \in -Tolerance .. Tolerance => Distance(a, b) <= Tolerance
         /\ Smaller(a, b) <= a /\ Smaller(a, b) <= b /\ Smaller(a, b) \in {a, b}
         /\ Distance(a, b) = a + b - 2 * Smaller(a, b)
  BY Bounds DEF Distance, Smaller

\* The quantities of a position; in a straight pair their difference is one too.
LEMMA QtyIs ==
  ASSUME TypeOK, NEW id \in Ids
  PROVE  qty[id]["long"] \in Qtys /\ qty[id]["short"] \in Qtys
  BY DEF TypeOK, Legs, Qtys

LEMMA DeltaIs ==
  ASSUME TypeOK, NEW id \in Ids, PosInv(id), Straight(qty[id])
  PROVE  qty[id]["long"] - qty[id]["short"] \in Qtys
  <1>1. qty[id]["short"] >= 0
    BY DEF PosInv, Sane
  <1> QED
    BY <1>1, QtyIs, Bounds DEF Straight, Qtys

LEMMA IdsAreFinite == IsFiniteSet(Ids)
  BY Bounds, FS_Interval DEF Ids

LEMMA OpenIsFinite ==
  ASSUME TypeOK
  PROVE  IsFiniteSet(open) /\ Cardinality(open) \in Nat
  <1>1. open \in SUBSET Ids
    BY DEF TypeOK
  <1> QED
    BY <1>1, IdsAreFinite, FS_Subset, FS_CardinalityType

(***************************************************************************)
(* What TransitionTo does: it is made, or refused by the table, or it      *)
(* fails, with or without a trace in the row.                              *)
(***************************************************************************)
Made(to) ==
  /\ state'[cur] = to /\ row'[cur] = Snap(cur, to) /\ CanTransition(state[cur], to)
  /\ dbFails' = dbFails
Refused(to) ==
  /\ state'[cur] = state[cur] /\ row'[cur] = row[cur] /\ ~CanTransition(state[cur], to)
  /\ dbFails' = dbFails
Failed(to) ==
  /\ state'[cur] = state[cur] /\ row'[cur] \in {row[cur], Snap(cur, to)}
  /\ CanTransition(state[cur], to) /\ dbFails' = dbFails + 1

LEMMA Transit ==
  ASSUME TypeOK, cur \in Ids, PosInv(cur), Straight(qty[cur]),
         NEW to \in States, NEW t \in Transitions(cur, to), Apply(t)
  PROVE  /\ \/ Made(to) /\ t.ok
            \/ Refused(to) /\ ~t.ok
            \/ Failed(to) /\ ~t.ok
         /\ \A id \in Ids \ {cur} : state'[id] = state[id] /\ row'[id] = row[id]
         /\ state' \in [Ids -> States]
         /\ row' \in [Ids -> [state : States \cup {"none"}, delta : -TargetQty .. TargetQty]]
         /\ dbFails' \in 0 .. MaxDbFails
         /\ UNCHANGED <<qty, legsRow>>
  <1>1. /\ dbFails \in Nat /\ state \in [Ids -> States]
        /\ row \in [Ids -> [state : States \cup {"none"}, delta : -TargetQty .. TargetQty]]
    BY Bounds DEF TypeOK
  <1>2. /\ state' = [state EXCEPT ![cur] = t.state] /\ row' = [row EXCEPT ![cur] = t.row]
        /\ dbFails' = dbFails + t.fails /\ UNCHANGED <<qty, legsRow>>
    BY DEF Apply
  <1>3. Snap(cur, to) \in [state : States \cup {"none"}, delta : -TargetQty .. TargetQty]
    BY DeltaIs DEF Snap, Qtys
  <1>4. \/ /\ ~ CanTransition(state[cur], to) /\ ~ t.ok
           /\ t.state = state[cur] /\ t.row = row[cur] /\ t.fails = 0
        \/ /\ CanTransition(state[cur], to) /\ t.ok
           /\ t.state = to /\ t.row = Snap(cur, to) /\ t.fails = 0
        \/ /\ CanTransition(state[cur], to) /\ ~ t.ok /\ dbFails < MaxDbFails
           /\ t.state = state[cur] /\ t.row \in {row[cur], Snap(cur, to)} /\ t.fails = 1
    BY DEF Transitions
  <1>5. state'[cur] = t.state /\ row'[cur] = t.row
    BY <1>1, <1>2
  <1>6. \/ Made(to) /\ t.ok
        \/ Refused(to) /\ ~t.ok
        \/ Failed(to) /\ ~t.ok
    BY <1>1, <1>2, <1>4, <1>5 DEF Made, Refused, Failed
  <1>7. t.state \in States /\ t.row \in [state : States \cup {"none"}, delta : -TargetQty .. TargetQty]
    BY <1>1, <1>3, <1>4
  <1>8. dbFails' \in 0 .. MaxDbFails
    BY <1>2, <1>4, Bounds DEF TypeOK
  <1> QED
    BY <1>1, <1>2, <1>6, <1>7, <1>8

-------------------------------------------------------------------------------
(* What a step may leave as it is. *)

LEMMA Untouched ==
  ASSUME NEW id \in Ids, PosInv(id), seq' = seq,
         state'[id] = state[id], row'[id] = row[id], qty'[id] = qty[id],
         legsRow'[id] = legsRow[id], real'[id] = real[id]
  PROVE  PosInv(id)'
  <1>1. Near(id)'
    BY DEF PosInv, Near
  <1>2. \A l \in Legs : Saved(id, l)' <=> Saved(id, l)
    BY DEF Saved
  <1>3. "long" \in Legs /\ "short" \in Legs
    BY DEF Legs
  <1>4. Held(id)' /\ Even(id)'
    BY <1>2, <1>3 DEF PosInv, Held, Even
  <1>5. Sane(id)' /\ Fresh(id)'
    BY <1>2, <1>3 DEF PosInv, Sane, Fresh, Straight
  <1> QED
    BY <1>1, <1>4, <1>5 DEF PosInv

\* A step that moves Tick on changes no position.
LEMMA AllUntouched ==
  ASSUME EngineInv, seq' = seq, UNCHANGED <<state, row, qty, legsRow, real>>
  PROVE  \A id \in Ids : PosInv(id)'
  BY Untouched DEF EngineInv

\* When Tick leaves a position, or is at none.
LEMMA AtRest ==
  ASSUME pc' \in {"idle", "monitor", "scan"}, cur' = 0, verdict' = "none",
         fill' = Zero, sent' = NotSent,
         todo' \subseteq open', open' \subseteq 1 .. seq'
  PROVE  Cursor'
  BY DEF Cursor

\* The limit, in a step that opens and forgets nothing and writes to no other row.
LEMMA LimitStays ==
  ASSUME EngineInv, open' = open, dbFails' \in Nat, dbFails' >= dbFails,
         \A id \in Ids \ {cur} : row'[id] = row[id],
         \/ cur \in open /\ ~Entering'
         \/ row' = row /\ ~Entering /\ ~ Entering'
         \/ Entering /\ Entering' /\ cur' = cur
         \/ Entering /\ ~Entering' /\ (dbFails' = 0 => row'[cur].state \notin Restored)
  PROVE  WithinLimit'
  <1> SUFFICES ASSUME dbFails' = 0
               PROVE  /\ RestoredIds' \subseteq open \cup (IF Entering' THEN {cur'} ELSE {})
                      /\ Cardinality(open) <= MaxOpen
                      /\ Entering' => Cardinality(open) < MaxOpen
    BY DEF WithinLimit
  <1>1. dbFails = 0
    BY Bounds DEF EngineInv, TypeOK
  <1>2. /\ RestoredIds \subseteq open \cup (IF Entering THEN {cur} ELSE {})
        /\ Cardinality(open) <= MaxOpen /\ (Entering => Cardinality(open) < MaxOpen)
    BY <1>1 DEF EngineInv, WithinLimit
  <1>3. RestoredIds' \ {cur} \subseteq RestoredIds
    BY DEF RestoredIds
  <1>4. row' = row => RestoredIds' = RestoredIds
    BY DEF RestoredIds
  <1>5. row'[cur].state \notin Restored => cur \notin RestoredIds'
    BY DEF RestoredIds
  <1> QED
    BY <1>2, <1>3, <1>4, <1>5

(***************************************************************************)
(* A transition of the current position to `to`, where Tick may try it.    *)
(***************************************************************************)
MayTry(to) ==
  /\ to \in States \ {"DISCOVERED", "AWAITING_USER_APPROVAL"}
  /\ CanTransition(state[cur], to) =>
       /\ Behind(state[cur], to)
       /\ to \in Hedged => /\ \A l \in Legs : ~Saved(cur, l) /\ qty[cur][l] <= real[cur][l]
                           /\ Within(qty[cur])
       /\ to \notin {"EXITING", "RECONCILING", "CLOSED"} /\ Saved(cur, "long")
            => legsRow[cur]["long"] >= 0

LEMMA BehindItself ==
  ASSUME NEW to \in States \ {"DISCOVERED", "AWAITING_USER_APPROVAL"}
  PROVE  Behind(to, to)
  BY DEF Behind, States, Terminal

LEMMA TransitPos ==
  ASSUME EngineInv, NEW c \in 1 .. seq, c = cur, Straight(qty[cur]),
         NEW to, MayTry(to), NEW t \in Transitions(cur, to), Apply(t),
         seq' = seq, UNCHANGED real
  PROVE  \A id \in Ids : PosInv(id)'
  <1>1. c \in Ids /\ cur \in Ids /\ to \in States /\ TypeOK /\ PosInv(cur)
    <2>1. TypeOK /\ to \in States
      BY DEF EngineInv, MayTry
    <2>2. c \in Ids
      BY <2>1, Bounds DEF TypeOK, Ids
    <2> QED
      BY <2>1, <2>2 DEF EngineInv
  <1>2. /\ \/ Made(to) \/ Refused(to) \/ Failed(to)
        /\ \A id \in Ids \ {cur} : state'[id] = state[id] /\ row'[id] = row[id]
        /\ UNCHANGED <<qty, legsRow>>
    BY <1>1, Transit
  <1>3. \A id \in Ids \ {c} : PosInv(id)'
    BY <1>2, Untouched DEF EngineInv
  <1>4. CASE state'[c] = state[c] /\ row'[c] = row[c]
    <2>1. PosInv(c)'
      BY <1>1, <1>2, <1>4, Untouched
    <2> QED
      BY <1>3, <2>1
  <1>5. CASE /\ CanTransition(state[c], to) /\ row'[c] = Snap(c, to)
             /\ state'[c] \in {state[c], to}
    <2>1. row'[c].state = to /\ row'[c].delta = qty[c]["long"] - qty[c]["short"]
      BY <1>5 DEF Snap
    <2>2. Near(c)'
      BY <1>1, <1>5, <2>1, BehindItself DEF Near, MayTry
    <2>4. qty[c]["short"] >= 0 /\ qty[c]["long"] \in Int /\ qty[c]["short"] \in Int
      BY <1>1, QtyIs, Bounds DEF PosInv, Sane, Qtys
    <2>5. Held(c)'
      <3>1. "long" \in Legs /\ real[c]["long"] \in Int
        BY <1>1, Bounds DEF TypeOK, Legs
      <3> QED
        BY <1>1, <1>2, <1>5, <2>1, <2>4, <3>1 DEF PosInv, Held, MayTry, Saved
    <2>6. Even(c)'
      <3>1. "long" \in Legs /\ "short" \in Legs
        BY DEF Legs
      <3>2. to \in Hedged => /\ ~ Saved(c, "long") /\ ~ Saved(c, "short")
                             /\ Distance(qty[c]["long"], qty[c]["short"]) <= Tolerance
        BY <1>5, <3>1 DEF MayTry, Within
      <3>3. to \in Hedged => qty[c]["long"] - qty[c]["short"] \in -Tolerance .. Tolerance
        BY <2>4, <3>2, DistanceIs
      <3> QED
        BY <1>1, <1>2, <1>5, <2>1, <3>2, <3>3 DEF PosInv, Even, Saved
    <2>7. Sane(c)'
      BY <1>1, <1>2, <1>5, <2>1 DEF PosInv, Sane, MayTry, Saved, Straight
    <2>8. Fresh(c)'
      BY Bounds DEF Fresh, EngineInv, TypeOK
    <2>9. PosInv(c)'
      BY <2>2, <2>5, <2>6, <2>7, <2>8 DEF PosInv
    <2> QED
      BY <1>3, <2>9
  <1> QED
    BY <1>2, <1>4, <1>5 DEF Made, Refused, Failed

-------------------------------------------------------------------------------
(* The invariant holds at first. *)

LEMMA EngineInit == Init => EngineInv
  <1> SUFFICES ASSUME Init PROVE EngineInv
    OBVIOUS
  <1>1. TypeOK
    <2>1. /\ 0 \in 0 .. MaxIds /\ 0 \in 0 .. TargetQty /\ 0 \in 0 .. 2 * TargetQty
          /\ 0 \in -TargetQty .. TargetQty /\ 0 \in 0 .. MaxDbFails /\ 0 \in 0 .. MaxCrashes
      BY Bounds
    <2>2. /\ Zero \in [Legs -> -TargetQty .. TargetQty] /\ Zero \in [Legs -> 0 .. TargetQty]
          /\ Zero \in [Legs -> 0 .. 2 * TargetQty]
      BY <2>1 DEF Zero
    <2>3. NoRow \in [state : States \cup {"none"}, delta : -TargetQty .. TargetQty]
      BY <2>1 DEF NoRow
    <2>4. "DISCOVERED" \in States /\ "idle" \in Steps /\ NotSent \in [Legs -> Kinds \cup {"none"}]
      BY DEF States, Steps, NotSent
    <2> QED
      BY <2>1, <2>2, <2>3, <2>4 DEF Init, TypeOK
  <1>2. ASSUME NEW id \in Ids PROVE PosInv(id)
    <2>1. /\ state[id] = "DISCOVERED" /\ row[id] = NoRow /\ qty[id] = Zero /\ real[id] = Zero
          /\ ~Saved(id, "long") /\ ~Saved(id, "short")
      BY DEF Init, Saved, Legs
    <2>2. Zero["long"] = 0 /\ Zero["short"] = 0 /\ \A l \in Legs : Zero[l] = 0
      BY DEF Zero, Legs
    <2>3. NoRow.state = "none"
      BY DEF NoRow
    <2> QED
      BY <2>1, <2>2, <2>3 DEF PosInv, Near, Behind, Held, Even, Sane, Fresh, Hedged
  <1>3. Cursor
    BY DEF Init, Cursor
  <1>4. WithinLimit
    <2>1. RestoredIds = {} /\ ~Entering
      BY DEF Init, RestoredIds, Restored, NoRow, Entering, EntrySteps, Saves
    <2>2. Cardinality(open) = 0
      BY FS_EmptySet DEF Init
    <2> QED
      BY <2>1, <2>2, Bounds DEF Init, WithinLimit
  <1> QED
    BY <1>1, <1>2, <1>3, <1>4 DEF EngineInv

-------------------------------------------------------------------------------
(* Steps that move Tick on. *)

\* What the invariant says while Tick works on a position.
LEMMA Working ==
  ASSUME EngineInv, pc \notin {"idle", "monitor", "scan"}
  PROVE  /\ TypeOK /\ cur \in 1 .. seq /\ cur \in Ids /\ PosInv(cur) /\ Straight(qty[cur])
         /\ StateAt /\ RowAt /\ EntryAt /\ ExitAt
         /\ todo \subseteq open /\ open \subseteq 1 .. seq
  <1>1. TypeOK /\ Cursor
    BY DEF EngineInv
  <1>2. cur \in 1 .. seq /\ Straight(qty[cur]) /\ todo \subseteq open /\ open \subseteq 1 .. seq
    BY <1>1 DEF Cursor
  <1>3. cur \in Ids /\ cur # 0
    BY <1>1, <1>2, Bounds DEF TypeOK, Ids
  <1> QED
    BY <1>1, <1>2, <1>3 DEF Cursor, EngineInv

LEMMA Resting ==
  ASSUME EngineInv, pc \in {"idle", "monitor", "scan"}
  PROVE  /\ TypeOK /\ cur = 0 /\ verdict = "none" /\ fill = Zero /\ sent = NotSent
         /\ ~Entering /\ ~Leaving
         /\ todo \subseteq open /\ open \subseteq 1 .. seq
  BY DEF EngineInv, Cursor, Entering, Leaving, EntrySteps, ExitSteps, Saves

\* Leaving a position keeps the types.
LEMMA LeaveType ==
  ASSUME NEW p \in Steps, Leave(p)
  PROVE  /\ pc' \in Steps /\ cur' \in 0 .. MaxIds /\ fill' \in [Legs -> 0 .. TargetQty]
         /\ sent' \in [Legs -> Kinds \cup {"none"}] /\ verdict' = "none" /\ cur' = 0 /\ pc' = p
         /\ fill' = Zero /\ sent' = NotSent
  BY Bounds DEF Leave, Zero, NotSent

LEMMA RestStep ==
  ASSUME EngineInv, Tick \/ Scan \/ NoOpen
  PROVE  EngineInv'
  <1>1. /\ pc \in {"idle", "monitor", "scan"} /\ pc' \in {"idle", "monitor", "scan"}
        /\ Leave(pc') /\ todo' \in {todo, open}
        /\ UNCHANGED <<seqVars, posVars, bookVars, dbVars, exchangeVars, envVars>>
    BY DEF Tick, Scan, NoOpen, Leave
  <1>2. /\ TypeOK /\ todo \subseteq open /\ open \subseteq 1 .. seq /\ ~Entering
    BY <1>1, Resting
  <1>3. pc' \in Steps
    BY <1>1 DEF Steps
  <1>4. TypeOK'
    BY <1>1, <1>2, <1>3, LeaveType
    DEF TypeOK, seqVars, posVars, bookVars, dbVars, exchangeVars, envVars
  <1>5. Cursor'
    BY <1>1, <1>2, <1>3, LeaveType, AtRest DEF seqVars, bookVars
  <1>6. WithinLimit'
    <2>1. ~Entering'
      BY <1>1 DEF Entering, EntrySteps, Saves
    <2>2. dbFails \in Nat
      BY <1>2, Bounds DEF TypeOK
    <2> QED
      BY <1>1, <1>2, <2>1, <2>2, LimitStays DEF dbVars, bookVars
  <1> QED
    BY <1>1, <1>4, <1>5, <1>6, AllUntouched DEF EngineInv, seqVars, posVars, dbVars, exchangeVars

LEMMA MonitorSkipStep ==
  ASSUME EngineInv, NEW id \in Ids, MonitorSkip(id)
  PROVE  EngineInv'
  <1>1. /\ pc = "monitor" /\ todo' = todo \ {id}
        /\ UNCHANGED <<seqVars, posVars, bookVars, dbVars, exchangeVars, pc, cur, locals, envVars>>
    BY DEF MonitorSkip
  <1>2. /\ TypeOK /\ cur = 0 /\ verdict = "none" /\ fill = Zero /\ sent = NotSent
        /\ todo \subseteq open /\ open \subseteq 1 .. seq /\ ~Entering
    BY <1>1, Resting
  <1>3. TypeOK'
    BY <1>1, <1>2 DEF TypeOK, seqVars, posVars, bookVars, dbVars, exchangeVars, locals, envVars
  <1>4. Cursor'
    BY <1>1, <1>2, AtRest DEF seqVars, bookVars, locals
  <1>5. WithinLimit'
    <2>1. ~Entering'
      BY <1>1 DEF Entering, EntrySteps, Saves
    <2>2. dbFails \in Nat
      BY <1>2, Bounds DEF TypeOK
    <2> QED
      BY <1>1, <1>2, <2>1, <2>2, LimitStays DEF dbVars, bookVars
  <1> QED
    BY <1>1, <1>3, <1>4, <1>5, AllUntouched DEF EngineInv, seqVars, posVars, dbVars, exchangeVars

LEMMA MonitorCloseStep ==
  ASSUME EngineInv, NEW id \in Ids, MonitorClose(id)
  PROVE  EngineInv'
  <1>1. /\ pc = "monitor" /\ id \in todo /\ todo' = todo \ {id}
        /\ state[id] = "MONITORING" \/ (state[id] = "DEGRADED" /\ id \in closeReq)
        /\ pc' = "exitRequested" /\ cur' = id
        /\ UNCHANGED <<seqVars, posVars, bookVars, dbVars, exchangeVars, locals, envVars>>
    BY DEF MonitorClose
  <1>2. /\ TypeOK /\ verdict = "none" /\ todo \subseteq open /\ open \subseteq 1 .. seq
        /\ ~Entering
    BY <1>1, Resting
  <1>3. id \in open /\ id \in 1 .. seq /\ id \in 0 .. MaxIds /\ id # 0
    BY <1>1, <1>2, Bounds DEF Ids, TypeOK
  <1>4. TypeOK'
    BY <1>1, <1>2, <1>3
    DEF TypeOK, Steps, seqVars, posVars, bookVars, dbVars, exchangeVars, locals, envVars
  <1>5. Straight(qty[id])
    BY <1>1 DEF EngineInv, PosInv, Sane
  <1>6. StateAt' /\ RowAt'
    BY <1>1, <1>2 DEF StateAt, RowAt, EntrySteps, Saves, posVars, bookVars, locals
  <1>7. EntryAt' /\ ExitAt'
    BY <1>1, <1>2, <1>3 DEF EntryAt, ExitAt, Entering, Leaving, EntrySteps, ExitSteps, Saves, bookVars, locals
  <1>8. Cursor'
    BY <1>1, <1>2, <1>3, <1>5, <1>6, <1>7 DEF Cursor, seqVars, posVars, bookVars, Straight
  <1>9. WithinLimit'
    <2>1. ~Entering'
      BY <1>1 DEF Entering, EntrySteps, Saves
    <2>2. dbFails \in Nat
      BY <1>2, Bounds DEF TypeOK
    <2> QED
      BY <1>1, <1>2, <2>1, <2>2, LimitStays DEF dbVars, bookVars
  <1> QED
    BY <1>1, <1>4, <1>8, <1>9, AllUntouched DEF EngineInv, seqVars, posVars, dbVars, exchangeVars

LEMMA EntryEndsStep ==
  ASSUME EngineInv, NoMarketData \/ EntryUnknown \/ EntryUnfilled
  PROVE  EngineInv'
  <1>1. /\ pc = "entry" /\ pc' \in {"fail", "degrade"}
        /\ UNCHANGED <<seqVars, posVars, bookVars, dbVars, exchangeVars, cur, todo, locals, envVars>>
    BY DEF NoMarketData, EntryUnknown, EntryUnfilled, BothSent, To
  <1>2. TypeOK /\ cur \in 1 .. seq /\ Straight(qty[cur]) /\ StateAt /\ RowAt /\ EntryAt /\ ExitAt
        /\ todo \subseteq open /\ open \subseteq 1 .. seq
    BY <1>1, Working
  <1>3. TypeOK'
    BY <1>1, <1>2
    DEF TypeOK, Steps, seqVars, posVars, bookVars, dbVars, exchangeVars, locals, envVars
  <1>4. StateAt' /\ RowAt'
    BY <1>1, <1>2 DEF StateAt, RowAt, EntrySteps, Saves, posVars, bookVars, dbVars, locals
  <1>5. Entering /\ Entering' /\ ~Leaving'
    BY <1>1, <1>2 DEF Entering, Leaving, EntrySteps, ExitSteps, Saves
  <1>6. verdict = "none" /\ verdict' = "none"
    BY <1>1, <1>2 DEF ExitAt, locals, EntrySteps
  <1>7. EntryAt' /\ ExitAt'
    BY <1>1, <1>2, <1>5, <1>6
    DEF EntryAt, ExitAt, EntrySteps, ExitSteps, Saves, Saved, posVars, bookVars, dbVars, locals
  <1>8. Cursor'
    BY <1>1, <1>2, <1>4, <1>7 DEF Cursor, seqVars, posVars, bookVars, Straight
  <1>9. WithinLimit'
    <2>1. dbFails \in Nat
      BY <1>2, Bounds DEF TypeOK
    <2> QED
      BY <1>1, <1>5, <2>1, LimitStays DEF dbVars, bookVars
  <1> QED
    BY <1>1, <1>3, <1>8, <1>9, AllUntouched DEF EngineInv, seqVars, posVars, dbVars, exchangeVars

LEMMA RegisterOpenStep ==
  ASSUME EngineInv, RegisterOpen
  PROVE  EngineInv'
  <1>1. /\ pc = "register" /\ pc' = "idle" /\ Leave("idle") /\ open' = open \cup {cur}
        /\ UNCHANGED <<seqVars, posVars, closeReq, dbVars, exchangeVars, todo, envVars>>
    BY DEF RegisterOpen, Leave
  <1>2. /\ TypeOK /\ cur \in 1 .. seq /\ cur \in Ids /\ Entering
        /\ todo \subseteq open /\ open \subseteq 1 .. seq
    BY <1>1, Working DEF Entering
  <1>3. "idle" \in Steps
    BY DEF Steps
  <1>4. TypeOK'
    BY <1>1, <1>2, <1>3, LeaveType
    DEF TypeOK, seqVars, posVars, dbVars, exchangeVars, envVars
  <1>5. Cursor'
    BY <1>1, <1>2, <1>3, LeaveType, AtRest DEF seqVars
  <1>6. WithinLimit'
    <2> SUFFICES ASSUME dbFails = 0
                 PROVE  RestoredIds' \subseteq open' /\ Cardinality(open') <= MaxOpen /\ ~Entering'
      <3>1. dbFails' = dbFails
        BY <1>1 DEF dbVars
      <3> QED
        BY <3>1 DEF WithinLimit
    <2>1. ~Entering' /\ RestoredIds' = RestoredIds
      BY <1>1 DEF Entering, EntrySteps, Saves, RestoredIds, dbVars
    <2>2. RestoredIds \subseteq open \cup {cur} /\ Cardinality(open) < MaxOpen
      BY <1>2 DEF EngineInv, WithinLimit
    <2>3. IsFiniteSet(open) /\ Cardinality(open) \in Nat
      BY <1>2, OpenIsFinite
    <2>4. Cardinality(open') \in {Cardinality(open), Cardinality(open) + 1}
      BY <1>1, <2>3, FS_AddElement
    <2> QED
      BY <1>1, <2>1, <2>2, <2>3, <2>4, Bounds
  <1> QED
    BY <1>1, <1>4, <1>5, <1>6, AllUntouched DEF EngineInv, seqVars, posVars, dbVars, exchangeVars

\* The other goroutines change no position, and requests only come in.
LEMMA OutsideStep ==
  ASSUME EngineInv, RefreshInstruments \/ Halt \/ \E id \in Ids : RequestClose(id)
  PROVE  EngineInv'
  <1>1. /\ closeReq \subseteq closeReq' /\ closeReq' \subseteq closeReq \cup Ids
        /\ registry' \in BOOLEAN \cup {registry} /\ halted' \in BOOLEAN \cup {halted}
        /\ UNCHANGED <<seqVars, posVars, open, dbVars, exchangeVars, pc, cur, todo, locals, crashes>>
    BY DEF RefreshInstruments, Halt, RequestClose, bookVars, envVars
  <1>2. TypeOK /\ Cursor
    BY DEF EngineInv
  <1>3. TypeOK'
    BY <1>1, <1>2 DEF TypeOK, seqVars, posVars, dbVars, exchangeVars, locals
  <1>4. Entering' = Entering /\ Leaving' = Leaving /\ RestoredIds' = RestoredIds
    BY <1>1 DEF Entering, Leaving, RestoredIds, locals, dbVars
  <1>5. Cursor'
    <2>1. Cursor' <=>
            /\ todo \subseteq open /\ open \subseteq 1 .. seq
            /\ IF pc \in {"idle", "monitor", "scan"}
               THEN cur = 0 /\ verdict = "none" /\ fill = Zero /\ sent = NotSent
               ELSE cur \in 1 .. seq /\ Straight(qty[cur])
            /\ cur # 0 => StateAt' /\ RowAt' /\ EntryAt' /\ ExitAt'
      BY <1>1 DEF Cursor, seqVars, posVars, locals, Straight
    <2>2. RowAt' = RowAt /\ ExitAt' = ExitAt
      BY <1>1, <1>4 DEF RowAt, ExitAt, Saved, posVars, dbVars, locals
    <2>3. EntryAt' = EntryAt
      BY <1>1, <1>4 DEF EntryAt, Saved, Backed, posVars, dbVars, exchangeVars, locals
    <2>4. StateAt => StateAt'
      BY <1>1 DEF StateAt, posVars, dbVars, locals
    <2> QED
      BY <1>2, <2>1, <2>2, <2>3, <2>4 DEF Cursor
  <1>6. WithinLimit'
    BY <1>1, <1>4 DEF EngineInv, WithinLimit, dbVars
  <1> QED
    BY <1>1, <1>3, <1>5, <1>6, AllUntouched DEF EngineInv, seqVars, posVars, dbVars, exchangeVars

-------------------------------------------------------------------------------
(* Transitions whose failure ends the work on the position. *)

\* Leaving a position in the middle of its opening or closing.
LEMMA LeftBehind ==
  ASSUME EngineInv, pc \notin {"idle", "monitor", "scan"},
         NEW p \in {"idle", "monitor"}, Leave(p), UNCHANGED <<seqVars, open, todo>>
  PROVE  Cursor' /\ ~Entering'
  <1>1. p \in Steps
    BY DEF Steps
  <1>2. pc' = p /\ cur' = 0 /\ verdict' = "none" /\ fill' = Zero /\ sent' = NotSent
    BY <1>1, LeaveType
  <1>3. ~Entering'
    BY <1>2 DEF Entering, EntrySteps, Saves
  <1> QED
    BY <1>2, <1>3, Working, AtRest DEF seqVars

LEMMA AdvanceStep ==
  ASSUME EngineInv, pc \notin {"idle", "monitor", "scan"},
         NEW at, NEW to, NEW next \in Steps, NEW otherwise \in {"idle", "monitor"},
         Advance(at, to, next, otherwise), MayTry(to),
         \/ Entering /\ CanTransition(state[cur], to) /\ next \in EntrySteps \cup Saves /\ verdict = "none"
         \/ Leaving /\ next \in ExitSteps
  PROVE  /\ TypeOK' /\ (\A id \in Ids : PosInv(id)') /\ WithinLimit'
         /\ Cursor' \/ /\ pc' = next /\ cur' = cur /\ state'[cur] = to /\ row'[cur].state = to
                       /\ UNCHANGED <<qty, legsRow, seqVars, bookVars, exchangeVars, todo, locals>>
  <1>1. /\ TypeOK /\ cur \in 1 .. seq /\ cur \in Ids /\ PosInv(cur) /\ Straight(qty[cur])
        /\ ExitAt /\ to \in States
    BY Working DEF MayTry
  <1>2. PICK t \in Transitions(cur, to) : Apply(t) /\ IF t.ok THEN To(next) ELSE Leave(otherwise)
    BY DEF Advance
  <1>3. UNCHANGED <<seqVars, bookVars, exchangeVars, todo, envVars>>
    BY DEF Advance
  <1>4. /\ \/ Made(to) /\ t.ok
           \/ (Refused(to) \/ Failed(to)) /\ ~t.ok
        /\ \A id \in Ids \ {cur} : state'[id] = state[id] /\ row'[id] = row[id]
        /\ state' \in [Ids -> States]
        /\ row' \in [Ids -> [state : States \cup {"none"}, delta : -TargetQty .. TargetQty]]
        /\ dbFails' \in 0 .. MaxDbFails
        /\ UNCHANGED <<qty, legsRow>>
    BY <1>1, <1>2, Transit
  <1>5. otherwise \in Steps
    BY DEF Steps
  <1>6. TypeOK'
    <2>1. /\ pc' \in Steps /\ cur' \in 0 .. MaxIds /\ fill' \in [Legs -> 0 .. TargetQty]
          /\ sent' \in [Legs -> Kinds \cup {"none"}] /\ verdict' \in {"none", "nil", "incomplete", "ambiguous"}
      BY <1>1, <1>2, <1>5, LeaveType DEF To, locals, TypeOK
    <2> QED
      BY <1>1, <1>3, <1>4, <2>1 DEF TypeOK, seqVars, bookVars, exchangeVars, envVars
  <1>7. \A id \in Ids : PosInv(id)'
    BY <1>1, <1>2, <1>3, TransitPos DEF seqVars, exchangeVars
  <1>8. dbFails \in Nat /\ dbFails' \in Nat /\ dbFails' >= dbFails
    BY <1>1, <1>4, Bounds DEF TypeOK, Made, Refused, Failed
  <1>9. CASE t.ok
    <2>1. pc' = next /\ cur' = cur /\ UNCHANGED locals /\ Made(to)
      BY <1>2, <1>4, <1>9 DEF To
    <2>2. state'[cur] = to /\ row'[cur].state = to
      BY <2>1 DEF Made, Snap
    <2>3. WithinLimit'
      <3>1. CASE Entering /\ next \in EntrySteps \cup Saves /\ verdict = "none"
        <4>1. Entering'
          BY <2>1, <3>1 DEF Entering, locals
        <4> QED
          BY <1>3, <1>4, <1>8, <2>1, <3>1, <4>1, LimitStays DEF bookVars
      <3>2. CASE Leaving /\ next \in ExitSteps
        <4>1. ~Entering' /\ cur \in open
          BY <1>1, <2>1, <3>2 DEF Entering, ExitAt, ExitSteps, EntrySteps, Saves
        <4> QED
          BY <1>3, <1>4, <1>8, <2>1, <4>1, LimitStays DEF bookVars
      <3> QED
        BY <3>1, <3>2
    <2> QED
      BY <1>3, <1>4, <1>6, <1>7, <2>1, <2>2, <2>3
  <1>10. CASE ~t.ok
    <2>1. Leave(otherwise) /\ (Refused(to) \/ Failed(to))
      BY <1>2, <1>4, <1>10
    <2>2. Cursor' /\ ~Entering'
      BY <1>3, <2>1, LeftBehind DEF bookVars
    <2>3. WithinLimit'
      <3>1. CASE Entering /\ CanTransition(state[cur], to)
        <4>1. dbFails' # 0
          BY <1>8, <2>1, <3>1 DEF Refused, Failed
        <4> QED
          BY <4>1 DEF WithinLimit
      <3>2. CASE Leaving
        <4>1. cur \in open
          BY <1>1, <3>2 DEF ExitAt
        <4> QED
          BY <1>3, <1>4, <1>8, <2>2, <4>1, LimitStays DEF bookVars
      <3> QED
        BY <3>1, <3>2
    <2> QED
      BY <1>6, <1>7, <2>2, <2>3
  <1> QED
    BY <1>9, <1>10

\* The position the work goes on with.
LEMMA WorkGoesOn ==
  ASSUME EngineInv, pc \notin {"idle", "monitor", "scan"}, pc' \notin {"idle", "monitor", "scan"},
         cur' = cur, seq' = seq, open' = open, todo' = todo, Straight(qty[cur])',
         StateAt', RowAt', EntryAt', ExitAt'
  PROVE  Cursor'
  BY Working DEF Cursor

-------------------------------------------------------------------------------
(* The transitions of openPosition and closePosition. *)

LEMMA QualifyStep ==
  ASSUME EngineInv, Qualify
  PROVE  EngineInv'
  <1>1. /\ pc = "qualify" /\ Advance("qualify", "QUALIFIED", "prepare", "idle")
        /\ pc \notin {"idle", "monitor", "scan"} /\ "prepare" \in Steps
    BY DEF Qualify, Advance, Steps
  <1>2. /\ TypeOK /\ PosInv(cur) /\ Straight(qty[cur]) /\ StateAt /\ RowAt /\ EntryAt /\ ExitAt
    BY <1>1, Working
  <1>3. Entering /\ verdict = "none"
    BY <1>1, <1>2 DEF Entering, ExitAt, EntrySteps
  <1>4. CanTransition(state[cur], "QUALIFIED") /\ MayTry("QUALIFIED")
    BY <1>1, <1>2, <1>3 DEF StateAt, EntryAt, CanTransition, MayTry, Behind, States, Restored, Terminal,
                       Hedged, EntrySteps
  <1>5. /\ TypeOK' /\ (\A id \in Ids : PosInv(id)') /\ WithinLimit'
        /\ Cursor' \/ /\ pc' = "prepare" /\ cur' = cur /\ state'[cur] = "QUALIFIED" /\ row'[cur].state = "QUALIFIED"
                      /\ UNCHANGED <<qty, legsRow, seqVars, bookVars, exchangeVars, todo, locals>>
    BY <1>1, <1>3, <1>4, AdvanceStep DEF EntrySteps
  <1>6. CASE /\ pc' = "prepare" /\ cur' = cur /\ state'[cur] = "QUALIFIED" /\ row'[cur].state = "QUALIFIED"
             /\ UNCHANGED <<qty, legsRow, seqVars, bookVars, exchangeVars, todo, locals>>
    <2>1. StateAt' /\ RowAt'
      BY <1>3, <1>6 DEF StateAt, RowAt, EntrySteps, Saves, locals, bookVars
    <2>2. EntryAt'
      BY <1>1, <1>2, <1>3, <1>6
      DEF EntryAt, Entering, EntrySteps, Saves, Saved, Backed, Within, exchangeVars, locals
    <2>3. ExitAt'
      BY <1>1, <1>2, <1>3, <1>6
      DEF ExitAt, Leaving, EntrySteps, ExitSteps, Saves, Saved, bookVars, locals
    <2>4. Straight(qty[cur])' /\ seq' = seq /\ open' = open /\ todo' = todo
      BY <1>2, <1>6 DEF Straight, seqVars, bookVars
    <2>5. Cursor'
      BY <1>1, <1>6, <2>1, <2>2, <2>3, <2>4, WorkGoesOn
    <2> QED
      BY <1>5, <2>5 DEF EngineInv
  <1> QED
    BY <1>5, <1>6 DEF EngineInv

LEMMA PrepareStep ==
  ASSUME EngineInv, Prepare
  PROVE  EngineInv'
  <1>1. /\ pc = "prepare" /\ Advance("prepare", "PREPARING", "opening", "idle")
        /\ pc \notin {"idle", "monitor", "scan"} /\ "opening" \in Steps
    BY DEF Prepare, Advance, Steps
  <1>2. /\ TypeOK /\ PosInv(cur) /\ Straight(qty[cur]) /\ StateAt /\ RowAt /\ EntryAt /\ ExitAt
    BY <1>1, Working
  <1>3. Entering /\ verdict = "none"
    BY <1>1, <1>2 DEF Entering, ExitAt, EntrySteps
  <1>4. CanTransition(state[cur], "PREPARING") /\ MayTry("PREPARING")
    BY <1>1, <1>2, <1>3 DEF StateAt, EntryAt, CanTransition, MayTry, Behind, States, Restored, Terminal,
                       Hedged, EntrySteps
  <1>5. /\ TypeOK' /\ (\A id \in Ids : PosInv(id)') /\ WithinLimit'
        /\ Cursor' \/ /\ pc' = "opening" /\ cur' = cur /\ state'[cur] = "PREPARING" /\ row'[cur].state = "PREPARING"
                      /\ UNCHANGED <<qty, legsRow, seqVars, bookVars, exchangeVars, todo, locals>>
    BY <1>1, <1>3, <1>4, AdvanceStep DEF EntrySteps
  <1>6. CASE /\ pc' = "opening" /\ cur' = cur /\ state'[cur] = "PREPARING" /\ row'[cur].state = "PREPARING"
             /\ UNCHANGED <<qty, legsRow, seqVars, bookVars, exchangeVars, todo, locals>>
    <2>1. StateAt' /\ RowAt'
      BY <1>3, <1>6 DEF StateAt, RowAt, EntrySteps, Saves, locals, bookVars
    <2>2. EntryAt'
      BY <1>1, <1>2, <1>3, <1>6
      DEF EntryAt, Entering, EntrySteps, Saves, Saved, Backed, Within, exchangeVars, locals
    <2>3. ExitAt'
      BY <1>1, <1>2, <1>3, <1>6
      DEF ExitAt, Leaving, EntrySteps, ExitSteps, Saves, Saved, bookVars, locals
    <2>4. Straight(qty[cur])' /\ seq' = seq /\ open' = open /\ todo' = todo
      BY <1>2, <1>6 DEF Straight, seqVars, bookVars
    <2>5. Cursor'
      BY <1>1, <1>6, <2>1, <2>2, <2>3, <2>4, WorkGoesOn
    <2> QED
      BY <1>5, <2>5 DEF EngineInv
  <1> QED
    BY <1>5, <1>6 DEF EngineInv

LEMMA StartEntryStep ==
  ASSUME EngineInv, StartEntry
  PROVE  EngineInv'
  <1>1. /\ pc = "opening" /\ Advance("opening", "OPENING", "entry", "idle")
        /\ pc \notin {"idle", "monitor", "scan"} /\ "entry" \in Steps
    BY DEF StartEntry, Advance, Steps
  <1>2. /\ TypeOK /\ PosInv(cur) /\ Straight(qty[cur]) /\ StateAt /\ RowAt /\ EntryAt /\ ExitAt
    BY <1>1, Working
  <1>3. Entering /\ verdict = "none"
    BY <1>1, <1>2 DEF Entering, ExitAt, EntrySteps
  <1>4. CanTransition(state[cur], "OPENING") /\ MayTry("OPENING")
    BY <1>1, <1>2, <1>3 DEF StateAt, EntryAt, CanTransition, MayTry, Behind, States, Restored, Terminal,
                       Hedged, EntrySteps
  <1>5. /\ TypeOK' /\ (\A id \in Ids : PosInv(id)') /\ WithinLimit'
        /\ Cursor' \/ /\ pc' = "entry" /\ cur' = cur /\ state'[cur] = "OPENING" /\ row'[cur].state = "OPENING"
                      /\ UNCHANGED <<qty, legsRow, seqVars, bookVars, exchangeVars, todo, locals>>
    BY <1>1, <1>3, <1>4, AdvanceStep DEF EntrySteps
  <1>6. CASE /\ pc' = "entry" /\ cur' = cur /\ state'[cur] = "OPENING" /\ row'[cur].state = "OPENING"
             /\ UNCHANGED <<qty, legsRow, seqVars, bookVars, exchangeVars, todo, locals>>
    <2>1. StateAt' /\ RowAt'
      BY <1>3, <1>6 DEF StateAt, RowAt, EntrySteps, Saves, locals, bookVars
    <2>2. EntryAt'
      BY <1>1, <1>2, <1>3, <1>6, Bounds
      DEF Zero, EntryAt, Entering, EntrySteps, Saves, Saved, Backed, Within, exchangeVars, locals
    <2>3. ExitAt'
      BY <1>1, <1>2, <1>3, <1>6
      DEF ExitAt, Leaving, EntrySteps, ExitSteps, Saves, Saved, bookVars, locals
    <2>4. Straight(qty[cur])' /\ seq' = seq /\ open' = open /\ todo' = todo
      BY <1>2, <1>6 DEF Straight, seqVars, bookVars
    <2>5. Cursor'
      BY <1>1, <1>6, <2>1, <2>2, <2>3, <2>4, WorkGoesOn
    <2> QED
      BY <1>5, <2>5 DEF EngineInv
  <1> QED
    BY <1>5, <1>6 DEF EngineInv

LEMMA PartiallyHedgedStep ==
  ASSUME EngineInv, PartiallyHedged
  PROVE  EngineInv'
  <1>1. /\ pc = "partial" /\ Advance("partial", "PARTIALLY_HEDGED", "topUp", "idle")
        /\ pc \notin {"idle", "monitor", "scan"} /\ "topUp" \in Steps
    BY DEF PartiallyHedged, Advance, Steps
  <1>2. /\ TypeOK /\ PosInv(cur) /\ Straight(qty[cur]) /\ StateAt /\ RowAt /\ EntryAt /\ ExitAt
    BY <1>1, Working
  <1>3. Entering /\ verdict = "none"
    BY <1>1, <1>2 DEF Entering, ExitAt, EntrySteps
  <1>4. CanTransition(state[cur], "PARTIALLY_HEDGED") /\ MayTry("PARTIALLY_HEDGED")
    BY <1>1, <1>2, <1>3 DEF StateAt, EntryAt, CanTransition, MayTry, Behind, States, Restored, Terminal,
                       Hedged, EntrySteps
  <1>5. /\ TypeOK' /\ (\A id \in Ids : PosInv(id)') /\ WithinLimit'
        /\ Cursor' \/ /\ pc' = "topUp" /\ cur' = cur /\ state'[cur] = "PARTIALLY_HEDGED" /\ row'[cur].state = "PARTIALLY_HEDGED"
                      /\ UNCHANGED <<qty, legsRow, seqVars, bookVars, exchangeVars, todo, locals>>
    BY <1>1, <1>3, <1>4, AdvanceStep DEF EntrySteps
  <1>6. CASE /\ pc' = "topUp" /\ cur' = cur /\ state'[cur] = "PARTIALLY_HEDGED" /\ row'[cur].state = "PARTIALLY_HEDGED"
             /\ UNCHANGED <<qty, legsRow, seqVars, bookVars, exchangeVars, todo, locals>>
    <2>1. StateAt' /\ RowAt'
      BY <1>3, <1>6 DEF StateAt, RowAt, EntrySteps, Saves, locals, bookVars
    <2>2. EntryAt'
      BY <1>1, <1>2, <1>3, <1>6
      DEF EntryAt, Entering, EntrySteps, Saves, Saved, Backed, Within, exchangeVars, locals
    <2>3. ExitAt'
      BY <1>1, <1>2, <1>3, <1>6
      DEF ExitAt, Leaving, EntrySteps, ExitSteps, Saves, Saved, bookVars, locals
    <2>4. Straight(qty[cur])' /\ seq' = seq /\ open' = open /\ todo' = todo
      BY <1>2, <1>6 DEF Straight, seqVars, bookVars
    <2>5. Cursor'
      BY <1>1, <1>6, <2>1, <2>2, <2>3, <2>4, WorkGoesOn
    <2> QED
      BY <1>5, <2>5 DEF EngineInv
  <1> QED
    BY <1>5, <1>6 DEF EngineInv

LEMMA HedgeStep ==
  ASSUME EngineInv, Hedge
  PROVE  EngineInv'
  <1>1. /\ pc = "hedge" /\ Advance("hedge", "HEDGED", "monitoring", "idle")
        /\ pc \notin {"idle", "monitor", "scan"} /\ "monitoring" \in Steps
    BY DEF Hedge, Advance, Steps
  <1>2. /\ TypeOK /\ PosInv(cur) /\ Straight(qty[cur]) /\ StateAt /\ RowAt /\ EntryAt /\ ExitAt
    BY <1>1, Working
  <1>3. Entering /\ verdict = "none"
    BY <1>1, <1>2 DEF Entering, ExitAt, EntrySteps
  <1>4. CanTransition(state[cur], "HEDGED")
    BY <1>1, <1>2 DEF StateAt, CanTransition
  <1>5. MayTry("HEDGED")
    <2>1. /\ state[cur] \in {"OPENING", "PARTIALLY_HEDGED"} /\ ~Saved(cur, "long") /\ ~Saved(cur, "short")
      BY <1>1, <1>2, <1>3 DEF StateAt, EntryAt, EntrySteps
    <2>2. Within(qty[cur]) /\ \A l \in Legs : qty[cur][l] <= real[cur][l]
      BY <1>1, <1>2 DEF EntryAt, Backed
    <2> QED
      BY <2>1, <2>2 DEF MayTry, Behind, States, Restored, Hedged, Saved, Legs
  <1>6. /\ TypeOK' /\ (\A id \in Ids : PosInv(id)') /\ WithinLimit'
        /\ Cursor' \/ /\ pc' = "monitoring" /\ cur' = cur /\ state'[cur] = "HEDGED" /\ row'[cur].state = "HEDGED"
                      /\ UNCHANGED <<qty, legsRow, seqVars, bookVars, exchangeVars, todo, locals>>
    BY <1>1, <1>3, <1>4, <1>5, AdvanceStep DEF EntrySteps, Saves
  <1>7. CASE /\ pc' = "monitoring" /\ cur' = cur /\ state'[cur] = "HEDGED" /\ row'[cur].state = "HEDGED"
             /\ UNCHANGED <<qty, legsRow, seqVars, bookVars, exchangeVars, todo, locals>>
    <2>1. StateAt' /\ RowAt'
      BY <1>3, <1>7 DEF StateAt, RowAt, EntrySteps, Saves, locals, bookVars
    <2>2. EntryAt'
      BY <1>1, <1>2, <1>3, <1>7
      DEF EntryAt, Entering, EntrySteps, Saves, Saved, Backed, Within, exchangeVars, locals
    <2>3. ExitAt'
      BY <1>1, <1>2, <1>3, <1>7
      DEF ExitAt, Leaving, EntrySteps, ExitSteps, Saves, Saved, bookVars, locals
    <2>4. Straight(qty[cur])' /\ seq' = seq /\ open' = open /\ todo' = todo
      BY <1>2, <1>7 DEF Straight, seqVars, bookVars
    <2>5. Cursor'
      BY <1>1, <1>7, <2>1, <2>2, <2>3, <2>4, WorkGoesOn
    <2> QED
      BY <1>6, <2>5 DEF EngineInv
  <1> QED
    BY <1>6, <1>7 DEF EngineInv

LEMMA MonitoringStep ==
  ASSUME EngineInv, Monitoring
  PROVE  EngineInv'
  <1>1. /\ pc = "monitoring" /\ Advance("monitoring", "MONITORING", "saveLong", "idle")
        /\ pc \notin {"idle", "monitor", "scan"} /\ "saveLong" \in Steps
    BY DEF Monitoring, Advance, Steps
  <1>2. /\ TypeOK /\ PosInv(cur) /\ Straight(qty[cur]) /\ StateAt /\ RowAt /\ EntryAt /\ ExitAt
    BY <1>1, Working
  <1>3. Entering /\ verdict = "none"
    BY <1>1, <1>2 DEF Entering, ExitAt, EntrySteps
  <1>4. CanTransition(state[cur], "MONITORING")
    BY <1>1, <1>2 DEF StateAt, CanTransition
  <1>5. MayTry("MONITORING")
    <2>1. /\ state[cur] \in {"HEDGED"} /\ ~Saved(cur, "long") /\ ~Saved(cur, "short")
      BY <1>1, <1>2, <1>3 DEF StateAt, EntryAt, EntrySteps
    <2>2. Within(qty[cur]) /\ \A l \in Legs : qty[cur][l] <= real[cur][l]
      BY <1>1, <1>2 DEF EntryAt, StateAt, PosInv, Held, Hedged
    <2> QED
      BY <2>1, <2>2 DEF MayTry, Behind, States, Restored, Hedged, Saved, Legs
  <1>6. /\ TypeOK' /\ (\A id \in Ids : PosInv(id)') /\ WithinLimit'
        /\ Cursor' \/ /\ pc' = "saveLong" /\ cur' = cur /\ state'[cur] = "MONITORING" /\ row'[cur].state = "MONITORING"
                      /\ UNCHANGED <<qty, legsRow, seqVars, bookVars, exchangeVars, todo, locals>>
    BY <1>1, <1>3, <1>4, <1>5, AdvanceStep DEF EntrySteps, Saves
  <1>7. CASE /\ pc' = "saveLong" /\ cur' = cur /\ state'[cur] = "MONITORING" /\ row'[cur].state = "MONITORING"
             /\ UNCHANGED <<qty, legsRow, seqVars, bookVars, exchangeVars, todo, locals>>
    <2>1. StateAt' /\ RowAt'
      BY <1>3, <1>7 DEF StateAt, RowAt, EntrySteps, Saves, locals, bookVars
    <2>2. EntryAt'
      BY <1>1, <1>2, <1>3, <1>7
      DEF EntryAt, Entering, EntrySteps, Saves, Saved, Backed, Within, exchangeVars, locals
    <2>3. ExitAt'
      BY <1>1, <1>2, <1>3, <1>7
      DEF ExitAt, Leaving, EntrySteps, ExitSteps, Saves, Saved, bookVars, locals
    <2>4. Straight(qty[cur])' /\ seq' = seq /\ open' = open /\ todo' = todo
      BY <1>2, <1>7 DEF Straight, seqVars, bookVars
    <2>5. Cursor'
      BY <1>1, <1>7, <2>1, <2>2, <2>3, <2>4, WorkGoesOn
    <2> QED
      BY <1>6, <2>5 DEF EngineInv
  <1> QED
    BY <1>6, <1>7 DEF EngineInv

LEMMA ExitRequestedStep ==
  ASSUME EngineInv, ExitRequested
  PROVE  EngineInv'
  <1>1. /\ pc = "exitRequested" /\ Advance("exitRequested", "EXIT_REQUESTED", "exiting", "monitor")
        /\ pc \notin {"idle", "monitor", "scan"} /\ "exiting" \in Steps
    BY DEF ExitRequested, Advance, Steps
  <1>2. /\ TypeOK /\ PosInv(cur) /\ Straight(qty[cur]) /\ StateAt /\ RowAt /\ EntryAt /\ ExitAt
    BY <1>1, Working
  <1>3. Leaving /\ verdict = "none"
    BY <1>1, <1>2 DEF Leaving, ExitAt, ExitSteps
  <1>4. MayTry("EXIT_REQUESTED")
    BY <1>1, <1>2, <1>3 DEF PosInv, Sane, Near, StateAt, ExitAt, MayTry, Behind, States, Restored, Hedged
  <1>5. /\ TypeOK' /\ (\A id \in Ids : PosInv(id)') /\ WithinLimit'
        /\ Cursor' \/ /\ pc' = "exiting" /\ cur' = cur /\ state'[cur] = "EXIT_REQUESTED" /\ row'[cur].state = "EXIT_REQUESTED"
                      /\ UNCHANGED <<qty, legsRow, seqVars, bookVars, exchangeVars, todo, locals>>
    BY <1>1, <1>3, <1>4, AdvanceStep DEF ExitSteps
  <1>6. CASE /\ pc' = "exiting" /\ cur' = cur /\ state'[cur] = "EXIT_REQUESTED" /\ row'[cur].state = "EXIT_REQUESTED"
             /\ UNCHANGED <<qty, legsRow, seqVars, bookVars, exchangeVars, todo, locals>>
    <2>1. StateAt' /\ RowAt'
      BY <1>3, <1>6 DEF StateAt, RowAt, EntrySteps, Saves, locals, bookVars
    <2>2. EntryAt'
      BY <1>1, <1>2, <1>3, <1>6
      DEF EntryAt, Entering, EntrySteps, Saves, Saved, Backed, Within, exchangeVars, locals
    <2>3. Saved(cur, "long") => legsRow[cur]["long"] >= 0
      BY <1>1, <1>2 DEF StateAt, PosInv, Near, Sane, Behind, Terminal
    <2>4. ExitAt'
      BY <1>1, <1>2, <1>3, <1>6, <2>3
      DEF ExitAt, Leaving, EntrySteps, ExitSteps, Saves, Saved, bookVars, locals
    <2>5. Straight(qty[cur])' /\ seq' = seq /\ open' = open /\ todo' = todo
      BY <1>2, <1>6 DEF Straight, seqVars, bookVars
    <2>6. Cursor'
      BY <1>1, <1>6, <2>1, <2>2, <2>4, <2>5, WorkGoesOn
    <2> QED
      BY <1>5, <2>6 DEF EngineInv
  <1> QED
    BY <1>5, <1>6 DEF EngineInv

LEMMA ExitingStep ==
  ASSUME EngineInv, Exiting
  PROVE  EngineInv'
  <1>1. /\ pc = "exiting" /\ Advance("exiting", "EXITING", "close", "monitor")
        /\ pc \notin {"idle", "monitor", "scan"} /\ "close" \in Steps
    BY DEF Exiting, Advance, Steps
  <1>2. /\ TypeOK /\ PosInv(cur) /\ Straight(qty[cur]) /\ StateAt /\ RowAt /\ EntryAt /\ ExitAt
    BY <1>1, Working
  <1>3. Leaving /\ verdict = "none"
    BY <1>1, <1>2 DEF Leaving, ExitAt, ExitSteps
  <1>4. MayTry("EXITING")
    BY <1>1, <1>2, <1>3 DEF StateAt, ExitAt, MayTry, Behind, States, Restored, Hedged
  <1>5. /\ TypeOK' /\ (\A id \in Ids : PosInv(id)') /\ WithinLimit'
        /\ Cursor' \/ /\ pc' = "close" /\ cur' = cur /\ state'[cur] = "EXITING" /\ row'[cur].state = "EXITING"
                      /\ UNCHANGED <<qty, legsRow, seqVars, bookVars, exchangeVars, todo, locals>>
    BY <1>1, <1>3, <1>4, AdvanceStep DEF ExitSteps
  <1>6. CASE /\ pc' = "close" /\ cur' = cur /\ state'[cur] = "EXITING" /\ row'[cur].state = "EXITING"
             /\ UNCHANGED <<qty, legsRow, seqVars, bookVars, exchangeVars, todo, locals>>
    <2>1. StateAt' /\ RowAt'
      BY <1>3, <1>6 DEF StateAt, RowAt, EntrySteps, Saves, locals, bookVars
    <2>2. EntryAt'
      BY <1>1, <1>2, <1>3, <1>6
      DEF EntryAt, Entering, EntrySteps, Saves, Saved, Backed, Within, exchangeVars, locals
    <2>3. ExitAt'
      BY <1>1, <1>2, <1>3, <1>6
      DEF ExitAt, Leaving, EntrySteps, ExitSteps, Saves, Saved, bookVars, locals
    <2>4. Straight(qty[cur])' /\ seq' = seq /\ open' = open /\ todo' = todo
      BY <1>2, <1>6 DEF Straight, seqVars, bookVars
    <2>5. Cursor'
      BY <1>1, <1>6, <2>1, <2>2, <2>3, <2>4, WorkGoesOn
    <2> QED
      BY <1>5, <2>5 DEF EngineInv
  <1> QED
    BY <1>5, <1>6 DEF EngineInv

-------------------------------------------------------------------------------
(* Transitions whose failure is ignored, and the last ones of a position. *)

LEMMA AnywayStep ==
  ASSUME EngineInv, pc \notin {"idle", "monitor", "scan"},
         NEW at, NEW to, NEW next \in Steps, AdvanceAnyway(at, to, next), MayTry(to),
         \/ Entering /\ next \in Saves /\ verdict = "none"
         \/ Leaving /\ next \in ExitSteps
  PROVE  /\ TypeOK' /\ (\A id \in Ids : PosInv(id)') /\ WithinLimit'
         /\ pc' = next /\ cur' = cur
         /\ UNCHANGED <<qty, legsRow, seqVars, bookVars, exchangeVars, todo, locals>>
         /\ \/ state'[cur] = to /\ row'[cur].state = to
            \/ state'[cur] = state[cur] /\ row'[cur].state \in {row[cur].state, to}
         /\ ~CanTransition(state[cur], to) => row'[cur] = row[cur]
  <1>1. /\ TypeOK /\ cur \in 1 .. seq /\ cur \in Ids /\ PosInv(cur) /\ Straight(qty[cur])
        /\ ExitAt /\ to \in States
    BY Working DEF MayTry
  <1>2. PICK t \in Transitions(cur, to) : Apply(t)
    BY DEF AdvanceAnyway
  <1>3. pc' = next /\ cur' = cur /\ UNCHANGED <<seqVars, bookVars, exchangeVars, todo, envVars, locals>>
    BY DEF AdvanceAnyway, To
  <1>4. /\ Made(to) \/ Refused(to) \/ Failed(to)
        /\ \A id \in Ids \ {cur} : state'[id] = state[id] /\ row'[id] = row[id]
        /\ state' \in [Ids -> States]
        /\ row' \in [Ids -> [state : States \cup {"none"}, delta : -TargetQty .. TargetQty]]
        /\ dbFails' \in 0 .. MaxDbFails
        /\ UNCHANGED <<qty, legsRow>>
    BY <1>1, <1>2, Transit
  <1>5. TypeOK'
    BY <1>1, <1>3, <1>4 DEF TypeOK, seqVars, bookVars, exchangeVars, envVars, locals
  <1>6. \A id \in Ids : PosInv(id)'
    BY <1>1, <1>2, <1>3, TransitPos DEF seqVars, exchangeVars
  <1>7. dbFails \in Nat /\ dbFails' \in Nat /\ dbFails' >= dbFails
    BY <1>1, <1>4, Bounds DEF TypeOK, Made, Refused, Failed
  <1>8. WithinLimit'
    <2>1. CASE Entering /\ next \in Saves /\ verdict = "none"
      <3>1. Entering'
        BY <1>3, <2>1 DEF Entering, locals
      <3> QED
        BY <1>3, <1>4, <1>7, <2>1, <3>1, LimitStays DEF bookVars
    <2>2. CASE Leaving /\ next \in ExitSteps
      <3>1. ~Entering' /\ cur \in open
        BY <1>1, <1>3, <2>2 DEF Entering, ExitAt, ExitSteps, EntrySteps, Saves
      <3> QED
        BY <1>3, <1>4, <1>7, <3>1, LimitStays DEF bookVars
    <2> QED
      BY <2>1, <2>2
  <1>9. /\ \/ state'[cur] = to /\ row'[cur].state = to
           \/ state'[cur] = state[cur] /\ row'[cur].state \in {row[cur].state, to}
        /\ ~CanTransition(state[cur], to) => row'[cur] = row[cur]
    BY <1>4 DEF Made, Refused, Failed, Snap
  <1> QED
    BY <1>3, <1>4, <1>5, <1>6, <1>8, <1>9

LEMMA DegradeStep ==
  ASSUME EngineInv, Degrade
  PROVE  EngineInv'
  <1>1. /\ pc = "degrade" /\ AdvanceAnyway("degrade", "DEGRADED", "saveLong")
        /\ "saveLong" \in Steps /\ "saveLong" \in Saves
    BY DEF Degrade, AdvanceAnyway, Steps, Saves
  <1>2. /\ TypeOK /\ PosInv(cur) /\ Straight(qty[cur]) /\ StateAt /\ RowAt /\ EntryAt /\ ExitAt
    BY <1>1, Working
  <1>3. Entering /\ verdict = "none"
    BY <1>1, <1>2 DEF Entering, ExitAt, EntrySteps
  <1>4. MayTry("DEGRADED")
    BY <1>1, <1>2, <1>3 DEF StateAt, EntryAt, MayTry, Behind, States, Restored, Hedged, EntrySteps
  <1>5. /\ TypeOK' /\ (\A id \in Ids : PosInv(id)') /\ WithinLimit'
        /\ pc' = "saveLong" /\ cur' = cur
        /\ UNCHANGED <<qty, legsRow, seqVars, bookVars, exchangeVars, todo, locals>>
        /\ \/ state'[cur] = "DEGRADED" /\ row'[cur].state = "DEGRADED"
           \/ state'[cur] = state[cur] /\ row'[cur].state \in {row[cur].state, "DEGRADED"}
    BY <1>1, <1>3, <1>4, AnywayStep
  <1>6. StateAt' /\ RowAt'
    BY <1>1, <1>2, <1>3, <1>5 DEF StateAt, RowAt, EntrySteps, Saves, locals, bookVars
  <1>7. EntryAt'
    <2>1. state'[cur] # "MONITORING"
      BY <1>1, <1>2, <1>5 DEF StateAt
    <2> QED
      BY <1>1, <1>2, <1>3, <1>5, <2>1 DEF EntryAt, Entering, EntrySteps, Saves, Saved, locals
  <1>8. ExitAt'
    BY <1>1, <1>2, <1>3, <1>5 DEF ExitAt, Leaving, EntrySteps, ExitSteps, Saves, Saved, bookVars, locals
  <1>9. Straight(qty[cur])' /\ seq' = seq /\ open' = open /\ todo' = todo
    BY <1>2, <1>5 DEF Straight, seqVars, bookVars
  <1>10. Cursor'
    BY <1>1, <1>5, <1>6, <1>7, <1>8, <1>9, WorkGoesOn
  <1> QED
    BY <1>5, <1>10 DEF EngineInv

LEMMA SettleStep ==
  ASSUME EngineInv, Settle
  PROVE  EngineInv'
  <1> DEFINE next == IF verdict = "nil" THEN "closed" ELSE "degradeClosed"
  <1>1. /\ pc = "settle" /\ AdvanceAnyway("settle", "RECONCILING", next)
        /\ next \in Steps /\ next \in ExitSteps
    BY DEF Settle, AdvanceAnyway, Steps, ExitSteps
  <1>2. /\ TypeOK /\ PosInv(cur) /\ Straight(qty[cur]) /\ StateAt /\ RowAt /\ EntryAt /\ ExitAt
    BY <1>1, Working
  <1>3. Leaving /\ verdict # "none" /\ state[cur] = "EXITING" /\ row[cur].state = "EXITING"
    BY <1>1, <1>2 DEF Leaving, ExitAt, StateAt, RowAt, ExitSteps
  <1>4. MayTry("RECONCILING")
    BY <1>3 DEF MayTry, Behind, States, Restored, Hedged
  <1>5. /\ TypeOK' /\ (\A id \in Ids : PosInv(id)') /\ WithinLimit'
        /\ pc' = next /\ cur' = cur
        /\ UNCHANGED <<qty, legsRow, seqVars, bookVars, exchangeVars, todo, locals>>
        /\ \/ state'[cur] = "RECONCILING" /\ row'[cur].state = "RECONCILING"
           \/ state'[cur] = state[cur] /\ row'[cur].state \in {row[cur].state, "RECONCILING"}
    <2> HIDE DEF next
    <2> QED
      BY <1>1, <1>3, <1>4, AnywayStep
  <1>6. pc' \in {"closed", "degradeClosed"}
    BY <1>5
  <1>7. StateAt' /\ RowAt'
    BY <1>3, <1>5, <1>6 DEF StateAt, RowAt, EntrySteps, Saves, locals
  <1>8. EntryAt'
    BY <1>6 DEF EntryAt, Entering, EntrySteps, Saves
  <1>9. ExitAt'
    BY <1>2, <1>3, <1>5, <1>6 DEF ExitAt, Leaving, EntrySteps, ExitSteps, Saves, Saved, bookVars, locals
  <1>10. Straight(qty[cur])' /\ seq' = seq /\ open' = open /\ todo' = todo
    BY <1>2, <1>5 DEF Straight, seqVars, bookVars
  <1>11. Cursor'
    BY <1>1, <1>5, <1>6, <1>7, <1>8, <1>9, <1>10, WorkGoesOn
  <1> QED
    BY <1>5, <1>11 DEF EngineInv

\* The last transition Tick tries for a position, made or not.
LEMMA LastStep ==
  ASSUME EngineInv, pc \notin {"idle", "monitor", "scan"},
         NEW to, MayTry(to), NEW t \in Transitions(cur, to), Apply(t),
         NEW p \in {"idle", "monitor"}, Leave(p), closeReq' \subseteq closeReq,
         open' \subseteq open, todo \subseteq open',
         UNCHANGED <<seqVars, exchangeVars, todo, envVars>>
  PROVE  /\ TypeOK' /\ (\A id \in Ids : PosInv(id)') /\ Cursor' /\ ~Entering'
         /\ \A id \in Ids \ {cur} : row'[id] = row[id]
         /\ dbFails \in Nat /\ dbFails' \in Nat /\ dbFails' >= dbFails
         /\ \/ Made(to) /\ t.ok
            \/ Refused(to) /\ ~t.ok
            \/ Failed(to) /\ ~t.ok
  <1>1. /\ TypeOK /\ cur \in 1 .. seq /\ cur \in Ids /\ PosInv(cur) /\ Straight(qty[cur])
        /\ open \subseteq 1 .. seq /\ to \in States
    BY Working DEF MayTry
  <1>2. /\ \/ Made(to) /\ t.ok
           \/ Refused(to) /\ ~t.ok
           \/ Failed(to) /\ ~t.ok
        /\ \A id \in Ids \ {cur} : state'[id] = state[id] /\ row'[id] = row[id]
        /\ state' \in [Ids -> States]
        /\ row' \in [Ids -> [state : States \cup {"none"}, delta : -TargetQty .. TargetQty]]
        /\ dbFails' \in 0 .. MaxDbFails
        /\ UNCHANGED <<qty, legsRow>>
    BY <1>1, Transit
  <1>3. p \in Steps
    BY DEF Steps
  <1>4. TypeOK'
    <2>1. /\ pc' \in Steps /\ cur' \in 0 .. MaxIds /\ fill' \in [Legs -> 0 .. TargetQty]
          /\ sent' \in [Legs -> Kinds \cup {"none"}] /\ verdict' = "none"
      BY <1>3, LeaveType
    <2> QED
      BY <1>1, <1>2, <2>1 DEF TypeOK, seqVars, exchangeVars, envVars
  <1>5. \A id \in Ids : PosInv(id)'
    BY <1>1, TransitPos DEF seqVars, exchangeVars
  <1>6. Cursor' /\ ~Entering'
    <2>1. pc' = p /\ cur' = 0 /\ verdict' = "none" /\ fill' = Zero /\ sent' = NotSent
      BY <1>3, LeaveType
    <2>2. ~Entering'
      BY <2>1 DEF Entering, EntrySteps, Saves
    <2>3. todo' \subseteq open' /\ open' \subseteq 1 .. seq'
      BY <1>1 DEF seqVars
    <2> QED
      BY <2>1, <2>2, <2>3, AtRest
  <1>7. dbFails \in Nat /\ dbFails' \in Nat /\ dbFails' >= dbFails
    BY <1>1, <1>2, Bounds DEF TypeOK, Made, Refused, Failed
  <1> QED
    BY <1>2, <1>4, <1>5, <1>6, <1>7

LEMMA FailStep ==
  ASSUME EngineInv, Fail
  PROVE  EngineInv'
  <1>1. /\ pc = "fail" /\ Leave("idle")
        /\ UNCHANGED <<seqVars, bookVars, exchangeVars, todo, envVars>>
    BY DEF Fail
  <1>2. PICK t \in Transitions(cur, "FAILED") : Apply(t)
    BY DEF Fail
  <1>3. /\ TypeOK /\ StateAt /\ RowAt /\ EntryAt /\ ExitAt /\ cur \in Ids /\ todo \subseteq open
    BY <1>1, Working
  <1>4. Entering /\ verdict = "none" /\ state[cur] = "OPENING"
    BY <1>1, <1>3 DEF Entering, ExitAt, StateAt, EntrySteps
  <1>5. MayTry("FAILED") /\ CanTransition(state[cur], "FAILED")
    BY <1>1, <1>3, <1>4
    DEF EntryAt, MayTry, Behind, States, Restored, Terminal, Hedged, CanTransition, EntrySteps
  <1>6. /\ TypeOK' /\ (\A id \in Ids : PosInv(id)') /\ Cursor' /\ ~Entering'
        /\ \A id \in Ids \ {cur} : row'[id] = row[id]
        /\ dbFails \in Nat /\ dbFails' \in Nat /\ dbFails' >= dbFails
        /\ Made("FAILED") \/ Refused("FAILED") \/ Failed("FAILED")
    BY <1>1, <1>2, <1>3, <1>5, LastStep DEF bookVars
  <1>7. dbFails' = 0 => row'[cur].state \notin Restored
    BY <1>5, <1>6 DEF Made, Refused, Failed, Snap, Restored
  <1>8. WithinLimit'
    BY <1>1, <1>4, <1>6, <1>7, LimitStays DEF bookVars
  <1> QED
    BY <1>6, <1>8 DEF EngineInv

LEMMA DegradeClosedStep ==
  ASSUME EngineInv, DegradeClosed
  PROVE  EngineInv'
  <1>1. /\ pc = "degradeClosed" \/ (pc = "settle" /\ verdict = "incomplete")
        /\ Leave("monitor") /\ closeReq' = closeReq \ {cur}
        /\ UNCHANGED <<seqVars, open, exchangeVars, todo, envVars>>
    BY DEF DegradeClosed
  <1>2. PICK t \in Transitions(cur, "DEGRADED") : Apply(t)
    BY DEF DegradeClosed
  <1>3. /\ TypeOK /\ StateAt /\ RowAt /\ EntryAt /\ ExitAt /\ cur \in Ids /\ todo \subseteq open
    BY <1>1, Working
  <1>4. /\ Leaving /\ verdict \notin {"none", "nil"} /\ cur \in open
        /\ state[cur] \in {"EXITING", "RECONCILING"}
    BY <1>1, <1>3 DEF Leaving, ExitAt, StateAt, ExitSteps
  <1>5. MayTry("DEGRADED")
    BY <1>3, <1>4 DEF ExitAt, MayTry, Behind, States, Restored, Hedged
  <1>6. /\ TypeOK' /\ (\A id \in Ids : PosInv(id)') /\ Cursor' /\ ~Entering'
        /\ \A id \in Ids \ {cur} : row'[id] = row[id]
        /\ dbFails' \in Nat /\ dbFails' >= dbFails
    BY <1>1, <1>2, <1>3, <1>5, LastStep
  <1>7. WithinLimit'
    BY <1>1, <1>4, <1>6, LimitStays
  <1> QED
    BY <1>6, <1>7 DEF EngineInv

LEMMA ClosedStep ==
  ASSUME EngineInv, Closed
  PROVE  EngineInv'
  <1>1. pc = "closed" /\ Leave("monitor") /\ UNCHANGED <<seqVars, exchangeVars, todo, envVars>>
    BY DEF Closed
  <1>2. PICK t \in Transitions(cur, "CLOSED") :
          Apply(t) /\ IF t.ok THEN Forget(cur) ELSE UNCHANGED bookVars
    BY DEF Closed
  <1>3. /\ TypeOK /\ StateAt /\ RowAt /\ EntryAt /\ ExitAt /\ cur \in Ids /\ todo \subseteq open
    BY <1>1, Working
  <1>4. /\ Leaving /\ ~Entering /\ cur \in open /\ cur \notin todo
        /\ state[cur] \in {"EXITING", "RECONCILING"}
    BY <1>1, <1>3 DEF Leaving, Entering, ExitAt, StateAt, ExitSteps, EntrySteps, Saves
  <1>5. MayTry("CLOSED")
    BY <1>4 DEF MayTry, Behind, CanTransition, States, Restored, Terminal, Hedged
  <1>6. closeReq' \subseteq closeReq /\ open' \subseteq open /\ todo \subseteq open'
    BY <1>2, <1>3, <1>4 DEF Forget, bookVars
  <1>7. /\ TypeOK' /\ (\A id \in Ids : PosInv(id)') /\ Cursor' /\ ~Entering'
        /\ \A id \in Ids \ {cur} : row'[id] = row[id]
        /\ dbFails \in Nat /\ dbFails' \in Nat /\ dbFails' >= dbFails
        /\ \/ Made("CLOSED") /\ t.ok
           \/ Refused("CLOSED") /\ ~t.ok
           \/ Failed("CLOSED") /\ ~t.ok
    BY <1>1, <1>2, <1>3, <1>5, <1>6, LastStep
  <1>8. CASE ~t.ok
    <2>1. open' = open
      BY <1>2, <1>8 DEF bookVars
    <2>2. WithinLimit'
      BY <1>4, <1>7, <2>1, LimitStays
    <2> QED
      BY <1>7, <2>2 DEF EngineInv
  <1>9. CASE t.ok
    <2>1. open' = open \ {cur} /\ Made("CLOSED")
      BY <1>2, <1>7, <1>9 DEF Forget
    <2>2. row'[cur].state = "CLOSED"
      BY <2>1 DEF Made, Snap
    <2>3. RestoredIds' \subseteq RestoredIds \ {cur}
      BY <1>7, <2>2 DEF RestoredIds, Restored
    <2>4. /\ IsFiniteSet(open) /\ Cardinality(open) \in Nat
          /\ open' \in SUBSET open /\ Cardinality(open') \in Nat /\ Cardinality(open') <= Cardinality(open)
      <3>1. IsFiniteSet(open) /\ Cardinality(open) \in Nat /\ open' \in SUBSET open
        BY <1>3, <1>6, OpenIsFinite
      <3> QED
        BY <3>1, FS_Subset, FS_CardinalityType
    <2>5. dbFails' = dbFails
      BY <2>1 DEF Made
    <2>6. WithinLimit'
      <3> SUFFICES ASSUME dbFails = 0
                   PROVE  RestoredIds' \subseteq open' /\ Cardinality(open') <= MaxOpen
        BY <1>7, <2>5 DEF WithinLimit
      <3>1. RestoredIds \subseteq open /\ Cardinality(open) <= MaxOpen
        BY <1>4 DEF EngineInv, WithinLimit
      <3> QED
        BY <2>1, <2>3, <2>4, <3>1, Bounds
    <2> QED
      BY <1>7, <2>6 DEF EngineInv
  <1> QED
    BY <1>8, <1>9

-------------------------------------------------------------------------------
(* The orders of an entry and of its repair. *)

Orders == {"entry", "partial", "topUp", "reduce", "repaired"}

\* The exposure or the quantities of a position change where nothing is said of them.
LEMMA InWorkPos ==
  ASSUME EngineInv, NEW c \in 1 .. seq, c \in Ids,
         state[c] \in {"OPENING", "PARTIALLY_HEDGED", "EXITING"}, row[c].state = state[c],
         seq' = seq, UNCHANGED <<state, row, legsRow>>, qty'[c]["short"] >= 0,
         \A id \in Ids \ {c} : qty'[id] = qty[id] /\ real'[id] = real[id]
  PROVE  \A id \in Ids : PosInv(id)'
  <1>1. \A id \in Ids \ {c} : PosInv(id)'
    BY Untouched DEF EngineInv
  <1>2. PosInv(c)
    BY DEF EngineInv
  <1>3. Near(c)'
    BY <1>2 DEF PosInv, Near
  <1>4. Held(c)' /\ Even(c)'
    BY DEF Held, Even, Hedged
  <1>5. Sane(c)'
    BY <1>2 DEF PosInv, Sane, Saved
  <1>6. Fresh(c)'
    BY Bounds DEF Fresh, EngineInv, TypeOK
  <1>7. PosInv(c)'
    BY <1>3, <1>4, <1>5, <1>6 DEF PosInv
  <1> QED
    BY <1>1, <1>7

LEMMA Opening ==
  ASSUME EngineInv, pc \in Orders
  PROVE  /\ pc \notin {"idle", "monitor", "scan"} /\ pc \in EntrySteps
         /\ TypeOK /\ cur \in 1 .. seq /\ cur \in Ids
         /\ state[cur] \in {"OPENING", "PARTIALLY_HEDGED"} /\ row[cur].state = state[cur]
         /\ verdict = "none" /\ Entering /\ ~Saved(cur, "long") /\ ~Saved(cur, "short")
         /\ StateAt /\ EntryAt
  <1>1. pc \notin {"idle", "monitor", "scan"} /\ pc \in EntrySteps
    BY DEF Orders, EntrySteps
  <1>2. TypeOK /\ cur \in 1 .. seq /\ cur \in Ids /\ StateAt /\ RowAt /\ EntryAt /\ ExitAt
    BY <1>1, Working
  <1>3. state[cur] \in {"OPENING", "PARTIALLY_HEDGED"} /\ row[cur].state = state[cur]
    BY <1>1, <1>2 DEF StateAt, RowAt, Orders
  <1>4. verdict = "none"
    BY <1>1, <1>2 DEF ExitAt
  <1> QED
    BY <1>1, <1>2, <1>3, <1>4 DEF Entering, EntryAt

LEMMA OpeningGoesOn ==
  ASSUME EngineInv, pc \in Orders, pc' \in Orders \cup {"hedge", "degrade"}, TypeOK',
         UNCHANGED <<seqVars, state, row, legsRow, dbFails, bookVars, cur, todo, verdict>>,
         \A id \in Ids \ {cur} : qty'[id] = qty[id] /\ real'[id] = real[id],
         qty'[cur]["long"] >= 0, qty'[cur]["short"] >= 0, StateAt', EntryAt'
  PROVE  EngineInv'
  <1>1. /\ pc \notin {"idle", "monitor", "scan"} /\ cur \in 1 .. seq /\ cur \in Ids /\ TypeOK
        /\ state[cur] \in {"OPENING", "PARTIALLY_HEDGED"} /\ row[cur].state = state[cur]
        /\ verdict = "none" /\ Entering
    BY Opening
  <1>2. /\ pc' \notin {"idle", "monitor", "scan"} /\ pc' \in EntrySteps \ {"qualify"}
        /\ pc' \notin ExitSteps \cup Saves
    BY DEF Orders, EntrySteps, ExitSteps, Saves
  <1>3. \A id \in Ids : PosInv(id)'
    BY <1>1, InWorkPos DEF seqVars
  <1>4. RowAt'
    BY <1>1, <1>2 DEF RowAt
  <1>5. ExitAt'
    BY <1>1, <1>2 DEF ExitAt, Leaving, ExitSteps
  <1>6. Straight(qty[cur])'
    <2>1. qty'[cur]["long"] \in Int
      BY <1>1, Bounds DEF TypeOK, Legs
    <2> QED
      BY <2>1 DEF Straight
  <1>7. Cursor'
    BY <1>1, <1>2, <1>4, <1>5, <1>6, WorkGoesOn DEF seqVars, bookVars
  <1>8. WithinLimit'
    <2>1. Entering' /\ dbFails \in Nat
      BY <1>1, <1>2, Bounds DEF Entering, TypeOK
    <2> QED
      BY <1>1, <2>1, LimitStays DEF bookVars
  <1> QED
    BY <1>3, <1>7, <1>8 DEF EngineInv

\* The quantities of a position whose orders are out.
LEMMA OpeningQty ==
  ASSUME EngineInv, pc \in Orders
  PROVE  /\ qty[cur]["long"] \in Nat /\ qty[cur]["short"] \in Nat
         /\ \A l \in Legs : fill[l] \in 0 .. TargetQty /\ real[cur][l] \in 0 .. 2 * TargetQty
         /\ "long" \in Legs /\ "short" \in Legs
  <1>1. TypeOK /\ cur \in Ids /\ EntryAt /\ Entering /\ PosInv(cur)
    BY Opening DEF EngineInv
  <1>2. qty[cur]["long"] >= 0 /\ qty[cur]["short"] >= 0
    BY <1>1 DEF EntryAt, PosInv, Sane
  <1> QED
    BY <1>1, <1>2, Bounds DEF TypeOK, Legs

LEMMA AnswersAre ==
  ASSUME NEW q \in Nat, NEW a \in Answers(q)
  PROVE  /\ a.reported \in 0 .. q /\ a.filled \in 0 .. q /\ a.reported <= a.filled
         /\ a.kind \in Kinds
  BY DEF Answers

LEMMA EntryLegStep ==
  ASSUME EngineInv, NEW l \in Legs, EntryLeg(l)
  PROVE  EngineInv'
  <1>1. /\ pc = "entry" /\ sent[l] = "none"
        /\ UNCHANGED <<seqVars, posVars, bookVars, dbVars, exited, pc, cur, todo, verdict, envVars>>
    BY DEF EntryLeg
  <1>2. PICK a \in Answers(TargetQty) :
          /\ real' = [real EXCEPT ![cur][l] = @ + a.filled]
          /\ fill' = [fill EXCEPT ![l] = a.reported]
          /\ sent' = [sent EXCEPT ![l] = a.kind]
    BY DEF EntryLeg
  <1>3. pc \in Orders
    BY <1>1 DEF Orders
  <1>4. /\ TypeOK /\ cur \in Ids /\ verdict = "none" /\ Entering /\ StateAt /\ EntryAt
        /\ ~Saved(cur, "long") /\ ~Saved(cur, "short") /\ pc \in EntrySteps
    BY <1>3, Opening
  <1>5. /\ a.reported \in 0 .. TargetQty /\ a.filled \in 0 .. TargetQty /\ a.reported <= a.filled
        /\ a.kind \in Kinds
    BY Bounds, AnswersAre
  <1>6. /\ qty[cur]["long"] \in Nat /\ qty[cur]["short"] \in Nat
        /\ \A m \in Legs : fill[m] \in 0 .. TargetQty /\ real[cur][m] \in 0 .. 2 * TargetQty
    BY <1>3, OpeningQty
  <1>7. /\ real[cur][l] = 0 /\ \A m \in Legs : fill[m] <= real[cur][m] /\ real[cur][m] <= TargetQty
        /\ \A m \in Legs : sent[m] = "none" => real[cur][m] = 0
    BY <1>1, <1>4 DEF EntryAt, Backed
  <1>8. /\ real' \in [Ids -> [Legs -> 0 .. 2 * TargetQty]]
        /\ fill' \in [Legs -> 0 .. TargetQty] /\ sent' \in [Legs -> Kinds \cup {"none"}]
        /\ real'[cur][l] = a.filled /\ fill'[l] = a.reported /\ sent'[l] = a.kind
        /\ \A m \in Legs \ {l} : real'[cur][m] = real[cur][m] /\ fill'[m] = fill[m] /\ sent'[m] = sent[m]
        /\ \A id \in Ids \ {cur} : real'[id] = real[id]
    <2>1. real[cur][l] + a.filled = a.filled /\ a.filled \in 0 .. 2 * TargetQty
      BY <1>5, <1>7, Bounds
    <2> QED
      BY <1>2, <1>4, <1>5, <2>1 DEF TypeOK
  <1>9. TypeOK'
    BY <1>1, <1>4, <1>8 DEF TypeOK, seqVars, posVars, bookVars, dbVars, envVars
  <1>10. StateAt'
    BY <1>1, <1>4 DEF StateAt, posVars, bookVars, dbVars
  <1>11. EntryAt'
    <2>1. \A m \in Legs : fill'[m] <= real'[cur][m] /\ real'[cur][m] <= TargetQty
      BY <1>5, <1>7, <1>8
    <2>2. \A m \in Legs : sent'[m] = "none" => real'[cur][m] = 0
      BY <1>5, <1>7, <1>8 DEF Kinds
    <2> QED
      BY <1>1, <1>4, <1>6, <2>1, <2>2 DEF EntryAt, Backed, Saves, Saved, posVars, dbVars
  <1> QED
    BY <1>1, <1>3, <1>6, <1>8, <1>9, <1>10, <1>11, OpeningGoesOn DEF posVars, dbVars

LEMMA EntryFilledStep ==
  ASSUME EngineInv, EntryFilled
  PROVE  EngineInv'
  <1>1. /\ pc = "entry" /\ qty' = [qty EXCEPT ![cur] = fill]
        /\ pc' = IF Mismatch.action = "none" THEN "hedge" ELSE "partial"
        /\ UNCHANGED <<seqVars, state, bookVars, dbVars, exchangeVars, todo, envVars, cur, locals>>
    BY DEF EntryFilled, BothSent, To
  <1>2. pc \in Orders /\ pc' \in {"hedge", "partial"}
    BY <1>1 DEF Orders
  <1>3. /\ TypeOK /\ cur \in Ids /\ verdict = "none" /\ Entering /\ StateAt /\ EntryAt
        /\ ~Saved(cur, "long") /\ ~Saved(cur, "short") /\ pc \in EntrySteps
    BY <1>2, Opening
  <1>4. /\ "long" \in Legs /\ "short" \in Legs /\ \A l \in Legs : fill[l] \in 0 .. TargetQty
    BY <1>2, OpeningQty
  <1>5. /\ qty' \in [Ids -> [Legs -> -TargetQty .. TargetQty]] /\ qty'[cur] = fill
        /\ \A id \in Ids \ {cur} : qty'[id] = qty[id]
    <2>1. fill \in [Legs -> -TargetQty .. TargetQty]
      BY <1>3, <1>4, Bounds DEF TypeOK
    <2> QED
      BY <1>1, <1>3, <2>1 DEF TypeOK
  <1>6. TypeOK'
    BY <1>1, <1>2, <1>3, <1>5
    DEF TypeOK, Steps, seqVars, bookVars, dbVars, exchangeVars, envVars, locals
  <1>7. StateAt'
    BY <1>1, <1>2, <1>3 DEF StateAt, Saves
  <1>8. Mismatch.action = "none" <=> Within(fill)
    BY DEF Mismatch, AnalyzeMismatch, Within
  <1>9. EntryAt'
    <2>1. Backed /\ \A l \in Legs : real[cur][l] <= TargetQty
      BY <1>1, <1>3 DEF EntryAt
    <2>2. Backed' /\ \A l \in Legs : real'[cur][l] <= TargetQty
      BY <1>1, <2>1 DEF Backed, exchangeVars, locals
    <2>3. Within(qty[cur])' <=> Within(fill)
      BY <1>1, <1>5 DEF Within
    <2>4. Within(fill)' <=> Within(fill)
      BY <1>1 DEF Within, locals
    <2>5. (pc' = "hedge" => Within(fill)) /\ (pc' = "partial" => ~Within(fill))
      BY <1>1, <1>8
    <2>6. qty'[cur]["long"] >= 0
      BY <1>4, <1>5, Bounds
    <2> QED
      BY <1>1, <1>2, <1>3, <1>5, <2>2, <2>3, <2>4, <2>5, <2>6 DEF EntryAt, Saves, Saved, locals, dbVars
  <1>10. /\ qty'[cur]["long"] >= 0 /\ qty'[cur]["short"] >= 0
         /\ \A id \in Ids \ {cur} : qty'[id] = qty[id] /\ real'[id] = real[id]
    BY <1>1, <1>4, <1>5, Bounds DEF exchangeVars
  <1>11. pc' \in Orders \cup {"hedge", "degrade"}
    BY <1>2 DEF Orders
  <1> QED
    BY <1>1, <1>2, <1>6, <1>7, <1>9, <1>10, <1>11, OpeningGoesOn DEF dbVars, locals

LEMMA RepairedStep ==
  ASSUME EngineInv, Repaired
  PROVE  EngineInv'
  <1>1. /\ pc = "repaired" /\ qty' = [qty EXCEPT ![cur] = fill]
        /\ pc' = IF ~Within(fill) \/ fill = Zero THEN "degrade" ELSE "hedge"
        /\ UNCHANGED <<seqVars, state, bookVars, dbVars, exchangeVars, todo, envVars, cur, locals>>
    <2>1. pc = "repaired"
      BY DEF Repaired
    <2>2. "long" \in Legs /\ "short" \in Legs /\ \A l \in Legs : fill[l] \in 0 .. TargetQty
      BY <2>1, OpeningQty DEF Orders
    <2>3. Distance(fill["long"], fill["short"]) > Tolerance <=> ~Within(fill)
      BY <2>2, Bounds DEF Within, Distance
    <2> QED
      BY <2>3 DEF Repaired, To
  <1>2. pc \in Orders /\ pc' \in {"hedge", "degrade"}
    BY <1>1 DEF Orders
  <1>3. /\ TypeOK /\ cur \in Ids /\ verdict = "none" /\ Entering /\ StateAt /\ EntryAt
        /\ ~Saved(cur, "long") /\ ~Saved(cur, "short") /\ pc \in EntrySteps
    BY <1>2, Opening
  <1>4. /\ "long" \in Legs /\ "short" \in Legs /\ \A l \in Legs : fill[l] \in 0 .. TargetQty
    BY <1>2, OpeningQty
  <1>5. /\ qty' \in [Ids -> [Legs -> -TargetQty .. TargetQty]] /\ qty'[cur] = fill
        /\ \A id \in Ids \ {cur} : qty'[id] = qty[id]
    <2>1. fill \in [Legs -> -TargetQty .. TargetQty]
      BY <1>3, <1>4, Bounds DEF TypeOK
    <2> QED
      BY <1>1, <1>3, <2>1 DEF TypeOK
  <1>6. TypeOK'
    BY <1>1, <1>2, <1>3, <1>5
    DEF TypeOK, Steps, seqVars, bookVars, dbVars, exchangeVars, envVars, locals
  <1>7. StateAt'
    BY <1>1, <1>2, <1>3 DEF StateAt, Saves
  <1>8. EntryAt'
    <2>1. pc' = "hedge" => Within(fill) /\ Backed
      BY <1>1, <1>3 DEF EntryAt
    <2>2. Backed' <=> Backed
      BY <1>1 DEF Backed, exchangeVars, locals
    <2>3. Within(qty[cur])' <=> Within(fill)
      BY <1>1, <1>5 DEF Within
    <2>4. qty'[cur]["long"] >= 0
      BY <1>4, <1>5, Bounds
    <2> QED
      BY <1>1, <1>2, <1>3, <1>5, <2>1, <2>2, <2>3, <2>4 DEF EntryAt, Saves, Saved, locals, dbVars
  <1>9. /\ qty'[cur]["long"] >= 0 /\ qty'[cur]["short"] >= 0
         /\ \A id \in Ids \ {cur} : qty'[id] = qty[id] /\ real'[id] = real[id]
    BY <1>1, <1>4, <1>5, Bounds DEF exchangeVars
  <1> QED
    BY <1>1, <1>2, <1>6, <1>7, <1>8, <1>9, OpeningGoesOn DEF dbVars, locals

LEMMA TopUpStep ==
  ASSUME EngineInv, TopUp
  PROVE  EngineInv'
  <1> DEFINE lag == LaggingLeg(fill)
  <1>1. /\ pc = "topUp"
        /\ UNCHANGED <<seqVars, posVars, bookVars, dbVars, exited, cur, todo, sent, verdict, envVars>>
    BY DEF TopUp
  <1>2. pc \in Orders
    BY <1>1 DEF Orders
  <1>3. /\ TypeOK /\ cur \in Ids /\ verdict = "none" /\ Entering /\ StateAt /\ EntryAt
        /\ ~Saved(cur, "long") /\ ~Saved(cur, "short") /\ pc \in EntrySteps
    BY <1>2, Opening
  <1>4. /\ qty[cur]["long"] \in Nat /\ qty[cur]["short"] \in Nat
        /\ \A l \in Legs : fill[l] \in 0 .. TargetQty /\ real[cur][l] \in 0 .. 2 * TargetQty
        /\ "long" \in Legs /\ "short" \in Legs
    BY <1>2, OpeningQty
  <1>5. ~Within(fill) /\ Backed /\ \A l \in Legs : real[cur][l] <= TargetQty
    BY <1>1, <1>3 DEF EntryAt
  <1>6. Mismatch.shortfall = Distance(fill["long"], fill["short"])
    BY <1>5 DEF Mismatch, AnalyzeMismatch, Within
  <1>7. /\ Mismatch.shortfall \in 0 .. TargetQty /\ fill[lag] + Mismatch.shortfall <= TargetQty
        /\ lag \in Legs
    BY <1>4, <1>6, Bounds DEF Distance, LaggingLeg
  <1>8. PICK a \in Answers(Mismatch.shortfall) :
          LET topped == [fill EXCEPT ![lag] = @ + a.reported]
              after == ApplyTopUp(Mismatch.shortfall, a.reported, topped["long"], topped["short"], Tolerance)
          IN /\ real' = [real EXCEPT ![cur][lag] = @ + a.filled]
             /\ fill' = topped
             /\ pc' = IF after.action = "reduce" /\ after.excess > 0 THEN "reduce" ELSE "repaired"
    BY DEF TopUp
  <1>9. /\ a.reported \in 0 .. Mismatch.shortfall /\ a.filled \in 0 .. Mismatch.shortfall
        /\ a.reported <= a.filled
    BY <1>7, AnswersAre
  <1> HIDE DEF lag
  <1>10. /\ real' = [real EXCEPT ![cur][lag] = @ + a.filled]
         /\ fill' = [fill EXCEPT ![lag] = @ + a.reported]
         /\ pc' \in {"reduce", "repaired"}
         /\ pc' = "reduce" =>
              ApplyTopUp(Mismatch.shortfall, a.reported, fill'["long"], fill'["short"], Tolerance).action
                = "reduce"
    BY <1>8
  <1>11. /\ real' \in [Ids -> [Legs -> 0 .. 2 * TargetQty]] /\ fill' \in [Legs -> 0 .. TargetQty]
         /\ real'[cur][lag] = real[cur][lag] + a.filled /\ fill'[lag] = fill[lag] + a.reported
         /\ \A l \in Legs \ {lag} : real'[cur][l] = real[cur][l] /\ fill'[l] = fill[l]
         /\ \A id \in Ids \ {cur} : real'[id] = real[id]
    <2>1. real[cur][lag] + a.filled \in 0 .. 2 * TargetQty /\ fill[lag] + a.reported \in 0 .. TargetQty
      BY <1>4, <1>5, <1>7, <1>9, Bounds
    <2>2. /\ real \in [Ids -> [Legs -> 0 .. 2 * TargetQty]] /\ fill \in [Legs -> 0 .. TargetQty]
      BY <1>3 DEF TypeOK
    <2> QED
      BY <1>3, <1>7, <1>10, <2>1, <2>2
  <1>12. TypeOK'
    BY <1>1, <1>3, <1>10, <1>11 DEF TypeOK, Steps, seqVars, posVars, bookVars, dbVars, envVars
  <1>13. StateAt'
    BY <1>1, <1>3, <1>10 DEF StateAt, Saves, posVars, bookVars, dbVars
  <1>14. EntryAt'
    <2>1. Backed'
      BY <1>1, <1>4, <1>5, <1>7, <1>9, <1>11, Bounds DEF Backed
    <2>2. pc' = "reduce" => ~Within(fill)'
      <3> SUFFICES ASSUME pc' = "reduce"
                   PROVE  ~(Distance(fill'["long"], fill'["short"]) <= Tolerance)
        BY DEF Within
      <3>1. CASE a.reported = 0
        <4>1. fill'["long"] = fill["long"] /\ fill'["short"] = fill["short"]
          BY <1>4, <1>7, <1>11, <3>1, Bounds
        <4> QED
          BY <1>5, <4>1 DEF Within
      <3>2. CASE a.reported # 0
        BY <1>10, <3>2 DEF ApplyTopUp
      <3> QED
        BY <3>1, <3>2
    <2> QED
      BY <1>1, <1>3, <1>4, <1>10, <2>1, <2>2 DEF EntryAt, Saves, Saved, posVars, dbVars
  <1>15. /\ qty'[cur]["long"] >= 0 /\ qty'[cur]["short"] >= 0
         /\ \A id \in Ids \ {cur} : qty'[id] = qty[id] /\ real'[id] = real[id]
    BY <1>1, <1>4, <1>11 DEF posVars
  <1>16. pc' \in Orders \cup {"hedge", "degrade"}
    BY <1>10 DEF Orders
  <1> QED
    BY <1>1, <1>2, <1>12, <1>13, <1>14, <1>15, <1>16, OpeningGoesOn DEF posVars, dbVars

LEMMA ReduceStep ==
  ASSUME EngineInv, Reduce
  PROVE  EngineInv'
  <1> DEFINE heavy == HeavyLeg(fill)
             less == Smaller(fill["long"], fill["short"])
             diff == Distance(fill["long"], fill["short"])
  <1>1. /\ pc = "reduce" /\ pc' = "repaired"
        /\ UNCHANGED <<seqVars, posVars, bookVars, dbVars, exited, cur, todo, sent, verdict, envVars>>
    BY DEF Reduce
  <1>2. PICK a \in Answers(diff) :
          /\ a.filled <= real[cur][heavy]
          /\ real' = [real EXCEPT ![cur][heavy] = @ - a.filled]
          /\ fill' = IF a.kind = "ok" THEN [l \in Legs |-> less] ELSE fill
    BY DEF Reduce
  <1>3. pc \in Orders
    BY <1>1 DEF Orders
  <1>4. /\ TypeOK /\ cur \in Ids /\ verdict = "none" /\ Entering /\ StateAt /\ EntryAt
        /\ ~Saved(cur, "long") /\ ~Saved(cur, "short") /\ pc \in EntrySteps
    BY <1>3, Opening
  <1>5. /\ qty[cur]["long"] \in Nat /\ qty[cur]["short"] \in Nat
        /\ \A l \in Legs : fill[l] \in 0 .. TargetQty /\ real[cur][l] \in 0 .. 2 * TargetQty
        /\ "long" \in Legs /\ "short" \in Legs
    BY <1>3, OpeningQty
  <1>6. ~Within(fill) /\ Backed
    BY <1>1, <1>4 DEF EntryAt
  <1>7. /\ diff \in Nat /\ less \in 0 .. TargetQty /\ heavy \in Legs /\ fill[heavy] = less + diff
        /\ \A l \in Legs : less <= fill[l]
    BY <1>5, Bounds DEF Distance, Smaller, HeavyLeg, Legs
  <1>8. a.filled \in 0 .. diff
    BY <1>7, AnswersAre
  <1> HIDE DEF heavy, less, diff
  <1>9. /\ real' \in [Ids -> [Legs -> 0 .. 2 * TargetQty]] /\ fill' \in [Legs -> 0 .. TargetQty]
        /\ real'[cur][heavy] = real[cur][heavy] - a.filled
        /\ \A l \in Legs \ {heavy} : real'[cur][l] = real[cur][l]
        /\ \A id \in Ids \ {cur} : real'[id] = real[id]
    <2>1. real[cur][heavy] - a.filled \in 0 .. 2 * TargetQty
      BY <1>2, <1>5, <1>7, <1>8, Bounds
    <2>2. /\ real \in [Ids -> [Legs -> 0 .. 2 * TargetQty]] /\ fill \in [Legs -> 0 .. TargetQty]
      BY <1>4 DEF TypeOK
    <2> QED
      BY <1>2, <1>4, <1>7, <2>1, <2>2
  <1>10. TypeOK'
    BY <1>1, <1>4, <1>9 DEF TypeOK, Steps, seqVars, posVars, bookVars, dbVars, envVars
  <1>11. StateAt'
    BY <1>1, <1>4 DEF StateAt, Saves, posVars, bookVars, dbVars
  <1>12. Backed' \/ ~Within(fill)'
    <2>1. CASE a.kind = "ok"
      <3>1. \A l \in Legs : fill'[l] = less
        BY <1>2, <2>1
      <3>2. \A l \in Legs : fill[l] <= real[cur][l]
        BY <1>6 DEF Backed
      <3>3. real'[cur][heavy] >= less
        BY <1>5, <1>7, <1>8, <1>9, <3>2, Bounds
      <3>4. \A l \in Legs \ {heavy} : real'[cur][l] >= less
        BY <1>5, <1>7, <1>9, <3>2, Bounds
      <3> QED
        BY <1>1, <3>1, <3>3, <3>4 DEF Backed
    <2>2. CASE a.kind # "ok"
      BY <1>2, <1>6, <2>2 DEF Within
    <2> QED
      BY <2>1, <2>2
  <1>13. EntryAt'
    BY <1>1, <1>4, <1>5, <1>12 DEF EntryAt, Saves, Saved, posVars, dbVars
  <1>14. /\ qty'[cur]["long"] >= 0 /\ qty'[cur]["short"] >= 0
         /\ \A id \in Ids \ {cur} : qty'[id] = qty[id] /\ real'[id] = real[id]
    BY <1>1, <1>5, <1>9 DEF posVars
  <1>15. pc' \in Orders
    BY <1>1 DEF Orders
  <1> QED
    BY <1>1, <1>3, <1>10, <1>11, <1>13, <1>14, <1>15, OpeningGoesOn DEF posVars, dbVars

-------------------------------------------------------------------------------
(* The orders of a close, and the legs that are saved. *)

LEMMA CloseStep ==
  ASSUME EngineInv, Close
  PROVE  EngineInv'
  <1>1. /\ pc = "close" /\ pc' = "saveLong"
        /\ exited' = IF CloseTarget > 0 THEN exited \cup {cur} ELSE exited
        /\ UNCHANGED <<seqVars, state, bookVars, dbVars, cur, todo, fill, sent, envVars>>
    BY DEF Close
  <1>2. PICK c \in CloseResults :
          /\ real' = [real EXCEPT ![cur] = Subtract(@, c.took)]
          /\ qty' = [qty EXCEPT ![cur] = Subtract(@, c.closed)]
          /\ verdict' = c.verdict
    BY DEF Close
  <1>3. /\ TypeOK /\ cur \in 1 .. seq /\ cur \in Ids /\ PosInv(cur) /\ Straight(qty[cur])
        /\ StateAt /\ RowAt /\ ExitAt /\ pc \notin {"idle", "monitor", "scan"}
    BY <1>1, Working
  <1>4. /\ state[cur] = "EXITING" /\ row[cur].state = "EXITING" /\ Leaving
        /\ cur \in open /\ cur \notin todo
    BY <1>1, <1>3 DEF StateAt, RowAt, ExitAt, Leaving, ExitSteps
  <1>5. /\ qty[cur] \in [Legs -> Qtys] /\ real[cur] \in [Legs -> 0 .. 2 * TargetQty]
        /\ "long" \in Legs /\ "short" \in Legs /\ qty[cur]["short"] >= 0
        /\ qty[cur]["long"] \in Qtys /\ qty[cur]["short"] \in Qtys
    BY <1>3 DEF TypeOK, Qtys, Legs, PosInv, Sane
  <1>6. /\ CloseTarget \in 0 .. TargetQty
        /\ CloseTarget > 0 => \A l \in Legs : CloseTarget <= qty[cur][l]
    BY <1>5, Bounds DEF CloseTarget, Smaller, Legs, Qtys
  <1>7. /\ c.took \in [Legs -> 0 .. 2 * TargetQty] /\ c.closed \in [Legs -> 0 .. CloseTarget]
        /\ c.verdict \in {"nil", "incomplete", "ambiguous"}
        /\ \A l \in Legs : c.took[l] <= real[cur][l]
        /\ c.verdict = "nil" <=> \A l \in Legs : c.closed[l] = CloseTarget
    BY DEF CloseResults
  <1>8. /\ \A l \in Legs : qty'[cur][l] = qty[cur][l] - c.closed[l]
        /\ \A id \in Ids \ {cur} : qty'[id] = qty[id] /\ real'[id] = real[id]
    BY <1>2, <1>3 DEF TypeOK, Subtract
  <1>9. /\ CloseTarget = 0 => qty'[cur]["long"] = qty[cur]["long"] /\ qty'[cur]["short"] = qty[cur]["short"]
        /\ CloseTarget > 0 => qty'[cur]["long"] >= 0 /\ qty'[cur]["short"] >= 0
    <2>1. \A l \in Legs : c.closed[l] \in 0 .. CloseTarget /\ qty[cur][l] \in Int
      BY <1>5, <1>7, Bounds DEF Qtys
    <2> QED
      BY <1>5, <1>6, <1>8, <2>1, Bounds
  <1>10. TypeOK'
    <2>1. Subtract(real[cur], c.took) \in [Legs -> 0 .. 2 * TargetQty]
      <3>1. \A l \in Legs : real[cur][l] - c.took[l] \in 0 .. 2 * TargetQty
        <4>1. \A l \in Legs : /\ c.took[l] \in 0 .. 2 * TargetQty /\ real[cur][l] \in 0 .. 2 * TargetQty
                              /\ c.took[l] <= real[cur][l]
          BY <1>5, <1>7
        <4> QED
          BY <4>1, Bounds
      <3> QED
        BY <3>1 DEF Subtract
    <2>2. Subtract(qty[cur], c.closed) \in [Legs -> -TargetQty .. TargetQty]
      <3>1. \A l \in Legs : qty[cur][l] - c.closed[l] \in -TargetQty .. TargetQty
        <4>1. \A l \in Legs : /\ c.closed[l] \in 0 .. CloseTarget /\ qty[cur][l] \in Qtys
                              /\ CloseTarget > 0 => CloseTarget <= qty[cur][l]
          BY <1>5, <1>6, <1>7
        <4> QED
          BY <1>6, <4>1, Bounds DEF Qtys
      <3> QED
        BY <3>1 DEF Subtract
    <2>3. /\ real' \in [Ids -> [Legs -> 0 .. 2 * TargetQty]]
          /\ qty' \in [Ids -> [Legs -> -TargetQty .. TargetQty]]
      BY <1>2, <1>3, <2>1, <2>2 DEF TypeOK
    <2>4. exited' \subseteq Ids
      BY <1>1, <1>3 DEF TypeOK
    <2> QED
      BY <1>1, <1>2, <1>3, <1>7, <2>3, <2>4
      DEF TypeOK, Steps, seqVars, bookVars, dbVars, envVars
  <1>11. \A id \in Ids : PosInv(id)'
    <2>1. qty'[cur]["short"] >= 0
      BY <1>5, <1>6, <1>9, Bounds
    <2> QED
      BY <1>1, <1>3, <1>4, <1>8, <2>1, InWorkPos DEF seqVars, dbVars
  <1>12. Straight(qty[cur])'
    <2>1. CASE CloseTarget = 0
      BY <1>1, <1>3, <1>9, <2>1 DEF Straight
    <2>2. CASE CloseTarget > 0
      <3>1. qty'[cur]["long"] \in Int
        BY <1>3, <1>10, Bounds DEF TypeOK, Legs
      <3> QED
        BY <1>1, <1>9, <2>2, <3>1 DEF Straight
    <2> QED
      BY <1>6, <2>1, <2>2, Bounds
  <1>13. verdict' # "none" /\ (verdict' # "nil" => qty'[cur]["long"] >= 0)
    <2>1. verdict' # "nil" => \E l \in Legs : c.closed[l] # CloseTarget
      BY <1>2, <1>7
    <2>2. verdict' # "nil" => CloseTarget > 0
      BY <1>6, <1>7, <2>1, Bounds
    <2> QED
      BY <1>2, <1>7, <1>9, <2>2
  <1>14. StateAt' /\ RowAt' /\ EntryAt'
    BY <1>1, <1>4, <1>13 DEF StateAt, RowAt, EntryAt, Entering, EntrySteps, Saves, dbVars
  <1>15. ExitAt'
    BY <1>1, <1>3, <1>4, <1>13
    DEF ExitAt, Leaving, EntrySteps, ExitSteps, Saves, Saved, dbVars, bookVars
  <1>16. Cursor'
    BY <1>1, <1>3, <1>12, <1>14, <1>15, WorkGoesOn DEF seqVars, bookVars
  <1>17. WithinLimit'
    <2>1. ~Entering' /\ dbFails \in Nat
      BY <1>1, <1>3, <1>13, Bounds DEF Entering, EntrySteps, Saves, TypeOK
    <2> QED
      BY <1>1, <1>4, <2>1, LimitStays DEF bookVars, dbVars
  <1> QED
    BY <1>10, <1>11, <1>16, <1>17 DEF EngineInv

LEMMA SavedPos ==
  ASSUME EngineInv, pc \in Saves, NEW c \in 1 .. seq, c = cur, NEW l \in Legs,
         l = IF pc = "saveLong" THEN "long" ELSE "short",
         legsRow' = [legsRow EXCEPT ![cur][l] = qty[cur][l]],
         seq' = seq, UNCHANGED <<state, row, qty, real>>
  PROVE  \A id \in Ids : PosInv(id)'
  <1>1. /\ TypeOK /\ c \in Ids /\ PosInv(c) /\ StateAt /\ RowAt /\ EntryAt
    BY Working DEF Saves
  <1>2. /\ \A id \in Ids \ {c} : legsRow'[id] = legsRow[id]
        /\ legsRow'[c][l] = qty[c][l] /\ \A m \in Legs \ {l} : legsRow'[c][m] = legsRow[c][m]
    BY <1>1 DEF TypeOK
  <1>3. \A id \in Ids \ {c} : PosInv(id)'
    BY <1>2, Untouched DEF EngineInv
  <1>4. "long" \in Legs /\ "short" \in Legs /\ \A m \in Legs : m = "long" \/ m = "short"
    BY DEF Legs
  <1>5. /\ \A m \in Legs \ {l} : Saved(c, m)' <=> Saved(c, m)
        /\ \A m \in Legs : qty[c][m] \in Int /\ real[c][m] \in Int
    BY <1>1, <1>2, Bounds DEF Saved, TypeOK
  <1>6. Near(c)' /\ Fresh(c)'
    BY <1>1, Bounds DEF PosInv, Near, Fresh, EngineInv, TypeOK
  <1>7. CASE row[c].state \notin Hedged /\ state[c] \notin Hedged
    <2>1. Held(c)' /\ Even(c)'
      BY <1>7 DEF Held, Even
    <2>2. row[c].state = "EXITING" \/ qty[c]["long"] >= 0
      <3>1. CASE verdict = "none"
        BY <1>1, <3>1 DEF EntryAt, Entering
      <3>2. CASE verdict # "none"
        BY <1>1, <3>2 DEF StateAt, RowAt
      <3> QED
        BY <3>1, <3>2
    <2>3. Sane(c)'
      BY <1>1, <1>2, <1>4, <1>5, <2>2 DEF PosInv, Sane, Straight, Saved
    <2> QED
      BY <1>3, <1>6, <2>1, <2>3 DEF PosInv
  <1>8. CASE row[c].state = "MONITORING" /\ state[c] = "MONITORING" /\ verdict = "none"
    <2>1. /\ Within(qty[c]) /\ qty[c]["long"] >= 0
          /\ pc = "saveLong" => ~Saved(c, "short")
          /\ pc = "saveShort" /\ Saved(c, "long") => legsRow[c]["long"] = qty[c]["long"]
      BY <1>1, <1>8 DEF EntryAt, Entering
    <2>2. Held(c)'
      BY <1>1, <1>2, <1>5, <1>8 DEF PosInv, Held, Hedged, Saved
    <2>3. Even(c)'
      <3>1. Distance(qty[c]["long"], qty[c]["short"]) <= Tolerance
        BY <2>1 DEF Within
      <3>2. /\ Saved(c, "long")' /\ Saved(c, "short")' => pc = "saveShort" /\ l = "short"
            /\ Saved(c, "long")' /\ Saved(c, "short")' =>
                 legsRow'[c]["long"] = qty[c]["long"] /\ legsRow'[c]["short"] = qty[c]["short"]
        <4>1. CASE pc = "saveLong"
          BY <1>4, <1>5, <2>1, <4>1
        <4>2. CASE pc = "saveShort"
          BY <1>2, <1>4, <1>5, <2>1, <4>2
        <4> QED
          BY <4>1, <4>2 DEF Saves
      <3> QED
        BY <1>1, <3>1, <3>2 DEF PosInv, Even
    <2>4. Sane(c)'
      BY <1>1, <1>2, <1>4, <1>5, <2>1 DEF PosInv, Sane, Straight, Saved
    <2> QED
      BY <1>3, <1>6, <2>2, <2>3, <2>4 DEF PosInv
  <1>9. \/ row[c].state \notin Hedged /\ state[c] \notin Hedged
        \/ row[c].state = "MONITORING" /\ state[c] = "MONITORING" /\ verdict = "none"
    BY <1>1 DEF StateAt, RowAt, Hedged
  <1> QED
    BY <1>7, <1>8, <1>9

LEMMA SaveStep ==
  ASSUME EngineInv, SaveLong \/ SaveShort
  PROVE  EngineInv'
  <1> DEFINE l == IF pc = "saveLong" THEN "long" ELSE "short"
             written == legsRow' = [legsRow EXCEPT ![cur][l] = qty[cur][l]]
  <1>1. /\ \/ pc = "saveLong" /\ pc' = "saveShort"
           \/ pc = "saveShort" /\ pc' = IF verdict = "none" THEN "register" ELSE "settle"
        /\ \/ written /\ dbFails' = dbFails
           \/ legsRow' = legsRow /\ dbFails < MaxDbFails /\ dbFails' = dbFails + 1
        /\ UNCHANGED <<seqVars, posVars, bookVars, row, exchangeVars, todo, envVars, cur, locals>>
    BY DEF SaveLong, SaveShort, SaveLeg, To
  <1>2. l \in Legs /\ pc \in Saves /\ pc \notin {"idle", "monitor", "scan"}
    BY <1>1 DEF Legs, Saves
  <1>3. /\ TypeOK /\ cur \in 1 .. seq /\ cur \in Ids /\ PosInv(cur) /\ Straight(qty[cur])
        /\ StateAt /\ RowAt /\ EntryAt /\ ExitAt
    BY <1>2, Working
  <1>4. qty[cur][l] \in -TargetQty .. TargetQty
    BY <1>2, <1>3 DEF TypeOK
  <1> HIDE DEF l
  <1>5. /\ dbFails' \in 0 .. MaxDbFails /\ dbFails' \in Nat /\ dbFails' >= dbFails
    BY <1>1, <1>3, Bounds DEF TypeOK
  <1>6. TypeOK'
    <2>1. legsRow' \in [Ids -> [Legs -> {NoLeg} \cup -TargetQty .. TargetQty]]
      BY <1>1, <1>2, <1>3, <1>4 DEF TypeOK
    <2>2. pc' \in Steps
      BY <1>1 DEF Steps
    <2> QED
      BY <1>1, <1>3, <1>5, <2>1, <2>2
      DEF TypeOK, seqVars, posVars, bookVars, exchangeVars, envVars, locals
  <1>7. \A id \in Ids : PosInv(id)'
    <2>1. CASE written
      BY <1>1, <1>2, <1>3, <2>1, SavedPos DEF l, seqVars, posVars, exchangeVars
    <2>2. CASE legsRow' = legsRow
      BY <1>1, <2>2, AllUntouched DEF seqVars, posVars, exchangeVars
    <2> QED
      BY <1>1, <2>1, <2>2
  <1>8. CASE verdict = "none"
    <2>1. /\ Entering /\ Entering' /\ ~Leaving' /\ pc' \in {"saveShort", "register"}
          /\ verdict' = "none" /\ qty[cur]["long"] >= 0
      BY <1>1, <1>2, <1>3, <1>8 DEF Entering, Leaving, EntrySteps, ExitSteps, Saves, locals, EntryAt
    <2>2. StateAt' /\ RowAt'
      BY <1>1, <1>2, <1>3, <1>8, <2>1 DEF StateAt, RowAt, EntrySteps, Saves, posVars
    <2>3. EntryAt'
      <3>1. pc' = "saveShort" =>
              /\ ~Saved(cur, "short")'
              /\ Saved(cur, "long")' => legsRow'[cur]["long"] = qty'[cur]["long"]
        <4> SUFFICES ASSUME pc' = "saveShort"
                     PROVE  /\ legsRow'[cur]["short"] = NoLeg
                            /\ legsRow'[cur]["long"] \in {NoLeg, qty[cur]["long"]}
          BY <1>1 DEF Saved, posVars
        <4>1. pc = "saveLong" /\ l = "long" /\ legsRow[cur]["short"] = NoLeg /\ legsRow[cur]["long"] = NoLeg
          BY <1>1, <1>3, <1>8 DEF l, EntryAt, Saved
        <4> QED
          BY <1>1, <1>3, <4>1 DEF TypeOK, Legs
      <3>2. pc' \in Saves /\ state'[cur] = "MONITORING" => Within(qty[cur])'
        BY <1>1, <1>2, <1>3, <1>8 DEF EntryAt, Within, posVars
      <3> QED
        BY <1>1, <2>1, <3>1, <3>2 DEF EntryAt, EntrySteps, Saves, posVars
    <2>4. ExitAt'
      BY <2>1 DEF ExitAt
    <2>5. Cursor'
      BY <1>1, <1>2, <1>3, <2>1, <2>2, <2>3, <2>4, WorkGoesOn
      DEF seqVars, bookVars, posVars, Straight
    <2>6. WithinLimit'
      BY <1>1, <1>5, <2>1, LimitStays DEF bookVars
    <2> QED
      BY <1>6, <1>7, <2>5, <2>6 DEF EngineInv
  <1>9. CASE verdict # "none"
    <2>1. /\ Leaving /\ ~Entering' /\ pc' \in {"saveShort", "settle"} /\ verdict' = verdict
          /\ cur \in open /\ cur \notin todo /\ state[cur] = "EXITING" /\ row[cur].state = "EXITING"
      BY <1>1, <1>2, <1>3, <1>9
      DEF Entering, Leaving, EntrySteps, ExitSteps, Saves, locals, ExitAt, StateAt, RowAt
    <2>2. StateAt' /\ RowAt'
      BY <1>1, <1>9, <2>1 DEF StateAt, RowAt, EntrySteps, Saves, posVars
    <2>3. EntryAt'
      BY <1>9, <2>1 DEF EntryAt, EntrySteps, Saves
    <2>4. verdict # "nil" => qty'[cur]["long"] >= 0 /\ (Saved(cur, "long")' => legsRow'[cur]["long"] >= 0)
      <3> SUFFICES ASSUME verdict # "nil"
                   PROVE  /\ qty[cur]["long"] >= 0
                          /\ legsRow'[cur]["long"] = NoLeg \/ legsRow'[cur]["long"] >= 0
        BY <1>1 DEF Saved, posVars
      <3>1. /\ qty[cur]["long"] >= 0
            /\ legsRow[cur]["long"] = NoLeg \/ legsRow[cur]["long"] >= 0
        BY <1>3, <1>9 DEF ExitAt, Saved
      <3>2. legsRow'[cur]["long"] \in {legsRow[cur]["long"], qty[cur]["long"]}
        BY <1>1, <1>2, <1>3 DEF l, TypeOK, Legs
      <3> QED
        BY <3>1, <3>2
    <2>5. ExitAt'
      BY <1>1, <1>9, <2>1, <2>4 DEF ExitAt, EntrySteps, bookVars
    <2>6. Cursor'
      BY <1>1, <1>2, <1>3, <2>1, <2>2, <2>3, <2>5, WorkGoesOn
      DEF seqVars, bookVars, posVars, Straight
    <2>7. WithinLimit'
      BY <1>1, <1>5, <2>1, LimitStays DEF bookVars
    <2> QED
      BY <1>6, <1>7, <2>6, <2>7 DEF EngineInv
  <1> QED
    BY <1>8, <1>9

-------------------------------------------------------------------------------
(* A position starts, and the process starts again. *)

LEMMA TryOpenStep ==
  ASSUME EngineInv, NEW a \in Assets, NEW next \in {"qualify", "idle"}, TryOpen(a, next)
  PROVE  EngineInv'
  <1> DEFINE c == seq + 1
  <1>1. /\ pc = "scan" /\ Cardinality(open) < MaxOpen /\ seq < MaxIds /\ seq' = c
        /\ asset' = [asset EXCEPT ![c] = a]
        /\ IF next = "idle" THEN Leave("idle") ELSE pc' = next /\ cur' = c /\ UNCHANGED locals
        /\ UNCHANGED <<posVars, bookVars, dbVars, exchangeVars, todo, envVars>>
    BY DEF TryOpen
  <1>2. /\ TypeOK /\ verdict = "none" /\ fill = Zero /\ sent = NotSent /\ ~Entering
        /\ todo \subseteq open /\ open \subseteq 1 .. seq
    BY <1>1, Resting
  <1>3. seq \in Nat /\ c \in Ids /\ c \in 1 .. c /\ c \in 0 .. MaxIds /\ c > seq /\ c # 0
    BY <1>1, <1>2, Bounds DEF TypeOK, Ids
  <1>4. /\ state[c] = "DISCOVERED" /\ row[c] = NoRow /\ qty[c] = Zero /\ real[c] = Zero
        /\ ~Saved(c, "long") /\ ~Saved(c, "short")
    BY <1>3 DEF EngineInv, PosInv, Fresh
  <1>5. open \subseteq 1 .. seq'
    BY <1>1, <1>2, <1>3
  <1>6. ASSUME NEW id \in Ids PROVE PosInv(id)'
    <2>1. PosInv(id)
      BY DEF EngineInv
    <2>2. Near(id)' /\ Held(id)' /\ Even(id)' /\ Sane(id)'
      BY <1>1, <2>1
      DEF PosInv, Near, Held, Even, Sane, Saved, Straight, posVars, dbVars, exchangeVars
    <2>3. Fresh(id)'
      <3>1. id > c => id > seq
        BY <1>3 DEF Ids
      <3> QED
        BY <1>1, <2>1, <3>1 DEF PosInv, Fresh, Saved, posVars, dbVars, exchangeVars
    <2> QED
      BY <2>2, <2>3 DEF PosInv
  <1>7. dbFails \in Nat
    BY <1>2, Bounds DEF TypeOK
  <1>8. seq' \in 0 .. MaxIds /\ asset' \in [Ids -> Assets \cup {NoAsset}]
    BY <1>1, <1>2, <1>3 DEF TypeOK
  <1>9. CASE next = "idle"
    <2>1. Leave("idle") /\ "idle" \in Steps
      BY <1>1, <1>9 DEF Steps
    <2>2. /\ pc' = "idle" /\ cur' = 0 /\ fill' = Zero /\ sent' = NotSent /\ verdict' = "none"
          /\ pc' \in Steps /\ cur' \in 0 .. MaxIds /\ fill' \in [Legs -> 0 .. TargetQty]
          /\ sent' \in [Legs -> Kinds \cup {"none"}]
      BY <2>1, LeaveType
    <2>3. TypeOK'
      BY <1>1, <1>2, <1>8, <2>2 DEF TypeOK, posVars, bookVars, dbVars, exchangeVars, envVars
    <2>4. Cursor'
      BY <1>1, <1>2, <1>5, <2>2, AtRest DEF bookVars
    <2>5. WithinLimit'
      <3>1. ~Entering'
        BY <2>2 DEF Entering, EntrySteps, Saves
      <3> QED
        BY <1>1, <1>2, <1>7, <3>1, LimitStays DEF bookVars, dbVars
    <2> QED
      BY <1>6, <2>3, <2>4, <2>5 DEF EngineInv
  <1>10. CASE next # "idle"
    <2>1. pc' = "qualify" /\ cur' = c /\ UNCHANGED locals /\ verdict' = "none"
      BY <1>1, <1>2, <1>10 DEF locals
    <2>2. TypeOK'
      <3>1. "qualify" \in Steps
        BY DEF Steps
      <3> QED
        BY <1>1, <1>2, <1>3, <1>8, <2>1, <3>1
        DEF TypeOK, posVars, bookVars, dbVars, exchangeVars, envVars, locals
    <2>3. /\ state'[c] = "DISCOVERED" /\ row'[c] = NoRow /\ qty'[c] = Zero /\ real'[c] = Zero
          /\ legsRow'[c]["long"] = NoLeg /\ legsRow'[c]["short"] = NoLeg
          /\ fill' = Zero /\ sent' = NotSent
      BY <1>1, <1>2, <1>4, <2>1 DEF Saved, posVars, dbVars, exchangeVars, locals
    <2>4. Zero["long"] = 0 /\ Zero["short"] = 0
      BY DEF Zero, Legs
    <2>5. /\ cur' \in 1 .. seq' /\ Straight(qty[cur])' /\ Saved(cur, "long")' = FALSE
          /\ Saved(cur, "short")' = FALSE
      BY <1>1, <1>3, <2>1, <2>3, <2>4 DEF Straight, Saved
    <2>6. StateAt' /\ RowAt'
      BY <2>1, <2>3 DEF StateAt, RowAt, EntrySteps, Saves
    <2>7. EntryAt' /\ ExitAt'
      BY <2>1, <2>3, <2>4, <2>5 DEF EntryAt, ExitAt, Leaving, EntrySteps, ExitSteps, Saves
    <2>8. Cursor'
      BY <1>1, <1>2, <1>5, <2>1, <2>5, <2>6, <2>7 DEF Cursor, bookVars
    <2>9. WithinLimit'
      <3>1. RestoredIds' = RestoredIds /\ open' = open /\ dbFails' = dbFails
        BY <1>1 DEF RestoredIds, dbVars, bookVars
      <3>2. dbFails = 0 => RestoredIds \subseteq open /\ Cardinality(open) <= MaxOpen
        BY <1>2 DEF EngineInv, WithinLimit
      <3> QED
        BY <1>1, <3>1, <3>2 DEF WithinLimit
    <2> QED
      BY <1>6, <2>2, <2>8, <2>9 DEF EngineInv
  <1> QED
    BY <1>9, <1>10

\* The quantities a restart finds.
LEMMA RestoredQtyIs ==
  ASSUME TypeOK, NEW id \in Ids, NEW q, NEW b \in BOOLEAN, q = RestoredQty(id, b)
  PROVE  \/ /\ Saved(id, "long") \/ Saved(id, "short")
            /\ q["long"] = IF Saved(id, "long") THEN legsRow[id]["long"] ELSE 0
            /\ q["short"] = IF Saved(id, "short") THEN legsRow[id]["short"] ELSE 0
            /\ q \in [Legs -> -TargetQty .. TargetQty]
         \/ /\ q["long"] = row[id].delta /\ q["short"] = 0
            /\ q \in [Legs -> -TargetQty .. TargetQty]
  <1>1. /\ "long" \in Legs /\ "short" \in Legs /\ Legs = {"long", "short"}
    BY DEF Legs
  <1>2. CASE b /\ \E l \in Legs : legsRow[id][l] # NoLeg
    <2>1. q = [l \in Legs |-> IF legsRow[id][l] = NoLeg THEN 0 ELSE legsRow[id][l]]
      BY <1>2 DEF RestoredQty
    <2>2. \A l \in Legs : q[l] \in -TargetQty .. TargetQty
      BY <2>1, Bounds DEF TypeOK
    <2>3. q \in [Legs -> -TargetQty .. TargetQty]
      BY <2>1, <2>2
    <2> QED
      BY <1>1, <1>2, <2>1, <2>3 DEF Saved
  <1>3. CASE ~(b /\ \E l \in Legs : legsRow[id][l] # NoLeg)
    <2>1. q = [long |-> row[id].delta, short |-> 0]
      BY <1>3 DEF RestoredQty
    <2>2. row[id].delta \in -TargetQty .. TargetQty /\ 0 \in -TargetQty .. TargetQty
      BY Bounds DEF TypeOK
    <2>3. q \in [Legs -> -TargetQty .. TargetQty]
      BY <1>1, <2>1, <2>2
    <2> QED
      BY <2>1, <2>3
  <1> QED
    BY <1>2, <1>3

LEMMA RestoredPos ==
  ASSUME TypeOK, NEW id \in Ids, PosInv(id), seq' = seq, UNCHANGED <<row, legsRow, real>>,
         state'[id] = IF row[id].state = "none" THEN "DISCOVERED" ELSE row[id].state,
         NEW b \in BOOLEAN,
         qty'[id] = IF row[id].state \in Restored THEN RestoredQty(id, b) ELSE Zero
  PROVE  PosInv(id)' /\ qty'[id] \in [Legs -> -TargetQty .. TargetQty] /\ state'[id] \in States
  <1>1. /\ row[id].state \in States \cup {"none"} /\ "long" \in Legs /\ "short" \in Legs
        /\ \A l \in Legs : real[id][l] \in 0 .. 2 * TargetQty
    BY DEF TypeOK, Legs
  <1>2. row[id].state \notin {"DISCOVERED", "AWAITING_USER_APPROVAL"}
    BY DEF PosInv, Near, Behind, Terminal
  <1>3. state'[id] \in States /\ Near(id)'
    <2>1. CASE row[id].state = "none"
      BY <2>1 DEF Near, Behind, States
    <2>2. CASE row[id].state # "none"
      BY <1>1, <1>2, <2>2, BehindItself DEF Near
    <2> QED
      BY <2>1, <2>2
  <1>5. Saved(id, "long")' = Saved(id, "long") /\ Saved(id, "short")' = Saved(id, "short")
    BY DEF Saved
  <1>6. Fresh(id)'
    BY <1>5 DEF PosInv, Fresh, NoRow, Restored
  <1>7. Zero \in [Legs -> -TargetQty .. TargetQty] /\ Zero["long"] = 0 /\ Zero["short"] = 0
    BY Bounds DEF Zero, Legs
  <1>8. /\ Saved(id, "long") => legsRow[id]["long"] \in Qtys
        /\ Saved(id, "short") => legsRow[id]["short"] \in Qtys
        /\ row[id].delta \in Qtys
    BY <1>1 DEF TypeOK, Saved, Qtys
  <1>9. CASE row[id].state \notin Restored
    <2>1. qty'[id] = Zero /\ state'[id] \notin Hedged \cup {"DEGRADED"} /\ row[id].state \notin Hedged
      BY <1>9 DEF Restored, Hedged
    <2>2. Held(id)' /\ Even(id)'
      BY <2>1 DEF Held, Even
    <2>3. Sane(id)'
      BY <1>5, <1>7, <2>1 DEF PosInv, Sane, Hedged
    <2> QED
      BY <1>3, <1>6, <1>7, <2>1, <2>2, <2>3 DEF PosInv
  <1>10. CASE row[id].state \in Restored
    <2> DEFINE q == qty'[id]
    <2>1. state'[id] = row[id].state
      BY <1>10 DEF Restored
    <2>2. q = RestoredQty(id, b)
      BY <1>10
    <2> HIDE DEF q
    <2>3. \/ /\ Saved(id, "long") \/ Saved(id, "short")
             /\ q["long"] = IF Saved(id, "long") THEN legsRow[id]["long"] ELSE 0
             /\ q["short"] = IF Saved(id, "short") THEN legsRow[id]["short"] ELSE 0
             /\ q \in [Legs -> -TargetQty .. TargetQty]
          \/ /\ q["long"] = row[id].delta /\ q["short"] = 0
             /\ q \in [Legs -> -TargetQty .. TargetQty]
      BY <2>2, RestoredQtyIs
    <2>4. Held(id)'
      <3> SUFFICES ASSUME row[id].state \in Hedged
                   PROVE  \A l \in Legs : q[l] <= real[id][l]
        BY <1>5, <2>1 DEF PosInv, Held, Saved, q
      <3>1. /\ Saved(id, "long") => legsRow[id]["long"] <= real[id]["long"]
            /\ Saved(id, "short") => legsRow[id]["short"] <= real[id]["short"]
            /\ row[id].delta <= real[id]["long"]
        BY <1>1 DEF PosInv, Held
      <3>2. 0 <= real[id]["long"] /\ 0 <= real[id]["short"]
        BY <1>1, Bounds
      <3>3. q["long"] <= real[id]["long"] /\ q["short"] <= real[id]["short"]
        BY <2>3, <3>1, <3>2
      <3> QED
        BY <3>3 DEF Legs
    <2>5. Even(id)'
      <3> SUFFICES ASSUME row[id].state \in Hedged, Saved(id, "long") <=> Saved(id, "short")
                   PROVE  Distance(q["long"], q["short"]) <= Tolerance
        BY <1>5, <2>1 DEF PosInv, Even, Saved, q
      <3>1. /\ row[id].delta \in -Tolerance .. Tolerance
            /\ Saved(id, "long") /\ Saved(id, "short")
                 => Distance(legsRow[id]["long"], legsRow[id]["short"]) <= Tolerance
        BY DEF PosInv, Even
      <3>2. CASE Saved(id, "long") /\ Saved(id, "short") /\ q["long"] = legsRow[id]["long"]
                 /\ q["short"] = legsRow[id]["short"]
        BY <3>1, <3>2
      <3>3. CASE q["long"] = row[id].delta /\ q["short"] = 0
        <4>1. Distance(row[id].delta, 0) <= Tolerance
          BY <3>1, Bounds DEF Distance
        <4> QED
          BY <3>3, <4>1
      <3> QED
        BY <2>3, <3>2, <3>3
    <2>6. Sane(id)'
      <3>1. /\ Saved(id, "short") => legsRow[id]["short"] >= 0
            /\ Saved(id, "long") /\ row[id].state \notin {"EXITING", "RECONCILING", "CLOSED"}
                 => legsRow[id]["long"] >= 0
        BY DEF PosInv, Sane
      <3>2. q["short"] >= 0
        BY <2>3, <3>1
      <3>3. row[id].state \in {"MONITORING", "DEGRADED"} => Straight(q)
        <4> SUFFICES ASSUME row[id].state \in {"MONITORING", "DEGRADED"}, q["long"] < 0
                     PROVE  q["short"] = 0
          BY DEF Straight
        <4>1. Saved(id, "long") => legsRow[id]["long"] >= 0
          BY <3>1
        <4> QED
          BY <1>8, <2>3, <4>1, Bounds DEF Qtys
      <3> QED
        BY <1>5, <2>1, <3>1, <3>2, <3>3 DEF Sane, Saved, q, Straight
    <2> QED
      BY <1>3, <1>6, <2>3, <2>4, <2>5, <2>6 DEF PosInv, q
  <1> QED
    BY <1>9, <1>10

LEMMA RestartStep ==
  ASSUME EngineInv, Restart
  PROVE  EngineInv'
  <1>1. /\ crashes < MaxCrashes /\ crashes' = crashes + 1
        /\ state' = [id \in Ids |-> IF row[id].state = "none" THEN "DISCOVERED" ELSE row[id].state]
        /\ open' = RestoredIds /\ closeReq' = {} /\ registry' = FALSE /\ halted' \in BOOLEAN
        /\ todo' = {} /\ Leave("idle") /\ UNCHANGED <<seqVars, row, legsRow, exchangeVars>>
    BY DEF Restart
  <1>2. PICK unread \in SUBSET RestoredIds :
          /\ dbFails + Cardinality(unread) <= MaxDbFails
          /\ dbFails' = dbFails + Cardinality(unread)
          /\ qty' = [id \in Ids |-> IF id \in RestoredIds
                                    THEN RestoredQty(id, id \notin unread) ELSE Zero]
    BY DEF Restart
  <1>3. TypeOK /\ Cursor /\ WithinLimit
    BY DEF EngineInv
  <1>4. "idle" \in Steps
    BY DEF Steps
  <1>5. /\ pc' = "idle" /\ cur' = 0 /\ fill' = Zero /\ sent' = NotSent /\ verdict' = "none"
        /\ pc' \in Steps /\ cur' \in 0 .. MaxIds /\ fill' \in [Legs -> 0 .. TargetQty]
        /\ sent' \in [Legs -> Kinds \cup {"none"}]
    BY <1>1, <1>4, LeaveType
  <1>6. dbFails \in Nat /\ dbFails' \in 0 .. MaxDbFails /\ dbFails' >= dbFails
    <2>1. unread \in SUBSET Ids
      BY DEF RestoredIds
    <2>2. Cardinality(unread) \in Nat
      BY <2>1, IdsAreFinite, FS_Subset, FS_CardinalityType
    <2> QED
      BY <1>2, <1>3, <2>2, Bounds DEF TypeOK
  <1>7. ASSUME NEW id \in Ids
        PROVE  PosInv(id)' /\ qty'[id] \in [Legs -> -TargetQty .. TargetQty] /\ state'[id] \in States
    <2>1. /\ PosInv(id) /\ seq' = seq /\ UNCHANGED <<row, legsRow, real>>
          /\ state'[id] = IF row[id].state = "none" THEN "DISCOVERED" ELSE row[id].state
          /\ qty'[id] = IF row[id].state \in Restored THEN RestoredQty(id, id \notin unread) ELSE Zero
      BY <1>1, <1>2 DEF EngineInv, seqVars, exchangeVars, RestoredIds
    <2> QED
      BY <1>3, <2>1, RestoredPos
  <1>8. TypeOK'
    <2>1. /\ state' \in [Ids -> States] /\ qty' \in [Ids -> [Legs -> -TargetQty .. TargetQty]]
      BY <1>1, <1>2, <1>7
    <2>2. open' \subseteq Ids /\ crashes' \in 0 .. MaxCrashes
      BY <1>1, <1>3, Bounds DEF RestoredIds, TypeOK
    <2> QED
      BY <1>1, <1>3, <1>5, <1>6, <2>1, <2>2 DEF TypeOK, seqVars, exchangeVars
  <1>9. Cursor'
    <2>1. ASSUME NEW id \in RestoredIds PROVE id \in 1 .. seq
      <3>1. id \in Ids /\ row[id] # NoRow
        BY DEF RestoredIds, NoRow, Restored
      <3>2. ~(id > seq)
        BY <3>1 DEF EngineInv, PosInv, Fresh
      <3> QED
        BY <1>3, <3>1, <3>2, Bounds DEF TypeOK, Ids
    <2>2. open' \subseteq 1 .. seq'
      BY <1>1, <2>1 DEF seqVars
    <2> QED
      BY <1>1, <1>5, <2>2, AtRest
  <1>10. WithinLimit'
    <2> SUFFICES ASSUME dbFails' = 0
                 PROVE  RestoredIds' \subseteq open' /\ Cardinality(open') <= MaxOpen /\ ~Entering'
      BY DEF WithinLimit
    <2>1. dbFails = 0
      BY <1>6
    <2>2. RestoredIds' = RestoredIds /\ ~Entering'
      BY <1>1, <1>5 DEF RestoredIds, Entering, EntrySteps, Saves
    <2>3. /\ IsFiniteSet(open) /\ Cardinality(open) \in Nat
      BY <1>3, OpenIsFinite
    <2>4. CASE Entering
      <3>1. RestoredIds \in SUBSET (open \cup {cur}) /\ Cardinality(open) < MaxOpen
        BY <1>3, <2>1, <2>4 DEF WithinLimit
      <3>2. /\ IsFiniteSet(open \cup {cur})
            /\ Cardinality(open \cup {cur}) \in {Cardinality(open), Cardinality(open) + 1}
        BY <2>3, FS_AddElement
      <3>3. Cardinality(RestoredIds) \in Nat /\ Cardinality(RestoredIds) <= Cardinality(open \cup {cur})
        BY <3>1, <3>2, FS_Subset, FS_CardinalityType
      <3> QED
        BY <1>1, <2>2, <2>3, <3>1, <3>2, <3>3, Bounds
    <2>5. CASE ~Entering
      <3>1. RestoredIds \in SUBSET open /\ Cardinality(open) <= MaxOpen
        BY <1>3, <2>1, <2>5 DEF WithinLimit
      <3>2. Cardinality(RestoredIds) \in Nat /\ Cardinality(RestoredIds) <= Cardinality(open)
        BY <2>3, <3>1, FS_Subset, FS_CardinalityType
      <3> QED
        BY <1>1, <2>2, <2>3, <3>1, <3>2, Bounds
    <2> QED
      BY <2>4, <2>5
  <1> QED
    BY <1>7, <1>8, <1>9, <1>10 DEF EngineInv

-------------------------------------------------------------------------------
(* Every step keeps the invariant. *)

LEMMA NextStep == EngineInv /\ [Next]_vars => EngineInv'
  <1> SUFFICES ASSUME EngineInv, [Next]_vars PROVE EngineInv'
    OBVIOUS
  <1>1. CASE EngineStep
    <2>1. CASE Tick \/ Scan \/ NoOpen
      BY <2>1, RestStep
    <2>2. CASE \E id \in Ids : MonitorClose(id) \/ MonitorSkip(id)
      BY <2>2, MonitorCloseStep, MonitorSkipStep
    <2>3. CASE ExitRequested \/ Exiting \/ Close \/ Settle \/ Closed \/ DegradeClosed
      BY <2>3, ExitRequestedStep, ExitingStep, CloseStep, SettleStep, ClosedStep, DegradeClosedStep
    <2>4. CASE SaveLong \/ SaveShort \/ RegisterOpen
      BY <2>4, SaveStep, RegisterOpenStep
    <2>5. CASE \E a \in Assets : TryOpen(a, "qualify") \/ TryOpen(a, "idle")
      BY <2>5, TryOpenStep
    <2>6. CASE Qualify \/ Prepare \/ StartEntry \/ Fail
      BY <2>6, QualifyStep, PrepareStep, StartEntryStep, FailStep
    <2>7. CASE NoMarketData \/ EntryUnknown \/ EntryUnfilled
      BY <2>7, EntryEndsStep
    <2>8. CASE (\E l \in Legs : EntryLeg(l)) \/ EntryFilled
      BY <2>8, EntryLegStep, EntryFilledStep
    <2>9. CASE PartiallyHedged \/ TopUp \/ Reduce \/ Repaired
      BY <2>9, PartiallyHedgedStep, TopUpStep, ReduceStep, RepairedStep
    <2>10. CASE Degrade \/ Hedge \/ Monitoring
      BY <2>10, DegradeStep, HedgeStep, MonitoringStep
    <2> QED
      BY <1>1, <2>1, <2>2, <2>3, <2>4, <2>5, <2>6, <2>7, <2>8, <2>9, <2>10 DEF EngineStep
  <1>2. CASE RefreshInstruments \/ Halt \/ \E id \in Ids : RequestClose(id)
    BY <1>2, OutsideStep
  <1>3. CASE Restart
    BY <1>3, RestartStep
  <1>4. CASE UNCHANGED vars
    <2>1. UNCHANGED <<seqVars, posVars, bookVars, dbVars, exchangeVars, pc, cur, todo, locals, envVars>>
      BY <1>4 DEF vars
    <2>2. TypeOK'
      BY <2>1 DEF EngineInv, TypeOK, seqVars, posVars, bookVars, dbVars, exchangeVars, locals, envVars
    <2>3. \A id \in Ids : PosInv(id)'
      BY <2>1, AllUntouched DEF seqVars, posVars, dbVars, exchangeVars
    <2>4. Entering' = Entering /\ Leaving' = Leaving /\ RestoredIds' = RestoredIds
      BY <2>1 DEF Entering, Leaving, RestoredIds, locals, dbVars
    <2>5. StateAt' = StateAt /\ RowAt' = RowAt /\ ExitAt' = ExitAt
      BY <2>1, <2>4 DEF StateAt, RowAt, ExitAt, Saved, posVars, bookVars, dbVars, locals
    <2>6. EntryAt' = EntryAt
      BY <2>1, <2>4 DEF EntryAt, Saved, Backed, posVars, dbVars, exchangeVars, locals
    <2>7. Cursor'
      BY <2>1, <2>5, <2>6 DEF EngineInv, Cursor, Straight, seqVars, posVars, bookVars, locals
    <2>8. WithinLimit'
      BY <2>1, <2>4 DEF EngineInv, WithinLimit, bookVars, dbVars
    <2> QED
      BY <2>2, <2>3, <2>7, <2>8 DEF EngineInv
  <1> QED
    BY <1>1, <1>2, <1>3, <1>4 DEF Next

LEMMA InvHolds == Spec => []EngineInv
  <1> QED
    BY EngineInit, NextStep, PTL DEF Spec

-------------------------------------------------------------------------------
(* The invariants. *)

\* The types of the whole engine, in any interleaving of Tick, requests, failing
\* writes and restarts (Engine.Tick, Restore, RequestClose).
THEOREM TypeCorrect == Spec => []TypeOK
  <1>1. EngineInv => TypeOK
    BY DEF EngineInv
  <1> QED
    BY <1>1, InvHolds, PTL

\* What a hedged or monitored position records for a leg is held at the exchange,
\* after every answer, repair, failed write and restart (openPosition,
\* repairImbalance, Restore).
THEOREM Recorded == Spec => []RecordedIsReal
  <1>1. EngineInv => RecordedIsReal
    BY DEF EngineInv, PosInv, Held, RecordedIsReal, Hedged
  <1> QED
    BY <1>1, InvHolds, PTL

\* The two legs of a hedged position differ by no more than the tolerance, unless
\* a restart found the row of one leg only (repairImbalance, persistLegs, Restore).
THEOREM HedgedWithin == Spec => []HedgeWithinTolerance
  <1>1. EngineInv => HedgeWithinTolerance
    BY DEF EngineInv, PosInv, Even, Saved, HedgeWithinTolerance, Hedged
  <1> QED
    BY <1>1, InvHolds, PTL

\* MaxOpenPositions is kept across crashes as long as no database call fails
\* (tryOpen, Restore).
THEOREM Limited == Spec => []OpenWithinLimit
  <1>1. EngineInv => OpenWithinLimit
    BY DEF EngineInv, WithinLimit, OpenWithinLimit
  <1> QED
    BY <1>1, InvHolds, PTL

-------------------------------------------------------------------------------
(* What a step may never do. *)

\* The transition Tick tries where it stands.
Tries(to) ==
  \/ pc = "qualify"       /\ to = "QUALIFIED"
  \/ pc = "prepare"       /\ to = "PREPARING"
  \/ pc = "opening"       /\ to = "OPENING"
  \/ pc = "fail"          /\ to = "FAILED"
  \/ pc = "partial"       /\ to = "PARTIALLY_HEDGED"
  \/ pc = "hedge"         /\ to = "HEDGED"
  \/ pc = "degrade"       /\ to = "DEGRADED"
  \/ pc = "monitoring"    /\ to = "MONITORING"
  \/ pc = "exitRequested" /\ to = "EXIT_REQUESTED"
  \/ pc = "exiting"       /\ to = "EXITING"
  \/ pc = "settle"        /\ to \in {"RECONCILING", "DEGRADED"}
  \/ pc = "degradeClosed" /\ to = "DEGRADED"
  \/ pc = "closed"        /\ to = "CLOSED"

Moving == \E to \in States : Tries(to) /\ \E t \in Transitions(cur, to) : Apply(t)

\* Nothing but a transition of the current position, and a restart, changes a state
\* or a row.
LEMMA OnlyMoves ==
  ASSUME [Next]_vars
  PROVE  Moving \/ Restart \/ UNCHANGED <<state, row>>
  <1>1. CASE EngineStep
    <2>1. CASE \/ Tick \/ Scan \/ NoOpen \/ \E id \in Ids : MonitorClose(id) \/ MonitorSkip(id)
               \/ \E a \in Assets : TryOpen(a, "qualify") \/ TryOpen(a, "idle")
      BY <2>1 DEF Tick, Scan, NoOpen, MonitorClose, MonitorSkip, TryOpen, posVars, dbVars
    <2>2. CASE \/ Close \/ SaveLong \/ SaveShort \/ RegisterOpen \/ NoMarketData
               \/ EntryUnknown \/ EntryUnfilled \/ EntryFilled \/ TopUp \/ Reduce \/ Repaired
               \/ \E l \in Legs : EntryLeg(l)
      BY <2>2 DEF Close, SaveLong, SaveShort, SaveLeg, RegisterOpen, NoMarketData, EntryUnknown,
                  EntryUnfilled, EntryFilled, TopUp, Reduce, Repaired, EntryLeg, posVars, dbVars
    <2>3. CASE Qualify \/ Prepare \/ StartEntry \/ PartiallyHedged \/ Hedge \/ Monitoring
      BY <2>3 DEF Qualify, Prepare, StartEntry, PartiallyHedged, Hedge, Monitoring, Advance,
                  Moving, Tries, States
    <2>4. CASE ExitRequested \/ Exiting
      BY <2>4 DEF ExitRequested, Exiting, Advance, Moving, Tries, States
    <2>5. CASE Settle \/ Degrade
      BY <2>5 DEF Settle, Degrade, AdvanceAnyway, Moving, Tries, States
    <2>6. CASE Fail \/ DegradeClosed \/ Closed
      BY <2>6 DEF Fail, DegradeClosed, Closed, Moving, Tries, States
    <2> QED
      BY <1>1, <2>1, <2>2, <2>3, <2>4, <2>5, <2>6 DEF EngineStep
  <1>2. CASE RefreshInstruments \/ Halt \/ \E id \in Ids : RequestClose(id)
    BY <1>2 DEF RefreshInstruments, Halt, RequestClose, posVars, dbVars
  <1>3. CASE UNCHANGED vars
    BY <1>3 DEF vars, posVars, dbVars
  <1> QED
    BY <1>1, <1>2, <1>3 DEF Next

\* A transition the table allows leaves DEGRADED only on request, and its row comes
\* from where the table may come from.
LEMMA TriesFrom ==
  ASSUME EngineInv, NEW to \in States, Tries(to), CanTransition(state[cur], to)
  PROVE  /\ state[cur] = "DEGRADED" => cur \in closeReq
         /\ \/ row[cur].state = to
            \/ CanTransition(IF row[cur] = NoRow THEN "DISCOVERED" ELSE row[cur].state, to)
  <1>1. pc \notin {"idle", "monitor", "scan"}
    BY DEF Tries
  <1>2. /\ TypeOK /\ cur \in Ids /\ PosInv(cur) /\ StateAt /\ RowAt /\ ExitAt
    BY <1>1, Working
  <1>3. state[cur] \in States /\ "none" \notin States
    BY <1>2 DEF TypeOK, States
  <1>4. row[cur].state = state[cur] => row[cur] # NoRow
    BY <1>3 DEF NoRow
  <1>5. CASE row[cur].state = state[cur] /\ pc # "exitRequested"
    <2>1. state[cur] # "DEGRADED"
      BY <1>1, <1>2, <1>5 DEF StateAt, Tries
    <2> QED
      BY <1>4, <1>5, <2>1
  <1>6. CASE pc = "qualify"
    BY <1>2, <1>6 DEF StateAt, RowAt, Tries, CanTransition
  <1>7. CASE pc = "exitRequested"
    <2>1. to = "EXIT_REQUESTED" /\ row[cur].state \in {state[cur], to}
      BY <1>2, <1>7 DEF Tries, StateAt, PosInv, Near, Behind, Terminal
    <2> QED
      BY <1>2, <1>4, <1>7, <2>1 DEF StateAt
  <1>8. CASE pc \in {"closed", "degradeClosed"} /\ row[cur].state # state[cur]
    <2>1. state[cur] = "EXITING" /\ row[cur].state = "RECONCILING" /\ row[cur] # NoRow
      BY <1>2, <1>8 DEF StateAt, NoRow
    <2> QED
      BY <2>1, <1>8 DEF Tries, CanTransition
  <1>9. \/ pc \in {"qualify", "exitRequested", "closed", "degradeClosed"}
        \/ row[cur].state = state[cur]
    BY <1>2 DEF Tries, RowAt, EntrySteps
  <1> QED
    BY <1>5, <1>6, <1>7, <1>8, <1>9

\* What a move does to any position.
LEMMA MoveIs ==
  ASSUME EngineInv, Moving, NEW id \in Ids
  PROVE  \/ state'[id] = state[id] /\ row'[id] = row[id]
         \/ /\ id = cur
            /\ \E to \in States : /\ Tries(to) /\ CanTransition(state[cur], to)
                                  /\ row'[cur].state \in {row[cur].state, to}
  <1>1. PICK to \in States : Tries(to) /\ \E t \in Transitions(cur, to) : Apply(t)
    BY DEF Moving
  <1>2. pc \notin {"idle", "monitor", "scan"}
    BY <1>1 DEF Tries
  <1>3. /\ TypeOK /\ cur \in Ids /\ PosInv(cur) /\ Straight(qty[cur])
    BY <1>2, Working
  <1>4. /\ Made(to) \/ Refused(to) \/ Failed(to)
        /\ \A i \in Ids \ {cur} : state'[i] = state[i] /\ row'[i] = row[i]
    BY <1>1, <1>3, Transit
  <1> QED
    BY <1>1, <1>4 DEF Made, Refused, Failed, Snap

\* Without a request the running process never moves a degraded position (monitor,
\* closePosition).
THEOREM DegradedWaits == Spec => DegradedWaitsForOperator
  <1>1. EngineInv /\ [Next]_vars =>
          \A id \in Ids : state[id] = "DEGRADED" /\ state'[id] # "DEGRADED" =>
            id \in closeReq \/ crashes' # crashes
    <2> SUFFICES ASSUME EngineInv, [Next]_vars, NEW id \in Ids,
                        state[id] = "DEGRADED", state'[id] # "DEGRADED"
                 PROVE  id \in closeReq \/ crashes' # crashes
      OBVIOUS
    <2>1. CASE Moving
      BY <2>1, MoveIs, TriesFrom
    <2>2. CASE Restart
      <3>1. crashes' = crashes + 1 /\ crashes \in Nat
        BY <2>2, Bounds DEF Restart, EngineInv, TypeOK
      <3> QED
        BY <3>1
    <2> QED
      BY <2>1, <2>2, OnlyMoves
  <1>2. [][\A id \in Ids : state[id] = "DEGRADED" /\ state'[id] # "DEGRADED" =>
             id \in closeReq \/ crashes' # crashes]_vars <=> DegradedWaitsForOperator
    BY DEF DegradedWaitsForOperator
  <1> QED
    BY <1>1, <1>2, InvHolds, PTL DEF Spec

\* Whatever is lost, the row of a position moves along allowedTransitions, although
\* each attempt is judged by the state in memory (TransitionTo, Restore).
THEOREM RowsFollow == Spec => RowFollowsTable
  <1>1. EngineInv /\ [Next]_vars =>
          \A id \in Ids : row'[id].state # row[id].state =>
            CanTransition(IF row[id] = NoRow THEN "DISCOVERED" ELSE row[id].state, row'[id].state)
    <2> SUFFICES ASSUME EngineInv, [Next]_vars, NEW id \in Ids, row'[id].state # row[id].state
                 PROVE  CanTransition(IF row[id] = NoRow THEN "DISCOVERED" ELSE row[id].state,
                                      row'[id].state)
      OBVIOUS
    <2>1. CASE Moving
      BY <2>1, MoveIs, TriesFrom
    <2>2. CASE Restart
      BY <2>2 DEF Restart
    <2> QED
      BY <2>1, <2>2, OnlyMoves
  <1>2. [][\A id \in Ids : row'[id].state # row[id].state =>
             CanTransition(IF row[id] = NoRow THEN "DISCOVERED" ELSE row[id].state,
                           row'[id].state)]_vars <=> RowFollowsTable
    BY DEF RowFollowsTable
  <1> QED
    BY <1>1, <1>2, InvHolds, PTL DEF Spec

\* Nothing but an order of the current position, whose row is as its state, changes
\* what is held at an exchange.
LEMMA OrdersOf ==
  ASSUME EngineInv, [Next]_vars, NEW id \in Ids, real'[id] # real[id]
  PROVE  row[id].state \in {"OPENING", "PARTIALLY_HEDGED", "EXITING"} /\ row[id].state = state[id]
  <1>1. CASE (\E l \in Legs : EntryLeg(l)) \/ TopUp \/ Reduce
    <2>1. pc \in Orders
      BY <1>1 DEF EntryLeg, TopUp, Reduce, Orders
    <2>2. /\ TypeOK /\ row[cur].state \in {"OPENING", "PARTIALLY_HEDGED"}
          /\ row[cur].state = state[cur]
      BY <2>1, Opening
    <2>3. id = cur
      BY <1>1, <2>2 DEF EntryLeg, TopUp, Reduce, TypeOK
    <2> QED
      BY <2>2, <2>3
  <1>2. CASE Close
    <2>1. pc = "close"
      BY <1>2 DEF Close
    <2>2. TypeOK /\ StateAt /\ RowAt
      BY <2>1, Working
    <2>3. id = cur
      BY <1>2, <2>2 DEF Close, TypeOK
    <2> QED
      BY <2>1, <2>2, <2>3 DEF StateAt, RowAt
  <1>3. CASE UNCHANGED real
    BY <1>3
  <1>4. (\E l \in Legs : EntryLeg(l)) \/ TopUp \/ Reduce \/ Close \/ UNCHANGED real
    <2>1. CASE EngineStep
      <3>1. CASE \/ Tick \/ Scan \/ NoOpen \/ \E i \in Ids : MonitorClose(i) \/ MonitorSkip(i)
                 \/ \E a \in Assets : TryOpen(a, "qualify") \/ TryOpen(a, "idle")
        BY <3>1 DEF Tick, Scan, NoOpen, MonitorClose, MonitorSkip, TryOpen, exchangeVars
      <3>2. CASE \/ SaveLong \/ SaveShort \/ RegisterOpen \/ NoMarketData
                 \/ EntryUnknown \/ EntryUnfilled \/ EntryFilled \/ Repaired
        BY <3>2 DEF SaveLong, SaveShort, SaveLeg, RegisterOpen, NoMarketData, EntryUnknown,
                    EntryUnfilled, EntryFilled, Repaired, exchangeVars
      <3>3. CASE \/ Qualify \/ Prepare \/ StartEntry \/ PartiallyHedged \/ Hedge \/ Monitoring
                 \/ ExitRequested \/ Exiting
        BY <3>3 DEF Qualify, Prepare, StartEntry, PartiallyHedged, Hedge, Monitoring,
                    ExitRequested, Exiting, Advance, exchangeVars
      <3>4. CASE Settle \/ Degrade \/ Fail \/ DegradeClosed \/ Closed
        BY <3>4 DEF Settle, Degrade, AdvanceAnyway, Fail, DegradeClosed, Closed, exchangeVars
      <3> QED
        BY <2>1, <3>1, <3>2, <3>3, <3>4 DEF EngineStep
    <2>2. CASE RefreshInstruments \/ Halt \/ Restart \/ \E i \in Ids : RequestClose(i)
      BY <2>2 DEF RefreshInstruments, Halt, Restart, RequestClose, exchangeVars
    <2>3. CASE UNCHANGED vars
      BY <2>3 DEF vars, exchangeVars
    <2> QED
      BY <2>1, <2>2, <2>3 DEF Next
  <1> QED
    BY <1>1, <1>2, <1>3, <1>4

\* No order of an entry, a repair or a close fills at a position unless its row
\* shows the state it is in, and that state is one a restart takes up; in spite of
\* failed writes, lost answers and crashes (openPosition, closePosition, Restore).
THEOREM OrdersTraced == Spec => OrdersHaveRow
  <1>1. EngineInv /\ [Next]_vars =>
          \A id \in Ids : real'[id] # real[id] => row[id].state \in Restored /\ row[id].state = state[id]
    BY OrdersOf DEF Restored
  <1>2. [][\A id \in Ids : real'[id] # real[id] =>
             row[id].state \in Restored /\ row[id].state = state[id]]_vars
          <=> OrdersHaveRow
    BY DEF OrdersHaveRow
  <1> QED
    BY <1>1, <1>2, InvHolds, PTL DEF Spec
===============================================================================
