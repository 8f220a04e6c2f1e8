----------------------------- MODULE PairReduction -----------------------------
(***************************************************************************)
(* What CoordinatedClose promises: each leg's confirmed reduction only     *)
(* grows and never passes the common target, the result is given once, and *)
(* it is a success only when both legs are confirmed in full.              *)
(***************************************************************************)
EXTENDS Naturals

CONSTANTS Legs, MaxQty

VARIABLES
  target,      \* the quantity to take from each leg
  confirmed,   \* confirmed so far, per leg
  verdict      \* "open" while working, then the error class returned

Init ==
  /\ target \in 0 .. MaxQty
  /\ confirmed = [l \in Legs |-> 0]
  /\ verdict = "open"

Confirm ==
  /\ verdict = "open"
  /\ confirmed' \in [Legs -> 0 .. target]
  /\ \A l \in Legs : confirmed'[l] >= confirmed[l]
  /\ verdict' \in {"open", "ambiguous", "incomplete"}
  /\ UNCHANGED target

Succeed ==
  /\ verdict = "open"
  /\ \A l \in Legs : confirmed[l] = target
  /\ verdict' = "nil"
  /\ UNCHANGED <<target, confirmed>>

Next == Confirm \/ Succeed

Spec == Init /\ [][Next]_<<target, confirmed, verdict>>
===============================================================================
