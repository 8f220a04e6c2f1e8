----------------------------- MODULE AtLeastOnce ------------------------------
(***************************************************************************)
(* What the transactional outbox promises its users.  An event that was    *)
(* sent is worked on, any number of times; each time may deliver it.  It   *)
(* is done only after a delivery, at the end of a time it was worked on,   *)
(* and once done it is never worked on again.                              *)
(***************************************************************************)
CONSTANT Events
VARIABLES sent, working, delivered, done

vars == <<sent, working, delivered, done>>

Init == sent = {} /\ working = {} /\ delivered = {} /\ done = {}

Send(e) == sent' = sent \cup {e} /\ UNCHANGED <<working, delivered, done>>

Take(e) ==
  /\ e \in sent \ done
  /\ working' = working \cup {e}
  /\ UNCHANGED <<sent, delivered, done>>

Deliver(e) ==
  /\ e \in working
  /\ delivered' = delivered \cup {e}
  /\ UNCHANGED <<sent, working, done>>

\* The work ends, and with it the event or this attempt.
End(e) ==
  /\ e \in working
  /\ working' = working \ {e}
  /\ \/ UNCHANGED done
     \/ e \in delivered /\ done' = done \cup {e}
  /\ UNCHANGED <<sent, delivered>>

Next == \E e \in Events : Send(e) \/ Take(e) \/ Deliver(e) \/ End(e)

Spec == Init /\ [][Next]_vars
===============================================================================
