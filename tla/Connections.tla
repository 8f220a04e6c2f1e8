------------------------------ MODULE Connections ------------------------------
(***************************************************************************)
(* The two ways the program talks to a venue, one at a time: calls of its  *)
(* HTTP client (HttpClient), or a stream that ConnectionManager keeps up   *)
(* (Streams).  They share no state.                                        *)
(***************************************************************************)
EXTENDS HttpClient, Streams

VARIABLE way  \* "http" or "stream"

vars == <<way, httpVars, managerVars, streamVars>>

Init ==
  /\ way \in {"http", "stream"}
  /\ InitHttp
  /\ InitStream
  /\ way = "http" => /\ source = CHOOSE s \in Sources : TRUE
                     /\ wanted = CHOOSE s \in Subscriptions : TRUE

Http == way = "http" /\ NextHttp /\ UNCHANGED <<way, managerVars, streamVars>>
Streaming == way = "stream" /\ NextStream /\ UNCHANGED <<way, httpVars>>

Next == Http \/ Streaming

\* Time passes and goroutines run on.  A connection that has been stopped is not
\* pinged any more, and is closed by the venue.
Fairness ==
  /\ WF_vars(way = "http" /\ Tick /\ UNCHANGED <<way, managerVars, streamVars>>)
  /\ \A c \in Calls :
       WF_vars(way = "http" /\ CallSteps(c) /\ UNCHANGED <<way, managerVars, streamVars>>)
  /\ WF_vars(way = "stream" /\ LoopSteps /\ UNCHANGED <<way, httpVars, streamVars>>)
  /\ WF_vars(way = "stream" /\ CallbackSteps /\ UNCHANGED <<way, httpVars>>)
  /\ WF_vars(way = "stream" /\ ReaderSteps /\ UNCHANGED <<way, httpVars>>)
  /\ WF_vars(way = "stream" /\ stopped /\ Break /\ UNCHANGED <<way, httpVars>>)

Spec == Init /\ [][Next]_vars /\ Fairness
===============================================================================
