-------------------------------- MODULE Streams --------------------------------
(***************************************************************************)
(* A websocket stream kept up by ConnectionManager: SubscribePublic and    *)
(* SubscribePrivate of the adapters (internal/exchange/*/ws.go), the       *)
(* goroutine that reads the connection and fills the Go channel, and the   *)
(* connect callback, which takes the events until the channel is closed.   *)
(* The callback is external: it behaves as ReconnectCallback's comment     *)
(* says.  So are the venue and the network.                                *)
(*                                                                         *)
(* One topic of a connection is followed, and of each message one event.   *)
(* What the venue publishes has two fields; an update changes one of them. *)
(***************************************************************************)
EXTENDS Venues, ConnectionManager, SequencesExt

CONSTANTS
  Streamed,       \* the venues one of which is used
  Subscriptions,  \* sets of channels to subscribe to
  MaxUpdates,     \* bounds the updates of the venue
  MaxWire,        \* bounds the messages under way
  PublicBuffer,   \* sizes of the Go channels
  PrivateBuffer

ASSUME SubscriptionsAssumption == \A s \in Subscriptions : s # {} /\ s \subseteq Channels
ASSUME BufferAssumption == PublicBuffer \in Nat \ {0} /\ PrivateBuffer \in Nat \ {0}

VARIABLES
  source,   \* the venue and the kind of its stream
  wanted,   \* the channels subscribed to
  truth,    \* a history: the venue's values after each update
  conn,     \* the connection, and the messages under way in it
  reader,   \* the goroutine: its step, its topic, the last-known values, an event not yet sent
  channel,  \* the Go channel
  taken     \* the last event taken from it

streamVars == <<source, wanted, truth, conn, reader, channel, taken>>

Fields == {"x", "y"}
Nothing == [f \in Fields |-> 0]
NoEvent == [at |-> 0, fields |-> {}, value |-> Nothing]
Off == [pc |-> "off", topic |-> "none", kept |-> Nothing, pending |-> NoEvent]
NoConn == [open |-> FALSE, wire |-> <<>>]
NoChannel == [items |-> <<>>, closed |-> FALSE]

Sources == {[venue |-> v, kind |-> "public"] : v \in Streamed}
           \cup {[venue |-> v, kind |-> "private"] : v \in Streamed \cap WithPrivateStream}

InitStream ==
  /\ InitManager
  /\ source \in Sources
  /\ wanted \in Subscriptions
  /\ truth = <<[f \in Fields |-> 1]>>
  /\ conn = NoConn
  /\ reader = Off
  /\ channel = NoChannel
  /\ taken = NoEvent

Traits == StreamOf(source.venue, source.kind)
Private == source.kind = "private"
Room == IF Private THEN PrivateBuffer ELSE PublicBuffer

\* The topics asked for; a private stream has them all.
Asked == IF Private THEN {"private"} ELSE {TopicsOf[source.venue][c] : c \in wanted} \ {"none"}

Yields(topic) == IF Private THEN TRUE ELSE topic # "none" /\ EmitsOf[source.venue][topic] # {}

-------------------------------------------------------------------------------
(* The callback. *)

Connecting == loop.pc = "connect"

\* It calls SubscribePublic or SubscribePrivate, which may want a token first.
Subscribe ==
  /\ Connecting /\ reader.pc = "off" /\ ~channel.closed
  /\ IF Asked = {} /\ Traits.topicsNeeded
     THEN Fail /\ UNCHANGED reader
     ELSE /\ reader' = [Off EXCEPT !.pc = IF Traits.token THEN "token" ELSE "dialing"]
          /\ UNCHANGED managerVars
  /\ UNCHANGED <<source, wanted, truth, conn, channel, taken>>

\* The token is had.
Token ==
  /\ reader.pc = "token"
  /\ reader' = [reader EXCEPT !.pc = "dialing"]
  /\ UNCHANGED <<managerVars, source, wanted, truth, conn, channel, taken>>

Current == [at |-> Len(truth), fields |-> Fields, value |-> Last(truth)]

\* The connection is open and the goroutine started; without a greeting to wait
\* for it subscribes, and the venue answers with its values.
Dial ==
  /\ reader.pc = "dialing" /\ ~stopped
  /\ \E topic \in IF Asked = {} THEN {"none"} ELSE Asked :
       reader' = [reader EXCEPT !.pc = IF Traits.greeting THEN "greeting" ELSE "checking",
                                !.topic = topic]
  /\ conn' = [open |-> TRUE, wire |-> IF Traits.greeting THEN <<>> ELSE <<Current>>]
  /\ channel' = NoChannel
  /\ taken' = NoEvent
  /\ UNCHANGED <<managerVars, source, wanted, truth>>

\* No token, or no connection: the call returns an error.
NotConnected ==
  /\ reader.pc \in {"token", "dialing"}
  /\ Fail
  /\ reader' = Off
  /\ UNCHANGED <<source, wanted, truth, conn, channel, taken>>

Take ==
  /\ Connecting /\ channel.items # <<>>
  /\ taken' = Head(channel.items)
  /\ channel' = [channel EXCEPT !.items = Tail(@)]
  /\ UNCHANGED <<managerVars, source, wanted, truth, conn, reader>>

\* The channel is closed, or the context has ended.
Return ==
  /\ Connecting
  /\ \/ channel.closed /\ channel.items = <<>>
     \/ stopped /\ reader.pc \notin {"off", "token", "dialing"}
  /\ Fail \/ Succeed
  /\ channel' = IF channel.closed THEN NoChannel ELSE channel
  /\ UNCHANGED <<source, wanted, truth, conn, reader, taken>>

-------------------------------------------------------------------------------
(* The venue and the network. *)

Update(f) ==
  /\ Len(truth) < MaxUpdates
  /\ LET n == Len(truth) + 1
         value == [Last(truth) EXCEPT ![f] = n]
         changes == reader.topic \in DOMAIN Traits.changes
     IN /\ truth' = Append(truth, value)
        /\ IF conn.open /\ reader.pc # "greeting"
           THEN /\ Len(conn.wire) < MaxWire
                /\ conn' = [conn EXCEPT !.wire =
                     Append(@, [at |-> n, fields |-> IF changes THEN {f} ELSE Fields,
                                value |-> value])]
           ELSE UNCHANGED conn
  /\ UNCHANGED <<managerVars, source, wanted, reader, channel, taken>>

\* What is under way may still arrive, or not.
Break ==
  /\ conn.open
  /\ \E wire \in {conn.wire, <<>>} : conn' = [open |-> FALSE, wire |-> wire]
  /\ UNCHANGED <<managerVars, source, wanted, truth, reader, channel, taken>>

-------------------------------------------------------------------------------
(* The goroutine. *)

\* It closes the connection and the channel.
EndReader ==
  /\ reader' = Off
  /\ conn' = NoConn
  /\ channel' = IF loop.pc = "ended" THEN NoChannel ELSE [channel EXCEPT !.closed = TRUE]

\* The welcome or the answer to the auth frame: it subscribes.
Greeted ==
  /\ reader.pc = "greeting" /\ conn.open
  /\ reader' = [reader EXCEPT !.pc = "checking"]
  /\ conn' = [conn EXCEPT !.wire = <<Current>>]
  /\ UNCHANGED <<managerVars, source, wanted, truth, channel, taken>>

\* Not in ten seconds, or refused, or the connection broke.
NotGreeted ==
  /\ reader.pc = "greeting"
  /\ EndReader
  /\ UNCHANGED <<managerVars, source, wanted, truth, taken>>

\* The head of the loop; a watched connection is not checked but closed.
CheckContext ==
  /\ reader.pc = "checking"
  /\ IF stopped /\ ~Traits.watched
     THEN EndReader
     ELSE reader' = [reader EXCEPT !.pc = "reading"] /\ UNCHANGED <<conn, channel>>
  /\ UNCHANGED <<managerVars, source, wanted, truth, taken>>

Watch ==
  /\ stopped /\ Traits.watched /\ conn.open
  /\ conn' = [open |-> FALSE, wire |-> <<>>]
  /\ UNCHANGED <<managerVars, source, wanted, truth, reader, channel, taken>>

\* Faulty variant: the change replaces what is known.
Merged_Change(msg) == [f \in Fields |-> IF f \in msg.fields THEN msg.value[f] ELSE 0]

\* The fields of the message over the last-known ones.
Merged(msg) == [f \in Fields |-> IF f \in msg.fields THEN msg.value[f] ELSE reader.kept[f]]

\* How the adapter takes a message: a whole one replaces what is known.
Way(msg) == IF msg.fields = Fields THEN "whole" ELSE Traits.changes[reader.topic]

EventOf(msg) ==
  IF Way(msg) = "merged" THEN [at |-> msg.at, fields |-> Fields, value |-> Merged(msg)] ELSE msg

Deliver(event) == channel' = [channel EXCEPT !.items = Append(@, event)]

\* A public event is dropped when the channel is full, a private one waits.
Read ==
  /\ reader.pc = "reading" /\ conn.wire # <<>>
  /\ LET msg == Head(conn.wire)
         event == EventOf(msg)
         yields == Yields(reader.topic) /\ Way(msg) # "skipped"
         room == Len(channel.items) < Room
     IN /\ reader' = [reader EXCEPT
                        !.pc = IF yields /\ Private /\ ~room THEN "sending" ELSE "checking",
                        !.kept = IF Way(msg) \in {"whole", "merged"} THEN event.value ELSE @,
                        !.pending = IF yields /\ Private /\ ~room THEN event ELSE NoEvent]
        /\ IF yields /\ room THEN Deliver(event) ELSE UNCHANGED channel
  /\ conn' = [conn EXCEPT !.wire = Tail(@)]
  /\ UNCHANGED <<managerVars, source, wanted, truth, taken>>

ReadError ==
  /\ reader.pc = "reading" /\ ~conn.open /\ conn.wire = <<>>
  /\ EndReader
  /\ UNCHANGED <<managerVars, source, wanted, truth, taken>>

Sent ==
  /\ reader.pc = "sending" /\ Len(channel.items) < Room
  /\ Deliver(reader.pending)
  /\ reader' = [reader EXCEPT !.pc = "checking", !.pending = NoEvent]
  /\ UNCHANGED <<managerVars, source, wanted, truth, conn, taken>>

\* Faulty variant: the send waits for room whatever happens.
GivesUp_Never == FALSE

GivesUp == stopped

SendGivenUp ==
  /\ reader.pc = "sending" /\ GivesUp
  /\ EndReader
  /\ UNCHANGED <<managerVars, source, wanted, truth, taken>>

-------------------------------------------------------------------------------
ReaderSteps ==
  \/ Greeted \/ NotGreeted \/ CheckContext \/ Watch \/ Read \/ ReadError
  \/ Sent \/ SendGivenUp

CallbackSteps == Subscribe \/ Token \/ Dial \/ NotConnected \/ Take \/ Return

ManagerSteps == (Start \/ Stop \/ LoopSteps \/ ManagerTick) /\ UNCHANGED streamVars

NextStream ==
  \/ ManagerSteps
  \/ CallbackSteps
  \/ \E f \in Fields : Update(f)
  \/ Break
  \/ ReaderSteps

-------------------------------------------------------------------------------
(* Properties. *)

\* The events of a connection that are in the channel, with the last one taken.
Events == (IF taken.at = 0 THEN <<>> ELSE <<taken>>) \o channel.items
          \o (IF reader.pending.at = 0 THEN <<>> ELSE <<reader.pending>>)

\* An event shows values the venue had at one moment, also where it is put
\* together from changes and events before it were dropped; events come in the
\* order of the updates, and of a private stream none is missing (mergeTicker,
\* SubscribePublic, SubscribePrivate).
EventsAreFaithful ==
  /\ \A i \in DOMAIN Events :
       \A f \in Events[i].fields : Events[i].value[f] = truth[Events[i].at][f]
  /\ \A i \in 1 .. Len(Events) - 1 :
       IF Private THEN Events[i + 1].at = Events[i].at + 1 ELSE Events[i + 1].at > Events[i].at

\* After Stop the loop ends, and so does the goroutine that reads the stream,
\* even one that waits to send an event nobody takes (SubscribePrivate).
StopEnds == stopped ~> loop.pc = "ended" /\ reader.pc = "off"
===============================================================================
