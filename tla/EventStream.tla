----------------------------- MODULE EventStream -----------------------------
(***************************************************************************)
(* The event stream of a transport session: the buffer of the backend      *)
(* service, the one pump that reads it (transports/http/registry.py), the  *)
(* subscription and the SSE generator of every connection                  *)
(* (transports/http/app.py), the closing of the session, and the web       *)
(* client that reconnects at the last event it has applied                 *)
(* (web/src/composables/useAgentSession.ts).                               *)
(*                                                                         *)
(* Events are their sequence numbers.  A connection is lost at any moment, *)
(* with what was on its way; the server notices later.  Every reconnection *)
(* is a new stream.                                                        *)
(***************************************************************************)
EXTENDS Integers, Sequences

CONSTANTS
  MaxEvents,    \* bound: events of the session, session_end among them
  MaxStreams,   \* bound: connections the client opens
  MaxAttempts   \* reconnectMaxAttempts

ASSUME StreamAssumption ==
  MaxEvents \in Nat \ {0} /\ MaxStreams \in Nat \ {0} /\ MaxAttempts \in Nat

Streams == 1 .. MaxStreams
Done == 0        \* _EventSubscription._DONE, and the end of a response

VARIABLES
  published,     \* events in the buffer of the backend
  sessionEnd,    \* the session_end event, 0 while there is none
  asked,         \* the backend has been asked to close
  bufferClosed,  \* and its buffer is closed
  pump,          \* control point of the pump's thread
  cache,         \* _cache
  targets,       \* subscribers that still get the newest cached event
  stop, done,    \* _stop and _done of the pump
  members,       \* _subscribers
  queue,         \* the values of every subscription
  from,          \* its cursor
  generator,     \* control point of its SSE generator
  wire,          \* frames between the generator and the client
  cut,           \* connections left by the client, not yet by the server
  closer,        \* control point of TransportSession.close
  stream,        \* the connection of the client
  client,        \* what the client is doing
  cursor,        \* the last event it has applied
  attempts       \* reconnectAttempt

backend == <<published, sessionEnd, asked, bufferClosed>>
pumping == <<pump, cache, targets, stop, done>>
serving == <<members, queue, from, generator>>
browser == <<stream, client, cursor, attempts>>
vars == <<backend, pumping, serving, wire, cut, closer, browser>>

Init ==
  /\ published = 0 /\ sessionEnd = 0 /\ asked = FALSE /\ bufferClosed = FALSE
  /\ pump = "none" /\ cache = <<>> /\ targets = {}
  /\ stop = FALSE /\ done = FALSE
  /\ members = {} /\ queue = [s \in Streams |-> <<>>]
  /\ from = [s \in Streams |-> 0] /\ generator = [s \in Streams |-> "none"]
  /\ wire = [s \in Streams |-> <<>>] /\ cut = {} /\ closer = "none"
  /\ stream = 0 /\ client = "backoff" /\ cursor = 0 /\ attempts = 0

-----------------------------------------------------------------------------
(* The backend: its events, the end of its session -- asked for, or after  *)
(* a terminal turn -- and the end of its buffer.                           *)
Publish ==
  /\ sessionEnd = 0 /\ published < MaxEvents - 1 /\ published' = published + 1
  /\ UNCHANGED <<sessionEnd, asked, bufferClosed, pumping, serving, wire,
                 cut, closer, browser>>

EndSession ==
  /\ sessionEnd = 0
  /\ published' = published + 1 /\ sessionEnd' = published + 1
  /\ UNCHANGED <<asked, bufferClosed, pumping, serving, wire, cut, closer,
                 browser>>

EndBuffer ==
  /\ asked /\ sessionEnd # 0 /\ ~bufferClosed /\ bufferClosed' = TRUE
  /\ UNCHANGED <<published, sessionEnd, asked, pumping, serving, wire, cut,
                 closer, browser>>

-----------------------------------------------------------------------------
(* The subscription of a stream, under the lock of the pump: it becomes a  *)
(* member, gets what is cached beyond its cursor (the pump caches events   *)
(* from the first, so event n is in place n), and starts the pump or       *)
(* learns that there is nothing to come.                                   *)
Replay(s) == SubSeq(cache, from[s] + 1, Len(cache))

(* Mutant of LastWord: a subscriber that comes late waits for events. *)
NoLastWord == <<>>

LastWord == IF done THEN <<Done>> ELSE <<>>

Attach(s) ==
  /\ generator[s] = "open"
  /\ members' = members \union {s}
  /\ queue' = [queue EXCEPT ![s] = Replay(s) \o LastWord]
  /\ IF ~done /\ pump = "none"
     THEN pump' = "unstarted" /\ generator' = [generator EXCEPT ![s] = "start"]
     ELSE generator' = [generator EXCEPT ![s] = "attached"] /\ UNCHANGED pump
  /\ UNCHANGED <<backend, cache, targets, stop, done, from, wire, cut,
                 closer, browser>>

(* The thread is started after the lock has been given up. *)
StartPump(s) ==
  /\ generator[s] = "start"
  /\ generator' = [generator EXCEPT ![s] = "attached"] /\ pump' = "next"
  /\ UNCHANGED <<backend, cache, targets, stop, done, members, queue, from,
                 wire, cut, closer, browser>>

(* The generator sends what its subscription holds and ends at the marker. *)
Yield(s) ==
  /\ generator[s] = "attached" /\ s \notin cut /\ queue[s] # <<>>
  /\ queue' = [queue EXCEPT ![s] = IF Head(queue[s]) = Done THEN <<>>
                                   ELSE Tail(queue[s])]
  /\ wire' = IF Head(queue[s]) > from[s] \/ Head(queue[s]) = Done
             THEN [wire EXCEPT ![s] = Append(wire[s], Head(queue[s]))]
             ELSE wire
  /\ IF Head(queue[s]) = Done
     THEN /\ generator' = [generator EXCEPT ![s] = "ended"]
          /\ members' = members \ {s}
     ELSE UNCHANGED <<generator, members>>
  /\ UNCHANGED <<backend, pumping, from, cut, closer, browser>>

(* A generator whose connection is gone closes its subscription. *)
Detach(s) ==
  /\ generator[s] \in {"open", "attached"} /\ s \in cut
  /\ generator' = [generator EXCEPT ![s] = "ended"]
  /\ members' = members \ {s} /\ queue' = [queue EXCEPT ![s] = <<>>]
  /\ cut' = cut \ {s}
  /\ UNCHANGED <<backend, pumping, from, wire, closer, browser>>

-----------------------------------------------------------------------------
(* The pump: it caches an event and notes who gets it in one critical      *)
(* section, and hands it on outside of it.                                 *)
Newest == cache[Len(cache)]

(* Mutant of Receivers: those who have attached meanwhile get it, too. *)
ReceiversNow == members

Receivers == targets

PumpNext ==
  /\ pump = "next"
  /\ \/ /\ published > Len(cache) /\ ~stop
        /\ cache' = Append(cache, Len(cache) + 1)
        /\ targets' = members /\ pump' = "put"
     \/ /\ (published > Len(cache) /\ stop)
             \/ (published = Len(cache) /\ bufferClosed)
        /\ pump' = "finish" /\ UNCHANGED <<cache, targets>>
  /\ UNCHANGED <<backend, stop, done, serving, wire, cut, closer, browser>>

PumpPut ==
  /\ pump = "put" /\ pump' = "next" /\ targets' = {}
  /\ queue' = [s \in Streams |->
                 IF s \in Receivers /\ generator[s] # "ended"
                      /\ Newest > from[s]
                 THEN Append(queue[s], Newest) ELSE queue[s]]
  /\ UNCHANGED <<backend, cache, stop, done, members, from, generator, wire,
                 cut, closer, browser>>

(* The end of the iterator, or of the pump, is passed on to whoever is     *)
(* subscribed.                                                             *)
Dismiss ==
  /\ queue' = [s \in Streams |-> IF s \in members THEN Append(queue[s], Done)
                                 ELSE queue[s]]
  /\ members' = {} /\ done' = TRUE

PumpFinish ==
  /\ pump = "finish" /\ pump' = "done" /\ Dismiss
  /\ UNCHANGED <<backend, cache, targets, stop, from, generator, wire, cut,
                 closer, browser>>

-----------------------------------------------------------------------------
(* Closing the session, by a CloseSession command, which the backend has   *)
(* got already, or by a DELETE.                                            *)
MarkClosed ==
  /\ closer = "none" /\ closer' = "marked"
  /\ asked' \in {asked, TRUE}
  /\ UNCHANGED <<published, sessionEnd, bufferClosed, pumping, serving, wire,
                 cut, browser>>

ClosePump ==
  /\ closer = "marked" /\ closer' = "join" /\ stop' = TRUE /\ Dismiss
  /\ UNCHANGED <<backend, pump, cache, targets, from, generator, wire, cut,
                 browser>>

(* The pump is waited for, not for long; a thread that has not been        *)
(* started cannot be waited for at all, and the closing raises.            *)
JoinPump ==
  /\ closer = "join"
  /\ closer' = IF pump = "unstarted" THEN "raised" ELSE "backend"
  /\ UNCHANGED <<backend, pumping, serving, wire, cut, browser>>

CloseBackend ==
  /\ closer = "backend" /\ closer' = "closed" /\ asked' = TRUE
  /\ UNCHANGED <<published, sessionEnd, bufferClosed, pumping, serving, wire,
                 cut, browser>>

-----------------------------------------------------------------------------
(* The web client.                                                         *)

(* A GET of the events after the cursor; a closed session is gone.  When   *)
(* the attempts are used up, it is the user who asks for another.          *)
Connect ==
  /\ client \in {"backoff", "exhausted"}
  /\ closer = "none" => stream < MaxStreams
  /\ attempts' = IF client = "exhausted" THEN 0 ELSE attempts
  /\ IF closer # "none"
     THEN client' = "gone" /\ UNCHANGED <<stream, from, generator>>
     ELSE /\ client' = "streaming" /\ stream' = stream + 1
          /\ from' = [from EXCEPT ![stream + 1] = cursor]
          /\ generator' = [generator EXCEPT ![stream + 1] = "open"]
  /\ UNCHANGED <<backend, pumping, members, queue, wire, cut, closer, cursor>>

Unserved == IF generator[stream] = "ended" THEN cut ELSE cut \union {stream}

(* Mutant of Leave: nothing asks for another connection. *)
LeaveForGood ==
  /\ cut' = Unserved /\ wire' = [wire EXCEPT ![stream] = <<>>]
  /\ client' = "idle" /\ UNCHANGED attempts

(* The connection is left, and another one is due. *)
Leave ==
  /\ cut' = Unserved /\ wire' = [wire EXCEPT ![stream] = <<>>]
  /\ IF attempts >= MaxAttempts
     THEN client' = "exhausted" /\ UNCHANGED attempts
     ELSE client' = "backoff" /\ attempts' = attempts + 1

(* The next frame: an event is applied when it is the next one, ignored    *)
(* when it is known already, and a reason to reconnect when one is missing;*)
(* so is the end of the response.  The session is over at its session_end. *)
Receive ==
  /\ client = "streaming" /\ wire[stream] # <<>>
  /\ LET e == Head(wire[stream]) IN
     IF e = Done \/ e > cursor + 1
     THEN Leave /\ UNCHANGED cursor
     ELSE /\ wire' = [wire EXCEPT ![stream] = Tail(wire[stream])]
          /\ cursor' = IF e = cursor + 1 THEN e ELSE cursor
          /\ attempts' = IF e = cursor + 1 THEN 0 ELSE attempts
          /\ client' = IF e = sessionEnd THEN "closed" ELSE "streaming"
          /\ UNCHANGED cut
  /\ UNCHANGED <<backend, pumping, serving, closer, stream>>

(* The connection breaks. *)
Break ==
  /\ client = "streaming" /\ stream < MaxStreams /\ Leave
  /\ UNCHANGED <<backend, pumping, serving, closer, stream, cursor>>

-----------------------------------------------------------------------------
Serve(s) == Attach(s) \/ StartPump(s) \/ Yield(s) \/ Detach(s)
Pump == PumpNext \/ PumpPut \/ PumpFinish
Closing == ClosePump \/ JoinPump \/ CloseBackend

Next ==
  \/ Publish \/ EndSession \/ EndBuffer
  \/ \E s \in Streams : Serve(s)
  \/ Pump \/ MarkClosed \/ Closing
  \/ Connect \/ Receive \/ Break

(* Threads run on, a timer reconnects, the browser reads; the backend is   *)
(* free not to publish, and the user not to try again.                     *)
Fairness ==
  /\ WF_vars(asked /\ (EndSession \/ EndBuffer))
  /\ \A s \in Streams : WF_vars(Serve(s))
  /\ WF_vars(Pump) /\ WF_vars(Closing)
  /\ WF_vars(client = "backoff" /\ Connect) /\ WF_vars(Receive)

StreamSpec == Init /\ [][Next]_vars /\ Fairness

-----------------------------------------------------------------------------
(* The events among the frames and markers of w, by their positions.       *)
Events(w) == {i \in DOMAIN w : w[i] # Done}

InOrder(w) == \A i, j \in Events(w) : i < j => w[i] < w[j]

(* What lies between two of them, or between n and one of them, is there.  *)
Gapless(w) ==
  \A i, j \in Events(w) : \A e \in w[i] .. w[j] : \E k \in Events(w) : w[k] = e

Continues(w, n) ==
  \A i \in Events(w) :
    /\ w[i] > n
    /\ \A e \in (n + 1) .. w[i] : \E k \in Events(w) : w[k] = e

(* What the client of s has not received yet. *)
OnItsWay(s) == wire[s] \o queue[s]

(* A subscription gets every event after its cursor, in order and once,    *)
(* whether it was cached when it attached or came while the pump was       *)
(* delivering, and whatever other streams come and go: what is on its way  *)
(* continues what has been applied (registry.py, subscribe and _run).      *)
StreamContiguous ==
  /\ \A s \in Streams :
       /\ InOrder(OnItsWay(s)) /\ Gapless(OnItsWay(s))
       /\ \A i \in Events(OnItsWay(s)) : OnItsWay(s)[i] > from[s]
  /\ client = "streaming" => Continues(OnItsWay(stream), cursor)

(* Every event the backend publishes reaches the client, across lost       *)
(* connections, unless the session is closed or the attempts are used up   *)
(* (useAgentSession.ts, scheduleReconnect; registry.py, _run).             *)
EventsDelivered ==
  \A n \in 1 .. MaxEvents :
    published >= n ~> cursor >= n \/ client \in {"gone", "exhausted"}

(* No connection is left waiting on a closed session, also not one that    *)
(* was let in just before the session was marked closed (registry.py,      *)
(* close; app.py, _event_stream).                                          *)
StreamsEnd ==
  \A s \in Streams :
    (closer # "none" /\ generator[s] # "none") ~> generator[s] = "ended"

(* "agent_end, session_end, end of the SSE": an explicit close shows the   *)
(* client the end of the session before its stream ends.                   *)
CloseShowsEnd == client # "gone"

(* "Close the backend once; repeated calls are harmless." *)
CloseReachesBackend == closer # "raised"

=============================================================================
