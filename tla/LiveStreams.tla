----------------------------- MODULE LiveStreams -----------------------------
(***************************************************************************)
(* The live side of tracking in one API process: TrackingHub, the SSE      *)
(* stream of order_event_stream and the WebSocket handler (tracking.py,    *)
(* main.py).  All streams watch one order; what is stored for it, and who  *)
(* publishes, is left to the modules that extend this one.                 *)
(*                                                                         *)
(* An event is the sequence number and the client's event id, which stands *)
(* for the position.  Code between two awaits is one step.                 *)
(***************************************************************************)
EXTENDS Naturals, Sequences, FiniteSetsExt

CONSTANTS
    Events,        \* client_event_id values
    Sse,           \* clients that use the SSE endpoint
    WebSockets,    \* clients that use the WebSocket endpoint
    queue_size,    \* bound of a subscriber's queue
    None

ASSUME QueueSizeAssumption == queue_size \in Nat \ {0}

Streams == Sse \cup WebSockets

VARIABLES
    stage,    \* closed, read or loading, loaded, following
    queue,    \* the stream's queue in the hub, None when not subscribed
    first,    \* the snapshot the handler has read
    floor,    \* the highest sequence an SSE stream has shown
    shown,    \* what the client has been shown on this connection
    latest,   \* the last event published while subscribed
    dropped,  \* whether the queue has overflown on this connection
    leaked    \* whether a handler has ended and left its queue in the hub

streams == <<stage, queue, first, floor, shown, latest, dropped, leaked>>

TrackingEvent == [sequence : Nat, id : Events \cup {None}]

ASSUME NoEventAssumption ==
    None \notin Events /\ None \notin TrackingEvent /\ None \notin Seq(TrackingEvent)

\* The snapshot event of an order without a position.
NoPosition == [sequence |-> 0, id |-> None]

StreamsInit ==
    /\ stage = [s \in Streams |-> "closed"]
    /\ queue = [s \in Streams |-> None]
    /\ first = [s \in Streams |-> NoPosition]
    /\ floor = [s \in Streams |-> 0]
    /\ shown = [s \in Streams |-> <<>>]
    /\ latest = [s \in Streams |-> NoPosition]
    /\ dropped = [s \in Streams |-> FALSE]
    /\ leaked = FALSE

-----------------------------------------------------------------------------
(***************************************************************************)
(* TrackingHub                                                             *)
(***************************************************************************)
Subscribed(s) == queue[s] # None

\* Mutant: the newest event is dropped.
put_dropNewest(q, event) == IF Len(q) = queue_size THEN q ELSE Append(q, event)

\* A full queue loses its oldest event.
put(q, event) == Append(IF Len(q) = queue_size THEN Tail(q) ELSE q, event)

publish(event) ==
    /\ queue' = [s \in Streams |->
                    IF Subscribed(s) THEN put(queue[s], event) ELSE None]
    /\ latest' = [s \in Streams |-> IF Subscribed(s) THEN event ELSE latest[s]]
    /\ dropped' = [s \in Streams |->
          dropped[s] \/ (Subscribed(s) /\ Len(queue[s]) = queue_size)]
    /\ UNCHANGED <<stage, first, floor, shown, leaked>>

Subscribe(s) ==
    /\ queue' = [queue EXCEPT ![s] = <<>>]
    /\ latest' = [latest EXCEPT ![s] = NoPosition]
    /\ dropped' = [dropped EXCEPT ![s] = FALSE]

\* The connection ends; the finally block unsubscribes.
Close(s) ==
    /\ stage[s] \in {"read", "following"}
    /\ stage' = [stage EXCEPT ![s] = "closed"]
    /\ queue' = [queue EXCEPT ![s] = None]
    /\ shown' = [shown EXCEPT ![s] = <<>>]
    /\ UNCHANGED <<first, floor, latest, dropped, leaked>>

-----------------------------------------------------------------------------
(***************************************************************************)
(* sse_tracking and order_event_stream                                     *)
(***************************************************************************)

\* The handler reads the snapshot and returns the StreamingResponse.
SseRead(s, stored) ==
    /\ stage[s] = "closed"
    /\ stage' = [stage EXCEPT ![s] = "read"]
    /\ first' = [first EXCEPT ![s] = stored]
    /\ UNCHANGED <<queue, floor, shown, latest, dropped, leaked>>

\* The body starts: subscribe, then yield the snapshot.  Last-Event-ID is what
\* the client has seen on an earlier connection, or absent.
SseOpen(s) ==
    /\ stage[s] = "read"
    /\ Subscribe(s)
    /\ \E last \in {0, floor[s]} :
          floor' = [floor EXCEPT ![s] = Max({last, first[s].sequence})]
    /\ shown' = [shown EXCEPT ![s] = <<first[s]>>]
    /\ stage' = [stage EXCEPT ![s] = "following"]
    /\ UNCHANGED <<first, leaked>>

\* Mutant: every event of the queue is sent.
SseNext_unfiltered(s) ==
    /\ stage[s] = "following"
    /\ queue[s] # <<>>
    /\ queue' = [queue EXCEPT ![s] = Tail(@)]
    /\ floor' = [floor EXCEPT ![s] = Head(queue[s]).sequence]
    /\ shown' = [shown EXCEPT ![s] = Append(@, Head(queue[s]))]
    /\ UNCHANGED <<stage, first, latest, dropped, leaked>>

\* The loop: an event at or below the floor is skipped.
SseNext(s) ==
    LET event == Head(queue[s]) IN
    /\ stage[s] = "following"
    /\ queue[s] # <<>>
    /\ queue' = [queue EXCEPT ![s] = Tail(@)]
    /\ IF event.sequence <= floor[s] THEN UNCHANGED <<floor, shown>>
       ELSE /\ floor' = [floor EXCEPT ![s] = event.sequence]
            /\ shown' = [shown EXCEPT ![s] = Append(@, event)]
    /\ UNCHANGED <<stage, first, latest, dropped, leaked>>

-----------------------------------------------------------------------------
(***************************************************************************)
(* The WebSocket handler, after the owner check                            *)
(***************************************************************************)
WsSubscribe(s) ==
    /\ stage[s] = "closed"
    /\ Subscribe(s)
    /\ stage' = [stage EXCEPT ![s] = "loading"]
    /\ UNCHANGED <<first, floor, shown, leaked>>

WsLoad(s, stored) ==
    /\ stage[s] = "loading"
    /\ first' = [first EXCEPT ![s] = stored]
    /\ stage' = [stage EXCEPT ![s] = "loaded"]
    /\ UNCHANGED <<queue, floor, shown, latest, dropped, leaked>>

\* Mutant: the queue is subscribed when the snapshot has been read.
WsAccept_subscribes(s) ==
    /\ stage[s] = "loaded"
    /\ Subscribe(s)
    /\ shown' = [shown EXCEPT ![s] = <<first[s]>>]
    /\ stage' = [stage EXCEPT ![s] = "following"]
    /\ UNCHANGED <<first, floor, leaked>>

\* accept and the first send_json.
WsAccept(s) ==
    /\ stage[s] = "loaded"
    /\ shown' = [shown EXCEPT ![s] = <<first[s]>>]
    /\ stage' = [stage EXCEPT ![s] = "following"]
    /\ UNCHANGED <<queue, first, floor, latest, dropped, leaked>>

\* _send_tracking_events sends whatever comes.
WsNext(s) ==
    /\ stage[s] = "following"
    /\ queue[s] # <<>>
    /\ queue' = [queue EXCEPT ![s] = Tail(@)]
    /\ shown' = [shown EXCEPT ![s] = Append(@, Head(queue[s]))]
    /\ UNCHANGED <<stage, first, floor, latest, dropped, leaked>>

\* The client goes away before the try block: nothing unsubscribes the queue.
WsLost(s) ==
    /\ stage[s] \in {"loading", "loaded"}
    /\ stage' = [stage EXCEPT ![s] = "closed"]
    /\ queue' = [queue EXCEPT ![s] = None]
    /\ leaked' = TRUE
    /\ UNCHANGED <<first, floor, shown, latest, dropped>>

-----------------------------------------------------------------------------
\* Every variable holds values of its own shape.
StreamsTypeOK ==
    /\ stage \in [Streams -> {"closed", "read", "loading", "loaded", "following"}]
    /\ queue \in [Streams -> Seq(TrackingEvent) \cup {None}]
    /\ \A s \in Streams : Subscribed(s) => Len(queue[s]) <= queue_size
    /\ shown \in [Streams -> Seq(TrackingEvent)]
    /\ first \in [Streams -> TrackingEvent]
    /\ floor \in [Streams -> Nat]
    /\ latest \in [Streams -> TrackingEvent]
    /\ dropped \in [Streams -> BOOLEAN]
    /\ leaked \in BOOLEAN

\* After its snapshot an SSE client sees, on each of its connections, sequence
\* numbers that only grow, in whatever order events are published and whatever its
\* queue has dropped.
SseOnlyAdvances ==
    \A s \in Sse : \A i, j \in DOMAIN shown[s] :
        i < j => shown[s][i].sequence < shown[s][j].sequence

\* A slow consumer loses old events and never the newest: the last event that
\* was published is the last in the queue until it has been taken.
NewestIsKept ==
    \A s \in Streams :
        Subscribed(s) =>
            \/ queue[s] # <<>> /\ queue[s][Len(queue[s])] = latest[s]
            \/ queue[s] = <<>> /\ latest[s].sequence = 0
            \/ queue[s] = <<>> /\ s \in Sse /\ floor[s] >= latest[s].sequence
            \/ queue[s] = <<>> /\ s \in WebSockets /\ shown[s] # <<>>
                 /\ shown[s][Len(shown[s])] = latest[s]

\* A stream has a queue from its subscription to its end, and an SSE stream has
\* shown nothing above its floor.
StreamsFit ==
    /\ \A s \in Streams :
          Subscribed(s) <=> stage[s] \in {"loading", "loaded", "following"}
    /\ \A s \in Sse : \A i \in DOMAIN shown[s] : shown[s][i].sequence <= floor[s]

\* Only running handlers have a queue in the hub (tests/test_tracking_streams.py
\* :69, no subscriber is left when the client has disconnected).
NoQueueIsLeft == ~leaked
=============================================================================
