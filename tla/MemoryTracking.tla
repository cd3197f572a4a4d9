--------------------------- MODULE MemoryTracking ---------------------------
(***************************************************************************)
(* Tracking with the in-memory adapters: one process and no Redis, so      *)
(* _publish_tracking_event publishes to the hub itself, and WebSockets     *)
(* find their order.  record runs under the adapter's lock and the handler *)
(* before it does not suspend, so a request is one step up to its 201 and  *)
(* one more for its background task.                                       *)
(***************************************************************************)
EXTENDS LiveStreams

CONSTANTS
    Orders,
    Watched,        \* the order the streams watch
    Requests,
    MaxSequence     \* bound: positions of one order

\* A connection is to one of the two endpoints.
ASSUME WatchedAssumption ==
    Watched \in Orders /\ MaxSequence \in Nat /\ Sse \cap WebSockets = {}

Trail == [order : Orders, event : TrackingEvent]

ASSUME NoTrailAssumption == None \notin Orders /\ None \notin Trail

VARIABLES
    active,         \* order -> whether it is assigned or picked up
    snapshot,       \* _snapshots
    event_orders,   \* _event_orders: client_event_id -> order or None
    outbox,         \* outbox: a list
    unpublished     \* request -> the event its background task will publish

vars == <<active, snapshot, event_orders, outbox, unpublished, streams>>

Init ==
    /\ active = [o \in Orders |-> TRUE]
    /\ snapshot = [o \in Orders |-> NoPosition]
    /\ event_orders = [e \in Events |-> None]
    /\ outbox = <<>>
    /\ unpublished = [r \in Requests |-> None]
    /\ StreamsInit

\* Mutant: the sequence starts again with every event id.
Numbered_fresh(o, e) == [sequence |-> 1, id |-> e]

Numbered(o, e) == [sequence |-> snapshot[o].sequence + 1, id |-> e]

\* record_tracking_position up to its response.  A foreign event id (409) and a
\* replay of the current one change nothing and are left out.
record(r, o, e) ==
    /\ unpublished[r] = None
    /\ active[o]
    /\ event_orders[e] \in {None, o}
    /\ snapshot[o].id # e
    /\ snapshot[o].sequence < MaxSequence
    /\ snapshot' = [snapshot EXCEPT ![o] = Numbered(o, e)]
    /\ event_orders' = [event_orders EXCEPT ![e] = o]
    /\ outbox' = Append(outbox, [order |-> o, event |-> Numbered(o, e)])
    /\ unpublished' = [unpublished EXCEPT ![r] = [order |-> o, event |-> Numbered(o, e)]]
    /\ UNCHANGED <<active, streams>>

Finish(o) ==
    /\ active[o]
    /\ active' = [active EXCEPT ![o] = FALSE]
    /\ UNCHANGED <<snapshot, event_orders, outbox, unpublished, streams>>

\* The background task of a request; requests overtake each other here.
Publish(r) ==
    /\ unpublished[r] # None
    /\ unpublished' = [unpublished EXCEPT ![r] = None]
    /\ IF unpublished[r].order = Watched THEN publish(unpublished[r].event)
       ELSE UNCHANGED streams
    /\ UNCHANGED <<active, snapshot, event_orders, outbox>>

Stream ==
    /\ \/ \E s \in Sse : SseRead(s, snapshot[Watched]) \/ SseOpen(s) \/ SseNext(s)
       \/ \E s \in WebSockets :
             \/ WsSubscribe(s) \/ WsLoad(s, snapshot[Watched]) \/ WsAccept(s)
             \/ WsNext(s) \/ WsLost(s)
       \/ \E s \in Streams : Close(s)
    /\ UNCHANGED <<active, snapshot, event_orders, outbox, unpublished>>

Next ==
    \/ \E r \in Requests :
          \/ \E o \in Orders, e \in Events : record(r, o, e)
          \/ Publish(r)
    \/ \E o \in Orders : Finish(o)
    \/ Stream

Spec == Init /\ [][Next]_vars

-----------------------------------------------------------------------------
\* A WebSocket subscribes before it loads the snapshot, so no update falls
\* between them: when no background task is left, the stored position has been
\* sent or is in the queue, unless the queue has overflown.
WsMissesNothing ==
    \A s \in WebSockets :
        /\ stage[s] = "following" /\ ~dropped[s]
        /\ \A r \in Requests : unpublished[r] = None
        => \/ \E i \in DOMAIN shown[s] : shown[s][i] = snapshot[Watched]
           \/ \E i \in DOMAIN queue[s] : queue[s][i] = snapshot[Watched]

\* The outbox tells every position of an order in the order of its sequence
\* numbers, without a gap, and ends with the stored one.
OutboxIsTheTrail ==
    \A o \in Orders :
        /\ \A n \in 1..snapshot[o].sequence :
              \E i \in DOMAIN outbox : outbox[i].order = o /\ outbox[i].event.sequence = n
        /\ \A i \in DOMAIN outbox : outbox[i].order = o =>
              /\ outbox[i].event.sequence \in 1..snapshot[o].sequence
              /\ outbox[i].event.sequence = snapshot[o].sequence =>
                    outbox[i].event = snapshot[o]
              /\ \A j \in DOMAIN outbox : i < j /\ outbox[j].order = o =>
                    outbox[i].event.sequence < outbox[j].event.sequence

\* The same idempotency contract as PostgreSQL (tracking.py:78), where the event
\* id is the primary key of the outbox: no event is recorded twice.
EventIsRecordedOnce ==
    \A i, j \in DOMAIN outbox : outbox[i].event.id = outbox[j].event.id => i = j
=============================================================================
