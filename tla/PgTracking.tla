----------------------------- MODULE PgTracking -----------------------------
(***************************************************************************)
(* Tracking in production: record_tracking_position with                   *)
(* SqlAlchemyTrackingSnapshotRepository, the Redis channel between API     *)
(* processes, and the SSE clients of one of them.  The WebSocket handler   *)
(* looks its order up in the in-memory repository, which is empty here, so *)
(* it closes with 4404 before it subscribes: no WebSocket is ever live.    *)
(*                                                                         *)
(* A request is one transaction: upsert of the snapshot row, insert of the *)
(* outbox row, 201, then the background task publishes, then COMMIT.  An   *)
(* exception of the background task reaches the session dependency, which  *)
(* rolls back.  A request whose database connection is lost after the 201  *)
(* learns of it at COMMIT only: its background task publishes although     *)
(* PostgreSQL has rolled back and given the row to the next request.       *)
(***************************************************************************)
EXTENDS LiveStreams

CONSTANTS
    Orders,
    Watched,     \* the order the streams watch
    Requests,    \* positions being recorded at the same time
    MaxBus       \* bound: messages on their way to this process

ASSUME WatchedAssumption ==
    Watched \in Orders /\ None \notin Orders /\ MaxBus \in Nat \ {0}

VARIABLES
    active,      \* order -> whether it is assigned or picked up
    snapshot,    \* order_tracking_snapshot: order -> event, NoPosition if no row
    outbox,      \* tracking events of outbox_event
    phase, order, id, pending,   \* the requests; pending: the upserted event
    answered,    \* positions answered 201 by a process that has not died
    bus,         \* messages on their way to this process, each with what had
                 \* become of its sender's transaction: open or lost
    listening    \* whether this process is subscribed to the channel

requests == <<phase, order, id, pending, answered>>
vars == <<active, snapshot, outbox, requests, bus, listening, streams>>

Init ==
    /\ active = [o \in Orders |-> TRUE]
    /\ snapshot = [o \in Orders |-> NoPosition]
    /\ outbox = {}
    /\ phase = [r \in Requests |-> "idle"]
    /\ order = [r \in Requests |-> None]
    /\ id = [r \in Requests |-> None]
    /\ pending = [r \in Requests |-> None]
    /\ answered = {}
    /\ bus = <<>>
    /\ listening = TRUE
    /\ StreamsInit

Goto(r, p) == phase' = [phase EXCEPT ![r] = p]

Message == [event : TrackingEvent, sender : {"open", "lost"}]

OutboxRow(o, event) == [order |-> o, sequence |-> event.sequence, id |-> event.id]

-----------------------------------------------------------------------------
(***************************************************************************)
(* record_tracking_position                                                *)
(***************************************************************************)

\* The order is read and must be active; it can end right after that.
Start(r, o, e) ==
    /\ phase[r] = "idle"
    /\ active[o]
    /\ Goto(r, "upsert")
    /\ order' = [order EXCEPT ![r] = o]
    /\ id' = [id EXCEPT ![r] = e]
    /\ UNCHANGED <<active, snapshot, outbox, pending, answered, bus, listening, streams>>

\* An order is delivered or cancelled.
Finish(o) ==
    /\ active[o]
    /\ active' = [active EXCEPT ![o] = FALSE]
    /\ UNCHANGED <<snapshot, outbox, requests, bus, listening, streams>>

\* Mutant: an upsert does not wait for the row of another transaction.
RowPending_never(r) == FALSE

\* The transaction of r is open and has written or locked the row of its order.
Holds(r) == phase[r] \notin {"idle", "upsert", "lost"}

\* Another transaction has inserted, updated or merely locked the order's row.
RowPending(r) == \E q \in Requests \ {r} : Holds(q) /\ order[q] = order[r]

\* Another transaction holds the event id in uq client_event_id or in the primary
\* key of the outbox.
IdPending(r) ==
    \E q \in Requests \ {r} : Holds(q) /\ pending[q] # None /\ pending[q].id = id[r]

IdOfOtherOrder(r) ==
    \E o \in Orders \ {order[r]} : snapshot[o].id = id[r]

\* INSERT ... ON CONFLICT (order_id) DO UPDATE ... WHERE the event id differs.  A
\* replay of the current event changes nothing, finds the row it has just locked
\* and is answered with it; there is nothing to publish.
Upsert(r) ==
    LET current == snapshot[order[r]] IN
    /\ phase[r] = "upsert"
    /\ ~RowPending(r)
    /\ IF current.id = id[r]
       THEN /\ Goto(r, "published")
            /\ answered' = answered \cup {id[r]}
            /\ UNCHANGED pending
       ELSE /\ ~IdPending(r)
            /\ IF IdOfOtherOrder(r)
               THEN Goto(r, "failed") /\ UNCHANGED pending
               ELSE /\ Goto(r, "outbox")
                    /\ pending' = [pending EXCEPT ![r] =
                          [sequence |-> current.sequence + 1, id |-> id[r]]]
            /\ UNCHANGED answered
    /\ UNCHANGED <<active, snapshot, outbox, order, id, bus, listening, streams>>

\* Mutant: the outbox row gets an id of its own.
InsertOutbox_anyId(r) ==
    /\ phase[r] = "outbox"
    /\ Goto(r, "answered")
    /\ answered' = answered \cup {id[r]}
    /\ UNCHANGED <<active, snapshot, outbox, order, id, pending, bus, listening, streams>>

\* The outbox row has the event id as its primary key: an id recorded before is
\* refused, whichever order it was for.  Otherwise 201 is sent.
InsertOutbox(r) ==
    /\ phase[r] = "outbox"
    /\ IF \E row \in outbox : row.id = id[r]
       THEN Goto(r, "failed") /\ UNCHANGED answered
       ELSE /\ Goto(r, "answered")
            /\ answered' = answered \cup {id[r]}
    /\ UNCHANGED <<active, snapshot, outbox, order, id, pending, bus, listening, streams>>

\* _publish_tracking_event; streams watch only one order.
BusWith(r, sender) ==
    IF listening /\ order[r] = Watched
    THEN Append(bus, [event |-> pending[r], sender |-> sender]) ELSE bus

\* The background task, with the row still locked.
Publish(r) ==
    /\ phase[r] = "answered"
    /\ Len(bus) < MaxBus
    /\ Goto(r, "published")
    /\ bus' = BusWith(r, "open")
    /\ UNCHANGED <<active, snapshot, outbox, order, id, pending, answered, listening, streams>>

\* Redis refuses the publish.
PublishFails(r) ==
    /\ phase[r] = "answered"
    /\ Goto(r, "failed")
    /\ UNCHANGED <<active, snapshot, outbox, order, id, pending, answered, bus, listening,
                   streams>>

EndSession(r) ==
    /\ Goto(r, "idle")
    /\ order' = [order EXCEPT ![r] = None]
    /\ id' = [id EXCEPT ![r] = None]
    /\ pending' = [pending EXCEPT ![r] = None]
    /\ UNCHANGED <<active, listening, streams>>

Commit(r) ==
    /\ phase[r] = "published"
    /\ IF pending[r] = None THEN UNCHANGED <<snapshot, outbox>>
       ELSE /\ snapshot' = [snapshot EXCEPT ![order[r]] = pending[r]]
            /\ outbox' = outbox \cup {OutboxRow(order[r], pending[r])}
    /\ EndSession(r)
    /\ UNCHANGED <<answered, bus>>

Rollback(r) ==
    /\ phase[r] = "failed"
    /\ EndSession(r)
    /\ UNCHANGED <<snapshot, outbox, answered, bus>>

\* The process dies.
Abort(r) ==
    /\ phase[r] # "idle"
    /\ EndSession(r)
    /\ answered' = answered \ {id[r]}
    /\ UNCHANGED <<snapshot, outbox, bus>>

\* The database connection is lost and PostgreSQL rolls back.  The next statement,
\* or COMMIT, raises and ends the request; one that has answered has its
\* background task to run before that.
LoseConnection(r) ==
    /\ phase[r] \notin {"idle", "lost"}
    /\ IF phase[r] = "answered"
       THEN Goto(r, "lost") /\ UNCHANGED <<active, order, id, pending, listening, streams>>
       ELSE EndSession(r)
    /\ UNCHANGED <<snapshot, outbox, answered, bus>>

\* The background task of such a request, unless Redis refuses it; then COMMIT fails.
PublishLost(r) ==
    /\ phase[r] = "lost"
    /\ Len(bus) < MaxBus
    /\ bus' \in {bus, BusWith(r, "lost")}
    /\ EndSession(r)
    /\ UNCHANGED <<snapshot, outbox, answered>>

-----------------------------------------------------------------------------
(***************************************************************************)
(* _consume_tracking_bus                                                   *)
(***************************************************************************)
Deliver ==
    /\ bus # <<>>
    /\ bus' = Tail(bus)
    /\ publish(Head(bus).event)
    /\ UNCHANGED <<active, snapshot, outbox, requests, listening>>

\* The connection to Redis breaks: what was on its way is lost, and so is what
\* is published until the next subscribe.
Disconnect ==
    /\ listening
    /\ listening' = FALSE
    /\ bus' = <<>>
    /\ UNCHANGED <<active, snapshot, outbox, requests, streams>>

Reconnect ==
    /\ ~listening
    /\ listening' = TRUE
    /\ UNCHANGED <<active, snapshot, outbox, requests, bus, streams>>

StreamStep(s) ==
    /\ \/ SseOpen(s)
       \/ SseNext(s)
    /\ UNCHANGED <<active, snapshot, outbox, requests, bus, listening>>

StreamChoice(s) ==
    /\ \/ SseRead(s, snapshot[Watched])
       \/ Close(s)
    /\ UNCHANGED <<active, snapshot, outbox, requests, bus, listening>>

RequestStep(r) ==
    \/ Upsert(r) \/ InsertOutbox(r) \/ Publish(r)
    \/ Commit(r) \/ Rollback(r) \/ PublishLost(r)

Next ==
    \/ \E r \in Requests :
          \/ \E o \in Orders, e \in Events : Start(r, o, e)
          \/ RequestStep(r)
          \/ PublishFails(r)
          \/ Abort(r) \/ LoseConnection(r)
    \/ \E o \in Orders : Finish(o)
    \/ Deliver \/ Disconnect \/ Reconnect
    \/ \E s \in Sse : StreamStep(s) \/ StreamChoice(s)

Spec == Init /\ [][Next]_vars

-----------------------------------------------------------------------------
RowsTypeOK ==
    /\ active \in [Orders -> BOOLEAN]
    /\ snapshot \in [Orders -> TrackingEvent]
    /\ outbox \subseteq [order : Orders, sequence : Nat, id : Events]
    /\ phase \in [Requests -> {"idle", "upsert", "outbox", "answered",
                               "published", "failed", "lost"}]
    /\ order \in [Requests -> Orders \cup {None}]
    /\ id \in [Requests -> Events \cup {None}]
    /\ pending \in [Requests -> TrackingEvent \cup {None}]
    /\ answered \subseteq Events
    /\ bus \in Seq(Message)
    /\ listening \in BOOLEAN

\* Every variable holds values of its own shape.
TypeOK == RowsTypeOK /\ StreamsTypeOK

\* Sequence numbers have no gap and no repetition: the outbox holds one row for
\* each number up to the one of the snapshot, the last one is the snapshot's own
\* event, and no event id was recorded twice, for one order or for two.
SequencesAreRecorded ==
    /\ \A o \in Orders :
          /\ {row.sequence : row \in {x \in outbox : x.order = o}} = 1..snapshot[o].sequence
          /\ snapshot[o].sequence > 0 => OutboxRow(o, snapshot[o]) \in outbox
    /\ \A x, y \in outbox :
          x.id = y.id \/ (x.order = y.order /\ x.sequence = y.sequence) => x = y

\* A request past its upsert is the only one on its order's row and the only one
\* with its event id; what it has upserted is the next position of the order.  One
\* that has lost its transaction has a number that may have been used since.
RequestsFit ==
    /\ \A r \in Requests :
          /\ phase[r] # "idle" => order[r] \in Orders /\ id[r] \in Events
          /\ phase[r] \in {"outbox", "answered", "lost"} => pending[r] # None
          /\ pending[r] # None => Holds(r) \/ phase[r] = "lost"
          /\ Holds(r) /\ pending[r] # None =>
                /\ pending[r] = [sequence |-> snapshot[order[r]].sequence + 1, id |-> id[r]]
                /\ phase[r] \in {"answered", "published"} =>
                      \A row \in outbox : row.id # id[r]
          /\ phase[r] = "lost" =>
                pending[r].sequence <= snapshot[order[r]].sequence + 1
    /\ \A q, r \in Requests : q # r /\ Holds(q) /\ Holds(r) =>
          /\ order[q] # order[r]
          /\ pending[q] # None /\ pending[r] # None => id[q] # id[r]

\* What is on its way is at most one number ahead of the snapshot, and nothing
\* higher is before the message of an open transaction.
BusFits ==
    /\ \A i \in DOMAIN bus : bus[i].event.sequence <= snapshot[Watched].sequence + 1
    /\ \A i, j \in DOMAIN bus : i < j /\ bus[j].sender = "open" =>
          bus[i].event.sequence <= bus[j].event.sequence

\* The rows keep their shape and number the positions of every order without a gap,
\* however requests race, fail and are sent again.
IInv ==
    /\ TypeOK
    /\ SequencesAreRecorded
    /\ RequestsFit
    /\ BusFits
    /\ StreamsFit

\* No higher number is ahead of a message, unless the request that sent the message
\* had lost its transaction: a request publishes before it commits, hence before
\* the next one can take a number.  Of two events sent with one number, by
\* whomever, at most one is recorded or about to be.
PublishedInOrder ==
    LET Stands(e) == \/ OutboxRow(Watched, e) \in outbox
                     \/ \E r \in Requests :
                           Holds(r) /\ order[r] = Watched /\ pending[r] = e
    IN  \A i, j \in DOMAIN bus : i < j =>
            LET e == bus[i].event
                f == bus[j].event
            IN  /\ bus[j].sender = "open" => e.sequence <= f.sequence
                /\ e.sequence = f.sequence /\ e # f => ~(Stands(e) /\ Stands(f))

\* An update cannot fall into a gap between snapshot and subscription
\* (tracking.py:249): when nothing is on its way, a stream has shown the stored
\* position.
NoUpdateFallsIntoGap ==
    \A s \in Sse :
        /\ listening /\ bus = <<>>
        /\ stage[s] = "following" /\ queue[s] = <<>>
        /\ \A r \in Requests : phase[r] = "idle"
        => floor[s] >= snapshot[Watched].sequence

\* Live connections are only a projection of confirmed positions (db.py:211):
\* what a client is shown is recorded or about to be.
ShownIsConfirmed ==
    \A s \in Sse : \A i \in DOMAIN shown[s] :
        shown[s][i].sequence > 0 =>
            \/ OutboxRow(Watched, shown[s][i]) \in outbox
            \/ \E r \in Requests : Holds(r) /\ pending[r] = shown[s][i]

\* The stored snapshot is authoritative whatever happens to the transport
\* (main.py:1087): a position answered 201 is recorded or about to be.
AnsweredIsRecorded ==
    \A e \in answered :
        \/ \E row \in outbox : row.id = e
        \/ \E r \in Requests : Holds(r) /\ pending[r] # None /\ pending[r].id = e
=============================================================================
