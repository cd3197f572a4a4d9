---------------------------- MODULE EventDelivery ----------------------------
(***************************************************************************)
(* From the outbox table to the customer: publish_pending_outbox           *)
(* (outbox.py), the Celery queue, and process_notification_event with      *)
(* dispatch_order_created_notification_once (worker.py, notifications.py). *)
(*                                                                         *)
(* Relays of two images run side by side during the rollback window; the   *)
(* previous one knows only the processed_at column.  A batch is one        *)
(* transaction that holds its row locks while it talks to the broker.  A   *)
(* worker's job is one transaction, committed before the message is        *)
(* acknowledged.  A relay or a job that loses its database connection      *)
(* while it waits for the broker or the provider is adrift: its locks are  *)
(* gone, and it learns of that with its next statement only.               *)
(***************************************************************************)
EXTENDS Integers, FiniteSets, FiniteSetsExt

CONSTANTS
    Events,        \* outbox ids, numbered in the order of created_at
    Created,       \* those of type order.created
    Relays,
    OldRelays,     \* the relays of the previous image
    Workers,
    Fragile,       \* bound: the relays and workers whose connection may be lost
    BatchSize,
    None,
    MaxCopies,     \* bound: copies of one message waiting in the queue
    MaxFailures    \* bound: jobs that end in an error

ASSUME DeliveryAssumption ==
    /\ Events \subseteq Nat /\ Created \subseteq Events /\ OldRelays \subseteq Relays
    /\ BatchSize \in 1..200
    /\ MaxCopies \in Nat \ {0}
    /\ None \notin Events /\ None \notin {"pending", "skipped", "sent"}

VARIABLES
    rows,          \* the committed outbox rows
    published_at,  \* the events whose published_at is set
    processed_at,  \* the events whose legacy processed_at is set
    todo,          \* todo[r]: the rows of relay r's batch it has still to publish
    sent,          \* sent[r]: the part the broker has confirmed
    adrift,        \* adrift[r]: what relay r has to publish without a transaction
    confirmed,     \* the events the broker has ever confirmed
    queue,         \* queue[e]: copies of e waiting for a worker
    job,           \* job[w]: the event of the message worker w has not acknowledged
    stage,         \* stage[w]: how far its job is
    outcome,       \* outcome[w]: the status of its uncommitted notification
    notification,  \* notification[e]: the committed status, None without inbox row
    muted,         \* events whose customer has switched notifications off
    accepted,      \* the idempotency keys the provider has seen
    failed         \* events some job of which ended in an error

outbox == <<rows, published_at, processed_at>>
relay == <<todo, sent, adrift>>
worker == <<job, stage, outcome>>
effects == <<notification, accepted, failed>>
vars == <<outbox, relay, confirmed, queue, worker, effects, muted>>

Init ==
    /\ rows = {} /\ published_at = {} /\ processed_at = {}
    /\ todo = [r \in Relays |-> {}]
    /\ sent = [r \in Relays |-> {}]
    /\ adrift = [r \in Relays |-> {}]
    /\ confirmed = {}
    /\ queue = [e \in Events |-> 0]
    /\ job = [w \in Workers |-> None]
    /\ stage = [w \in Workers |-> "idle"]
    /\ outcome = [w \in Workers |-> None]
    /\ notification = [e \in Events |-> None]
    /\ muted \in SUBSET Created
    /\ accepted = {} /\ failed = {}

\* A request that wrote an outbox row commits.
Emit(e) ==
    /\ e \notin rows
    /\ rows' = rows \cup {e}
    /\ UNCHANGED <<published_at, processed_at, relay, confirmed, queue, worker, effects, muted>>

\* Another service of the platform edits notification_preference.
SetPreference(e) ==
    /\ e \in Created
    /\ muted' = (muted \ {e}) \cup ({e} \ muted)
    /\ UNCHANGED <<outbox, relay, confirmed, queue, worker, effects>>

-----------------------------------------------------------------------------
(***************************************************************************)
(* The relay.                                                              *)
(***************************************************************************)

Locked(r) == sent[r] \cup todo[r]

lockedRows == UNION {Locked(r) : r \in Relays}

transitional_outbox_pending_clause(e) == e \notin published_at /\ e \notin processed_at

\* The previous image filters on the one column it knows.
legacy_pending_clause(e) == e \notin processed_at

pending(r, e) ==
    IF r \in OldRelays THEN legacy_pending_clause(e)
                       ELSE transitional_outbox_pending_clause(e)

\* SELECT ... ORDER BY created_at, id LIMIT batch_size FOR UPDATE SKIP LOCKED: the
\* first rows in that order, as many as there are or as the limit allows.
SelectBatch(r) ==
    LET free == {e \in rows \ lockedRows : pending(r, e)} IN
    /\ Locked(r) = {} /\ adrift[r] = {}
    /\ \E batch \in SUBSET free :
          /\ batch # {}
          /\ \A e \in batch, f \in free \ batch : e < f
          /\ Cardinality(batch) = Min({BatchSize, Cardinality(free)})
          /\ todo' = [todo EXCEPT ![r] = batch]
    /\ UNCHANGED <<outbox, sent, adrift, confirmed, queue, worker, effects, muted>>

\* One more copy, up to the bound; the copies workers hold are not counted.
Enqueue(e) == queue' = [queue EXCEPT ![e] = Min({@ + 1, MaxCopies})]

\* publisher.publish returns for the next row: the broker has the message.
PublishNext(r) ==
    /\ \E e \in todo[r] :
          /\ \A f \in todo[r] : e <= f
          /\ todo' = [todo EXCEPT ![r] = @ \ {e}]
          /\ sent' = [sent EXCEPT ![r] = @ \cup {e}]
          /\ Enqueue(e)
          /\ confirmed' = confirmed \cup {e}
    /\ UNCHANGED <<outbox, adrift, worker, effects, muted>>

\* Mutant: the rename is not dual-written.
mark_outbox_published_once(r) ==
    /\ published_at' = IF r \in OldRelays THEN published_at ELSE published_at \cup sent[r]
    /\ processed_at' = IF r \in OldRelays THEN processed_at \cup sent[r] ELSE processed_at

\* Both columns; the previous image writes its own only.
mark_outbox_published(r) ==
    /\ published_at' = IF r \in OldRelays THEN published_at ELSE published_at \cup sent[r]
    /\ processed_at' = processed_at \cup sent[r]

EndBatch(r) ==
    /\ todo' = [todo EXCEPT ![r] = {}]
    /\ sent' = [sent EXCEPT ![r] = {}]
    /\ adrift' = [adrift EXCEPT ![r] = {}]
    /\ UNCHANGED <<rows, confirmed, queue, worker, effects, muted>>

\* The caller commits once the whole batch is published.
CommitBatch(r) ==
    /\ todo[r] = {} /\ sent[r] # {}
    /\ mark_outbox_published(r)
    /\ EndBatch(r)

\* publish raises, the relay dies or its commit fails: no row is marked.
RelayFails(r) ==
    /\ Locked(r) # {} \/ adrift[r] # {}
    /\ UNCHANGED <<published_at, processed_at>>
    /\ EndBatch(r)

\* The connection is lost in the middle of a batch: PostgreSQL frees the rows, and
\* the loop goes on with them.
RelayLosesConnection(r) ==
    /\ r \in Fragile
    /\ todo[r] # {}
    /\ adrift' = [adrift EXCEPT ![r] = todo[r]]
    /\ todo' = [todo EXCEPT ![r] = {}]
    /\ sent' = [sent EXCEPT ![r] = {}]
    /\ UNCHANGED <<outbox, confirmed, queue, worker, effects, muted>>

\* publisher.publish returns for a row that is no longer locked.  After the last
\* one COMMIT fails, and nothing is left of the batch.
PublishAdrift(r) ==
    /\ \E e \in adrift[r] :
          /\ \A f \in adrift[r] : e <= f
          /\ adrift' = [adrift EXCEPT ![r] = @ \ {e}]
          /\ Enqueue(e)
          /\ confirmed' = confirmed \cup {e}
    /\ UNCHANGED <<outbox, todo, sent, worker, effects, muted>>

-----------------------------------------------------------------------------
(***************************************************************************)
(* The worker.                                                             *)
(***************************************************************************)

Goto(w, s) == stage' = [stage EXCEPT ![w] = s]

Deliver(w, e) ==
    /\ stage[w] = "idle"
    /\ queue[e] > 0
    /\ queue' = [queue EXCEPT ![e] = @ - 1]
    /\ job' = [job EXCEPT ![w] = e]
    /\ Goto(w, "started")
    /\ UNCHANGED <<outbox, relay, confirmed, outcome, effects, muted>>

\* Mutant: a claim that does not wait for another transaction's.
ClaimPending_unseen(w) == FALSE

\* The inbox key is in the uncommitted rows of another worker.
ClaimPending(w) ==
    \E v \in Workers \ {w} : job[v] = job[w] /\ outcome[v] # None

Claimed(w) == notification[job[w]] # None

\* INSERT ... ON CONFLICT DO NOTHING into consumer_inbox, then the preference
\* decides the status of the notification.
Claim(w) ==
    LET e == job[w] IN
    /\ stage[w] = "started" /\ e \in Created
    /\ ~ClaimPending(w)
    /\ IF Claimed(w)
       THEN /\ Goto(w, "committed")
            /\ UNCHANGED outcome
       ELSE /\ Goto(w, IF e \in muted THEN "flushed" ELSE "sending")
            /\ outcome' = [outcome EXCEPT ![w] = IF e \in muted THEN "skipped" ELSE "pending"]
    /\ UNCHANGED <<outbox, relay, confirmed, queue, job, effects, muted>>

\* provider.send returns a receipt.
Send(w) ==
    /\ stage[w] = "sending"
    /\ accepted' = accepted \cup {job[w]}
    /\ outcome' = [outcome EXCEPT ![w] = "sent"]
    /\ Goto(w, "flushed")
    /\ UNCHANGED <<outbox, relay, confirmed, queue, job, notification, failed, muted>>

CommitJob(w) ==
    /\ stage[w] = "flushed"
    /\ notification' = [notification EXCEPT ![job[w]] = outcome[w]]
    /\ outcome' = [outcome EXCEPT ![w] = None]
    /\ Goto(w, "committed")
    /\ UNCHANGED <<outbox, relay, confirmed, queue, job, accepted, failed, muted>>

EndJob(w) ==
    /\ job' = [job EXCEPT ![w] = None]
    /\ outcome' = [outcome EXCEPT ![w] = None]
    /\ Goto(w, "idle")
    /\ UNCHANGED <<outbox, relay, confirmed, notification, muted>>

\* task_acks_late: the message leaves the broker after the commit.
Ack(w) ==
    /\ stage[w] = "committed"
    /\ EndJob(w)
    /\ UNCHANGED <<queue, accepted, failed>>

InJob(w) == stage[w] \in {"started", "sending", "flushed"}

\* ValueError for another event type.
Unsupported(w) ==
    /\ stage[w] = "started" /\ job[w] \notin Created
    /\ failed' = failed \cup {job[w]}
    /\ EndJob(w)
    /\ UNCHANGED <<queue, accepted>>

\* The database or the provider raises, or the hard time limit expires.  The
\* provider may have taken the message all the same.  A failed task is
\* acknowledged like a finished one, and nothing raises the one exception that
\* autoretry_for names.
Fail(w) ==
    /\ InJob(w)
    /\ Cardinality(failed \cap Created) < MaxFailures
    /\ failed' = failed \cup {job[w]}
    /\ accepted' \in {accepted, IF stage[w] = "sending" THEN accepted \cup {job[w]} ELSE accepted}
    /\ EndJob(w)
    /\ UNCHANGED queue

\* The connection is lost during the call of the provider: PostgreSQL takes back the
\* claim, and another job may have it.
JobLosesConnection(w) ==
    /\ w \in Fragile
    /\ stage[w] = "sending"
    /\ Cardinality(failed \cap Created) < MaxFailures
    /\ outcome' = [outcome EXCEPT ![w] = None]
    /\ Goto(w, "adrift")
    /\ UNCHANGED <<outbox, relay, confirmed, queue, job, effects, muted>>

\* provider.send raises, or it returns and the flush of its result fails.
SendAdrift(w) ==
    /\ stage[w] = "adrift"
    /\ accepted' \in {accepted, accepted \cup {job[w]}}
    /\ failed' = failed \cup {job[w]}
    /\ EndJob(w)
    /\ UNCHANGED queue

\* Mutant: early acknowledgement, a lost worker takes its message along.
WorkerLost_acked(w) ==
    /\ stage[w] # "idle"
    /\ EndJob(w)
    /\ UNCHANGED <<queue, accepted, failed>>

\* task_reject_on_worker_lost: the message goes back to the queue.
WorkerLost(w) ==
    /\ stage[w] # "idle"
    /\ Enqueue(job[w])
    /\ EndJob(w)
    /\ UNCHANGED <<accepted, failed>>

\* The visibility timeout of an unacknowledged message.
Redeliver(w) ==
    /\ stage[w] # "idle"
    /\ Enqueue(job[w])
    /\ UNCHANGED <<outbox, relay, confirmed, worker, effects, muted>>

-----------------------------------------------------------------------------
RelayStep(r) == SelectBatch(r) \/ PublishNext(r) \/ CommitBatch(r) \/ PublishAdrift(r)

JobStep(w) ==
    Claim(w) \/ Send(w) \/ CommitJob(w) \/ Ack(w) \/ Unsupported(w) \/ SendAdrift(w)

Next ==
    \/ \E e \in Events : Emit(e) \/ SetPreference(e)
    \/ \E r \in Relays : RelayStep(r) \/ RelayFails(r) \/ RelayLosesConnection(r)
    \/ \E w \in Workers :
        \/ JobStep(w) \/ Fail(w) \/ JobLosesConnection(w) \/ WorkerLost(w) \/ Redeliver(w)
        \/ \E e \in Events : Deliver(w, e)

Spec == Init /\ [][Next]_vars

\* As long as a relay can go on with its batch, or take one, some relay does; as
\* long as a worker can go on with its job, or take a message, some worker does.
\* Batches stop failing and workers stop dying; both may happen any number of times
\* before.
Fairness ==
    /\ WF_vars(\E r \in Relays : RelayStep(r))
    /\ WF_vars(\E w \in Workers : JobStep(w) \/ \E e \in Events : Deliver(w, e))
    /\ <>[][\A r \in Relays : ~RelayFails(r) /\ ~RelayLosesConnection(r)]_vars
    /\ <>[][\A w \in Workers : ~WorkerLost(w) /\ ~Redeliver(w)]_vars

FairSpec == Spec /\ Fairness

-----------------------------------------------------------------------------
\* Every variable holds values of its own shape.
TypeOK ==
    /\ rows \subseteq Events /\ published_at \subseteq rows /\ processed_at \subseteq rows
    /\ todo \in [Relays -> SUBSET Events] /\ sent \in [Relays -> SUBSET Events]
    /\ adrift \in [Relays -> SUBSET Events]
    /\ confirmed \subseteq rows
    /\ queue \in [Events -> 0..MaxCopies]
    /\ job \in [Workers -> Events \cup {None}]
    /\ stage \in [Workers -> {"idle", "started", "sending", "flushed", "committed",
                             "adrift"}]
    /\ outcome \in [Workers -> {"pending", "skipped", "sent", None}]
    /\ notification \in [Events -> {"skipped", "sent", None}]
    /\ muted \subseteq Created /\ accepted \subseteq Created /\ failed \subseteq Events

(***************************************************************************)
(* "mark only confirmed messages": a row either image regards as published *)
(* was accepted by the broker, whatever batch failed in between.           *)
(***************************************************************************)
MarkedWasConfirmed ==
    published_at \cup processed_at \subseteq confirmed

(***************************************************************************)
(* Dual read and dual write: once a batch with a row is committed by one   *)
(* image, no relay of either image publishes the row again in a batch that *)
(* it can commit.  (One that is adrift may: it cannot know.)               *)
(***************************************************************************)
NeverPublishedAgain ==
    [][\A r \in Relays :
        (sent'[r] \ sent[r]) \cap (published_at \cup processed_at) = {}]_vars

(***************************************************************************)
(* The inbox key is the concurrency boundary: of all jobs for a message at *)
(* most one has the claim, and none once the effect is committed.  A       *)
(* redelivery after the commit therefore never reaches the provider; only  *)
(* a job that has lost its claim with its connection may call it then.     *)
(***************************************************************************)
OneJobPastClaim ==
    \A v, w \in Workers :
        outcome[w] # None =>
            /\ notification[job[w]] = None
            /\ (v # w /\ outcome[v] # None) => job[v] # job[w]

\* A relay works on committed rows that no other relay holds and nobody has marked,
\* and publishes each of them once; what the previous image regards as published is
\* all that is.
RelaysFit ==
    /\ published_at \subseteq processed_at
    /\ \A r \in Relays :
          /\ Locked(r) \subseteq rows \ processed_at
          /\ adrift[r] \subseteq rows
          /\ sent[r] \subseteq confirmed
          /\ sent[r] \cap todo[r] = {}
    /\ \A q, r \in Relays : q # r => Locked(q) \cap Locked(r) = {}

\* A worker holds the event of a confirmed message; what it has written says how
\* far it is, and it is past its commit only when the effect is in the table.
JobsFit ==
    /\ \A w \in Workers :
          /\ job[w] = None <=> stage[w] = "idle"
          /\ outcome[w] # None <=> stage[w] \in {"sending", "flushed"}
          /\ stage[w] = "sending" => outcome[w] = "pending"
          /\ stage[w] = "flushed" => outcome[w] # "pending"
          /\ outcome[w] # None \/ stage[w] = "adrift" => job[w] \in Created
          /\ stage[w] = "committed" => notification[job[w]] # None
          /\ job[w] # None => job[w] \in confirmed
    /\ \A e \in Events : queue[e] > 0 => e \in confirmed

\* The provider has seen what the table, or a job about to commit, calls sent.
SentWasAccepted ==
    /\ \A e \in Events : notification[e] = "sent" => e \in accepted
    /\ \A w \in Workers : outcome[w] = "sent" => job[w] \in accepted

(***************************************************************************)
(* Only confirmed messages are marked, one job at most is past the claim   *)
(* of an event, and what the table calls sent was sent, at every point of  *)
(* both protocols.                                                         *)
(***************************************************************************)
IInv ==
    /\ TypeOK
    /\ MarkedWasConfirmed
    /\ OneJobPastClaim
    /\ RelaysFit
    /\ JobsFit
    /\ SentWasAccepted

(***************************************************************************)
(* Late acknowledgement: an event the relay has marked is not forgotten.   *)
(* It waits in the queue, is in a worker's hands, has its effect, or has   *)
(* ended in an error.                                                      *)
(***************************************************************************)
MarkedIsNotForgotten ==
    \A e \in published_at \cup processed_at :
        \/ queue[e] > 0
        \/ \E w \in Workers : job[w] = e
        \/ notification[e] # None
        \/ e \in failed

(***************************************************************************)
(* Every committed outbox row is settled in the end, despite lost workers, *)
(* failed batches, lost connections and redeliveries: it has its           *)
(* notification or its job ended in an error.  Rows stay, so each is       *)
(* settled when again and again all of them are.                           *)
(***************************************************************************)
EveryEventSettles ==
    []<>(\A e \in rows : notification[e] # None \/ e \in failed)

(***************************************************************************)
(* What the code says elsewhere, and does not do.                          *)
(***************************************************************************)

\* worker.py, TransientNotificationError: "The same idempotent event may succeed
\* when attempted later."  One passing failure of provider or database does not
\* keep the customer from being notified.
OneFailureIsRetried ==
    \A e \in Created : e \in rows ~> notification[e] # None

\* notifications.py: "Claim, apply preference and record one provider result":
\* what the table calls skipped was not sent.
SkippedWasNotSent ==
    \A e \in Events : notification[e] = "skipped" => e \notin accepted
=============================================================================
