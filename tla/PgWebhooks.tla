------------------------------ MODULE PgWebhooks ------------------------------
(***************************************************************************)
(* payment_webhook (main.py) over PostgreSQL: accept_payment_webhook_once  *)
(* (outbox.py) in a transaction of its own, committed before the audit     *)
(* record and the response.  The inbox claim and the outbox row are two    *)
(* statements; a claim waits for another transaction's claim of the same   *)
(* id.                                                                     *)
(*                                                                         *)
(* Size, signature, timestamp, content type and schema are checked before  *)
(* the first statement: a delivery they refuse changes nothing and does    *)
(* not appear.                                                             *)
(***************************************************************************)
CONSTANTS Deliveries, Ids, Bodies, None

VARIABLES
    inbox,      \* the committed keys of consumer_inbox
    outbox,     \* outbox[i]: the body of the committed payment.webhook.accepted row
    phase,      \* where delivery d stands
    event,      \* event[d]: its event id
    body,       \* body[d]: its durable payload, hash of the raw body included
    verdict,    \* verdict[d]: what accept_payment_webhook_once has decided for good
    told        \* told[i]: the bodies of i the provider has had a 202 for

tables == <<inbox, outbox>>
delivery == <<phase, event, body, verdict>>
vars == <<tables, delivery, told>>

Phases == {"idle", "claim", "insert", "flushed", "read", "decided"}

Init ==
    /\ inbox = {}
    /\ outbox = [i \in Ids |-> None]
    /\ phase = [d \in Deliveries |-> "idle"]
    /\ event = [d \in Deliveries |-> None]
    /\ body = [d \in Deliveries |-> None]
    /\ verdict = [d \in Deliveries |-> None]
    /\ told = [i \in Ids |-> {}]

Goto(d, p) == phase' = [phase EXCEPT ![d] = p]

Receive(d, i, b) ==
    /\ phase[d] = "idle"
    /\ Goto(d, "claim")
    /\ event' = [event EXCEPT ![d] = i]
    /\ body' = [body EXCEPT ![d] = b]
    /\ UNCHANGED <<tables, verdict, told>>

\* Mutant: the claim does not wait for another transaction's.
ClaimPending_unseen(d) == FALSE

\* The key is in the uncommitted rows of another transaction.
ClaimPending(d) ==
    \E c \in Deliveries \ {d} :
        event[c] = event[d] /\ phase[c] \in {"insert", "flushed"}

\* INSERT ... ON CONFLICT DO NOTHING RETURNING.
Claim(d) ==
    /\ phase[d] = "claim"
    /\ ~ClaimPending(d)
    /\ Goto(d, IF event[d] \in inbox THEN "read" ELSE "insert")
    /\ UNCHANGED <<tables, event, body, verdict, told>>

\* session.add and flush of the outbox row.
InsertOutbox(d) ==
    /\ phase[d] = "insert"
    /\ Goto(d, "flushed")
    /\ UNCHANGED <<tables, event, body, verdict, told>>

\* Mutant: the claim is committed without the work it stands for.
Commit_claimOnly(d) ==
    /\ phase[d] = "flushed"
    /\ inbox' = inbox \cup {event[d]}
    /\ verdict' = [verdict EXCEPT ![d] = "accepted"]
    /\ Goto(d, "decided")
    /\ UNCHANGED <<outbox, event, body, told>>

Commit(d) ==
    /\ phase[d] = "flushed"
    /\ inbox' = inbox \cup {event[d]}
    /\ outbox' = [outbox EXCEPT ![event[d]] = body[d]]
    /\ verdict' = [verdict EXCEPT ![d] = "accepted"]
    /\ Goto(d, "decided")
    /\ UNCHANGED <<event, body, told>>

\* The claim was taken: session.get of the outbox row and the comparison.
Compare(d) ==
    /\ phase[d] = "read"
    /\ verdict' = [verdict EXCEPT ![d] =
                    IF outbox[event[d]] = body[d] THEN "duplicate" ELSE "conflict"]
    /\ Goto(d, "decided")
    /\ UNCHANGED <<tables, event, body, told>>

EndDelivery(d) ==
    /\ Goto(d, "idle")
    /\ event' = [event EXCEPT ![d] = None]
    /\ body' = [body EXCEPT ![d] = None]
    /\ verdict' = [verdict EXCEPT ![d] = None]
    /\ UNCHANGED tables

\* 202 for "accepted" and "duplicate", 409 for "conflict".
Respond(d) ==
    /\ phase[d] = "decided"
    /\ told' = IF verdict[d] = "conflict" THEN told
               ELSE [told EXCEPT ![event[d]] = @ \cup {body[d]}]
    /\ EndDelivery(d)

\* The process dies, a statement or audit_trail.record raises, the provider hangs
\* up: no 202, and what was not committed is gone.
Abort(d) ==
    /\ phase[d] # "idle"
    /\ EndDelivery(d)
    /\ UNCHANGED told

Next ==
    \E d \in Deliveries :
        \/ \E i \in Ids, b \in Bodies : Receive(d, i, b)
        \/ Claim(d) \/ InsertOutbox(d) \/ Commit(d) \/ Compare(d)
        \/ Respond(d) \/ Abort(d)

Spec == Init /\ [][Next]_vars

-----------------------------------------------------------------------------
\* Every variable holds values of its own shape.
TypeOK ==
    /\ inbox \subseteq Ids
    /\ outbox \in [Ids -> Bodies \cup {None}]
    /\ phase \in [Deliveries -> Phases]
    /\ event \in [Deliveries -> Ids \cup {None}]
    /\ body \in [Deliveries -> Bodies \cup {None}]
    /\ verdict \in [Deliveries -> {"accepted", "duplicate", "conflict", None}]
    /\ told \in [Ids -> SUBSET Bodies]

(***************************************************************************)
(* "Persist an incoming event claim and outgoing work in one transaction": *)
(* an id is claimed exactly when its outgoing work is there.               *)
(***************************************************************************)
ClaimedHasWork == \A i \in Ids : i \in inbox <=> outbox[i] # None

(***************************************************************************)
(* A 202 is final: the body it was given for is the one in the outbox, so  *)
(* no two bodies of one event id are both acknowledged.                    *)
(***************************************************************************)
AcknowledgedIsStored == \A i \in Ids : told[i] \subseteq {outbox[i]}

(***************************************************************************)
(* The inductive invariant: a claim under way is exclusive and on an       *)
(* unclaimed id; a delivery that lost its claim reads a row that exists.   *)
(***************************************************************************)
ClaimsAgree ==
    /\ \A d \in Deliveries :
        /\ phase[d] = "idle" <=> event[d] = None
        /\ phase[d] = "idle" <=> body[d] = None
        /\ phase[d] = "decided" <=> verdict[d] # None
        /\ phase[d] \in {"insert", "flushed"} => event[d] \notin inbox
        /\ phase[d] = "read" => event[d] \in inbox
        /\ verdict[d] \in {"accepted", "duplicate"} => outbox[event[d]] = body[d]
    /\ \A c, d \in Deliveries :
        /\ phase[c] \in {"insert", "flushed"} /\ phase[d] \in {"insert", "flushed"}
        /\ event[c] = event[d]
        => c = d

\* What every statement, COMMIT and rollback of a delivery preserves.
IInv == TypeOK /\ ClaimedHasWork /\ ClaimsAgree /\ AcknowledgedIsStored

(***************************************************************************)
(* The transaction does what the development inbox does in one step.       *)
(***************************************************************************)
Inbox == INSTANCE WebhookInbox WITH records <- outbox, result <- verdict

\* accept_payment_webhook_once implements InMemoryWebhookInbox: its COMMIT, or the
\* comparison with the stored body, is accept; the end of the request is Finish.
ImplementsInbox == Inbox!Spec
=============================================================================
