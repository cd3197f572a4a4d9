----------------------------- MODULE WebhookInbox -----------------------------
(***************************************************************************)
(* What payment_webhook promises about event ids: InMemoryWebhookInbox     *)
(* (webhooks.py), whose accept is one step under its lock.  A delivery     *)
(* that is answered may be made again.                                     *)
(***************************************************************************)
CONSTANTS Deliveries, Ids, Bodies, None

VARIABLES
    records,    \* records[i]: the body stored under event id i, or None
    result      \* result[d]: what accept returned to delivery d, or None

inboxVars == <<records, result>>

\* WebhookEventConflict is "conflict".
Verdict(stored, b) ==
    IF stored = None THEN "accepted"
    ELSE IF stored = b THEN "duplicate" ELSE "conflict"

Init ==
    /\ records = [i \in Ids |-> None]
    /\ result = [d \in Deliveries |-> None]

accept(d, i, b) ==
    /\ result[d] = None
    /\ result' = [result EXCEPT ![d] = Verdict(records[i], b)]
    /\ records' = IF records[i] = None THEN [records EXCEPT ![i] = b] ELSE records

\* The response is sent or lost.
Finish(d) ==
    /\ result[d] # None
    /\ result' = [result EXCEPT ![d] = None]
    /\ UNCHANGED records

Next ==
    \E d \in Deliveries :
        \/ \E i \in Ids, b \in Bodies : accept(d, i, b)
        \/ Finish(d)

Spec == Init /\ [][Next]_inboxVars
=============================================================================
