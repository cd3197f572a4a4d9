----------------------------- MODULE MCWebhooks -----------------------------
(***************************************************************************)
(* PgWebhooks for TLC: three deliveries of two ids with two bodies.  Its   *)
(* names stand behind W, so that its theorems can be kept with those of    *)
(* the other building blocks.                                              *)
(***************************************************************************)
EXTENDS TLC

CONSTANTS Deliveries, Ids, Bodies, NoValue

ASSUME WebhookAssumption ==
    NoValue \notin Bodies \cup Ids \cup {"accepted", "duplicate", "conflict"}

VARIABLES inbox, outbox, phase, event, body, verdict, told

W == INSTANCE PgWebhooks WITH None <- NoValue

Symmetry == Permutations(Deliveries)

WebhookSpec == W!Spec

-----------------------------------------------------------------------------
\* What every statement, COMMIT and rollback of a delivery preserves: an id is claimed
\* exactly when its work is stored, a claim under way is exclusive, and a 202 was given
\* only for the stored body (accept_payment_webhook_once).
WebhooksFit == W!IInv

\* accept_payment_webhook_once implements InMemoryWebhookInbox: its COMMIT, or the
\* comparison with the stored body, is accept; the end of the request is Finish.
ImplementsInbox == W!ImplementsInbox
=============================================================================
