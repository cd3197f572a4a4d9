----------------------------- MODULE RouteLookup -----------------------------
(***************************************************************************)
(* RouteServiceAdapter.estimate (integrations.py): one lookup holds one    *)
(* permit of the breaker and asks the provider up to attempts times        *)
(* (build_route_retrying) before it reports one outcome.                   *)
(***************************************************************************)
EXTENDS CircuitBreaker

CONSTANT attempts

ASSUME LookupAssumption == attempts \in Nat \ {0}

VARIABLES
    sent,            \* sent[c]: how many requests c has sent for its lookup
    failed           \* lookups in a row that have failed, up to failure_threshold

lookup == <<vars, sent, failed>>

LookupInit == Init /\ sent = [c \in Callers |-> 0] /\ failed = 0

Ended(c) == sent' = [sent EXCEPT ![c] = 0]

\* acquire, and the first request for a caller that got a permit.
Begin(c) ==
    /\ acquire(c)
    /\ sent' = [sent EXCEPT ![c] = IF permit'[c] = "none" THEN 0 ELSE 1]
    /\ UNCHANGED failed

\* Mutant: each request that fails is reported to the breaker.
Retry_reported(c) ==
    /\ sent[c] \in 1..(attempts - 1)
    /\ sent' = [sent EXCEPT ![c] = @ + 1]
    /\ record_failure(c)
    /\ UNCHANGED failed

\* A RETRYABLE_ROUTE_ERRORS of a request that is not the last is not reported.
Retry(c) ==
    /\ sent[c] \in 1..(attempts - 1)
    /\ sent' = [sent EXCEPT ![c] = @ + 1]
    /\ UNCHANGED <<vars, failed>>

\* A route, or the provider's deterministic refusal.
Answered(c) == record_success(c) /\ Ended(c) /\ failed' = 0

\* The last request failed, the failure is not retryable, or the deadline is over.
GivenUp(c) ==
    /\ record_failure(c)
    /\ Ended(c)
    /\ failed' = IF permit[c] = "normal" /\ failed < failure_threshold THEN failed + 1 ELSE failed

Cancelled(c) == abandon(c) /\ Ended(c) /\ UNCHANGED failed

Unlisted(c) == Escape(c) /\ Ended(c) /\ UNCHANGED failed

LookupNext ==
    \/ \E c \in Callers :
        \/ Begin(c) \/ Retry(c) \/ Answered(c) \/ GivenUp(c) \/ Cancelled(c) \/ Unlisted(c)
    \/ Elapse /\ UNCHANGED <<sent, failed>>
    \/ Flip /\ UNCHANGED <<sent, failed>>

LookupSpec == LookupInit /\ [][LookupNext]_lookup

\* Lookups keep coming and end (total_timeout_seconds); time passes; a healthy
\* provider does not have all its probes cancelled or time out.
LookupFairness ==
    /\ WF_lookup(Elapse /\ UNCHANGED <<sent, failed>>)
    /\ \A c \in Callers :
        /\ SF_lookup(Begin(c))
        /\ WF_lookup(Answered(c) \/ GivenUp(c) \/ Cancelled(c))
        /\ SF_lookup(permit[c] = "probe" /\ Answered(c))

-----------------------------------------------------------------------------
(***************************************************************************)
(* A lookup counts once however many requests it took: a closed circuit    *)
(* opens only when failure_threshold whole lookups have failed in a row,   *)
(* or on the report of a probe, which may be out although the late success *)
(* of an older lookup has closed the circuit.                              *)
(***************************************************************************)
OpensOnWholeLookups ==
    [][state = "closed" /\ state' = "open" =>
          \/ failed' = failure_threshold
          \/ \E c \in Callers : permit[c] = "probe" /\ permit'[c] = "none"]_lookup
=============================================================================
