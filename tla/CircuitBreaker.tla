---------------------------- MODULE CircuitBreaker ----------------------------
(***************************************************************************)
(* CircuitBreaker (retry_policy.py) and the calls RouteServiceAdapter      *)
(* makes through it (integrations.py).  Every method is one step under the *)
(* asyncio lock; a call is outstanding between acquire and the record of   *)
(* its outcome, while other callers come and go.                           *)
(***************************************************************************)
EXTENDS Integers

CONSTANTS
    Callers,
    failure_threshold

ASSUME BreakerAssumption == failure_threshold \in Nat \ {0}

VARIABLES
    state,
    consecutive_failures,
    opened_at,       \* "never", "recently", or "long ago": recovery_timeout is over
    probe_in_flight,
    permit,          \* permit[c]: "none", or the CircuitPermit of c's outstanding call
    healthy,         \* whether the provider answers
    escaped          \* whether a probe has ever ended without a report

breaker == <<state, consecutive_failures, opened_at, probe_in_flight>>
vars == <<breaker, permit, healthy, escaped>>

Init ==
    /\ state = "closed"
    /\ consecutive_failures = 0
    /\ opened_at = "never"
    /\ probe_in_flight = FALSE
    /\ permit = [c \in Callers |-> "none"]
    /\ healthy = TRUE
    /\ escaped = FALSE

\* Mutant: every caller after the timeout becomes a probe.
ProbeFree_always == TRUE

ProbeFree == ~probe_in_flight

\* acquire; a caller that gets CircuitOpenError sends nothing, but has moved an
\* open circuit whose timeout is over to half_open.
acquire(c) ==
    /\ permit[c] = "none"
    /\ IF state = "closed"
       THEN /\ permit' = [permit EXCEPT ![c] = "normal"]
            /\ UNCHANGED breaker
       ELSE /\ opened_at = "long ago"
            /\ state' = "half_open"
            /\ permit' = IF ProbeFree THEN [permit EXCEPT ![c] = "probe"] ELSE permit
            /\ probe_in_flight' = TRUE
            /\ UNCHANGED <<consecutive_failures, opened_at>>
    /\ UNCHANGED <<healthy, escaped>>

Return(c) ==
    permit' = [permit EXCEPT ![c] = "none"] /\ UNCHANGED <<healthy, escaped>>

\* A route, or a deterministic 400, 404 or 422.
record_success(c) ==
    /\ permit[c] # "none" /\ healthy
    /\ state' = "closed"
    /\ consecutive_failures' = 0
    /\ opened_at' = "never"
    /\ probe_in_flight' = (probe_in_flight /\ permit[c] # "probe")
    /\ Return(c)

_open_now == state' = "open" /\ opened_at' = "recently"

\* Counting stops at the threshold, which is all the code compares it with.
CountFailure ==
    consecutive_failures' =
        IF consecutive_failures < failure_threshold
        THEN consecutive_failures + 1 ELSE consecutive_failures

\* Deadline, timeout, transport error, invalid payload or another status.
record_failure(c) ==
    /\ permit[c] # "none"
    /\ IF permit[c] = "probe"
       THEN /\ probe_in_flight' = FALSE
            /\ _open_now
            /\ UNCHANGED consecutive_failures
       ELSE /\ CountFailure
            /\ IF consecutive_failures + 1 >= failure_threshold
               THEN _open_now ELSE UNCHANGED <<state, opened_at>>
            /\ UNCHANGED probe_in_flight
    /\ Return(c)

\* Mutant: a cancelled probe is not given back.
abandon_forgotten(c) ==
    /\ permit[c] # "none"
    /\ UNCHANGED breaker
    /\ Return(c)

\* The caller is cancelled.
abandon(c) ==
    /\ permit[c] # "none"
    /\ IF permit[c] = "probe"
       THEN /\ probe_in_flight' = FALSE
            /\ _open_now
            /\ UNCHANGED consecutive_failures
       ELSE UNCHANGED breaker
    /\ Return(c)

\* An exception no clause of estimate names leaves the permit unreported.
Escape(c) ==
    /\ permit[c] # "none"
    /\ escaped' = (escaped \/ permit[c] = "probe")
    /\ permit' = [permit EXCEPT ![c] = "none"]
    /\ UNCHANGED <<breaker, healthy>>

\* recovery_timeout has passed since _open_now.
Elapse ==
    /\ opened_at = "recently"
    /\ opened_at' = "long ago"
    /\ UNCHANGED <<state, consecutive_failures, probe_in_flight, permit, healthy, escaped>>

\* The provider goes down or comes back.
Flip == healthy' = ~healthy /\ UNCHANGED <<breaker, permit, escaped>>

Next ==
    \/ \E c \in Callers :
        acquire(c) \/ record_success(c) \/ record_failure(c) \/ abandon(c) \/ Escape(c)
    \/ Elapse
    \/ Flip

Spec == Init /\ [][Next]_vars

-----------------------------------------------------------------------------
\* Every variable holds values of its own shape.
TypeOK ==
    /\ state \in {"closed", "open", "half_open"}
    /\ consecutive_failures \in 0..failure_threshold
    /\ opened_at \in {"never", "recently", "long ago"}
    /\ probe_in_flight \in BOOLEAN
    /\ permit \in [Callers -> {"none", "normal", "probe"}]
    /\ healthy \in BOOLEAN /\ escaped \in BOOLEAN

(***************************************************************************)
(* "reserve the single half-open probe": two probes are never out at once, *)
(* also when stale results of normal calls close and reopen the circuit    *)
(* meanwhile.                                                              *)
(***************************************************************************)
SingleProbe ==
    \A b, c \in Callers : permit[b] = "probe" /\ permit[c] = "probe" => b = c

(***************************************************************************)
(* The assertion in acquire: a circuit that is not closed knows since when *)
(* it is open, whichever reports race.                                     *)
(***************************************************************************)
OpenKnowsSince == (state # "closed") <=> (opened_at # "never")

\* A half-open circuit has its probe booked: no caller finds it half open and free.
HalfOpenIsBooked == state = "half_open" => probe_in_flight

(***************************************************************************)
(* A closed circuit is below the threshold, whichever outcomes arrive in   *)
(* whichever order; above it no call would be sent.                        *)
(***************************************************************************)
ClosedIsBelowThreshold == state = "closed" => consecutive_failures < failure_threshold

(***************************************************************************)
(* The booking is held by a caller that will report on it ("without        *)
(* leaving the circuit stuck"), unless an exception that estimate does not *)
(* list has ended a probe before.                                          *)
(***************************************************************************)
BookingIsHeld == probe_in_flight => escaped \/ \E c \in Callers : permit[c] = "probe"

(***************************************************************************)
(* The inductive invariant: what makes SingleProbe hold is that a probe    *)
(* permit out means probe_in_flight, which only that probe takes back.     *)
(***************************************************************************)
IInv ==
    /\ TypeOK /\ SingleProbe /\ OpenKnowsSince /\ HalfOpenIsBooked /\ ClosedIsBelowThreshold
    /\ BookingIsHeld
    /\ \A c \in Callers : permit[c] = "probe" => probe_in_flight

(***************************************************************************)
(* Once the provider is healthy for good, the circuit is closed again and  *)
(* again: no sequence of late failures and cancelled probes shuts it off,  *)
(* only a probe that ends without a report can.                            *)
(***************************************************************************)
Recovers == <>[]healthy /\ []~escaped => []<>(state = "closed")
=============================================================================
