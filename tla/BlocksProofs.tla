---------------------------- MODULE BlocksProofs ----------------------------
(***************************************************************************)
(* The building blocks that stand alone: the circuit breaker and the       *)
(* lookups behind it, for any number of callers, any threshold and any     *)
(* number of attempts; the serializable retry, for any number of calls and *)
(* attempts; the Redis lease, for any number of workers and any ttl; the   *)
(* payment webhooks, for any number of deliveries, ids and bodies.         *)
(***************************************************************************)
EXTENDS MCBlocks, MCWebhooks, FiniteSetTheorems, TLAPS

\* The provers tried for a leaf, with the seconds each one has.
USE ZenonT(3), SMTT(40), ZenonT(40)

(***************************************************************************)
(* Arithmetic of the counter: zero is in its range and below the threshold *)
(* (record_success), and a count below the threshold may be increased      *)
(* (record_failure).                                                       *)
(***************************************************************************)
LEMMA CounterRange ==
    /\ failure_threshold \in Nat /\ 0 \in 0..failure_threshold /\ 0 < failure_threshold
    /\ \A n \in 0..failure_threshold :
        /\ n < failure_threshold => n + 1 \in 0..failure_threshold
        /\ ~(n + 1 >= failure_threshold) =>
              n < failure_threshold /\ n + 1 < failure_threshold
BY BreakerAssumption

(***************************************************************************)
(* A new breaker is closed, with no call out (CircuitBreaker.__init__).    *)
(***************************************************************************)
LEMMA BreakerInit == Init => IInv
<1> SUFFICES ASSUME Init PROVE IInv
  OBVIOUS
<1>1. TypeOK
  BY CounterRange DEF Init, TypeOK
<1>2. SingleProbe /\ OpenKnowsSince /\ HalfOpenIsBooked /\ BookingIsHeld
  BY DEF Init, SingleProbe, OpenKnowsSince, HalfOpenIsBooked, BookingIsHeld
<1>3. ClosedIsBelowThreshold
  BY CounterRange DEF Init, ClosedIsBelowThreshold
<1>4. \A c \in Callers : permit[c] = "probe" => probe_in_flight
  BY DEF Init
<1> QED
  BY <1>1, <1>2, <1>3, <1>4 DEF IInv

(***************************************************************************)
(* Every method of the breaker preserves the invariant, in any order.      *)
(***************************************************************************)
LEMMA BreakerStep == IInv /\ [Next]_vars => IInv'
<1> SUFFICES ASSUME IInv, [Next]_vars PROVE IInv'
  OBVIOUS
<1> USE CounterRange
        DEF IInv, TypeOK, SingleProbe, OpenKnowsSince, HalfOpenIsBooked,
            ClosedIsBelowThreshold, BookingIsHeld, breaker
<1>1. CASE UNCHANGED vars
  BY <1>1 DEF vars
<1>2. ASSUME NEW c \in Callers, acquire(c) PROVE IInv'
  <2>1. CASE state = "closed"
    BY <1>2, <2>1 DEF acquire
  <2>2. CASE state # "closed" /\ probe_in_flight
    BY <1>2, <2>2 DEF acquire, ProbeFree
  <2>3. CASE state # "closed" /\ ~probe_in_flight
    BY <1>2, <2>3 DEF acquire, ProbeFree
  <2> QED BY <2>1, <2>2, <2>3
<1>3. ASSUME NEW c \in Callers, record_success(c) PROVE IInv'
  <2>1. /\ state' = "closed" /\ consecutive_failures' = 0 /\ opened_at' = "never"
        /\ permit' = [permit EXCEPT ![c] = "none"]
        /\ healthy' = healthy /\ escaped' = escaped
    BY <1>3 DEF record_success, Return
  <2>2. probe_in_flight' \in BOOLEAN
    BY <1>3 DEF record_success
  <2>3. TypeOK' /\ OpenKnowsSince' /\ HalfOpenIsBooked' /\ ClosedIsBelowThreshold'
    BY <2>1, <2>2
  <2>4. SingleProbe'
    BY <2>1
  <2>5. ASSUME NEW b \in Callers, permit'[b] = "probe" PROVE probe_in_flight'
    <3>1. b # c /\ permit[b] = "probe"
      BY <2>1, <2>5
    <3>2. probe_in_flight /\ permit[c] # "probe"
      BY <3>1
    <3> QED BY <1>3, <3>2 DEF record_success
  <2>6. BookingIsHeld'
    BY <1>3, <2>1 DEF record_success
  <2> QED BY <2>3, <2>4, <2>5, <2>6
<1>4. ASSUME NEW c \in Callers, record_failure(c) PROVE IInv'
  <2>1. CASE permit[c] = "probe"
    BY <1>4, <2>1 DEF record_failure, Return, _open_now
  <2>2. CASE permit[c] # "probe"
    <3>1. permit' = [permit EXCEPT ![c] = "none"] /\ UNCHANGED <<healthy, escaped, probe_in_flight>>
      BY <1>4, <2>2 DEF record_failure, Return
    <3>2. consecutive_failures' \in 0..failure_threshold
      BY <1>4, <2>2 DEF record_failure, CountFailure
    <3>3. /\ state' \in {"closed", "open", "half_open"}
          /\ opened_at' \in {"never", "recently", "long ago"}
          /\ OpenKnowsSince' /\ HalfOpenIsBooked'
      BY <1>4, <2>2 DEF record_failure, _open_now
    <3>4. ClosedIsBelowThreshold'
      <4>1. CASE consecutive_failures + 1 >= failure_threshold
        BY <1>4, <2>2, <4>1 DEF record_failure, _open_now
      <4>2. CASE ~(consecutive_failures + 1 >= failure_threshold)
        <5>1. /\ consecutive_failures < failure_threshold
              /\ consecutive_failures + 1 < failure_threshold
          BY <4>2
        <5>2. consecutive_failures' = consecutive_failures + 1
          BY <1>4, <2>2, <5>1 DEF record_failure, CountFailure
        <5> QED BY <5>1, <5>2
      <4> QED BY <4>1, <4>2
    <3>5. BookingIsHeld'
      BY <2>2, <3>1
    <3> QED BY <3>1, <3>2, <3>3, <3>4, <3>5
  <2> QED BY <2>1, <2>2
<1>5. ASSUME NEW c \in Callers, abandon(c) PROVE IInv'
  BY <1>5 DEF abandon, Return, _open_now
<1>6. ASSUME NEW c \in Callers, Escape(c) PROVE IInv'
  BY <1>6 DEF Escape
<1>7. CASE Elapse
  BY <1>7 DEF Elapse
<1>8. CASE Flip
  BY <1>8 DEF Flip
<1> QED
  BY <1>1, <1>2, <1>3, <1>4, <1>5, <1>6, <1>7, <1>8 DEF Next

(***************************************************************************)
(* IInv holds throughout.                                                  *)
(***************************************************************************)
THEOREM BreakerInvariant == Spec => []IInv
BY BreakerInit, BreakerStep, PTL DEF Spec

(***************************************************************************)
(* At most one recovery probe is out, however results arrive (acquire).    *)
(***************************************************************************)
THEOREM BreakerSingleProbe == Spec => []SingleProbe
BY BreakerInvariant, PTL DEF IInv

(***************************************************************************)
(* A closed breaker has counted fewer failures than failure_threshold.     *)
(***************************************************************************)
THEOREM BreakerClosedIsBelowThreshold == Spec => []ClosedIsBelowThreshold
BY BreakerInvariant, PTL DEF IInv

-----------------------------------------------------------------------------
(***************************************************************************)
(* A lookup uses the breaker only through its methods, and its retries are *)
(* invisible to it (estimate).                                             *)
(***************************************************************************)
LEMMA LookupStep == [LookupNext]_lookup => [Next]_vars
BY DEF LookupNext, lookup, Begin, Retry, Answered, GivenUp, Cancelled, Unlisted, Next

(***************************************************************************)
(* The route lookup implements the breaker's protocol: whatever is proved  *)
(* of the breaker holds with retries, deadlines and cancellations.         *)
(***************************************************************************)
THEOREM LookupImplementsBreaker == LookupSpec => Spec
<1>1. LookupInit => Init
  BY DEF LookupInit
<1> QED
  BY <1>1, LookupStep, PTL DEF LookupSpec, Spec

(***************************************************************************)
(* IInv holds throughout, with lookups of several requests.                *)
(***************************************************************************)
THEOREM LookupInvariant == LookupSpec => []IInv
BY LookupImplementsBreaker, BreakerInvariant, PTL

(***************************************************************************)
(* The breaker's counter is the number of whole lookups that have failed   *)
(* in a row (record_failure, record_success).                              *)
(***************************************************************************)
CountsLookups == failed = consecutive_failures

\* Every step of a lookup keeps the two counts equal.
LEMMA CountsLookupsStep ==
    IInv /\ CountsLookups /\ [LookupNext]_lookup => CountsLookups'
<1> SUFFICES ASSUME IInv, CountsLookups, [LookupNext]_lookup PROVE CountsLookups'
  OBVIOUS
<1> USE DEF CountsLookups, vars, breaker
<1>1. CASE UNCHANGED lookup
  BY <1>1 DEF lookup
<1>2. ASSUME NEW c \in Callers, Begin(c) PROVE CountsLookups'
  BY <1>2 DEF Begin, acquire
<1>3. ASSUME NEW c \in Callers, Retry(c) PROVE CountsLookups'
  BY <1>3 DEF Retry
<1>4. ASSUME NEW c \in Callers, Answered(c) PROVE CountsLookups'
  BY <1>4 DEF Answered, record_success
<1>5. ASSUME NEW c \in Callers, GivenUp(c) PROVE CountsLookups'
  BY <1>5 DEF GivenUp, record_failure, CountFailure, IInv, TypeOK
<1>6. ASSUME NEW c \in Callers, Cancelled(c) PROVE CountsLookups'
  BY <1>6 DEF Cancelled, abandon
<1>7. ASSUME NEW c \in Callers, Unlisted(c) PROVE CountsLookups'
  BY <1>7 DEF Unlisted, Escape
<1>8. CASE (Elapse \/ Flip) /\ UNCHANGED <<sent, failed>>
  BY <1>8 DEF Elapse, Flip
<1> QED
  BY <1>1, <1>2, <1>3, <1>4, <1>5, <1>6, <1>7, <1>8 DEF LookupNext

(***************************************************************************)
(* A closed circuit opens only on failure_threshold whole lookups failed   *)
(* in a row or on the report of a probe (record_failure, abandon).         *)
(***************************************************************************)
THEOREM LookupOpensOnWholeLookups == LookupSpec => OpensOnWholeLookups
<1> DEFINE Opens == state = "closed" /\ state' = "open" =>
              \/ failed' = failure_threshold
              \/ \E c \in Callers : permit[c] = "probe" /\ permit'[c] = "none"
<1>1. LookupInit => CountsLookups
  BY DEF LookupInit, Init, CountsLookups
<1>2. IInv /\ CountsLookups /\ [LookupNext]_lookup => [Opens]_lookup
  <2> SUFFICES ASSUME IInv, CountsLookups, LookupNext, state = "closed", state' = "open"
               PROVE  \/ failed' = failure_threshold
                      \/ \E c \in Callers : permit[c] = "probe" /\ permit'[c] = "none"
    OBVIOUS
  <2>1. PICK c \in Callers : GivenUp(c) \/ Cancelled(c)
    BY DEF LookupNext, Begin, acquire, Retry, Answered, record_success, Unlisted,
           Escape, Elapse, Flip, vars, breaker
  <2>2. CASE permit[c] = "probe"
    BY <2>1, <2>2 DEF GivenUp, record_failure, Cancelled, abandon, Return, IInv, TypeOK
  <2>3. CASE permit[c] # "probe"
    <3>1. GivenUp(c) /\ permit[c] = "normal"
      BY <2>1, <2>3 DEF GivenUp, record_failure, Cancelled, abandon, breaker, IInv, TypeOK
    <3>2. consecutive_failures + 1 >= failure_threshold
      BY <2>3, <3>1 DEF GivenUp, record_failure
    <3>3. /\ consecutive_failures \in 0..failure_threshold
          /\ consecutive_failures < failure_threshold
      BY Zenon DEF IInv, TypeOK, ClosedIsBelowThreshold
    <3>4. consecutive_failures + 1 = failure_threshold
      BY <3>2, <3>3, CounterRange
    <3>5. failed' = failed + 1
      BY <3>1, <3>3 DEF GivenUp, CountsLookups
    <3> QED
      BY <3>4, <3>5 DEF CountsLookups
  <2> QED
    BY <2>2, <2>3
<1> QED
  BY <1>1, <1>2, CountsLookupsStep, LookupInvariant, PTL
     DEF LookupSpec, OpensOnWholeLookups

-----------------------------------------------------------------------------
(***************************************************************************)
(* The Redis lease.                                                        *)
(***************************************************************************)

\* Every operation and every millisecond keeps a lease as old as its key.
LEMMA LeaseStep ==
    ASSUME L!LeaseFits, L!LeasesNext
    PROVE  L!LeaseFits'
<1> USE BlocksAssumption DEF L!LeaseFits
<1>1. ASSUME NEW w \in Workers, L!acquire(w) PROVE L!LeaseFits'
  <2>1. /\ holder = Nobody /\ holder' = w /\ key_age' = 0
        /\ lease' = [lease EXCEPT ![w] = 0]
    BY <1>1 DEF L!acquire
  <2>2. \A v \in Workers : v # w => lease'[v] = lease[v]
    BY <2>1
  <2>3. \A v \in Workers : ~(lease[v] # None /\ lease[v] < ttl)
    BY <2>1
  <2> QED
    BY <2>1, <2>2, <2>3
<1>2. ASSUME NEW w \in Workers, L!release(w) PROVE L!LeaseFits'
  <2>1. lease' = [lease EXCEPT ![w] = None] /\ lease'[w] = None
        /\ \A v \in Workers : v # w => lease'[v] = lease[v]
    BY <1>2 DEF L!release
  <2>2. CASE holder = w
    BY <1>2, <2>1, <2>2 DEF L!release, L!Owner
  <2>3. CASE holder # w
    BY <1>2, <2>1, <2>3 DEF L!release, L!Owner
  <2> QED
    BY <2>2, <2>3
<1>3. ASSUME NEW w \in Workers, L!Die(w) PROVE L!LeaseFits'
  <2>1. lease' = [lease EXCEPT ![w] = None] /\ lease'[w] = None
        /\ \A v \in Workers : v # w => lease'[v] = lease[v]
    BY <1>3 DEF L!Die
  <2> QED
    BY <1>3, <2>1 DEF L!Die
<1>4. CASE L!Pass
  <2>1. lease' = [w \in Workers |->
           IF lease[w] = None \/ lease[w] = ttl THEN lease[w] ELSE lease[w] + 1]
    BY <1>4 DEF L!Pass
  <2>2. ASSUME NEW w \in Workers
        PROVE  /\ lease'[w] \in 0..ttl \cup {None}
               /\ lease'[w] # None /\ lease'[w] < ttl =>
                     holder = w /\ lease'[w] = key_age + 1
    <3>1. lease[w] \in 0..ttl \cup {None}
      OBVIOUS
    <3>2. lease'[w] = IF lease[w] = None \/ lease[w] = ttl THEN lease[w] ELSE lease[w] + 1
      BY <2>1
    <3>3. CASE lease[w] = None \/ lease[w] = ttl
      BY <3>1, <3>2, <3>3
    <3>4. CASE lease[w] # None /\ lease[w] # ttl
      BY <3>1, <3>2, <3>4
    <3> QED
      BY <3>3, <3>4
  <2>3. lease' \in [Workers -> 0..ttl \cup {None}]
    BY <2>1, <2>2
  <2>4. CASE key_age + 1 = ttl
    <3>1. holder' = Nobody /\ key_age' = 0
      BY <1>4, <2>4 DEF L!Pass
    <3>2. \A w \in Workers : ~(lease'[w] # None /\ lease'[w] < ttl)
      BY <2>2, <2>4
    <3> QED
      BY <2>3, <3>1, <3>2
  <2>5. CASE key_age + 1 # ttl
    <3>1. holder' = holder /\ key_age' = key_age + 1
      BY <1>4, <2>5 DEF L!Pass
    <3> QED
      BY <2>2, <2>3, <2>5, <3>1
  <2> QED
    BY <2>4, <2>5
<1> QED
  BY <1>1, <1>2, <1>3, <1>4 DEF L!LeasesNext

(***************************************************************************)
(* No two workers work under one key at once, also when a holder that was  *)
(* paused beyond its lease releases it late (RedisLease.release), for      *)
(* every ttl and every number of workers.                                  *)
(***************************************************************************)
THEOREM LeaseIsAlwaysKept == MCSpec => []LeaseIsKept
<1>1. MCInit => L!LeaseFits
  BY BlocksAssumption DEF MCInit, L!LeasesInit, L!LeaseFits
<1>2. L!LeaseFits /\ [MCNext]_all => L!LeaseFits'
  <2>1. L!LeaseFits /\ UNCHANGED leases => L!LeaseFits'
    BY DEF leases, L!LeaseFits
  <2> QED
    BY <2>1, LeaseStep DEF MCNext, all
<1>3. L!LeaseFits => LeaseIsKept
  BY DEF L!LeaseFits, LeaseIsKept, L!LeaseIsKept
<1> QED
  BY <1>1, <1>2, <1>3, PTL DEF MCSpec

-----------------------------------------------------------------------------
(***************************************************************************)
(* The serializable retry.                                                 *)
(***************************************************************************)
Counted == value = Cardinality({c \in Calls : applied[c] = 1})

CallsInv == S!CallsFit /\ Counted /\ \A c \in Calls : error[c] = "conflict" => applied[c] = 0

\* An effect of a call that has had none raises the row by one.
LEMMA EffectCounts ==
    ASSUME CallsInv, NEW c \in Calls, snapshot[c] = value, applied[c] = 0, S!Effect(c)
    PROVE  /\ Counted' /\ value' \in Nat /\ applied' = [applied EXCEPT ![c] = 1]
           /\ applied' \in [Calls -> {0, 1}]
<1> DEFINE A == {x \in Calls : applied[x] = 1}
<1>1. value' = value + 1 /\ applied' = [applied EXCEPT ![c] = 1] /\ value \in Nat
      /\ applied \in [Calls -> {0, 1}]
  BY DEF S!Effect, CallsInv, S!CallsFit
<1>2. {x \in Calls : applied'[x] = 1} = A \cup {c} /\ c \notin A
  BY <1>1
<1>3. IsFiniteSet(A)
  BY BlocksAssumption, FS_Subset
<1>4. Cardinality(A \cup {c}) = Cardinality(A) + 1
  BY <1>2, <1>3, FS_AddElement
<1> QED
  BY <1>1, <1>2, <1>4 DEF CallsInv, Counted

\* The except clause ends the attempt or the call.
LEMMA ExceptEffect ==
    ASSUME S!CallsFit, NEW c \in Calls, NEW e \in {"conflict", "connection"}, S!Except(c, e)
    PROVE  /\ snapshot' = [snapshot EXCEPT ![c] = None]
           /\ \/ /\ outcome' = [outcome EXCEPT ![c] = "raised"]
                 /\ error' = [error EXCEPT ![c] = e]
              \/ e = "conflict" /\ UNCHANGED <<outcome, error>>
BY DEF S!Except, S!Retryable

\* Every step of every call keeps the count.
LEMMA CallsStep ==
    ASSUME CallsInv, S!TransactionsNext
    PROVE  CallsInv'
<1> USE DEF CallsInv
<1>1. PICK c \in Calls : S!Read(c) \/ S!Commit(c) \/ S!Conflict(c) \/ S!Disconnect(c)
  BY DEF S!TransactionsNext
<1>2. /\ value \in Nat /\ snapshot \in [Calls -> Nat \cup {None}]
      /\ outcome \in [Calls -> {"running", "returned", "raised"}]
      /\ error \in [Calls -> {None, "conflict", "connection"}]
      /\ applied \in [Calls -> {0, 1}]
      /\ None \notin {"conflict", "connection"} /\ value # None
  BY BlocksAssumption DEF S!CallsFit
<1>3. \A x \in Calls :
         /\ snapshot[x] # None => outcome[x] = "running"
         /\ outcome[x] = "running" => applied[x] = 0 /\ error[x] = None
         /\ outcome[x] = "returned" => applied[x] = 1 /\ error[x] = None
  BY DEF S!CallsFit
<1>4. CASE S!Read(c)
  <2>1. /\ outcome[c] = "running" /\ snapshot' = [snapshot EXCEPT ![c] = value]
        /\ UNCHANGED <<value, outcome, error, applied>>
    BY <1>4 DEF S!Read
  <2>2. S!CallsFit'
    BY <1>2, <1>3, <2>1 DEF S!CallsFit
  <2> QED
    BY <2>1, <2>2 DEF Counted
<1>5. CASE S!Commit(c)
  <2>1. /\ snapshot[c] # None /\ snapshot[c] = value /\ S!Effect(c)
        /\ snapshot' = [snapshot EXCEPT ![c] = None]
        /\ outcome' = [outcome EXCEPT ![c] = "returned"] /\ UNCHANGED error
    BY <1>5 DEF S!Commit
  <2>2. outcome[c] = "running" /\ applied[c] = 0 /\ error[c] = None
    BY <1>3, <2>1
  <2>3. /\ Counted' /\ value' \in Nat /\ applied' = [applied EXCEPT ![c] = 1]
        /\ applied' \in [Calls -> {0, 1}]
    BY <2>1, <2>2, EffectCounts
  <2>4. S!CallsFit'
    BY <1>2, <1>3, <2>1, <2>2, <2>3 DEF S!CallsFit
  <2> QED
    BY <1>2, <2>1, <2>2, <2>3, <2>4
<1>6. CASE S!Conflict(c)
  <2>1. snapshot[c] # None /\ S!Except(c, "conflict") /\ UNCHANGED <<value, applied>>
    BY <1>6 DEF S!Conflict
  <2>2. outcome[c] = "running" /\ applied[c] = 0 /\ error[c] = None
    BY <1>3, <2>1
  <2>3. /\ snapshot' = [snapshot EXCEPT ![c] = None]
        /\ \/ /\ outcome' = [outcome EXCEPT ![c] = "raised"]
              /\ error' = [error EXCEPT ![c] = "conflict"]
           \/ UNCHANGED <<outcome, error>>
    BY <2>1, ExceptEffect
  <2>4. S!CallsFit'
    <3>1. /\ value' \in Nat /\ snapshot' \in [Calls -> Nat \cup {None}]
          /\ outcome' \in [Calls -> {"running", "returned", "raised"}]
          /\ error' \in [Calls -> {None, "conflict", "connection"}]
          /\ applied' \in [Calls -> {0, 1}]
      BY <1>2, <2>1, <2>3 DEF S!CallsFit
    <3>2. ASSUME NEW x \in Calls
          PROVE  /\ snapshot'[x] # None => outcome'[x] = "running"
                 /\ outcome'[x] = "running" => applied'[x] = 0 /\ error'[x] = None
                 /\ outcome'[x] = "returned" => applied'[x] = 1 /\ error'[x] = None
      BY <1>2, <1>3, <2>1, <2>2, <2>3 DEF S!CallsFit
    <3> QED
      BY <3>1, <3>2 DEF S!CallsFit
  <2>5. \A x \in Calls : error'[x] = "conflict" => applied'[x] = 0
    BY <1>2, <2>1, <2>2, <2>3
  <2> QED
    BY <2>1, <2>4, <2>5 DEF Counted
<1>7. CASE S!Disconnect(c)
  <2>1. /\ outcome[c] = "running" /\ S!Except(c, "connection")
        /\ (snapshot[c] = value /\ S!Effect(c)) \/ UNCHANGED <<value, applied>>
    BY <1>7 DEF S!Disconnect
  <2>2. outcome[c] = "running" /\ applied[c] = 0 /\ error[c] = None
    BY <1>3, <2>1
  <2>3. /\ snapshot' = [snapshot EXCEPT ![c] = None]
        /\ outcome' = [outcome EXCEPT ![c] = "raised"]
        /\ error' = [error EXCEPT ![c] = "connection"]
    BY <2>1, ExceptEffect
  <2>4. /\ Counted' /\ value' \in Nat /\ applied' \in [Calls -> {0, 1}]
        /\ \A x \in Calls : x # c => applied'[x] = applied[x]
    <3>1. CASE snapshot[c] = value /\ S!Effect(c)
      BY <1>2, <2>2, <3>1, EffectCounts
    <3>2. CASE UNCHANGED <<value, applied>>
      BY <1>2, <3>2 DEF Counted
    <3> QED
      BY <2>1, <3>1, <3>2
  <2>5. S!CallsFit'
    BY <1>2, <1>3, <2>3, <2>4 DEF S!CallsFit
  <2>6. \A x \in Calls : error'[x] = "conflict" => applied'[x] = 0
    BY <1>2, <2>3, <2>4
  <2> QED
    BY <2>4, <2>5, <2>6
<1> QED
  BY <1>1, <1>4, <1>5, <1>6, <1>7

(***************************************************************************)
(* A retried transaction takes effect once when it returns, not at all     *)
(* when its last attempt ends in a conflict and at most once when the      *)
(* connection is lost, and no effect is lost (run_serializable), for every *)
(* number of concurrent calls and every number of attempts.                *)
(***************************************************************************)
THEOREM CallsTakeEffectOnce == MCSpec => []TakesEffectOnce
<1>1. MCInit => CallsInv
  <2> SUFFICES ASSUME MCInit PROVE CallsInv
    OBVIOUS
  <2>1. S!CallsFit /\ \A c \in Calls : error[c] = "conflict" => applied[c] = 0
    BY BlocksAssumption DEF MCInit, S!TransactionsInit, S!CallsFit
  <2>2. Counted
    <3>1. {c \in Calls : applied[c] = 1} = {} /\ value = 0
      BY DEF MCInit, S!TransactionsInit
    <3> QED
      BY <3>1, FS_EmptySet DEF Counted
  <2> QED
    BY <2>1, <2>2 DEF CallsInv
<1>2. CallsInv /\ [MCNext]_all => CallsInv'
  <2>1. CallsInv /\ UNCHANGED transactions => CallsInv'
    BY DEF transactions, CallsInv, S!CallsFit, Counted
  <2> QED
    BY <2>1, CallsStep DEF MCNext, all
<1>3. CallsInv => TakesEffectOnce
  <2> SUFFICES ASSUME CallsInv PROVE TakesEffectOnce
    OBVIOUS
  <2>1. \A c \in Calls : applied[c] \in {0, 1}
    BY DEF CallsInv, S!CallsFit
  <2>2. \A c \in Calls :
           /\ applied[c] <= 1
           /\ outcome[c] = "returned" => applied[c] = 1
           /\ error[c] = "conflict" => applied[c] = 0
    BY <2>1 DEF CallsInv, S!CallsFit
  <2>3. \A A : S!Cardinality(A) = Cardinality(A)
    BY DEF S!Cardinality, Cardinality
  <2>4. value = S!Cardinality({c \in Calls : applied[c] = 1})
    BY <2>3 DEF CallsInv, Counted
  <2> QED
    BY <2>2, <2>4 DEF TakesEffectOnce, S!TakesEffectOnce
<1> QED
  BY <1>1, <1>2, <1>3, PTL DEF MCSpec

-----------------------------------------------------------------------------
(***************************************************************************)
(* payment_webhook over PostgreSQL, for any number of deliveries, ids and  *)
(* bodies: the inductive invariant, and that the transaction implements    *)
(* the atomic inbox.                                                       *)
(***************************************************************************)
(***************************************************************************)
(* The tables are empty and no delivery is under way (Init).               *)
(***************************************************************************)
LEMMA WebhookInit == W!Init => W!IInv
BY WebhookAssumption DEF W!Init, W!IInv, W!TypeOK, W!ClaimedHasWork, W!ClaimsAgree,
       W!AcknowledgedIsStored, W!Phases

(***************************************************************************)
(* No step of payment_webhook breaks the invariant: a claim is taken only  *)
(* when nobody holds or has committed it, and the commit writes the claim  *)
(* and the work together.                                                  *)
(***************************************************************************)
LEMMA WebhookStep == W!IInv /\ [W!Next]_(W!vars) => W!IInv'
<1> SUFFICES ASSUME W!IInv, [W!Next]_(W!vars) PROVE W!IInv'
  OBVIOUS
<1> USE WebhookAssumption DEF W!IInv, W!TypeOK, W!ClaimedHasWork, W!ClaimsAgree,
            W!AcknowledgedIsStored, W!Phases, W!tables, W!Goto
<1>1. CASE UNCHANGED W!vars
  BY <1>1 DEF W!vars, W!delivery
<1>2. ASSUME NEW d \in Deliveries, NEW i \in Ids, NEW b \in Bodies, W!Receive(d, i, b)
      PROVE  W!IInv'
  BY <1>2 DEF W!Receive
<1>3. ASSUME NEW d \in Deliveries, W!Claim(d) PROVE W!IInv'
  BY <1>3 DEF W!Claim, W!ClaimPending
<1>4. ASSUME NEW d \in Deliveries, W!InsertOutbox(d) PROVE W!IInv'
  BY <1>4 DEF W!InsertOutbox
<1>5. ASSUME NEW d \in Deliveries, W!Commit(d) PROVE W!IInv'
  <2>1. event[d] \in Ids /\ body[d] \in Bodies /\ event[d] \notin inbox
        /\ outbox[event[d]] = NoValue
    BY <1>5 DEF W!Commit
  <2>2. W!TypeOK' /\ W!ClaimedHasWork'
    BY <1>5, <2>1 DEF W!Commit
  <2>3. W!ClaimsAgree'
    BY <1>5, <2>1 DEF W!Commit
  <2>4. W!AcknowledgedIsStored'
    BY <1>5, <2>1 DEF W!Commit
  <2> QED BY <2>2, <2>3, <2>4
<1>6. ASSUME NEW d \in Deliveries, W!Compare(d) PROVE W!IInv'
  BY <1>6 DEF W!Compare
<1>7. ASSUME NEW d \in Deliveries, W!Respond(d) PROVE W!IInv'
  <2>1. event[d] \in Ids /\ body[d] \in Bodies
    BY <1>7 DEF W!Respond
  <2>2. verdict[d] # "conflict" => outbox[event[d]] = body[d]
    BY <1>7 DEF W!Respond
  <2>3. W!TypeOK'
    BY <1>7, <2>1 DEF W!Respond, W!EndDelivery
  <2>4. W!ClaimedHasWork' /\ W!ClaimsAgree'
    BY <1>7, <2>1 DEF W!Respond, W!EndDelivery
  <2>5. W!AcknowledgedIsStored'
    BY <1>7, <2>1, <2>2 DEF W!Respond, W!EndDelivery
  <2> QED BY <2>3, <2>4, <2>5
<1>8. ASSUME NEW d \in Deliveries, W!Abort(d) PROVE W!IInv'
  BY <1>8 DEF W!Abort, W!EndDelivery
<1> QED
  BY <1>1, <1>2, <1>3, <1>4, <1>5, <1>6, <1>7, <1>8 DEF W!Next

(***************************************************************************)
(* IInv holds throughout: in particular a claim and its work are committed *)
(* together, and every 202 was given for the stored body.                  *)
(***************************************************************************)
THEOREM WebhookInvariant == WebhookSpec => []WebhooksFit
BY WebhookInit, WebhookStep, PTL DEF WebhookSpec, W!Spec, WebhooksFit

(***************************************************************************)
(* No two bodies of one event id are ever acknowledged, and what is        *)
(* acknowledged is stored (payment_webhook, accept_payment_webhook_once).  *)
(***************************************************************************)
THEOREM WebhookAcknowledgedIsStored == WebhookSpec => []W!AcknowledgedIsStored
BY WebhookInvariant, PTL DEF WebhooksFit, W!IInv

(***************************************************************************)
(* The claim and the outgoing work exist together or not at all.           *)
(***************************************************************************)
THEOREM WebhookClaimedHasWork == WebhookSpec => []W!ClaimedHasWork
BY WebhookInvariant, PTL DEF WebhooksFit, W!IInv

(***************************************************************************)
(* Every step is accept or Finish of WebhookInbox, or changes neither the  *)
(* records nor a result.                                                   *)
(***************************************************************************)
LEMMA WebhookSimulates ==
    W!IInv /\ [W!Next]_(W!vars) => [W!Inbox!Next]_(W!Inbox!inboxVars)
<1> SUFFICES ASSUME W!IInv, [W!Next]_(W!vars) PROVE [W!Inbox!Next]_(W!Inbox!inboxVars)
  OBVIOUS
<1> USE DEF W!IInv, W!TypeOK, W!ClaimedHasWork, W!ClaimsAgree, W!tables, W!Inbox!inboxVars
<1>1. CASE UNCHANGED W!vars
  BY <1>1 DEF W!vars, W!delivery
<1>2. ASSUME NEW d \in Deliveries, NEW i \in Ids, NEW b \in Bodies, W!Receive(d, i, b)
      PROVE  UNCHANGED W!Inbox!inboxVars
  BY <1>2 DEF W!Receive
<1>3. ASSUME NEW d \in Deliveries, W!Claim(d) \/ W!InsertOutbox(d)
      PROVE  UNCHANGED W!Inbox!inboxVars
  BY <1>3 DEF W!Claim, W!InsertOutbox
<1>4. ASSUME NEW d \in Deliveries, W!Commit(d) PROVE W!Inbox!Next
  <2>1. event[d] \in Ids /\ body[d] \in Bodies
        /\ outbox[event[d]] = NoValue /\ verdict[d] = NoValue
    BY <1>4 DEF W!Commit
  <2>2. W!Inbox!accept(d, event[d], body[d])
    BY <1>4, <2>1 DEF W!Commit, W!Inbox!accept, W!Inbox!Verdict
  <2> QED BY <2>1, <2>2 DEF W!Inbox!Next
<1>5. ASSUME NEW d \in Deliveries, W!Compare(d) PROVE W!Inbox!Next
  <2>1. event[d] \in Ids /\ body[d] \in Bodies
        /\ outbox[event[d]] # NoValue /\ verdict[d] = NoValue
    BY <1>5 DEF W!Compare
  <2>2. W!Inbox!accept(d, event[d], body[d])
    BY <1>5, <2>1 DEF W!Compare, W!Inbox!accept, W!Inbox!Verdict
  <2> QED BY <2>1, <2>2 DEF W!Inbox!Next
<1>6. ASSUME NEW d \in Deliveries, W!Respond(d) \/ W!Abort(d)
      PROVE  [W!Inbox!Next]_(W!Inbox!inboxVars)
  <2>1. UNCHANGED outbox /\ verdict' = [verdict EXCEPT ![d] = NoValue]
    BY <1>6 DEF W!Respond, W!Abort, W!EndDelivery
  <2>2. CASE verdict[d] = NoValue
    BY <2>1, <2>2
  <2>3. CASE verdict[d] # NoValue
    BY <2>1, <2>3 DEF W!Inbox!Finish, W!Inbox!Next
  <2> QED BY <2>2, <2>3
<1> QED
  BY <1>1, <1>2, <1>3, <1>4, <1>5, <1>6 DEF W!Next

(***************************************************************************)
(* accept_payment_webhook_once behaves as InMemoryWebhookInbox.accept does *)
(* under its lock, whatever deliveries overlap or die.                     *)
(***************************************************************************)
THEOREM WebhookImplementsInbox == WebhookSpec => ImplementsInbox
<1>1. W!Init => W!Inbox!Init
  BY DEF W!Init, W!Inbox!Init
<1> QED
  BY <1>1, WebhookInvariant, WebhookSimulates, PTL
     DEF WebhookSpec, WebhooksFit, ImplementsInbox, W!Spec, W!ImplementsInbox, W!Inbox!Spec
=============================================================================
