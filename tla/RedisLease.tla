----------------------------- MODULE RedisLease -----------------------------
(***************************************************************************)
(* RedisLease (cache.py): a key set with NX and PX, released by a script   *)
(* that compares the token.  A holder is not told when its lease runs out, *)
(* and may be paused beyond that.                                          *)
(***************************************************************************)
EXTENDS Integers

CONSTANTS
    Workers,
    ttl,             \* ttl_ms, in ticks
    Nobody

VARIABLES
    holder,          \* whose token the key holds, or Nobody
    key_age,         \* the age of the key
    lease            \* lease[w]: the age of w's lease object, or None if it has none

CONSTANT None

leases == <<holder, key_age, lease>>

LeasesInit ==
    /\ holder = Nobody
    /\ key_age = 0
    /\ lease = [w \in Workers |-> None]

\* SET key token NX PX ttl; a key that exists leaves acquire with None.
acquire(w) ==
    /\ lease[w] = None /\ holder = Nobody
    /\ holder' = w
    /\ key_age' = 0
    /\ lease' = [lease EXCEPT ![w] = 0]

\* Mutant: DEL without the comparison.
Owner_any(w) == TRUE

\* RELEASE_IF_OWNER: GET == token.
Owner(w) == holder = w

release(w) ==
    /\ lease[w] # None
    /\ lease' = [lease EXCEPT ![w] = None]
    /\ IF Owner(w) THEN holder' = Nobody /\ key_age' = 0 ELSE UNCHANGED <<holder, key_age>>

\* The worker dies; its key stays.
Die(w) ==
    /\ lease[w] # None
    /\ lease' = [lease EXCEPT ![w] = None]
    /\ UNCHANGED <<holder, key_age>>

\* A millisecond; Redis expires the key.
Pass ==
    /\ holder # Nobody
    /\ lease' = [w \in Workers |->
          IF lease[w] = None \/ lease[w] = ttl THEN lease[w] ELSE lease[w] + 1]
    /\ IF key_age + 1 = ttl
       THEN holder' = Nobody /\ key_age' = 0
       ELSE holder' = holder /\ key_age' = key_age + 1

LeasesNext == Pass \/ \E w \in Workers : acquire(w) \/ release(w) \/ Die(w)

-----------------------------------------------------------------------------
(***************************************************************************)
(* A worker whose lease has not run its time still holds the key, so no    *)
(* two of them work at once, also when an older holder that was paused     *)
(* beyond its lease releases it late.                                      *)
(***************************************************************************)
LeaseIsKept == \A w \in Workers : lease[w] # None /\ lease[w] < ttl => holder = w

\* The inductive invariant: such a lease is as old as the key.
LeaseFits ==
    /\ holder \in Workers \cup {Nobody}
    /\ key_age \in 0..(ttl - 1)
    /\ lease \in [Workers -> 0..ttl \cup {None}]
    /\ \A w \in Workers : lease[w] # None /\ lease[w] < ttl =>
          holder = w /\ lease[w] = key_age
=============================================================================
