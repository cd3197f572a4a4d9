------------------------------ MODULE MCBlocks ------------------------------
(***************************************************************************)
(* The building blocks that stand alone: the route lookup behind its       *)
(* breaker, the serializable retry, the zone cache and the Redis lease.    *)
(* They share no state; a behaviour is a behaviour of one of them, chosen  *)
(* at the start, while the others rest.                                    *)
(***************************************************************************)
EXTENDS RouteLookup, FiniteSets

CONSTANTS Calls, max_attempts, Readers, ttl, MaxVersion, Absent, Workers, Nobody, None

ASSUME BlocksAssumption ==
    /\ IsFiniteSet(Calls) /\ ttl \in Nat \ {0}
    /\ Nobody \notin Workers
    /\ None \notin Nat /\ None \notin {"conflict", "connection"}

VARIABLES
    block,
    value, attempt, snapshot, outcome, error, applied,
    version, to_invalidate, entry, reading, loaded, served,
    holder, key_age, lease

S == INSTANCE Serializable
Z == INSTANCE ZoneCache
L == INSTANCE RedisLease

transactions == <<value, attempt, snapshot, outcome, error, applied>>
zones == <<version, to_invalidate, entry, reading, loaded, served>>
leases == <<holder, key_age, lease>>

all == <<block, lookup, transactions, zones, leases>>

MCInit ==
    /\ block \in {"route", "serializable", "zones", "lease"}
    /\ LookupInit /\ S!TransactionsInit /\ Z!ZonesInit /\ L!LeasesInit

MCNext ==
    \/ block = "route" /\ LookupNext
          /\ UNCHANGED <<block, transactions, zones, leases>>
    \/ block = "serializable" /\ S!TransactionsNext
          /\ UNCHANGED <<block, lookup, zones, leases>>
    \/ block = "zones" /\ Z!ZonesNext
          /\ UNCHANGED <<block, lookup, transactions, leases>>
    \/ block = "lease" /\ L!LeasesNext
          /\ UNCHANGED <<block, lookup, transactions, zones>>

MCSpec ==
    /\ MCInit
    /\ [][MCNext]_all
    /\ block = "route" => LookupFairness
    /\ block = "zones" => Z!ZonesFairness

-----------------------------------------------------------------------------
\* Once the provider stays healthy, lookups get through again and again (Recovers of
\* CircuitBreaker, for callers that retry).
LookupRecovers == block = "route" => Recovers

\* A retried transaction takes effect once when it returns, not at all when its last
\* attempt ends in a conflict, at most once when the connection is lost
\* (run_serializable).
TakesEffectOnce == S!TakesEffectOnce

\* A zone list that was stored after the zones had changed is gone in the end
\* (DeliveryZoneCacheAside.get).
StaleHeals == block = "zones" => Z!StaleHeals

\* Nobody gives back a lease that another worker holds (RedisLease.release).
LeaseIsKept == L!LeaseIsKept
=============================================================================
