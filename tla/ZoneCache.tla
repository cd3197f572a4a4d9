------------------------------ MODULE ZoneCache ------------------------------
(***************************************************************************)
(* DeliveryZoneCacheAside (cache.py) for one zone over a Cache of which    *)
(* any operation may fail (RedisError), beside a writer that commits a new *)
(* version and then invalidates.  A get is cut at its awaits.              *)
(***************************************************************************)
EXTENDS Integers

CONSTANTS
    Readers,         \* gets in progress at once
    ttl,             \* in ticks
    MaxVersion,      \* bound on the writes
    Absent

VARIABLES
    version,         \* the committed version of the zone in PostgreSQL
    to_invalidate,   \* the writer has committed and not yet called invalidate
    entry,           \* Absent, or [value, age] of the cached payload
    reading,         \* reading[g]: "idle", "load" or "store"
    loaded,          \* loaded[g]: the version g has loaded
    served           \* served[g]: what g's latest get has returned

zones == <<version, to_invalidate, entry, reading, loaded, served>>

Corrupt == 0

ZonesInit ==
    /\ version = 1
    /\ to_invalidate = FALSE
    /\ entry = Absent
    /\ reading = [g \in Readers |-> "idle"]
    /\ loaded = [g \in Readers |-> 0]
    /\ served = [g \in Readers |-> 1]

Serve(g, v) ==
    /\ served' = [served EXCEPT ![g] = v]
    /\ reading' = [reading EXCEPT ![g] = "idle"]
    /\ loaded' = [loaded EXCEPT ![g] = 0]

\* Mutant: an entry is served until something replaces it.
Fresh_forever(e) == TRUE

\* InMemoryTTLCache.get drops an expired entry; Redis does it by itself.
Fresh(e) == e.age < ttl

Hit == entry # Absent /\ Fresh(entry)

\* cache.get: a valid hit is returned, a payload that does not validate is
\* deleted (if the cache lets it), a miss or a RedisError leads to the loader.
Get(g) ==
    /\ reading[g] = "idle"
    /\ \/ /\ Hit /\ entry.value # Corrupt
          /\ Serve(g, entry.value)
          /\ UNCHANGED entry
       \/ /\ reading' = [reading EXCEPT ![g] = "load"]
          /\ \/ ~Hit /\ entry' = Absent
             \/ Hit /\ entry.value = Corrupt /\ entry' = Absent
             \/ UNCHANGED entry
          /\ UNCHANGED <<loaded, served>>
    /\ UNCHANGED <<version, to_invalidate>>

\* load_from_postgres
Load(g) ==
    /\ reading[g] = "load"
    /\ reading' = [reading EXCEPT ![g] = "store"]
    /\ loaded' = [loaded EXCEPT ![g] = version]
    /\ UNCHANGED <<version, to_invalidate, entry, served>>

\* The loader's error propagates.
LoadFails(g) ==
    /\ reading[g] = "load"
    /\ reading' = [reading EXCEPT ![g] = "idle"]
    /\ UNCHANGED <<version, to_invalidate, entry, loaded, served>>

\* cache.set, whose RedisError does not change the result.
Store(g) ==
    /\ reading[g] = "store"
    /\ entry' = [value |-> loaded[g], age |-> 0] \/ UNCHANGED entry
    /\ Serve(g, loaded[g])
    /\ UNCHANGED <<version, to_invalidate>>

\* The source-of-truth transaction commits.
Write ==
    /\ version < MaxVersion /\ ~to_invalidate
    /\ version' = version + 1
    /\ to_invalidate' = TRUE
    /\ UNCHANGED <<entry, reading, loaded, served>>

\* invalidate, best effort; or the process dies before it.
invalidate ==
    /\ to_invalidate
    /\ to_invalidate' = FALSE
    /\ entry' = Absent \/ UNCHANGED entry
    /\ UNCHANGED <<version, reading, loaded, served>>

\* An entry written under another schema is found in the cache.
Garble ==
    /\ entry # Absent
    /\ entry' = [entry EXCEPT !.value = Corrupt]
    /\ UNCHANGED <<version, to_invalidate, reading, loaded, served>>

Age ==
    /\ entry # Absent /\ entry.age < ttl
    /\ entry' = [entry EXCEPT !.age = @ + 1]
    /\ UNCHANGED <<version, to_invalidate, reading, loaded, served>>

ZonesNext ==
    \/ \E g \in Readers : Get(g) \/ Load(g) \/ LoadFails(g) \/ Store(g)
    \/ Write \/ invalidate \/ Garble \/ Age

\* Time passes and gets keep coming; the loader answers now and then.
ZonesFairness ==
    /\ WF_zones(Age)
    /\ \A g \in Readers :
        /\ WF_zones(Get(g)) /\ WF_zones(Store(g)) /\ WF_zones(Load(g) \/ LoadFails(g))
        /\ SF_zones(Load(g))

-----------------------------------------------------------------------------
(***************************************************************************)
(* "correctness never depends on Redis": when the zone changes no more,    *)
(* every reader comes to the current version and stays there, although an  *)
(* invalidation may be lost and a slow get may store the version it loaded *)
(* before the change after the invalidation.  The ttl does it.             *)
(***************************************************************************)
StaleHeals == <>[](\A g \in Readers : served[g] = version)
=============================================================================
