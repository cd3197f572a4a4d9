---------------------------- MODULE MemoryRefresh ----------------------------
(***************************************************************************)
(* InMemoryRefreshSessionRepository: register and rotate hold the lock for *)
(* their whole body, so each is one step.                                  *)
(***************************************************************************)
EXTENDS RefreshSessions

register(j) ==
    /\ ~Registered(j)
    /\ sessions' = [sessions EXCEPT ![j] = fresh_session(j)]
    /\ UNCHANGED <<expired, reused>>

\* The branch of rotate that answers REUSED.
Reuse(j) ==
    /\ sessions' = [i \in Jtis |-> IF i \in Family(sessions[j].family)
                                   THEN revoked(sessions[i]) ELSE sessions[i]]
    /\ reused' = reused \cup {sessions[j].family}
    /\ UNCHANGED expired

\* Mutant: a spent session forgets its successor.
Rotated_unlinked(j, k) ==
    /\ sessions' = [sessions EXCEPT ![j] = spent(@, None),
                                    ![k] = fresh_session(sessions[j].family)]
    /\ UNCHANGED <<expired, reused>>

\* The branch of rotate that answers ROTATED.
Rotated(j, k) ==
    /\ sessions' = [sessions EXCEPT ![j] = spent(@, k),
                                    ![k] = fresh_session(sessions[j].family)]
    /\ UNCHANGED <<expired, reused>>

\* rotate of j with k as the replacement: the first check that applies wins.
\* An unknown j changes nothing and is left out.
rotate(j, k) ==
    /\ Registered(j)
    /\ IF IsReuse(sessions[j]) THEN Reuse(j)
       ELSE IF j \in expired
       THEN /\ sessions' = [sessions EXCEPT ![j] = revoked(@)]
            /\ UNCHANGED <<expired, reused>>
       ELSE ~Registered(k) /\ Rotated(j, k)   \* uuid4 is fresh

Next ==
    \/ \E j \in Jtis : register(j)
    \/ \E j, k \in Jtis : rotate(j, k)
    \/ \E j \in Jtis : Expire(j) /\ UNCHANGED <<sessions, reused>>

Spec == StoreInit /\ [][Next]_store
=============================================================================
