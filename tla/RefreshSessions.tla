--------------------------- MODULE RefreshSessions ---------------------------
(***************************************************************************)
(* Refresh sessions: what both adapters of refresh_sessions.py share, and  *)
(* what a family of refresh tokens promises.                               *)
(*                                                                         *)
(* A family is named by the jti of the token the login issued.  Tokens are *)
(* signed, so the family and the subject claimed with a jti are those of   *)
(* its row: the two comparisons that answer INVALID otherwise are vacuous. *)
(***************************************************************************)
CONSTANTS
    Jtis,    \* token identifiers
    None

ASSUME JtisAssumption == None \notin Jtis

VARIABLES
    sessions,   \* refresh_session: jti -> row, None when there is no row
    expired,    \* the jtis whose expires_at has passed
    reused      \* the families of which a reuse has been answered

store == <<sessions, expired, reused>>

RefreshSession ==
    [family : Jtis, used : BOOLEAN, revoked : BOOLEAN, replacement : Jtis \cup {None}]

ASSUME NoSessionAssumption == None \notin RefreshSession

fresh_session(family) ==
    [family |-> family, used |-> FALSE, revoked |-> FALSE, replacement |-> None]

spent(session, replacement) ==
    [session EXCEPT !.used = TRUE, !.replacement = replacement]

revoked(session) == [session EXCEPT !.revoked = TRUE]

Registered(j) == sessions[j] # None
Family(f) == {j \in Jtis : Registered(j) /\ sessions[j].family = f}

\* A presented token that was spent or revoked before is a reuse.
IsReuse(session) == session.used \/ session.revoked

StoreInit ==
    /\ sessions = [j \in Jtis |-> None]
    /\ expired = {}
    /\ reused = {}

\* Time passes.
Expire(j) ==
    /\ Registered(j)
    /\ j \notin expired
    /\ expired' = expired \cup {j}

-----------------------------------------------------------------------------
\* Every variable holds values of its own shape.
StoreTypeOK ==
    /\ sessions \in [Jtis -> RefreshSession \cup {None}]
    /\ expired \subseteq Jtis
    /\ reused \subseteq Jtis

\* Of all sessions of a family at most one can still be rotated, however many
\* presentations of the same token race (rotate, one winner).
OneActivePerFamily ==
    \A i, j \in Jtis :
        /\ Registered(i) /\ ~IsReuse(sessions[i])
        /\ Registered(j) /\ ~IsReuse(sessions[j])
        /\ sessions[i].family = sessions[j].family
        => i = j

\* The sessions of a family are one unbroken line of which only the end can be
\* good: a spent session names its successor, no two name the same one, and every
\* session but the one of the login is the successor of a session of its family.
LineIsUnbroken ==
    /\ OneActivePerFamily
    /\ \A j \in Jtis :
          Registered(j) =>
              /\ sessions[j].used <=> sessions[j].replacement # None
              /\ sessions[j].used => sessions[j].replacement \in Family(sessions[j].family)
              /\ j # sessions[j].family =>
                     \E i \in Family(sessions[j].family) : sessions[i].replacement = j
    /\ \A i, j \in Jtis :
          /\ Registered(i) /\ Registered(j)
          /\ sessions[i].used /\ sessions[i].replacement = sessions[j].replacement
          => i = j

\* Once a reuse has been answered, no session of the family is good any more
\* (tests/security/test_refresh_tokens.py:98, "rejects_reuse_and_revokes_the_
\* active_family").
ReuseRevokesFamily ==
    \A f \in reused : \A j \in Family(f) : sessions[j].revoked

=============================================================================
