------------------------------ MODULE PgRefresh ------------------------------
(***************************************************************************)
(* Login and refresh over PostgreSQL: issue_token and rotate_refresh_token *)
(* (main.py) with SqlAlchemyRefreshSessionRepository.                      *)
(*                                                                         *)
(* A request is one transaction.  rotate locks the presented row; a reuse  *)
(* then updates the rows of the family one by one, waiting for each lock.  *)
(* Every answer but ROTATED is an HTTPException raised in the handler, so  *)
(* the session dependency rolls the transaction back.                      *)
(***************************************************************************)
EXTENDS RefreshSessions, Relation

CONSTANT Requests

VARIABLES
    phase,       \* where request r stands
    presented,   \* the jti its client presented, None for a login
    issued,      \* the jti of the pair it issues
    write,       \* its uncommitted rows: jti -> row or None
    locked,      \* the rows it has locked
    todo,        \* the rows its UPDATE of the family has still to visit
    held         \* the refresh tokens clients have received

session == <<phase, presented, issued, write, locked, todo>>
vars == <<store, session, held>>

NoRows == [j \in Jtis |-> None]

Phases ==
    {"idle", "lock", "reuse", "revoking", "returned", "responded", "denied", "reused"}

Init ==
    /\ StoreInit
    /\ phase = [r \in Requests |-> "idle"]
    /\ presented = [r \in Requests |-> None]
    /\ issued = [r \in Requests |-> None]
    /\ write = [r \in Requests |-> NoRows]
    /\ locked = [r \in Requests |-> {}]
    /\ todo = [r \in Requests |-> {}]
    /\ held = {}

Goto(r, p) == phase' = [phase EXCEPT ![r] = p]

\* uuid4: never seen before.
Fresh(k) == ~Registered(k) /\ k \notin held /\ \A q \in Requests : issued[q] # k

\* Mutant: a plain SELECT, which does not wait for a lock.
LockedByOther_never(r, j) == FALSE

LockedByOther(r, j) == \E q \in Requests \ {r} : j \in locked[q]

-----------------------------------------------------------------------------
\* issue_token after the password check: register inserts the first session.
Login(r, k) ==
    /\ phase[r] = "idle"
    /\ Fresh(k)
    /\ Goto(r, "returned")
    /\ issued' = [issued EXCEPT ![r] = k]
    /\ write' = [write EXCEPT ![r][k] = fresh_session(k)]
    /\ UNCHANGED <<store, presented, locked, todo, held>>

\* A client presents a token it holds; the new pair is issued up front.
Present(r, j, k) ==
    /\ phase[r] = "idle"
    /\ j \in held
    /\ Fresh(k)
    /\ Goto(r, "lock")
    /\ presented' = [presented EXCEPT ![r] = j]
    /\ issued' = [issued EXCEPT ![r] = k]
    /\ UNCHANGED <<store, write, locked, todo, held>>

\* The end of rotate: used_at, replacement_jti and the new row in one flush.
Rotate(r, j) ==
    /\ Goto(r, "returned")
    /\ write' = [write EXCEPT ![r][j] = spent(sessions[j], issued[r]),
                              ![r][issued[r]] = fresh_session(sessions[j].family)]
    /\ UNCHANGED <<store, presented, issued, todo, held>>

\* SELECT ... FOR UPDATE of the presented row and the checks after it.
SelectForUpdate(r) ==
    LET j == presented[r] IN
    /\ phase[r] = "lock"
    /\ ~LockedByOther(r, j)
    /\ locked' = [locked EXCEPT ![r] = IF Registered(j) THEN {j} ELSE {}]
    /\ IF Registered(j) /\ ~IsReuse(sessions[j]) /\ j \notin expired
       THEN Rotate(r, j)
       ELSE /\ Goto(r, IF Registered(j) /\ IsReuse(sessions[j])
                       THEN "reuse" ELSE "denied")
            /\ UNCHANGED <<store, presented, issued, write, todo, held>>

\* UPDATE ... WHERE family_id AND revoked_at IS NULL: the rows are those of the
\* statement's snapshot.
StartRevoking(r) ==
    LET family == Family(sessions[presented[r]].family) IN
    /\ phase[r] = "reuse"
    /\ Goto(r, "revoking")
    /\ todo' = [todo EXCEPT ![r] = {j \in family : ~sessions[j].revoked}]
    /\ UNCHANGED <<store, presented, issued, write, locked, held>>

\* The next row of the UPDATE, in any order; a locked row is waited for and then
\* looked at again.
RevokeRow(r, j) ==
    /\ phase[r] = "revoking"
    /\ j \in todo[r]
    /\ ~LockedByOther(r, j)
    /\ todo' = [todo EXCEPT ![r] = @ \ {j}]
    /\ locked' = [locked EXCEPT ![r] = @ \cup {j}]
    /\ write' = IF sessions[j].revoked THEN write
                ELSE [write EXCEPT ![r][j] = revoked(sessions[j])]
    /\ UNCHANGED <<store, phase, presented, issued, held>>

EndRevoking(r) ==
    /\ phase[r] = "revoking"
    /\ todo[r] = {}
    /\ Goto(r, "reused")
    /\ UNCHANGED <<store, presented, issued, write, locked, todo, held>>

-----------------------------------------------------------------------------
Respond(r) ==
    /\ phase[r] = "returned"
    /\ Goto(r, "responded")
    /\ held' = held \cup {issued[r]}
    /\ UNCHANGED <<store, presented, issued, write, locked, todo>>

\* Mutant: the row locks outlive the transaction.
EndSession_locked(r) ==
    /\ Goto(r, "idle")
    /\ presented' = [presented EXCEPT ![r] = None]
    /\ issued' = [issued EXCEPT ![r] = None]
    /\ write' = [write EXCEPT ![r] = NoRows]
    /\ todo' = [todo EXCEPT ![r] = {}]
    /\ UNCHANGED <<locked, held, expired>>

EndSession(r) ==
    /\ Goto(r, "idle")
    /\ presented' = [presented EXCEPT ![r] = None]
    /\ issued' = [issued EXCEPT ![r] = None]
    /\ write' = [write EXCEPT ![r] = NoRows]
    /\ locked' = [locked EXCEPT ![r] = {}]
    /\ todo' = [todo EXCEPT ![r] = {}]
    /\ UNCHANGED <<held, expired>>

\* Mutant: the insert of the replacement is committed and the update is not.
Commit_half(r) ==
    /\ phase[r] = "responded"
    /\ sessions' = [sessions EXCEPT ![issued[r]] = write[r][issued[r]]]
    /\ EndSession(r)
    /\ UNCHANGED reused

Commit(r) ==
    /\ phase[r] = "responded"
    /\ sessions' = [j \in Jtis |-> IF write[r][j] = None THEN sessions[j] ELSE write[r][j]]
    /\ EndSession(r)
    /\ UNCHANGED reused

\* HTTPException(401): the transaction is rolled back, whatever it has written.
Rollback(r) ==
    /\ phase[r] \in {"denied", "reused"}
    /\ reused' = IF phase[r] = "reused"
                 THEN reused \cup {sessions[presented[r]].family} ELSE reused
    /\ EndSession(r)
    /\ UNCHANGED sessions

\* r cannot get on until q has ended.
WaitsFor ==
    [r, q \in Requests |->
        /\ r # q
        /\ \/ phase[r] = "lock" /\ presented[r] \in locked[q]
           \/ phase[r] = "revoking" /\ todo[r] \cap locked[q] # {}]

\* PostgreSQL's deadlock detector ends one of the transactions of a circle.
DeadlockDetected(r) ==
    /\ TransitiveClosure(WaitsFor, Requests)[r, r]
    /\ EndSession(r)
    /\ UNCHANGED <<sessions, reused>>

\* The process or its connection dies, or the request task is cancelled.
Abort(r) ==
    /\ phase[r] # "idle"
    /\ EndSession(r)
    /\ UNCHANGED <<sessions, reused>>

Step(r) ==
    \/ SelectForUpdate(r)
    \/ StartRevoking(r)
    \/ \E j \in Jtis : RevokeRow(r, j)
    \/ EndRevoking(r)
    \/ Respond(r)
    \/ Commit(r)
    \/ Rollback(r)
    \/ DeadlockDetected(r)

Next ==
    \/ \E r \in Requests :
          \/ \E k \in Jtis : Login(r, k)
          \/ \E j, k \in Jtis : Present(r, j, k)
          \/ Step(r)
          \/ Abort(r)
    \/ \E j \in Jtis : Expire(j) /\ UNCHANGED <<sessions, reused, session, held>>

Spec == Init /\ [][Next]_vars

\* Lock queues are served in order, so a request that can get on again and again
\* does get on.
Fairness == \A r \in Requests : SF_vars(Step(r))

-----------------------------------------------------------------------------
\* Every variable holds values of its own shape.
TypeOK ==
    /\ StoreTypeOK
    /\ phase \in [Requests -> Phases]
    /\ presented \in [Requests -> Jtis \cup {None}]
    /\ issued \in [Requests -> Jtis \cup {None}]
    /\ write \in [Requests -> [Jtis -> RefreshSession \cup {None}]]
    /\ locked \in [Requests -> SUBSET Jtis]
    /\ todo \in [Requests -> SUBSET Jtis]
    /\ held \subseteq Jtis

\* A request holds what it writes: nobody else has changed a row between the
\* read and the commit of the one that spends it.
WrittenRowsAreCurrent ==
    \A r \in Requests, j \in Jtis :
        write[r][j] # None /\ Registered(j) =>
            /\ j \in locked[r]
            /\ write[r][j] \in {spent(sessions[j], issued[r]), revoked(sessions[j])}

\* Tokens name the head of their family, no two requests issue one token or have
\* locked one row, and a token under way has no row yet.
Exclusive ==
    /\ \A j \in Jtis : Registered(j) => Registered(sessions[j].family)
    /\ \A r \in Requests : phase[r] # "idle" => issued[r] \in Jtis /\ ~Registered(issued[r])
    /\ \A q, r \in Requests :
          q # r /\ phase[q] # "idle" /\ phase[r] # "idle" =>
              issued[q] # issued[r] /\ locked[q] \cap locked[r] = {}

\* What rotate or register has written, complete: a row for the new token and, but
\* for a login, the presented row, which was good and is locked.
PairWritten(r) ==
    LET j == presented[r]
        k == issued[r]
    IN  IF j = None THEN write[r] = [NoRows EXCEPT ![k] = fresh_session(k)]
        ELSE /\ j \in locked[r] /\ Registered(j) /\ ~IsReuse(sessions[j])
             /\ write[r] = [NoRows EXCEPT ![j] = spent(sessions[j], k),
                                         ![k] = fresh_session(sessions[j].family)]

\* What the UPDATE of a family has written so far, over rows it has locked.
RevocationsWritten(r) ==
    /\ \A j \in todo[r] : Registered(j)
    /\ \A j \in Jtis : write[r][j] # None =>
          j \in locked[r] /\ Registered(j) /\ write[r][j] = revoked(sessions[j])

\* A request has written nothing, a pair, or revocations, and locks rows there are.
RequestOK(r) ==
    /\ phase[r] = "idle" => presented[r] = None /\ locked[r] = {}
    /\ \A j \in locked[r] : Registered(j)
    /\ phase[r] = "lock" => presented[r] \in Jtis
    /\ phase[r] \in {"reuse", "revoking", "reused"} =>
          presented[r] \in Jtis /\ Registered(presented[r])
    /\ phase[r] \in {"idle", "lock", "reuse", "denied"} => write[r] = NoRows
    /\ phase[r] \in {"returned", "responded"} => PairWritten(r)
    /\ phase[r] \in {"revoking", "reused"} => RevocationsWritten(r)

\* The inductive invariant: every request holds the rows it has read for update until
\* it writes them, and what it writes is made of what is stored.
IInv == TypeOK /\ Exclusive /\ \A r \in Requests : RequestOK(r)

\* Every login and every refresh ends: reuses of one family that lock each
\* other's rows do not wait forever.
EveryRequestEnds == \A r \in Requests : phase[r] # "idle" ~> phase[r] = "idle"
=============================================================================
