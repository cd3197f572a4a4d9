-------------------------------- MODULE Login --------------------------------
(***************************************************************************)
(* Signing in and signing up: issue_token, create_browser_session and      *)
(* register_identity (main.py) over SqlAlchemyIdentityRepository           *)
(* (identity.py), check_password (security.py) and the login budgets.      *)
(*                                                                         *)
(* A handler is cut where it awaits the database.  Its answer goes out     *)
(* before the identity transaction commits.  The refresh session a token   *)
(* login registers belongs to PgRefresh; the audit trail is only appended  *)
(* to.  Rows are never deleted, so the tenant of a row that was read is    *)
(* there when it is read.                                                  *)
(***************************************************************************)
EXTENDS RateLimiter

CONSTANTS
    Requests,           \* handler invocations in progress at once
    Subjects,           \* normalised login subjects
    Passwords,
    Logins,             \* the logins clients try: [door, network, subject, password]
    Registrations,      \* the registrations clients try: [subject, password]
    Stored,             \* the identity tables there may be at the start
    None

ASSUME FormsAssumption ==
    \A c \in Logins \cup Registrations : c.subject \in Subjects /\ c.password \in Passwords

VARIABLES
    identity,           \* identity[s]: the committed hash of s, or None
    phase,              \* phase[r]: where the handler of r is
    call,               \* call[r]: the form of r
    seen,               \* seen[r]: the hash r has read, or None
    written,            \* written[r]: the hash r has written and not committed
    told                \* the passwords clients were let in or registered with

handlers == <<phase, call, seen, written>>

vars == <<limiter, identity, handlers, told>>

\* A hash: of which password, under which parameters, with whose salt.
Hash(p, scheme, salt) == [password |-> p, scheme |-> scheme, salt |-> salt]

Hashes == {Hash(p, "legacy", None) : p \in Passwords} \cup
    {Hash(p, "current", r) : p \in Passwords, r \in Requests}

ASSUME StoredAssumption == None \notin Hashes /\ Stored \subseteq [Subjects -> {None} \cup Hashes]

NoCall == [subject |-> None, password |-> None]

Init ==
    /\ LimiterInit
    /\ identity \in Stored
    /\ phase = [r \in Requests |-> "idle"]
    /\ call = [r \in Requests |-> NoCall]
    /\ seen = [r \in Requests |-> None]
    /\ written = [r \in Requests |-> None]
    /\ told = {}

-----------------------------------------------------------------------------
\* security.check_password

verified(password, hash) == hash # None /\ hash.password = password

\* Rehashing is offered only after a successful verification.
replacement_hash(r, password, hash) ==
    IF verified(password, hash) /\ hash.scheme = "legacy"
    THEN Hash(password, "current", r) ELSE None

-----------------------------------------------------------------------------
\* The handlers

\* The two logins have budgets of their own, each by network and by subject.
login_limit_keys(c) == {<<c.door, c.network>>, <<c.door, c.subject>>}

ASSUME KeysAssumption == \A c \in Logins : login_limit_keys(c) \subseteq Keys

\* The handler of r is over.  What it has not committed is rolled back.
Over(r) ==
    /\ phase' = [phase EXCEPT ![r] = "idle"]
    /\ call' = [call EXCEPT ![r] = NoCall]
    /\ seen' = [seen EXCEPT ![r] = None]
    /\ written' = [written EXCEPT ![r] = None]

\* check_many, then the query, or 429.
Attempt(r, c) ==
    /\ phase[r] = "idle"
    /\ check_many(login_limit_keys(c))
    /\ IF Decision(login_limit_keys(c)).allowed
       THEN /\ phase' = [phase EXCEPT ![r] = "lookup"]
            /\ call' = [call EXCEPT ![r] = c]
       ELSE UNCHANGED <<phase, call>>
    /\ UNCHANGED <<identity, seen, written, told>>

\* password_hash, and the password is checked against what it returned, or 401.
Lookup(r) ==
    LET c == call[r]
        hash == identity[c.subject]
        offered == c.door = "login" /\ replacement_hash(r, c.password, hash) # None
    IN
    /\ phase[r] = "lookup"
    /\ IF verified(c.password, hash)
       THEN /\ phase' = [phase EXCEPT ![r] = IF offered THEN "rehash" ELSE "issue"]
            /\ seen' = [seen EXCEPT ![r] = hash]
            /\ UNCHANGED <<call, written>>
       ELSE Over(r)
    /\ UNCHANGED <<limiter, identity, told>>

\* Another transaction holds s: its insertion, or its update of the row.
Locked(r, s) == \E q \in Requests \ {r} : written[q] # None /\ call[q].subject = s

\* Mutant: WHERE subject = s, whatever the hash is by now.
replace_password_hash_any(r) ==
    LET s == call[r].subject IN
    /\ ~Locked(r, s)
    /\ written' = [written EXCEPT ![r] = replacement_hash(r, call[r].password, seen[r])]

\* UPDATE ... WHERE subject = s AND password_hash = expected.  A row that
\* another transaction has updated is waited for and then compared again.
replace_password_hash(r) ==
    LET s == call[r].subject IN
    IF identity[s] = seen[r]
    THEN /\ ~Locked(r, s)
         /\ written' = [written EXCEPT ![r] = replacement_hash(r, call[r].password, seen[r])]
    ELSE UNCHANGED written

Rehash(r) ==
    /\ phase[r] = "rehash"
    /\ replace_password_hash(r)
    /\ phase' = [phase EXCEPT ![r] = "issue"]
    /\ UNCHANGED <<limiter, identity, call, seen, told>>

\* The tenant is read, the tokens are made and the answer is sent.
Issue(r) ==
    /\ phase[r] = "issue"
    /\ phase' = [phase EXCEPT ![r] = "answered"]
    /\ told' = told \cup {<<call[r].subject, call[r].password>>}
    /\ UNCHANGED <<limiter, identity, call, seen, written>>

Register(r, c) ==
    /\ phase[r] = "idle"
    /\ phase' = [phase EXCEPT ![r] = "insert"]
    /\ call' = [call EXCEPT ![r] = c]
    /\ UNCHANGED <<limiter, identity, seen, written, told>>

\* Mutant: the row replaces the one that is there.
add_upsert(r) ==
    /\ ~Locked(r, call[r].subject)
    /\ written' = [written EXCEPT ![r] = Hash(call[r].password, "current", r)]

\* INSERT ... ON CONFLICT DO NOTHING.  An uncommitted insertion of the same
\* subject is waited for.
add(r) ==
    LET s == call[r].subject IN
    IF identity[s] = None
    THEN /\ ~Locked(r, s)
         /\ written' = [written EXCEPT ![r] = Hash(call[r].password, "current", r)]
    ELSE UNCHANGED written

\* 201, or 409.
Insert(r) ==
    /\ phase[r] = "insert"
    /\ add(r)
    /\ IF written'[r] # None
       THEN /\ phase' = [phase EXCEPT ![r] = "answered"]
            /\ UNCHANGED <<call, seen>>
       ELSE Over(r)
    /\ UNCHANGED <<limiter, identity, told>>

\* The session's exit, behind the answer.
Commit(r) ==
    LET s == call[r].subject IN
    /\ phase[r] = "answered"
    /\ Over(r)
    /\ IF written[r] # None
       THEN /\ identity' = [identity EXCEPT ![s] = written[r]]
            /\ told' = told \cup {<<s, call[r].password>>}
       ELSE UNCHANGED <<identity, told>>
    /\ UNCHANGED limiter

\* The database fails at any query or at the commit.  What was answered stays
\* answered.
Fail(r) ==
    /\ phase[r] # "idle"
    /\ Over(r)
    /\ UNCHANGED <<limiter, identity, told>>

-----------------------------------------------------------------------------
Step(r) == Lookup(r) \/ Rehash(r) \/ Issue(r) \/ Insert(r) \/ Commit(r)

Next ==
    \/ Tick /\ UNCHANGED <<identity, handlers, told>>
    \/ \E r \in Requests :
          \/ \E c \in Logins : Attempt(r, c)
          \/ \E c \in Registrations : Register(r, c)
          \/ Step(r)
          \/ Fail(r)

Spec == Init /\ [][Next]_vars

-----------------------------------------------------------------------------
TypeOK ==
    /\ identity \in [Subjects -> {None} \cup Hashes]
    /\ phase \in [Requests -> {"idle", "lookup", "rehash", "issue", "insert", "answered"}]
    /\ call \in [Requests -> {NoCall} \cup Logins \cup Registrations]
    /\ seen \in [Requests -> {None} \cup Hashes]
    /\ written \in [Requests -> {None} \cup Hashes]
    /\ told \subseteq Subjects \X Passwords

(***************************************************************************)
(* A stored hash changes at most once, from the old parameters to the new  *)
(* ones, and never to another password, however many logins have read the  *)
(* old hash and offer a new one each (the WHERE of replace_password_hash). *)
(***************************************************************************)
HashOnlyImproves ==
    [][\A s \in Subjects :
          identity[s] # None /\ identity'[s] # identity[s] =>
              /\ identity[s].scheme = "legacy"
              /\ identity'[s].scheme = "current"
              /\ identity'[s].password = identity[s].password]_vars

(***************************************************************************)
(* The password a client was once let in with, or registered with and saw  *)
(* committed, is the password of the identity ever after, whatever other   *)
(* registrations and rehashes of the subject have run meanwhile.           *)
(***************************************************************************)
AnswersStayTrue == \A fact \in told : verified(fact[2], identity[fact[1]])

(***************************************************************************)
(* The inductive invariant: what a handler has read tells the password of  *)
(* the row still, and what it has written it alone has written, over no    *)
(* row or over the old hash of the same password.                          *)
(***************************************************************************)
HandlerOK(r) ==
    LET s == call[r].subject IN
    /\ phase[r] # "idle" => call[r] \in Logins \cup Registrations
    /\ phase[r] \in {"rehash", "issue"} => seen[r] # None
    /\ seen[r] # None =>
          /\ phase[r] # "idle"
          /\ verified(call[r].password, seen[r])
          /\ verified(call[r].password, identity[s])
    /\ phase[r] = "rehash" => seen[r].scheme = "legacy"
    /\ written[r] # None =>
          /\ phase[r] \in {"issue", "answered"}
          /\ written[r] = Hash(call[r].password, "current", r)
          /\ identity[s] \in {None, Hash(call[r].password, "legacy", None)}
          /\ ~Locked(r, s)

\* Every answer stays true, and every handler is on the way to a true one.
IInv == TypeOK /\ AnswersStayTrue /\ \A r \in Requests : HandlerOK(r)
=============================================================================
