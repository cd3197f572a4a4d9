------------------------------ MODULE PgOrders ------------------------------
(***************************************************************************)
(* The order commands as they run in production: HTTP handlers (main.py),  *)
(* OrderService (service.py) and SqlAlchemyOrderRepository (repository.py) *)
(* over PostgreSQL READ COMMITTED, many requests at once.                  *)
(*                                                                         *)
(* A request is one transaction of transactional_session.  Its phases are  *)
(* the SQL statements other requests can tell apart; what it has written   *)
(* and not yet committed is in write[r], which is also its row lock, its   *)
(* pending unique-index entries and its pending idempotency key.  The exit *)
(* of the yield dependency, hence the COMMIT, comes after the response has *)
(* been sent; an exception rolls back before the error response.           *)
(***************************************************************************)
EXTENDS OrderBook

CONSTANTS
    Requests,    \* requests in flight at the same time
    Commands,    \* what clients may ask for
    KeyLength    \* characters of every idempotency key

VARIABLES
    phase,    \* the statement request r is about to execute
    op,       \* its command
    snap,     \* the order its handler holds: read, changed, returned
    write,    \* its uncommitted rows
    error     \* the exception it raised

session == <<phase, op, snap, write, error>>
vars == <<tables, session>>

\* ScopeOverhead: "create_order:" (13), two UUIDs (36 each), two colons;
\* ScopeColumn: IdempotencyRow.key is a String(200).
ScopeOverhead == 87
ScopeColumn == 200

CreateCommand ==
    [kind : {"create"}, customer : Customers, key : Keys,
     details : {d \in Details : ValidDetails(d)}]
GetCommand == [kind : {"get"}, actor : Actor, order : OrderIds]
UpdateCommand ==
    [kind : {"update"}, actor : Actor, order : OrderIds, expected : Nat,
     changes : DetailChanges]
TransitionCommand ==
    [kind : {"transition"}, actor : Actor, order : OrderIds, expected : Nat,
     target : OrderStatus]
AssignCommand == [kind : {"assign"}, order : OrderIds, courier : Couriers]
ClaimCommand == [kind : {"claim"}, courier : Couriers]

Command ==
    CreateCommand \cup GetCommand \cup UpdateCommand
        \cup TransitionCommand \cup AssignCommand \cup ClaimCommand

ASSUME CommandsAssumption ==
    /\ Commands \subseteq Command
    /\ None \notin Command

ASSUME KeyLengthAssumption == KeyLength \in [Keys -> 8..128]

WriteSet ==
    [order : OrderIds, row : OrderRow, assignments : SUBSET AssignmentRow,
     history : SUBSET TransitionHistoryRow, outbox : SUBSET OutboxRow,
     idempotency : SUBSET IdempotencyRow]

ASSUME NoWriteAssumption == None \notin WriteSet

Phases ==
    {"idle", "lock_scope", "lookup", "insert",          \* create
     "read_order", "read_assignments", "save", "link",  \* get, update, ...
     "pick", "flush_claim",                             \* claim
     "returned", "responded", "raised"}

Exceptions ==
    {"OrderNotFound", "Forbidden", "ConcurrentUpdate", "ValueError",
     "IdempotencyConflict", "CourierAlreadyBusy", "IntegrityError", "DataError"}

Init ==
    /\ BookInit
    /\ phase = [r \in Requests |-> "idle"]
    /\ op = [r \in Requests |-> None]
    /\ snap = [r \in Requests |-> None]
    /\ write = [r \in Requests |-> None]
    /\ error = [r \in Requests |-> None]

-----------------------------------------------------------------------------
(***************************************************************************)
(* Locks, derived from where a request stands.                             *)
(***************************************************************************)
SameScope(c, d) == c.customer = d.customer /\ c.key = d.key

\* Mutant: no advisory lock.
HoldsScope_unlocked(q, c) == FALSE

\* pg_advisory_xact_lock(scope) is held from the lookup to the end.
HoldsScope(q, c) ==
    /\ op[q] # None
    /\ op[q].kind = "create"
    /\ phase[q] \notin {"idle", "lock_scope"}
    /\ SameScope(op[q], c)

Writes(q, o) == write[q] # None /\ write[q].order = o
RowLocked(r, o) == \E q \in Requests \ {r} : Writes(q, o)

\* Mutant: the insert does not see what others have inserted and not committed.
AssignmentPending_unseen(r, o, courier) == FALSE

\* Another transaction has inserted this courier or order into the partial
\* unique indexes and has not ended: an insert of the same key waits for it.
AssignmentPending(r, o, courier) ==
    \E q \in Requests \ {r} :
        /\ write[q] # None
        /\ \E a \in write[q].assignments : a.order = o \/ a.courier = courier

\* Mutant: no unique index on the courier.
AssignmentTaken_byOrder(o, courier) == \E a \in assignments : a.order = o

AssignmentTaken(o, courier) ==
    \E a \in assignments : a.order = o \/ a.courier = courier

-----------------------------------------------------------------------------
(***************************************************************************)
(* Starting, raising and ending a request.                                 *)
(***************************************************************************)
FirstPhase(c) ==
    CASE c.kind = "create" -> "lock_scope"
      [] c.kind = "claim"  -> "pick"
      [] OTHER             -> "read_order"

\* A create by another role or for another customer, and a claim by another
\* role, get 403 before any statement; Commands holds the ones that pass.
Start(r, c) ==
    /\ phase[r] = "idle"
    /\ phase' = [phase EXCEPT ![r] = FirstPhase(c)]
    /\ op' = [op EXCEPT ![r] = c]
    /\ UNCHANGED <<tables, snap, write, error>>

Raise(r, exception) ==
    /\ phase' = [phase EXCEPT ![r] = "raised"]
    /\ error' = [error EXCEPT ![r] = exception]
    /\ UNCHANGED <<tables, op, snap, write>>

\* The handler returns and the response is sent; the transaction is still open.
Respond(r) ==
    /\ phase[r] = "returned"
    /\ phase' = [phase EXCEPT ![r] = "responded"]
    /\ UNCHANGED <<tables, op, snap, write, error>>

\* Mutant: the rows of an ended transaction stay locked.
EndSession_unreleased(r) ==
    /\ phase' = [phase EXCEPT ![r] = "idle"]
    /\ op' = [op EXCEPT ![r] = None]
    /\ snap' = [snap EXCEPT ![r] = None]
    /\ error' = [error EXCEPT ![r] = None]
    /\ UNCHANGED write

EndSession(r) ==
    /\ phase' = [phase EXCEPT ![r] = "idle"]
    /\ op' = [op EXCEPT ![r] = None]
    /\ snap' = [snap EXCEPT ![r] = None]
    /\ write' = [write EXCEPT ![r] = None]
    /\ error' = [error EXCEPT ![r] = None]

Apply(w) ==
    /\ orders' = [orders EXCEPT ![w.order] = w.row]
    /\ assignments' = assignments \cup w.assignments
    /\ history' = history \cup w.history
    /\ outbox' = outbox \cup w.outbox
    /\ idempotency' = idempotency \cup w.idempotency

Commit(r) ==
    /\ phase[r] = "responded"
    /\ IF write[r] = None THEN UNCHANGED tables ELSE Apply(write[r])
    /\ EndSession(r)

Rollback(r) ==
    /\ phase[r] = "raised"
    /\ EndSession(r)
    /\ UNCHANGED tables

\* The process or its connection dies, or the request task is cancelled:
\* PostgreSQL aborts the transaction and releases its locks.  A handler that has
\* lost its connection has nothing left to do but to send its answer, as one that
\* is aborted after Respond has done.
Abort(r) ==
    /\ phase[r] # "idle"
    /\ EndSession(r)
    /\ UNCHANGED tables

-----------------------------------------------------------------------------
(***************************************************************************)
(* create_order                                                            *)
(***************************************************************************)
LockScope(r) ==
    /\ phase[r] = "lock_scope"
    /\ ~ \E q \in Requests \ {r} : HoldsScope(q, op[r])
    /\ phase' = [phase EXCEPT ![r] = "lookup"]
    /\ UNCHANGED <<tables, op, snap, write, error>>

\* Mutant: the fingerprint of the payload is not compared.
LookupRecord_unfingerprinted(r) ==
    LET found == {i \in idempotency : SameScope(i, op[r])} IN
    /\ phase[r] = "lookup"
    /\ \/ /\ found = {}
          /\ phase' = [phase EXCEPT ![r] = "insert"]
          /\ UNCHANGED <<tables, op, snap, write, error>>
       \/ \E i \in found :
             /\ phase' = [phase EXCEPT ![r] = "returned"]
             /\ snap' = [snap EXCEPT ![r] = i.response]
             /\ UNCHANGED <<tables, op, write, error>>

\* idempotent_order after the lock: a replay returns the stored response.
LookupRecord(r) ==
    LET found == {i \in idempotency : SameScope(i, op[r])} IN
    /\ phase[r] = "lookup"
    /\ \/ /\ found = {}
          /\ phase' = [phase EXCEPT ![r] = "insert"]
          /\ UNCHANGED <<tables, op, snap, write, error>>
       \/ \E i \in found :
             IF i.fingerprint = op[r].details
             THEN /\ phase' = [phase EXCEPT ![r] = "returned"]
                  /\ snap' = [snap EXCEPT ![r] = i.response]
                  /\ UNCHANGED <<tables, op, write, error>>
             ELSE Raise(r, "IdempotencyConflict")

\* The primary key of idempotency_record: an insert waits for a transaction
\* that has inserted the same scope, and fails if one is committed.
ScopePending(r) ==
    \E q \in Requests \ {r} :
        /\ write[q] # None
        /\ \E i \in write[q].idempotency : SameScope(i, op[r])

ScopeTaken(r) == \E i \in idempotency : SameScope(i, op[r])

\* add, record_created_event and remember_idempotency: three inserts.
InsertOrder(r, o) ==
    LET order == create(o, op[r].customer, op[r].details) IN
    /\ phase[r] = "insert"
    /\ ~Exists(o) /\ \A q \in Requests : ~Writes(q, o)   \* uuid4 is fresh
    /\ ~ScopePending(r)
    /\ IF ScopeOverhead + KeyLength[op[r].key] > ScopeColumn
       THEN Raise(r, "DataError")
       ELSE IF ScopeTaken(r)
       THEN Raise(r, "IntegrityError")
       ELSE /\ phase' = [phase EXCEPT ![r] = "returned"]
            /\ snap' = [snap EXCEPT ![r] = order]
            /\ write' = [write EXCEPT ![r] =
                  [order |-> o, row |-> row_of(order), assignments |-> {},
                   history |-> {}, outbox |-> {created_event(order)},
                   idempotency |->
                       {idempotency_row(order, op[r].key, op[r].details)}]]
            /\ UNCHANGED <<tables, op, error>>

-----------------------------------------------------------------------------
(***************************************************************************)
(* get_order, update_order, transition_order and OrderService.assign       *)
(***************************************************************************)

\* get is two statements: the order row, then (selectinload) its assignments.
ReadOrder(r) ==
    /\ phase[r] = "read_order"
    /\ IF Exists(op[r].order)
       THEN /\ phase' = [phase EXCEPT ![r] = "read_assignments"]
            /\ snap' = [snap EXCEPT ![r] =
                            _domain(op[r].order, orders[op[r].order], None)]
            /\ UNCHANGED <<tables, op, write, error>>
       ELSE Raise(r, "OrderNotFound")

ActiveCourier(o) ==
    IF \E a \in assignments : a.order = o
    THEN (CHOOSE a \in assignments : a.order = o).courier
    ELSE None

\* The order the command asks for.
Changed(c, current) ==
    CASE c.kind = "update"     -> update_details(current, c.changes)
      [] c.kind = "transition" -> transition(current, c.target)
      [] c.kind = "assign"     -> assign(current, c.courier)
      [] OTHER                 -> current

Target(c) == IF c.kind = "assign" THEN "assigned" ELSE c.target

\* The checks of the handler and the service; the first that applies wins.
Forbidden(c, current) ==
    /\ c.kind # "assign"
    /\ \/ ~can_access_order(c.actor, current)
       \/ c.kind = "transition" /\ c.actor.role = "customer" /\ c.target # "cancelled"

Stale(c, current) ==
    c.kind \in {"update", "transition"} /\ current.version # c.expected

\* Mutant: the domain checks edits only.
Illegal_edits(c, current) ==
    c.kind = "update" /\ ~ValidDetails(Changed(c, current).details)

Illegal(c, current) ==
    \/ c.kind \in {"transition", "assign"} /\ ~allows(current.status, Target(c))
    \/ c.kind = "update" /\ ~ValidDetails(Changed(c, current).details)

ReadAssignments(r) ==
    LET current == [snap[r] EXCEPT !.courier = ActiveCourier(op[r].order)] IN
    /\ phase[r] = "read_assignments"
    /\ IF Forbidden(op[r], current) THEN Raise(r, "Forbidden")
       ELSE IF Stale(op[r], current) THEN Raise(r, "ConcurrentUpdate")
       ELSE IF Illegal(op[r], current) THEN Raise(r, "ValueError")
       ELSE /\ phase' = [phase EXCEPT ![r] =
                             IF op[r].kind = "get" THEN "returned" ELSE "save"]
            /\ snap' = [snap EXCEPT ![r] = current]
            /\ UNCHANGED <<tables, op, write, error>>

\* The rows an order takes with it when its status changes.
WriteOf(before, after) ==
    [order |-> after.id, row |-> row_of(after), assignments |-> {},
     history |-> IF before.status = after.status
                 THEN {} ELSE {history_row(before, after)},
     outbox |-> IF before.status = after.status
                THEN {} ELSE {status_changed_event(after)},
     idempotency |-> {}]

\* Mutant: UPDATE ... WHERE id, without the version.
SaveOrder_unversioned(r) ==
    LET after == Changed(op[r], snap[r]) IN
    /\ phase[r] = "save"
    /\ ~RowLocked(r, snap[r].id)
    /\ write' = [write EXCEPT ![r] = WriteOf(snap[r], after)]
    /\ snap' = [snap EXCEPT ![r] = after]
    /\ phase' = [phase EXCEPT ![r] =
                     IF after.courier = None THEN "returned" ELSE "link"]
    /\ UNCHANGED <<tables, op, error>>

\* UPDATE ... WHERE id AND version = expected: no match, no row; a match that
\* is locked waits, and is evaluated again when the holder has ended.
SaveOrder(r) ==
    LET after == Changed(op[r], snap[r]) IN
    /\ phase[r] = "save"
    /\ IF orders[snap[r].id].version # snap[r].version
       THEN Raise(r, "ConcurrentUpdate")
       ELSE /\ ~RowLocked(r, snap[r].id)
            /\ write' = [write EXCEPT ![r] = WriteOf(snap[r], after)]
            /\ snap' = [snap EXCEPT ![r] = after]
            /\ phase' = [phase EXCEPT ![r] =
                             IF after.courier = None THEN "returned" ELSE "link"]
            /\ UNCHANGED <<tables, op, error>>

\* The insert of an assignment by request r, which holds the order's row lock.
InsertAssignment(r, courier, exception) ==
    LET o == write[r].order IN
    /\ ~AssignmentPending(r, o, courier)
    /\ IF AssignmentTaken(o, courier)
       THEN Raise(r, exception)
       ELSE /\ phase' = [phase EXCEPT ![r] = "returned"]
            /\ write' = [write EXCEPT ![r].assignments =
                             {[order |-> o, courier |-> courier]}]
            /\ UNCHANGED <<tables, op, snap, error>>

\* Mutant: save writes the order and no assignment.
LinkAssignment_unlinked(r) ==
    /\ phase[r] = "link"
    /\ phase' = [phase EXCEPT ![r] = "returned"]
    /\ UNCHANGED <<tables, op, snap, write, error>>

\* The tail of save: an order with a courier gets its assignment unless it has
\* one.
LinkAssignment(r) ==
    /\ phase[r] = "link"
    /\ IF \E a \in assignments : a.order = snap[r].id
       THEN /\ phase' = [phase EXCEPT ![r] = "returned"]
            /\ UNCHANGED <<tables, op, snap, write, error>>
       ELSE InsertAssignment(r, snap[r].courier, "IntegrityError")

-----------------------------------------------------------------------------
(***************************************************************************)
(* claim_next_order                                                        *)
(***************************************************************************)

\* The created orders that nobody has locked (SKIP LOCKED).
Queue(r) == {o \in OrderIds : /\ Exists(o)
                              /\ orders[o].status = "created"
                              /\ ~RowLocked(r, o)}

\* SELECT ... ORDER BY created_at, id LIMIT 1 FOR UPDATE SKIP LOCKED; the lock
\* is taken with the changes the same flush will write.
PickOrder(r) ==
    /\ phase[r] = "pick"
    /\ \/ /\ Queue(r) = {}           \* 204 No Content
          /\ phase' = [phase EXCEPT ![r] = "returned"]
          /\ UNCHANGED <<tables, op, snap, write, error>>
       \/ \E o \in Queue(r) :
             LET before  == _domain(o, orders[o], None)
                 claimed == assign(before, op[r].courier)
             IN  /\ \A p \in Queue(r) : o <= p
                 /\ write' = [write EXCEPT ![r] = WriteOf(before, claimed)]
                 /\ snap' = [snap EXCEPT ![r] = claimed]
                 /\ phase' = [phase EXCEPT ![r] = "flush_claim"]
                 /\ UNCHANGED <<tables, op, error>>

\* The flush: only uq_active_assignment_courier can refuse it, and that becomes
\* CourierAlreadyBusy.
FlushClaim(r) ==
    /\ phase[r] = "flush_claim"
    /\ InsertAssignment(r, op[r].courier, "CourierAlreadyBusy")

-----------------------------------------------------------------------------
Step(r) ==
    \/ LockScope(r)
    \/ LookupRecord(r)
    \/ \E o \in OrderIds : InsertOrder(r, o)
    \/ ReadOrder(r)
    \/ ReadAssignments(r)
    \/ SaveOrder(r)
    \/ LinkAssignment(r)
    \/ PickOrder(r)
    \/ FlushClaim(r)
    \/ Respond(r)
    \/ Commit(r)
    \/ Rollback(r)

Next ==
    \E r \in Requests :
        \/ \E c \in Commands : Start(r, c)
        \/ Step(r)
        \/ Abort(r)

Spec == Init /\ [][Next]_vars

\* A lock is granted in the order of the waiters (PostgreSQL's lock queues), so
\* a request that can get on again and again does get on.
FairSpec == Spec /\ \A r \in Requests : SF_vars(Step(r))

-----------------------------------------------------------------------------
\* Every variable holds values of its own shape.
TypeOK ==
    /\ TablesTypeOK
    /\ phase \in [Requests -> Phases]
    /\ op \in [Requests -> Command \cup {None}]
    /\ snap \in [Requests -> DeliveryOrder \cup {None}]
    /\ write \in [Requests -> WriteSet \cup {None}]
    /\ error \in [Requests -> Exceptions \cup {None}]

\* The tables change only by whole commands, whatever the interleaving of the
\* requests, their refusals and their crashes: no update is lost, nothing of a
\* refused or stale command stays behind (README.md, "запрещённая или
\* устаревшая команда не оставляет этих эффектов").
ImplementsOrderBook == BookSpec

\* A concurrent retry of a create waits and then sees the record of the first:
\* it never fails on the unique key (repository.py, idempotent_order).
RetryNeverHitsUniqueKey ==
    \A r \in Requests :
        phase[r] = "raised" /\ op[r].kind = "create" => error[r] # "IntegrityError"

\* Whoever is told 201 for a scope is told the same order: the response in hand
\* is the one stored, or about to be stored, for that scope, as first created, as
\* long as the transaction of the request is open.
RetryReturnsSameOrder ==
    \A r \in Requests :
        phase[r] \in {"returned", "responded"} /\ op[r].kind = "create" =>
            \E i \in idempotency \cup (IF write[r] = None
                                       THEN {} ELSE write[r].idempotency) :
                /\ SameScope(i, op[r])
                /\ i.fingerprint = op[r].details
                /\ i.response = snap[r]

\* According to these assignments the courier of order o is this one, or nobody.
CourierIs(o, courier, rows) ==
    \A c \in Couriers :
        courier = c <=> \E a \in rows : a.order = o /\ a.courier = c

\* What a write command reports is what it will commit: the courier it names is
\* the one of the assignments as its transaction leaves them, although it has read
\* order and assignments by two statements.  (A get may report a mixture.)
ReportedCourierIsAssigned ==
    \A r \in Requests :
        phase[r] \in {"returned", "responded"} /\ write[r] # None =>
            CourierIs(write[r].order, snap[r].courier,
                      assignments \cup write[r].assignments)

\* Every request ends, served, refused or aborted: row locks, the advisory lock
\* and the unique indexes never make requests wait for each other in a circle.
EveryRequestEnds ==
    \A r \in Requests : phase[r] # "idle" ~> phase[r] = "idle"

-----------------------------------------------------------------------------
(***************************************************************************)
(* The inductive invariant behind ImplementsOrderBook: what every request  *)
(* holds agrees with the committed tables, and no two of them collide.     *)
(***************************************************************************)

\* The phase tells the kind of command, and whether anything is written yet.
PhaseFits(r) ==
    /\ phase[r] = "idle" <=> op[r] = None
    /\ phase[r] \in {"lock_scope", "lookup", "insert"} => op[r].kind = "create"
    /\ phase[r] \in {"read_order", "read_assignments"} =>
           op[r].kind \in {"get", "update", "transition", "assign"}
    /\ phase[r] \in {"save", "link"} =>
           op[r].kind \in {"update", "transition", "assign"}
    /\ phase[r] \in {"pick", "flush_claim"} => op[r].kind = "claim"
    /\ phase[r] \in {"link", "flush_claim"} => write[r] # None
    /\ phase[r] \notin {"link", "flush_claim", "returned", "responded", "raised"} =>
           write[r] = None

\* What a handler has read was committed, and is still current if the version
\* is; what it is about to save passed the domain checks.
ReadFits(r) ==
    /\ phase[r] \in {"read_assignments", "save"} =>
           /\ snap[r] # None
           /\ snap[r].id = op[r].order
           /\ Exists(snap[r].id)
           /\ snap[r].version <= orders[snap[r].id].version
           /\ snap[r].version = orders[snap[r].id].version =>
                  row_of(snap[r]) = orders[snap[r].id]
    /\ phase[r] = "save" =>
           /\ ~Illegal(op[r], snap[r])
           /\ snap[r].courier # None =>
                  \E a \in assignments : a.order = snap[r].id

\* An uncommitted write is a whole command on the committed tables: a create,
\* an update, or a transition with or without its assignment.
CreateFits(r, w) ==
    /\ op[r].kind = "create"
    /\ ~Exists(w.order)
    /\ ~ScopeTaken(r)
    /\ LET order == create(w.order, op[r].customer, op[r].details) IN
       w = [order |-> w.order, row |-> row_of(order), assignments |-> {},
            history |-> {}, outbox |-> {created_event(order)},
            idempotency |-> {idempotency_row(order, op[r].key, op[r].details)}]

UpdateFits(w) ==
    /\ Exists(w.order)
    /\ ValidDetails(w.row.details)
    /\ w.row = [customer |-> orders[w.order].customer, details |-> w.row.details,
                status |-> orders[w.order].status,
                version |-> orders[w.order].version + 1]
    /\ w.assignments = {} /\ w.history = {} /\ w.outbox = {} /\ w.idempotency = {}

TransitionFits(w) ==
    LET before == _domain(w.order, orders[w.order], None)
        after  == transition(before, w.row.status)
    IN  /\ Exists(w.order)
        /\ allows(before.status, w.row.status)
        /\ w.row = row_of(after)
        /\ w.history = {history_row(before, after)}
        /\ w.outbox = {status_changed_event(after)}
        /\ w.idempotency = {}
        /\ \A a \in w.assignments :
              /\ w.row.status = "assigned"
              /\ a.order = w.order
              /\ w.assignments = {a}
              /\ ~AssignmentTaken(a.order, a.courier)

WriteFits(r) ==
    write[r] # None =>
        \/ CreateFits(r, write[r])
        \/ UpdateFits(write[r])
        \/ TransitionFits(write[r])

\* A request that has saved an order and not yet linked its courier is either
\* assigning it or works on an order that has its assignment.
LinkFits(r) ==
    /\ phase[r] = "link" =>
           /\ snap[r] # None
           /\ snap[r].id = write[r].order
           /\ snap[r].courier # None
           /\ \/ write[r].row.status = "assigned" /\ write[r].history # {}
              \/ \E a \in assignments : a.order = snap[r].id
    /\ phase[r] = "flush_claim" =>
           write[r].row.status = "assigned" /\ write[r].history # {}

\* The lookup of a create that is about to insert is not out of date.
LookupFits(r) == phase[r] = "insert" => ~ScopeTaken(r)

\* Row locks, unique index entries and the advisory lock are each held once.
Disjoint(q, r) ==
    /\ write[q] # None /\ write[r] # None =>
           /\ write[q].order # write[r].order
           /\ \A a \in write[q].assignments, b \in write[r].assignments :
                  a.courier # b.courier
    /\ op[r] # None /\ op[r].kind = "create" /\ phase[r] # "lock_scope" =>
           ~HoldsScope(q, op[r])

Fits(r) ==
    PhaseFits(r) /\ ReadFits(r) /\ WriteFits(r) /\ LinkFits(r) /\ LookupFits(r)

\* Every request agrees with the tables and with every other request.
IInv ==
    /\ TypeOK
    /\ \A r \in Requests : Fits(r)
    /\ \A q, r \in Requests : q # r => Disjoint(q, r)

\* The courier a request holds is the one of the order: what it has read is right
\* as long as the version is, what it is about to insert has no rival, and what it
\* reports is what will be committed.
CourierFits(r) ==
    /\ phase[r] = "save" /\ snap[r].version = orders[snap[r].id].version =>
           CourierIs(snap[r].id, snap[r].courier, assignments)
    /\ phase[r] = "link" =>
           /\ write[r].assignments = {}
           /\ \A a \in assignments : a.order = snap[r].id => a.courier = snap[r].courier
    /\ phase[r] = "flush_claim" =>
           /\ snap[r] # None
           /\ snap[r].courier = op[r].courier
           /\ \A a \in assignments : a.order # write[r].order
    /\ phase[r] \in {"returned", "responded"} /\ write[r] # None =>
           CourierIs(write[r].order, snap[r].courier,
                     assignments \cup write[r].assignments)

CouriersFit == \A r \in Requests : CourierFits(r)

-----------------------------------------------------------------------------
\* The courier of an assigned order is known (presentation.py:10 shows the
\* status as "Назначен курьер", a courier has been assigned).
AssignedHasCourier ==
    \A o \in OrderIds :
        Exists(o) /\ orders[o].status = "assigned" =>
            \E a \in assignments : a.order = o

\* Every key that passes the header check of create_order (main.py:694-695, 8
\* to 128 characters) can be stored.
AcceptedKeyIsStorable ==
    \A r \in Requests :
        phase[r] = "raised" /\ op[r].kind = "create" => error[r] # "DataError"

\* An order that was answered 201 can be addressed by the next request
\* (scripts/acceptance_smoke.py:97-105 patches it and requires 200).
AnsweredOrderIsThere ==
    \A r \in Requests :
        phase[r] = "responded" /\ op[r].kind = "create" => Exists(snap[r].id)

\* A courier is refused as busy only while an order of theirs is in progress
\* (error_contract.py:27, "Courier already has an active assignment", which the
\* in-memory repository decides by the status: assigned or picked_up).
BusyMeansOrderInProgress ==
    [][\A r \in Requests :
          phase[r] = "flush_claim" /\ error'[r] = "CourierAlreadyBusy" =>
              \E a \in assignments :
                  /\ a.courier = op[r].courier
                  /\ orders[a.order].status \in {"assigned", "picked_up"}]_vars
=============================================================================
