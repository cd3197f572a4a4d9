--------------------------- MODULE ConnectionPool ---------------------------
(***************************************************************************)
(* The engine's connection pool and the sessions of transactional_session  *)
(* (db.py).  A session takes its connection with its first statement, not  *)
(* when it is opened, and keeps it until its transaction has ended.        *)
(***************************************************************************)
EXTENDS FiniteSets, Naturals

CONSTANTS
    Requests,
    Capacity      \* pool_size + max_overflow

ASSUME CapacityAssumption == Capacity \in Nat \ {0}

\* A handler opens its sessions in the order of its parameters.
Sessions == {"first", "second"}

VARIABLE checked_out    \* request -> its sessions that have a connection

Used == {c \in Requests \X Sessions : c[2] \in checked_out[c[1]]}

InUse == Cardinality(Used)

PoolInit == checked_out = [r \in Requests |-> {}]

Checkout(r, session) ==
    /\ InUse < Capacity
    /\ checked_out' = [checked_out EXCEPT ![r] = @ \cup {session}]

\* QueuePool limit reached: only a full pool makes a session wait pool_timeout.
PoolIsFull == InUse >= Capacity

\* The transaction of a session ends and its connection goes back.
Checkin(r, session) == checked_out' = [checked_out EXCEPT ![r] = @ \ {session}]

\* Mutant: an exception closes the inner session only.
CheckinAll_inner(r) == checked_out' = [checked_out EXCEPT ![r] = @ \ {"second"}]

\* An exception leaves every session block of the request.
CheckinAll(r) == checked_out' = [checked_out EXCEPT ![r] = {}]
=============================================================================
