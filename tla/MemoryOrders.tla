---------------------------- MODULE MemoryOrders ----------------------------
(***************************************************************************)
(* The order commands over InMemoryOrderRepository (repository.py), the    *)
(* adapter of development and tests.  Nothing in a command suspends, so    *)
(* each is one step from its handler (main.py) to its return; there is no  *)
(* transaction to roll back, so the checks must come before the writes.    *)
(* Requests that raise change nothing and are left out, and so is assign   *)
(* of OrderService, which no handler calls.                                *)
(***************************************************************************)
EXTENDS OrderDomain, Sequences

CONSTANTS
    Keys,            \* values of the Idempotency-Key header
    MaxVersion       \* bound on the changes of one order

VARIABLES
    orders,          \* _orders: id -> DeliveryOrder or None
    idempotency,     \* _idempotency: <<customer, key>> -> record or None
    order_outbox,    \* outbox: a list
    answers          \* the responses that were given for each scope

memory == <<orders, idempotency, order_outbox, answers>>

Scopes == Customers \X Keys

MemoryInit ==
    /\ orders = [o \in OrderIds |-> None]
    /\ idempotency = [s \in Scopes |-> None]
    /\ order_outbox = <<>>
    /\ answers = [s \in Scopes |-> {}]

Exists(o) == orders[o] # None

Event(type, order) ==
    [type |-> type, order |-> order.id, version |-> order.version, status |-> order.status]

Answer(scope, order) == answers' = [answers EXCEPT ![scope] = @ \cup {order}]

\* Mutant: the record points to the resource, which has changed since.
ReplayOf_current(record) == orders[record.response.id]

\* "Keep the response snapshot, not a pointer to the mutable resource."
ReplayOf(record) == record.response

\* create_order of a new scope: add, record_created_event, remember_idempotency.
Create(o, scope, details) ==
    LET order == create(o, scope[1], details) IN
    /\ idempotency[scope] = None
    /\ ValidDetails(details)
    /\ \A p \in OrderIds : Exists(p) <=> p < o         \* uuid4 is fresh
    /\ orders' = [orders EXCEPT ![o] = order]
    /\ order_outbox' = Append(order_outbox, Event("order.created", order))
    /\ idempotency' = [idempotency EXCEPT ![scope] =
                           [fingerprint |-> details, response |-> order]]
    /\ Answer(scope, order)

\* create_order of a scope that is known, with the same payload.
Replay(scope) ==
    /\ idempotency[scope] # None
    /\ Answer(scope, ReplayOf(idempotency[scope]))
    /\ UNCHANGED <<orders, idempotency, order_outbox>>

\* update_order: can_access_order, the version of the header, the domain, save.
Update(actor, o, changes) ==
    /\ Exists(o) /\ orders[o].version < MaxVersion
    /\ can_access_order(actor, orders[o])
    /\ ValidDetails(update_details(orders[o], changes).details)
    /\ orders' = [orders EXCEPT ![o] = update_details(@, changes)]
    /\ UNCHANGED <<idempotency, order_outbox, answers>>

\* Mutant: the order is stored and nothing is announced.
save_transition_silent(order) ==
    /\ orders' = [orders EXCEPT ![order.id] = order]
    /\ UNCHANGED <<idempotency, order_outbox, answers>>

\* save, then the audit row and the event, which say the same.
save_transition(order) ==
    /\ orders' = [orders EXCEPT ![order.id] = order]
    /\ order_outbox' = Append(order_outbox, Event("order.status_changed", order))
    /\ UNCHANGED <<idempotency, answers>>

\* transition_order
Transition(actor, o, target) ==
    /\ Exists(o) /\ orders[o].version < MaxVersion
    /\ can_access_order(actor, orders[o])
    /\ actor.role = "customer" => target = "cancelled"
    /\ allows(orders[o].status, target)
    /\ save_transition(transition(orders[o], target))

Busy(courier) ==
    \E o \in OrderIds :
        Exists(o) /\ orders[o].courier = courier /\ orders[o].status \in {"assigned", "picked_up"}

Waiting == {o \in OrderIds : Exists(o) /\ orders[o].status = "created"}

\* claim_next_order
Claim(courier) ==
    /\ ~Busy(courier)
    /\ \E o \in Waiting :
          /\ \A p \in Waiting : o <= p
          /\ save_transition(assign(orders[o], courier))

MemoryNext ==
    \/ \E scope \in Scopes : Replay(scope)
    \/ \E courier \in Couriers : Claim(courier)
    \/ \E o \in OrderIds :
          \/ \E scope \in Scopes, details \in Details : Create(o, scope, details)
          \/ \E actor \in Actor, changes \in DetailChanges : Update(actor, o, changes)
          \/ \E actor \in Actor, target \in OrderStatus : Transition(actor, o, target)

-----------------------------------------------------------------------------
Told(o) == {i \in DOMAIN order_outbox : order_outbox[i].order = o}

(***************************************************************************)
(* Who follows the outbox knows the status of every order: its events are  *)
(* its creation and then allowed changes with rising versions, and the     *)
(* last one has the status that is stored.                                 *)
(***************************************************************************)
EventsTellTheStatus ==
    \A o \in OrderIds :
        IF Exists(o)
        THEN /\ \E i \in Told(o) :
                   /\ order_outbox[i].type = "order.created"
                   /\ \A j \in Told(o) : i <= j
             /\ \E i \in Told(o) :
                   /\ order_outbox[i].status = orders[o].status
                   /\ \A j \in Told(o) : j <= i
             /\ \A i, j \in Told(o) :
                   i < j /\ (\A k \in Told(o) : k <= i \/ j <= k) =>
                       /\ order_outbox[i].version < order_outbox[j].version
                       /\ allows(order_outbox[i].status, order_outbox[j].status)
        ELSE Told(o) = {}

(***************************************************************************)
(* A courier has one order in progress at most and can claim the next one  *)
(* when it is over, however dispatchers move the orders meanwhile.         *)
(***************************************************************************)
OneOrderInProgress ==
    \A o, p \in OrderIds :
        /\ Exists(o) /\ orders[o].status \in {"assigned", "picked_up"}
        /\ Exists(p) /\ orders[p].status \in {"assigned", "picked_up"}
        /\ orders[o].courier = orders[p].courier /\ orders[o].courier # None
        => o = p

(***************************************************************************)
(* "A retry must replay the result of the original command even if the     *)
(* order has changed since": all answers to one key are the same.          *)
(***************************************************************************)
OneAnswerPerKey == \A s \in Scopes : \A a, b \in answers[s] : a = b
=============================================================================
