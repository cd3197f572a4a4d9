------------------------------ MODULE OrderBook ------------------------------
(***************************************************************************)
(* What the OrderRepository port (ports.py) promises: the committed tables *)
(* of the order aggregate change only by whole commands, one at a time.    *)
(* The tables are the ones of db.py that the order commands write; the     *)
(* PostgreSQL adapter is modelled in PgOrders and shown to implement this  *)
(* specification, with its transactions, locks, retries and crashes.       *)
(*                                                                         *)
(* An AssignmentRow is always active: no code sets active to False, so the *)
(* two partial unique indexes range over the whole table.                  *)
(***************************************************************************)
EXTENDS OrderDomain

CONSTANT Keys    \* values of the Idempotency-Key header

VARIABLES
    orders,        \* delivery_order: id -> row, None when there is no row
    assignments,   \* courier_assignment
    history,       \* order_transition_history
    outbox,        \* outbox_event
    idempotency    \* idempotency_record

tables == <<orders, assignments, history, outbox, idempotency>>

OrderRow ==
    [customer : Customers, details : Details, status : OrderStatus, version : Nat]

AssignmentRow == [order : OrderIds, courier : Couriers]

TransitionHistoryRow ==
    [order : OrderIds, version : Nat, from : OrderStatus, to : OrderStatus]

OutboxRow ==
    [type : {"order.created", "order.status_changed"}, order : OrderIds,
     version : Nat, status : OrderStatus]

\* The key is the scope create_order:<tenant>:<customer>:<header>; the
\* fingerprint is the digest of the canonical payload, so the payload itself.
IdempotencyRow ==
    [customer : Customers, key : Keys, fingerprint : Details, response : DeliveryOrder]

ASSUME NoRowAssumption == None \notin OrderRow /\ None \notin DeliveryOrder

\* The columns of delivery_order; the courier is in courier_assignment.
row_of(order) ==
    [customer |-> order.customer, details |-> order.details,
     status |-> order.status, version |-> order.version]

history_row(before, after) ==
    [order |-> after.id, version |-> after.version,
     from |-> before.status, to |-> after.status]

status_changed_event(after) ==
    [type |-> "order.status_changed", order |-> after.id,
     version |-> after.version, status |-> after.status]

created_event(order) ==
    [type |-> "order.created", order |-> order.id,
     version |-> order.version, status |-> order.status]

idempotency_row(order, key, details) ==
    [customer |-> order.customer, key |-> key, fingerprint |-> details,
     response |-> order]

\* _domain: the order row joined with its active assignment.
_domain(o, row, courier) ==
    [id |-> o, customer |-> row.customer, details |-> row.details,
     status |-> row.status, courier |-> courier, version |-> row.version]

Exists(o) == orders[o] # None

-----------------------------------------------------------------------------
(***************************************************************************)
(* The whole commands.                                                     *)
(***************************************************************************)
BookInit ==
    /\ orders = [o \in OrderIds |-> None]
    /\ assignments = {}
    /\ history = {}
    /\ outbox = {}
    /\ idempotency = {}

BookCreate(o, customer, key, details) ==
    LET order == create(o, customer, details) IN
    /\ ~Exists(o)
    /\ ValidDetails(details)
    /\ \A i \in idempotency : ~(i.customer = customer /\ i.key = key)
    /\ orders' = [orders EXCEPT ![o] = row_of(order)]
    /\ outbox' = outbox \cup {created_event(order)}
    /\ idempotency' = idempotency \cup {idempotency_row(order, key, details)}
    /\ UNCHANGED <<assignments, history>>

BookUpdate(o, details) ==
    /\ Exists(o)
    /\ ValidDetails(details)
    /\ orders' = [orders EXCEPT ![o] =
          [customer |-> @.customer, details |-> details,
           status |-> @.status, version |-> @.version + 1]]
    /\ UNCHANGED <<assignments, history, outbox, idempotency>>

\* The order takes the new status, its audit row and its event, all at once.
Advance(o, target) ==
    LET before == _domain(o, orders[o], None)
        after  == transition(before, target)
    IN  /\ Exists(o)
        /\ allows(before.status, target)
        /\ orders' = [orders EXCEPT ![o] = row_of(after)]
        /\ history' = history \cup {history_row(before, after)}
        /\ outbox' = outbox \cup {status_changed_event(after)}
        /\ UNCHANGED idempotency

BookTransition(o, target) ==
    /\ Advance(o, target)
    /\ UNCHANGED assignments

BookAssign(o, courier) ==
    /\ Advance(o, "assigned")
    /\ \A a \in assignments : a.order # o /\ a.courier # courier
    /\ assignments' = assignments \cup {[order |-> o, courier |-> courier]}

BookNext ==
    \E o \in OrderIds :
        \/ \E customer \in Customers, key \in Keys, details \in Details :
               BookCreate(o, customer, key, details)
        \/ \E details \in Details : BookUpdate(o, details)
        \/ \E target \in OrderStatus : BookTransition(o, target)
        \/ \E courier \in Couriers : BookAssign(o, courier)

BookSpec == BookInit /\ [][BookNext]_tables

-----------------------------------------------------------------------------
(***************************************************************************)
(* What the committed tables say about each other.                         *)
(***************************************************************************)

\* Every table holds rows of its own shape.
TablesTypeOK ==
    /\ orders \in [OrderIds -> OrderRow \cup {None}]
    /\ assignments \subseteq AssignmentRow
    /\ history \subseteq TransitionHistoryRow
    /\ outbox \subseteq OutboxRow
    /\ idempotency \subseteq IdempotencyRow

\* h is the last of the audit rows of order o before version v.
LastBefore(rows, h, o, v) ==
    /\ h \in rows
    /\ h.order = o
    /\ h.version < v
    /\ \A g \in rows : g.order = o /\ g.version < v => g.version <= h.version

\* According to the audit rows, o had this status just before version v.
StatusBefore(rows, o, v, status) ==
    \/ status = "created" /\ \A h \in rows : ~(h.order = o /\ h.version < v)
    \/ \E h \in rows : LastBefore(rows, h, o, v) /\ h.to = status

\* The audit trail of an order is an unbroken chain: it starts at created,
\* every row is an allowed transition that leaves the status the row before it
\* reached, no two rows share a version, none is ahead of the order, and the
\* last one reached the status the order row holds (save_transition and
\* claim_next_created_order write both in one transaction).
HistoryChain ==
    /\ \A h \in history :
          /\ Exists(h.order)
          /\ h.version <= orders[h.order].version
          /\ allows(h.from, h.to)
          /\ StatusBefore(history, h.order, h.version, h.from)
    /\ \A g, h \in history : g.order = h.order /\ g.version = h.version => g = h
    /\ \A o \in OrderIds :
          Exists(o) => StatusBefore(history, o, orders[o].version + 1, orders[o].status)

\* The outbox announces exactly what was committed: one order.created for every
\* order, one order.status_changed for every audit row, and nothing else.
OutboxMatchesHistory ==
    outbox = {[type |-> "order.created", order |-> o, version |-> 1,
               status |-> "created"] : o \in {p \in OrderIds : Exists(p)}}
        \cup {[type |-> "order.status_changed", order |-> h.order,
               version |-> h.version, status |-> h.to] : h \in history}

\* An assignment belongs to an order that has left the queue by an audited
\* assignment; no order has two couriers and no courier two orders (the two
\* partial unique indexes of AssignmentRow).
AssignmentsExclusive ==
    /\ \A a \in assignments :
          \E h \in history : h.order = a.order /\ h.to = "assigned"
    /\ \A a, b \in assignments :
          a.order = b.order \/ a.courier = b.courier => a = b

\* Orders and idempotency records are in bijection: every committed order is the
\* resource of exactly one record, every record names a committed order of its
\* own customer, and the stored response is the order as it was created.
IdempotencyBijective ==
    /\ \A i \in idempotency :
          /\ Exists(i.response.id)
          /\ orders[i.response.id].customer = i.customer
          /\ i.response = create(i.response.id, i.customer, i.fingerprint)
    /\ \A i, j \in idempotency :
          \/ i.response.id = j.response.id
          \/ i.customer = j.customer /\ i.key = j.key
          => i = j
    /\ \A o \in OrderIds :
          Exists(o) => \E i \in idempotency : i.response.id = o

\* Pickup and destination of a committed order differ, also after partial
\* updates that each change only one of them (update_details).
AddressesDiffer == \A o \in OrderIds : Exists(o) => ValidDetails(orders[o].details)

\* The committed tables agree: every audit trail is an unbroken chain that ends in
\* the stored status, the outbox announces exactly it, assignments are exclusive,
\* orders and idempotency records are in bijection, and addresses differ.
TablesAgree ==
    /\ HistoryChain
    /\ OutboxMatchesHistory
    /\ AssignmentsExclusive
    /\ IdempotencyBijective
    /\ AddressesDiffer
=============================================================================
