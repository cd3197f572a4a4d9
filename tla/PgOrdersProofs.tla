--------------------------- MODULE PgOrdersProofs ---------------------------
(***************************************************************************)
(* OrderBook keeps its tables consistent, and the PostgreSQL adapter       *)
(* implements it: IInv is inductive, and every step of a request either    *)
(* leaves the tables alone or is one whole command of OrderBook.  The      *)
(* relations between the tables then hold for the adapter.                 *)
(***************************************************************************)
EXTENDS PgOrders, TLAPS

\* The provers tried for a leaf, with the seconds each one has.
USE ZenonT(3), SMTT(40), ZenonT(40)

-----------------------------------------------------------------------------
(***************************************************************************)
(* The relations between the committed tables hold in every state of       *)
(* OrderBook, for every set of identifiers, customers, couriers, addresses *)
(* and keys.  Each proof has one step per command.                         *)
(***************************************************************************)

\* Every command leaves rows of the right shape in every table.
THEOREM BookTypeCorrect == BookSpec => []TablesTypeOK
<1>1. BookInit => TablesTypeOK
  BY DEF BookInit, TablesTypeOK
<1>2. TablesTypeOK /\ [BookNext]_tables => TablesTypeOK'
  <2> SUFFICES ASSUME TablesTypeOK, [BookNext]_tables
               PROVE  TablesTypeOK'
    OBVIOUS
  <2>1. CASE UNCHANGED tables
    BY <2>1 DEF tables, TablesTypeOK
  <2>2. ASSUME NEW o \in OrderIds, NEW customer \in Customers, NEW key \in Keys,
               NEW details \in Details, BookCreate(o, customer, key, details)
        PROVE  TablesTypeOK'
    <3> DEFINE order == create(o, customer, details)
    <3>1. order \in DeliveryOrder
      BY DEF create, DeliveryOrder, OrderStatus
    <3>2. row_of(order) \in OrderRow /\ created_event(order) \in OutboxRow
      BY <3>1 DEF create, row_of, created_event, DeliveryOrder, OrderRow, OutboxRow
    <3>3. idempotency_row(order, key, details) \in IdempotencyRow
      BY <3>1 DEF create, idempotency_row, DeliveryOrder, IdempotencyRow
    <3> HIDE DEF order
    <3> QED
      BY <2>2, <3>2, <3>3 DEF BookCreate, TablesTypeOK, order
  <2>3. ASSUME NEW o \in OrderIds, NEW details \in Details, BookUpdate(o, details)
        PROVE  TablesTypeOK'
    BY <2>3 DEF BookUpdate, TablesTypeOK, OrderRow, Exists
  <2>4. ASSUME NEW o \in OrderIds, NEW target \in OrderStatus, Advance(o, target)
        PROVE  /\ orders' \in [OrderIds -> OrderRow \cup {None}]
               /\ history' \subseteq TransitionHistoryRow
               /\ outbox' \subseteq OutboxRow
               /\ idempotency' \subseteq IdempotencyRow
    BY <2>4 DEF Advance, TablesTypeOK, OrderRow, TransitionHistoryRow, OutboxRow,
                _domain, transition, row_of, history_row, status_changed_event, Exists
  <2>5. ASSUME NEW o \in OrderIds, NEW target \in OrderStatus, BookTransition(o, target)
        PROVE  TablesTypeOK'
    BY <2>4, <2>5 DEF BookTransition, TablesTypeOK
  <2>6. ASSUME NEW o \in OrderIds, NEW courier \in Couriers, BookAssign(o, courier)
        PROVE  TablesTypeOK'
    <3>1. "assigned" \in OrderStatus
      BY DEF OrderStatus
    <3> QED
      BY <2>4, <2>6, <3>1 DEF BookAssign, TablesTypeOK, AssignmentRow
  <2> QED
    BY <2>1, <2>2, <2>3, <2>5, <2>6 DEF BookNext
<1> QED
  BY <1>1, <1>2, PTL DEF BookSpec

-----------------------------------------------------------------------------
\* What an accepted transition writes, field by field.
LEMMA AdvanceEffect ==
    ASSUME TablesTypeOK, NEW o \in OrderIds, NEW target \in OrderStatus,
           Advance(o, target)
    PROVE  /\ orders[o] \in OrderRow
           /\ allows(orders[o].status, target)
           /\ orders' = [orders EXCEPT ![o] =
                 [customer |-> orders[o].customer, details |-> orders[o].details,
                  status |-> target, version |-> orders[o].version + 1]]
           /\ history' = history \cup
                 {[order |-> o, version |-> orders[o].version + 1,
                   from |-> orders[o].status, to |-> target]}
           /\ outbox' = outbox \cup
                 {[type |-> "order.status_changed", order |-> o,
                   version |-> orders[o].version + 1, status |-> target]}
           /\ idempotency' = idempotency
<1>1. orders[o] \in OrderRow
  BY DEF Advance, Exists, TablesTypeOK
<1> QED
  BY <1>1 DEF Advance, OrderRow, _domain, transition, row_of, history_row,
              status_changed_event

\* An accepted transition neither adds nor removes an order, and keeps the
\* customer and the details of every one.
LEMMA AdvanceKeepsOrders ==
    ASSUME TablesTypeOK, NEW o \in OrderIds, NEW target \in OrderStatus,
           Advance(o, target)
    PROVE  \A p \in OrderIds :
               /\ Exists(p)' <=> Exists(p)
               /\ Exists(p) => /\ orders'[p].customer = orders[p].customer
                               /\ orders'[p].details = orders[p].details
<1>1. /\ orders[o] \in OrderRow
      /\ Exists(o)
      /\ orders' = [orders EXCEPT ![o] =
            [customer |-> orders[o].customer, details |-> orders[o].details,
             status |-> target, version |-> orders[o].version + 1]]
  BY AdvanceEffect DEF Advance
<1>2. [customer |-> orders[o].customer, details |-> orders[o].details,
       status |-> target, version |-> orders[o].version + 1] \in OrderRow
  BY <1>1 DEF OrderRow
<1> QED
  BY <1>1, <1>2, NoRowAssumption DEF TablesTypeOK, Exists

\* An accepted transition extends the audit chain of its order by one link.
LEMMA AdvanceKeepsChain ==
    ASSUME TablesTypeOK, HistoryChain, NEW o \in OrderIds,
           NEW target \in OrderStatus, Advance(o, target)
    PROVE  HistoryChain'
<1> DEFINE v == orders[o].version
           link == [order |-> o, version |-> v + 1,
                    from |-> orders[o].status, to |-> target]
<1>1. /\ orders[o] \in OrderRow
      /\ Exists(o)
      /\ allows(orders[o].status, target)
      /\ orders' = [orders EXCEPT ![o] =
            [customer |-> orders[o].customer, details |-> orders[o].details,
             status |-> target, version |-> v + 1]]
      /\ history' = history \cup {link}
  BY AdvanceEffect DEF Advance
<1>2. v \in Nat /\ link.order = o /\ link.version = v + 1 /\ link.to = target
      /\ link.from = orders[o].status
  BY <1>1 DEF OrderRow
<1>3. \A h \in history : h.order \in OrderIds /\ h.version \in Nat
  BY DEF TablesTypeOK, TransitionHistoryRow
<1>4. \A h \in history : h.order = o => h.version <= v
  BY DEF HistoryChain
<1>5. \A p \in OrderIds : /\ p # o => orders'[p] = orders[p]
                          /\ Exists(p)' <=> Exists(p)
  BY <1>1, NoRowAssumption DEF TablesTypeOK, Exists, OrderRow
<1>6. orders'[o].version = v + 1 /\ orders'[o].status = target
  BY <1>1 DEF TablesTypeOK
<1> HIDE DEF v, link
<1>7. ASSUME NEW p \in OrderIds, NEW w \in Nat, NEW status,
             StatusBefore(history, p, w, status), p = o => w <= v + 1
      PROVE  StatusBefore(history', p, w, status)
  BY <1>1, <1>2, <1>3, <1>7 DEF StatusBefore, LastBefore
<1>8. StatusBefore(history', o, v + 1, orders[o].status)
  <2>1. StatusBefore(history, o, v + 1, orders[o].status)
    BY <1>1 DEF HistoryChain, v
  <2>2. v + 1 \in Nat /\ v + 1 <= v + 1
    BY <1>2
  <2> QED
    BY <1>7, <2>1, <2>2
<1>9. ASSUME NEW h \in history'
      PROVE  /\ Exists(h.order)'
             /\ h.version <= orders'[h.order].version
             /\ allows(h.from, h.to)
             /\ StatusBefore(history', h.order, h.version, h.from)
  <2>1. CASE h = link
    BY <1>1, <1>2, <1>5, <1>6, <1>8, <2>1
  <2>2. CASE h \in history
    <3>1. /\ Exists(h.order) /\ h.version <= orders[h.order].version
          /\ allows(h.from, h.to) /\ StatusBefore(history, h.order, h.version, h.from)
      BY <2>2 DEF HistoryChain
    <3>2. StatusBefore(history', h.order, h.version, h.from)
      BY <1>2, <1>3, <1>4, <1>7, <2>2, <3>1
    <3> QED
      BY <1>2, <1>3, <1>4, <1>5, <1>6, <2>2, <3>1, <3>2
  <2> QED
    BY <1>1, <2>1, <2>2
<1>10. \A g, h \in history' : g.order = h.order /\ g.version = h.version => g = h
  BY <1>1, <1>2, <1>3, <1>4 DEF HistoryChain
<1>11. ASSUME NEW p \in OrderIds, Exists(p)'
       PROVE  StatusBefore(history', p, orders'[p].version + 1, orders'[p].status)
  <2>1. CASE p = o
    <3>1. LastBefore(history', link, o, v + 1 + 1)
      BY <1>1, <1>2, <1>3, <1>4 DEF LastBefore
    <3> QED
      BY <1>1, <1>2, <1>6, <2>1, <3>1 DEF StatusBefore
  <2>2. CASE p # o
    <3>1. StatusBefore(history, p, orders[p].version + 1, orders[p].status)
      BY <1>5, <1>11 DEF HistoryChain
    <3>2. orders[p].version + 1 \in Nat
      BY <1>5, <1>11 DEF TablesTypeOK, OrderRow, Exists
    <3> QED
      BY <1>5, <1>7, <2>2, <3>1, <3>2
  <2> QED
    BY <2>1, <2>2
<1> QED
  BY <1>9, <1>10, <1>11 DEF HistoryChain

\* The audit trail of every order is an unbroken chain of allowed transitions
\* that ends at the status the order row holds.
THEOREM BookHistoryChain == BookSpec => []HistoryChain
<1>1. BookInit => HistoryChain
  BY DEF BookInit, HistoryChain, Exists
<1>2. TablesTypeOK /\ HistoryChain /\ [BookNext]_tables => HistoryChain'
  <2> SUFFICES ASSUME TablesTypeOK, HistoryChain, [BookNext]_tables
               PROVE  HistoryChain'
    OBVIOUS
  <2>0. \A h \in history : h.order \in OrderIds /\ h.version \in Nat
    BY DEF TablesTypeOK, TransitionHistoryRow
  <2>1. CASE UNCHANGED tables
    BY <2>1 DEF tables, HistoryChain, Exists
  <2>2. ASSUME NEW o \in OrderIds, NEW customer \in Customers, NEW key \in Keys,
               NEW details \in Details, BookCreate(o, customer, key, details)
        PROVE  HistoryChain'
    <3>1. /\ history' = history
          /\ ~Exists(o)
          /\ orders' = [orders EXCEPT ![o] = row_of(create(o, customer, details))]
      BY <2>2 DEF BookCreate
    <3>2. \A p \in OrderIds : p # o => orders'[p] = orders[p]
      BY <3>1 DEF TablesTypeOK
    <3>3. \A h \in history : h.order # o
      BY <3>1 DEF HistoryChain
    <3>4. orders'[o].status = "created"
      BY <3>1 DEF TablesTypeOK, row_of, create
    <3>5. StatusBefore(history', o, orders'[o].version + 1, orders'[o].status)
      BY <3>1, <3>3, <3>4 DEF StatusBefore
    <3> QED
      BY <2>0, <3>1, <3>2, <3>3, <3>5 DEF HistoryChain, Exists
  <2>3. ASSUME NEW o \in OrderIds, NEW details \in Details, BookUpdate(o, details)
        PROVE  HistoryChain'
    <3>1. /\ history' = history
          /\ orders[o] \in OrderRow
          /\ orders' = [orders EXCEPT ![o] =
                [customer |-> orders[o].customer, details |-> details,
                 status |-> orders[o].status, version |-> orders[o].version + 1]]
      BY <2>3 DEF BookUpdate, Exists, TablesTypeOK, OrderRow
    <3>2. \A p \in OrderIds : /\ p # o => orders'[p] = orders[p]
                              /\ Exists(p)' <=> Exists(p)
      BY <2>3, <3>1, NoRowAssumption DEF BookUpdate, TablesTypeOK, Exists, OrderRow
    <3>3. /\ orders[o].version \in Nat
          /\ orders'[o].version = orders[o].version + 1
          /\ orders'[o].status = orders[o].status
      BY <3>1 DEF TablesTypeOK, OrderRow
    <3>4. \A h \in history : h.order = o => h.version <= orders[o].version
      BY DEF HistoryChain
    <3>5. StatusBefore(history, o, orders[o].version + 1, orders[o].status)
      BY <2>3 DEF BookUpdate, HistoryChain
    <3>6. StatusBefore(history', o, orders'[o].version + 1, orders'[o].status)
      BY <2>0, <3>1, <3>3, <3>4, <3>5 DEF StatusBefore, LastBefore
    <3> QED
      BY <2>0, <3>1, <3>2, <3>3, <3>6 DEF HistoryChain
  <2>4. ASSUME NEW o \in OrderIds, NEW target \in OrderStatus, Advance(o, target)
        PROVE  HistoryChain'
    BY <2>4, AdvanceKeepsChain
  <2>5. "assigned" \in OrderStatus
    BY DEF OrderStatus
  <2> QED
    BY <2>1, <2>2, <2>3, <2>4, <2>5 DEF BookNext, BookTransition, BookAssign
<1> QED
  BY <1>1, <1>2, BookTypeCorrect, PTL DEF BookSpec

\* The outbox announces every committed order and transition, and nothing else.
THEOREM BookOutboxMatchesHistory == BookSpec => []OutboxMatchesHistory
<1>1. BookInit => OutboxMatchesHistory
  BY DEF BookInit, OutboxMatchesHistory, Exists
<1>2. TablesTypeOK /\ OutboxMatchesHistory /\ [BookNext]_tables
         => OutboxMatchesHistory'
  <2> SUFFICES ASSUME TablesTypeOK, OutboxMatchesHistory, [BookNext]_tables
               PROVE  OutboxMatchesHistory'
    OBVIOUS
  <2> DEFINE News(o) == [type |-> "order.created", order |-> o, version |-> 1,
                         status |-> "created"]
             Change(h) == [type |-> "order.status_changed", order |-> h.order,
                           version |-> h.version, status |-> h.to]
  <2>1. CASE UNCHANGED tables
    BY <2>1 DEF tables, OutboxMatchesHistory, Exists
  <2>2. ASSUME NEW o \in OrderIds, NEW customer \in Customers, NEW key \in Keys,
               NEW details \in Details, BookCreate(o, customer, key, details)
        PROVE  OutboxMatchesHistory'
    <3>1. /\ history' = history
          /\ outbox' = outbox \cup {News(o)}
          /\ orders' = [orders EXCEPT ![o] = row_of(create(o, customer, details))]
          /\ row_of(create(o, customer, details)) \in OrderRow
      BY <2>2 DEF BookCreate, created_event, create, row_of, OrderRow, OrderStatus
    <3>2. {p \in OrderIds : Exists(p)'} = {p \in OrderIds : Exists(p)} \cup {o}
      BY <3>1, NoRowAssumption DEF TablesTypeOK, Exists
    <3> HIDE DEF News, Change
    <3>3. outbox = {News(p) : p \in {q \in OrderIds : Exists(q)}}
                      \cup {Change(h) : h \in history}
      BY DEF OutboxMatchesHistory, News, Change
    <3>4. outbox' = {News(p) : p \in {q \in OrderIds : Exists(q)'}}
                      \cup {Change(h) : h \in history'}
      BY <3>1, <3>2, <3>3
    <3> QED
      BY <3>4 DEF OutboxMatchesHistory, News, Change
  <2>3. ASSUME NEW o \in OrderIds, NEW details \in Details, BookUpdate(o, details)
        PROVE  OutboxMatchesHistory'
    <3>1. \A p \in OrderIds : Exists(p)' <=> Exists(p)
      BY <2>3, NoRowAssumption DEF BookUpdate, TablesTypeOK, Exists, OrderRow
    <3> QED
      BY <2>3, <3>1 DEF BookUpdate, OutboxMatchesHistory
  <2>4. ASSUME NEW o \in OrderIds, NEW target \in OrderStatus, Advance(o, target)
        PROVE  OutboxMatchesHistory'
    <3> DEFINE link == [order |-> o, version |-> orders[o].version + 1,
                        from |-> orders[o].status, to |-> target]
    <3>1. history' = history \cup {link} /\ outbox' = outbox \cup {Change(link)}
      BY <2>4, AdvanceEffect
    <3>2. \A p \in OrderIds : Exists(p)' <=> Exists(p)
      BY <2>4, AdvanceKeepsOrders
    <3> HIDE DEF link, News, Change
    <3>3. outbox = {News(p) : p \in {q \in OrderIds : Exists(q)}}
                      \cup {Change(h) : h \in history}
      BY DEF OutboxMatchesHistory, News, Change
    <3>4. outbox' = {News(p) : p \in {q \in OrderIds : Exists(q)'}}
                      \cup {Change(h) : h \in history'}
      BY <3>1, <3>2, <3>3
    <3> QED
      BY <3>4 DEF OutboxMatchesHistory, News, Change
  <2>5. "assigned" \in OrderStatus
    BY DEF OrderStatus
  <2> QED
    BY <2>1, <2>2, <2>3, <2>4, <2>5 DEF BookNext, BookTransition, BookAssign
<1> QED
  BY <1>1, <1>2, BookTypeCorrect, PTL DEF BookSpec

\* An assignment follows an audited transition to assigned; no order and no
\* courier has two.
THEOREM BookAssignmentsExclusive == BookSpec => []AssignmentsExclusive
<1>1. BookInit => AssignmentsExclusive
  BY DEF BookInit, AssignmentsExclusive
<1>2. TablesTypeOK /\ AssignmentsExclusive /\ [BookNext]_tables
         => AssignmentsExclusive'
  <2> SUFFICES ASSUME TablesTypeOK, AssignmentsExclusive, [BookNext]_tables
               PROVE  AssignmentsExclusive'
    OBVIOUS
  <2>1. CASE UNCHANGED tables
    BY <2>1 DEF tables, AssignmentsExclusive
  <2>2. ASSUME NEW o \in OrderIds, NEW customer \in Customers, NEW key \in Keys,
               NEW details \in Details, BookCreate(o, customer, key, details)
        PROVE  AssignmentsExclusive'
    BY <2>2 DEF BookCreate, AssignmentsExclusive
  <2>3. ASSUME NEW o \in OrderIds, NEW details \in Details, BookUpdate(o, details)
        PROVE  AssignmentsExclusive'
    BY <2>3 DEF BookUpdate, AssignmentsExclusive
  <2>4. ASSUME NEW o \in OrderIds, NEW target \in OrderStatus, BookTransition(o, target)
        PROVE  AssignmentsExclusive'
    BY <2>4 DEF BookTransition, Advance, AssignmentsExclusive
  <2>5. ASSUME NEW o \in OrderIds, NEW courier \in Couriers, BookAssign(o, courier)
        PROVE  AssignmentsExclusive'
    <3> DEFINE link == [order |-> o, version |-> orders[o].version + 1,
                        from |-> orders[o].status, to |-> "assigned"]
               new == [order |-> o, courier |-> courier]
    <3>1. history' = history \cup {link}
      BY <2>5, AdvanceEffect DEF BookAssign, OrderStatus
    <3>2. /\ assignments' = assignments \cup {new}
          /\ \A a \in assignments : a.order # o /\ a.courier # courier
      BY <2>5 DEF BookAssign
    <3>3. link.order = o /\ link.to = "assigned" /\ new.order = o /\ new.courier = courier
      OBVIOUS
    <3> HIDE DEF link, new
    <3> QED
      BY <3>1, <3>2, <3>3 DEF AssignmentsExclusive
  <2> QED
    BY <2>1, <2>2, <2>3, <2>4, <2>5 DEF BookNext
<1> QED
  BY <1>1, <1>2, BookTypeCorrect, PTL DEF BookSpec

\* Committed orders and idempotency records are in bijection, and a record keeps
\* the order as it was created.
THEOREM BookIdempotencyBijective == BookSpec => []IdempotencyBijective
<1>1. BookInit => IdempotencyBijective
  BY DEF BookInit, IdempotencyBijective, Exists
<1>2. TablesTypeOK /\ IdempotencyBijective /\ [BookNext]_tables
         => IdempotencyBijective'
  <2> SUFFICES ASSUME TablesTypeOK, IdempotencyBijective, [BookNext]_tables
               PROVE  IdempotencyBijective'
    OBVIOUS
  <2>0. \A i \in idempotency : i.response.id \in OrderIds
    BY DEF TablesTypeOK, IdempotencyRow, DeliveryOrder
  <2>1. CASE UNCHANGED tables
    BY <2>1 DEF tables, IdempotencyBijective, Exists
  <2>2. ASSUME NEW o \in OrderIds, NEW customer \in Customers, NEW key \in Keys,
               NEW details \in Details, BookCreate(o, customer, key, details)
        PROVE  IdempotencyBijective'
    <3> DEFINE order == create(o, customer, details)
               new == idempotency_row(order, key, details)
    <3>1. /\ ~Exists(o)
          /\ \A i \in idempotency : ~(i.customer = customer /\ i.key = key)
          /\ orders' = [orders EXCEPT ![o] = row_of(order)]
          /\ idempotency' = idempotency \cup {new}
      BY <2>2 DEF BookCreate
    <3>2. row_of(order) \in OrderRow /\ row_of(order).customer = customer
      BY DEF create, row_of, OrderRow, OrderStatus
    <3>3. /\ new.customer = customer /\ new.key = key
          /\ new.fingerprint = details /\ new.response = order
          /\ order.id = o
      BY DEF idempotency_row, create
    <3>4. order = create(o, customer, details)
      OBVIOUS
    <3>5. \A p \in OrderIds : p # o => orders'[p] = orders[p]
      BY <3>1 DEF TablesTypeOK
    <3>6. orders'[o] = row_of(order) /\ Exists(o)'
      BY <3>1, <3>2, NoRowAssumption DEF TablesTypeOK, Exists
    <3>7. \A i \in idempotency : i.response.id # o
      BY <3>1 DEF IdempotencyBijective
    <3> HIDE DEF order, new
    <3>8. \A i \in idempotency' :
             /\ Exists(i.response.id)'
             /\ orders'[i.response.id].customer = i.customer
             /\ i.response = create(i.response.id, i.customer, i.fingerprint)
      BY <2>0, <3>1, <3>2, <3>3, <3>4, <3>5, <3>6, <3>7
         DEF IdempotencyBijective, Exists
    <3>9. \A i, j \in idempotency' :
             i.response.id = j.response.id \/ (i.customer = j.customer /\ i.key = j.key)
                => i = j
      BY <3>1, <3>3, <3>7 DEF IdempotencyBijective
    <3>10. \A p \in OrderIds : Exists(p)' => \E i \in idempotency' : i.response.id = p
      BY <3>1, <3>3, <3>5 DEF IdempotencyBijective, Exists
    <3> QED
      BY <3>8, <3>9, <3>10 DEF IdempotencyBijective
  <2>3. ASSUME NEW o \in OrderIds, NEW details \in Details, BookUpdate(o, details)
        PROVE  IdempotencyBijective'
    <3>1. \A p \in OrderIds :
             /\ Exists(p)' <=> Exists(p)
             /\ Exists(p) => orders'[p].customer = orders[p].customer
      BY <2>3, NoRowAssumption DEF BookUpdate, TablesTypeOK, Exists, OrderRow
    <3>2. idempotency' = idempotency
      BY <2>3 DEF BookUpdate
    <3> QED
      BY <2>0, <3>1, <3>2 DEF IdempotencyBijective
  <2>4. ASSUME NEW o \in OrderIds, NEW target \in OrderStatus, Advance(o, target)
        PROVE  IdempotencyBijective'
    BY <2>0, <2>4, AdvanceKeepsOrders DEF Advance, IdempotencyBijective
  <2>5. "assigned" \in OrderStatus
    BY DEF OrderStatus
  <2> QED
    BY <2>1, <2>2, <2>3, <2>4, <2>5 DEF BookNext, BookTransition, BookAssign
<1> QED
  BY <1>1, <1>2, BookTypeCorrect, PTL DEF BookSpec

\* Pickup and destination of every committed order differ.
LEMMA BookAddressesDiffer == BookSpec => []AddressesDiffer
<1>1. BookInit => AddressesDiffer
  BY DEF BookInit, AddressesDiffer, Exists
<1>2. TablesTypeOK /\ AddressesDiffer /\ [BookNext]_tables => AddressesDiffer'
  <2> SUFFICES ASSUME TablesTypeOK, AddressesDiffer, [BookNext]_tables
               PROVE  AddressesDiffer'
    OBVIOUS
  <2>1. CASE UNCHANGED tables
    BY <2>1 DEF tables, AddressesDiffer, Exists
  <2>2. ASSUME NEW o \in OrderIds, NEW customer \in Customers, NEW key \in Keys,
               NEW details \in Details, BookCreate(o, customer, key, details)
        PROVE  AddressesDiffer'
    BY <2>2 DEF BookCreate, AddressesDiffer, TablesTypeOK, Exists, row_of, create
  <2>3. ASSUME NEW o \in OrderIds, NEW details \in Details, BookUpdate(o, details)
        PROVE  AddressesDiffer'
    BY <2>3 DEF BookUpdate, AddressesDiffer, TablesTypeOK, Exists, OrderRow
  <2>4. ASSUME NEW o \in OrderIds, NEW target \in OrderStatus, Advance(o, target)
        PROVE  AddressesDiffer'
    BY <2>4, AdvanceKeepsOrders DEF AddressesDiffer
  <2>5. "assigned" \in OrderStatus
    BY DEF OrderStatus
  <2> QED
    BY <2>1, <2>2, <2>3, <2>4, <2>5 DEF BookNext, BookTransition, BookAssign
<1> QED
  BY <1>1, <1>2, BookTypeCorrect, PTL DEF BookSpec

\* All of it together: the committed tables agree with each other.
THEOREM BookTablesAgree == BookSpec => []TablesAgree
BY BookHistoryChain, BookOutboxMatchesHistory, BookAssignmentsExclusive,
   BookIdempotencyBijective, BookAddressesDiffer, PTL DEF TablesAgree

-----------------------------------------------------------------------------
\* What the methods of the aggregate change, and what they leave alone.
LEMMA TransitionEffect ==
    ASSUME NEW order \in DeliveryOrder, NEW target \in OrderStatus
    PROVE  transition(order, target) =
              [id |-> order.id, customer |-> order.customer,
               details |-> order.details, status |-> target,
               courier |-> order.courier, version |-> order.version + 1]
<1>1. order =
         [id |-> order.id, customer |-> order.customer, details |-> order.details,
          status |-> order.status, courier |-> order.courier,
          version |-> order.version]
  BY DEF DeliveryOrder
<1>2. transition(order, target) =
        [[id |-> order.id, customer |-> order.customer, details |-> order.details,
          status |-> order.status, courier |-> order.courier,
          version |-> order.version]
            EXCEPT !.status = target, !.version = order.version + 1]
  BY <1>1, Zenon DEF transition
<1> QED
  BY <1>2, Zenon

\* What assign does to the fields of an order.
LEMMA AssignEffect ==
    ASSUME NEW order \in DeliveryOrder, NEW courier \in Couriers
    PROVE  assign(order, courier) =
              [id |-> order.id, customer |-> order.customer,
               details |-> order.details, status |-> "assigned",
               courier |-> courier, version |-> order.version + 1]
<1>1. "assigned" \in OrderStatus
  BY DEF OrderStatus
<1> QED
  BY <1>1, TransitionEffect DEF assign

\* What update_details does to the fields of an order.
LEMMA UpdateEffect ==
    ASSUME NEW order \in DeliveryOrder, NEW changes \in DetailChanges
    PROVE  \E details \in Details :
              update_details(order, changes) =
                 [id |-> order.id, customer |-> order.customer,
                  details |-> details, status |-> order.status,
                  courier |-> order.courier, version |-> order.version + 1]
<1> DEFINE details == [pickup |-> replaced(order.details.pickup, changes.pickup),
                       destination |-> replaced(order.details.destination,
                                                changes.destination)]
<1>1. details \in Details
  BY DEF Details, DeliveryOrder, DetailChanges, replaced
<1>2. order =
         [id |-> order.id, customer |-> order.customer, details |-> order.details,
          status |-> order.status, courier |-> order.courier,
          version |-> order.version]
  BY DEF DeliveryOrder
<1>3. update_details(order, changes) =
        [[id |-> order.id, customer |-> order.customer, details |-> order.details,
          status |-> order.status, courier |-> order.courier,
          version |-> order.version]
            EXCEPT !.details = details, !.version = order.version + 1]
  BY <1>2, Zenon DEF update_details
<1> HIDE DEF details
<1> QED
  BY <1>1, <1>2, <1>3, Zenon

-----------------------------------------------------------------------------
(***************************************************************************)
(* The frame of the proof that IInv is inductive: what a step of one       *)
(* request leaves to the others.  Then the steps every command takes and   *)
(* those of create_order.                                                  *)
(***************************************************************************)

\* The kind of a command determines its fields.
LEMMA CommandKinds ==
    ASSUME NEW c \in Command
    PROVE  /\ c.kind \in {"create", "get", "update", "transition", "assign", "claim"}
           /\ c.kind = "create" => c \in CreateCommand
           /\ c.kind = "get" => c \in GetCommand
           /\ c.kind = "update" => c \in UpdateCommand
           /\ c.kind = "transition" => c \in TransitionCommand
           /\ c.kind = "assign" => c \in AssignCommand
           /\ c.kind = "claim" => c \in ClaimCommand
BY DEF Command, CreateCommand, GetCommand, UpdateCommand, TransitionCommand,
       AssignCommand, ClaimCommand

\* The rows of a create, field by field.
LEMMA CreateFields ==
    ASSUME NEW r, NEW w, CreateFits(r, w)
    PROVE  LET order == create(w.order, op[r].customer, op[r].details) IN
           /\ op[r].kind = "create" /\ ~Exists(w.order) /\ ~ScopeTaken(r)
           /\ w.row = row_of(order) /\ w.assignments = {} /\ w.history = {}
           /\ w.outbox = {created_event(order)}
           /\ w.idempotency = {idempotency_row(order, op[r].key, op[r].details)}
<1> DEFINE id == w.order
           order == create(id, op[r].customer, op[r].details)
           rows == [order |-> id, row |-> row_of(order), assignments |-> {},
                    history |-> {}, outbox |-> {created_event(order)},
                    idempotency |-> {idempotency_row(order, op[r].key, op[r].details)}]
<1>1. w = rows
  BY DEF CreateFits
<1>2. op[r].kind = "create" /\ ~Exists(w.order) /\ ~ScopeTaken(r)
  BY DEF CreateFits
<1> HIDE DEF order
<1>3. /\ rows.row = row_of(order) /\ rows.assignments = {} /\ rows.history = {}
      /\ rows.outbox = {created_event(order)}
      /\ rows.idempotency = {idempotency_row(order, op[r].key, op[r].details)}
  OBVIOUS
<1> HIDE DEF rows
<1> QED
  BY <1>1, <1>2, <1>3 DEF order

\* A write that fits raises the version of the row it overwrites by one, assigns
\* its own order only, and keeps the scope of its own create.
LEMMA WriteEffect ==
    ASSUME TablesTypeOK, NEW r \in Requests, NEW w \in WriteSet,
           CreateFits(r, w) \/ UpdateFits(w) \/ TransitionFits(w)
    PROVE  /\ Exists(w.order) => /\ orders[w.order].version \in Nat
                                 /\ w.row.version = orders[w.order].version + 1
           /\ \A a \in w.assignments : a.order = w.order
           /\ \A i \in w.idempotency : op[r].kind = "create" /\ SameScope(op[r], i)
<1> DEFINE o == w.order
           row == orders[o]
<1>1. o \in OrderIds /\ (Exists(o) => row \in OrderRow /\ row.version \in Nat)
  BY DEF WriteSet, TablesTypeOK, Exists, OrderRow
<1>2. CASE CreateFits(r, w)
  <2> DEFINE order == create(o, op[r].customer, op[r].details)
             i == idempotency_row(order, op[r].key, op[r].details)
  <2>1. /\ op[r].kind = "create" /\ ~Exists(o) /\ w.assignments = {}
        /\ w.idempotency = {i}
    BY <1>2, CreateFields
  <2>2. SameScope(op[r], i)
    BY DEF SameScope, idempotency_row, create
  <2> HIDE DEF i
  <2> QED
    BY <2>1, <2>2
<1>3. CASE UpdateFits(w)
  <2>1. w.assignments = {} /\ w.idempotency = {}
    BY <1>3 DEF UpdateFits
  <2>2. w.row.version = row.version + 1
    <3> DEFINE details == w.row.details
    <3>1. w.row = [customer |-> row.customer, details |-> details,
                   status |-> row.status, version |-> row.version + 1]
      BY <1>3 DEF UpdateFits
    <3> HIDE DEF details
    <3> QED
      BY <3>1
  <2> QED
    BY <1>1, <2>1, <2>2
<1>4. CASE TransitionFits(w)
  <2> DEFINE before == _domain(o, row, None)
             after == transition(before, w.row.status)
  <2>1. /\ w.row = row_of(after) /\ w.idempotency = {}
        /\ \A a \in w.assignments : a.order = o
    BY <1>4 DEF TransitionFits
  <2>2. after.version = row.version + 1
    BY DEF transition, _domain
  <2> HIDE DEF after
  <2>3. row_of(after).version = after.version
    BY DEF row_of
  <2> QED
    BY <1>1, <2>1, <2>2, <2>3
<1> QED
  BY <1>2, <1>3, <1>4

\* Request q does not move.
Still(q) ==
    /\ phase'[q] = phase[q]
    /\ op'[q] = op[q]
    /\ snap'[q] = snap[q]
    /\ write'[q] = write[q]

\* A write that does not change fits the tables as long as they do not change.
LEMMA SameWriteFits ==
    ASSUME NEW q \in Requests, WriteFits(q), UNCHANGED tables,
           op'[q] = op[q], write'[q] = write[q]
    PROVE  WriteFits(q)'
<1> USE DEF tables, Exists, AssignmentTaken, ScopeTaken
<1>1. CreateFits(q, write[q]) => CreateFits(q, write[q])'
  BY DEF CreateFits
<1>2. UpdateFits(write[q]) => UpdateFits(write[q])'
  BY DEF UpdateFits
<1>3. TransitionFits(write[q]) => TransitionFits(write[q])'
  BY DEF TransitionFits
<1> QED
  BY <1>1, <1>2, <1>3 DEF WriteFits

\* A request that does not move keeps its part of the invariant as long as the
\* tables do not change.
LEMMA StillFits ==
    ASSUME NEW q \in Requests, Fits(q), Still(q), UNCHANGED tables
    PROVE  Fits(q)'
<1>1. PhaseFits(q)'
  BY DEF Fits, PhaseFits, Still
<1>2. ReadFits(q)'
  BY DEF Fits, ReadFits, Still, tables, Exists
<1>3. WriteFits(q)'
  BY SameWriteFits DEF Fits, Still
<1>4. LinkFits(q)'
  BY DEF Fits, LinkFits, Still, tables
<1>5. LookupFits(q)'
  BY DEF Fits, LookupFits, ScopeTaken, Still, tables
<1> QED
  BY <1>1, <1>2, <1>3, <1>4, <1>5 DEF Fits

\* Two requests that do not move stay disjoint.
LEMMA StillDisjoint ==
    ASSUME NEW q \in Requests, NEW r \in Requests, Disjoint(q, r), Still(q), Still(r)
    PROVE  Disjoint(q, r)'
<1>1. /\ phase'[q] = phase[q] /\ op'[q] = op[q] /\ write'[q] = write[q]
      /\ phase'[r] = phase[r] /\ op'[r] = op[r] /\ write'[r] = write[r]
  BY DEF Still
<1>2. \A c : HoldsScope(q, c)' <=> HoldsScope(q, c)
  BY <1>1 DEF HoldsScope
<1> QED
  BY <1>1, <1>2 DEF Disjoint

\* A request past its first lock that takes no other lock stays disjoint from
\* the ones that do not move.
LEMMA SameLocks ==
    ASSUME NEW q \in Requests, NEW r \in Requests, Still(q),
           Disjoint(q, r), Disjoint(r, q),
           phase[r] \notin {"idle", "lock_scope"},
           op'[r] = op[r], write'[r] = write[r]
    PROVE  Disjoint(q, r)' /\ Disjoint(r, q)'
BY DEF Disjoint, HoldsScope, Still

\* A step of request r that leaves the tables alone preserves the invariant if r
\* fits afterwards and is disjoint from every other request.
LEMMA Frame ==
    ASSUME IInv, NEW r \in Requests, UNCHANGED tables, TypeOK',
           \A q \in Requests \ {r} : Still(q),
           Fits(r)',
           \A q \in Requests \ {r} : Disjoint(q, r)' /\ Disjoint(r, q)'
    PROVE  IInv'
<1>1. \A q \in Requests \ {r} : Fits(q)'
  BY StillFits DEF IInv
<1>2. \A p, q \in Requests \ {r} : p # q => Disjoint(p, q)'
  BY StillDisjoint DEF IInv
<1> QED
  BY <1>1, <1>2 DEF IInv

\* What a step of request r that changes its phase only does, and what is left to
\* show of it.
LEMMA PhaseStep ==
    ASSUME IInv, NEW r \in Requests, NEW p \in Phases,
           phase' = [phase EXCEPT ![r] = p],
           UNCHANGED <<tables, op, snap, write, error>>
    PROVE  /\ TypeOK'
           /\ phase'[r] = p /\ op'[r] = op[r] /\ snap'[r] = snap[r] /\ write'[r] = write[r]
           /\ \A q \in Requests \ {r} : Still(q)
           /\ phase[r] \notin {"idle", "lock_scope"} /\ Fits(r)' => IInv'
<1>1. TypeOK'
  BY DEF IInv, TypeOK, TablesTypeOK, tables
<1>2. phase'[r] = p /\ op'[r] = op[r] /\ snap'[r] = snap[r] /\ write'[r] = write[r]
  BY DEF IInv, TypeOK
<1>3. \A q \in Requests \ {r} : Still(q)
  BY DEF IInv, TypeOK, Still
<1>4. phase[r] \notin {"idle", "lock_scope"} =>
         \A q \in Requests \ {r} : Disjoint(q, r)' /\ Disjoint(r, q)'
  BY <1>2, <1>3, SameLocks DEF IInv
<1> QED
  BY <1>1, <1>2, <1>3, <1>4, Frame

\* The same for a step that also changes the order the request holds.
LEMMA SnapStep ==
    ASSUME IInv, NEW r \in Requests, NEW p \in Phases, NEW s \in DeliveryOrder,
           phase' = [phase EXCEPT ![r] = p], snap' = [snap EXCEPT ![r] = s],
           UNCHANGED <<tables, op, write, error>>
    PROVE  /\ phase'[r] = p /\ op'[r] = op[r] /\ snap'[r] = s /\ write'[r] = write[r]
           /\ phase[r] \notin {"idle", "lock_scope"} /\ Fits(r)' => IInv'
<1>1. TypeOK'
  BY DEF IInv, TypeOK, TablesTypeOK, tables
<1>2. phase'[r] = p /\ op'[r] = op[r] /\ snap'[r] = s /\ write'[r] = write[r]
  BY DEF IInv, TypeOK
<1>3. \A q \in Requests \ {r} : Still(q)
  BY DEF IInv, TypeOK, Still
<1>4. phase[r] \notin {"idle", "lock_scope"} =>
         \A q \in Requests \ {r} : Disjoint(q, r)' /\ Disjoint(r, q)'
  BY <1>2, <1>3, SameLocks DEF IInv
<1> QED
  BY <1>1, <1>2, <1>3, <1>4, Frame

\* The same for a step that also changes what the request has written, which the
\* other requests must not have locked.
LEMMA WriteStep ==
    ASSUME IInv, NEW r \in Requests, NEW p \in Phases, NEW s \in DeliveryOrder \cup {None},
           NEW w \in WriteSet,
           phase' = [phase EXCEPT ![r] = p], snap' = [snap EXCEPT ![r] = s],
           write' = [write EXCEPT ![r] = w], UNCHANGED <<tables, op, error>>
    PROVE  /\ phase'[r] = p /\ op'[r] = op[r] /\ snap'[r] = s /\ write'[r] = w
           /\ \A q \in Requests \ {r} : Still(q)
           /\ Fits(r)' /\ (\A q \in Requests \ {r} : Disjoint(q, r)' /\ Disjoint(r, q)')
                 => IInv'
<1>1. TypeOK'
  BY DEF IInv, TypeOK, TablesTypeOK, tables
<1>2. phase'[r] = p /\ op'[r] = op[r] /\ snap'[r] = s /\ write'[r] = w
  BY DEF IInv, TypeOK
<1>3. \A q \in Requests \ {r} : Still(q)
  BY DEF IInv, TypeOK, Still
<1> QED
  BY <1>1, <1>2, <1>3, Frame

-----------------------------------------------------------------------------
(***************************************************************************)
(* Steps that every command can take.                                      *)
(***************************************************************************)

\* A request in progress that raises keeps its locks and stays in order.
LEMMA RaiseKeeps ==
    ASSUME IInv, NEW r \in Requests, NEW e \in Exceptions, Raise(r, e),
           phase[r] \notin {"idle", "lock_scope"}
    PROVE  IInv'
<1>1. UNCHANGED tables
  BY DEF Raise
<1>2. TypeOK'
  BY DEF IInv, TypeOK, TablesTypeOK, Raise, Phases, tables
<1>3. \A q \in Requests \ {r} : Still(q)
  BY DEF IInv, TypeOK, Raise, Still
<1>4. /\ phase'[r] = "raised" /\ op'[r] = op[r]
      /\ snap'[r] = snap[r] /\ write'[r] = write[r]
  BY DEF IInv, TypeOK, Raise
<1>5. Fits(r)'
  <2>1. Fits(r)
    BY DEF IInv
  <2>2. PhaseFits(r)'
    BY <1>4, <2>1 DEF Fits, PhaseFits
  <2>3. WriteFits(r)'
    BY <1>1, <1>4, <2>1, SameWriteFits DEF Fits
  <2> QED
    BY <1>4, <2>2, <2>3 DEF Fits, ReadFits, LinkFits, LookupFits
<1>6. \A q \in Requests \ {r} : Disjoint(q, r)' /\ Disjoint(r, q)'
  BY <1>3, <1>4, SameLocks DEF IInv
<1> QED
  BY <1>1, <1>2, <1>3, <1>5, <1>6, Frame

\* A request that ends holds nothing.
LEMMA EndedFits ==
    ASSUME TypeOK, NEW r \in Requests, EndSession(r)
    PROVE  /\ Fits(r)'
           /\ \A q \in Requests \ {r} :
                 Still(q) /\ Disjoint(q, r)' /\ Disjoint(r, q)'
           /\ phase' \in [Requests -> Phases]
           /\ op' \in [Requests -> Command \cup {None}]
           /\ snap' \in [Requests -> DeliveryOrder \cup {None}]
           /\ write' \in [Requests -> WriteSet \cup {None}]
           /\ error' \in [Requests -> Exceptions \cup {None}]
<1>1. phase'[r] = "idle" /\ op'[r] = None /\ write'[r] = None
  BY DEF TypeOK, EndSession
<1>2. Fits(r)'
  BY <1>1 DEF Fits, PhaseFits, ReadFits, WriteFits, LinkFits, LookupFits
<1>3. \A q \in Requests \ {r} : Still(q)
  BY DEF TypeOK, EndSession, Still
<1>4. \A q \in Requests \ {r} : Disjoint(q, r)' /\ Disjoint(r, q)'
  BY <1>1 DEF Disjoint, HoldsScope
<1>5. /\ phase' \in [Requests -> Phases]
      /\ op' \in [Requests -> Command \cup {None}]
      /\ snap' \in [Requests -> DeliveryOrder \cup {None}]
      /\ write' \in [Requests -> WriteSet \cup {None}]
      /\ error' \in [Requests -> Exceptions \cup {None}]
  BY DEF TypeOK, EndSession, Phases
<1> QED
  BY <1>2, <1>3, <1>4, <1>5

\* Rolling back, crashing or committing nothing preserves the invariant.
LEMMA EndKeeps ==
    ASSUME IInv, NEW r \in Requests, EndSession(r), UNCHANGED tables
    PROVE  IInv'
<1>1. TypeOK
  BY DEF IInv
<1>2. TypeOK'
  BY <1>1, EndedFits DEF TypeOK, TablesTypeOK, tables
<1> QED
  BY <1>1, <1>2, EndedFits, Frame

\* Starting a command preserves the invariant.
LEMMA StartKeeps ==
    ASSUME IInv, NEW r \in Requests, NEW c \in Commands, Start(r, c)
    PROVE  IInv'
<1>1. c \in Command /\ c # None
  BY CommandsAssumption
<1>2. UNCHANGED tables
  BY DEF Start
<1>3. FirstPhase(c) \in {"lock_scope", "pick", "read_order"}
  BY DEF FirstPhase
<1>4. TypeOK'
  BY <1>1, <1>3 DEF IInv, TypeOK, TablesTypeOK, Start, tables, Phases
<1>5. \A q \in Requests \ {r} : Still(q)
  BY DEF IInv, TypeOK, Start, Still
<1>6. phase'[r] = FirstPhase(c) /\ op'[r] = c /\ write'[r] = write[r]
  BY DEF IInv, TypeOK, Start
<1>7. write[r] = None
  BY DEF IInv, Fits, PhaseFits, Start
<1>8. Fits(r)'
  <2>1. c.kind \in {"create", "get", "update", "transition", "assign", "claim"}
    BY <1>1, CommandKinds
  <2>2. PhaseFits(r)'
    BY <1>1, <1>3, <1>6, <1>7, <2>1 DEF PhaseFits, FirstPhase
  <2> QED
    BY <1>3, <1>6, <1>7, <2>2 DEF Fits, ReadFits, WriteFits, LinkFits, LookupFits
<1>9. \A q \in Requests \ {r} : Disjoint(q, r)' /\ Disjoint(r, q)'
  BY <1>3, <1>6, <1>7 DEF Disjoint, HoldsScope, FirstPhase
<1> QED
  BY <1>2, <1>4, <1>5, <1>8, <1>9, Frame

\* Sending the response preserves the invariant.
LEMMA RespondKeeps ==
    ASSUME IInv, NEW r \in Requests, Respond(r)
    PROVE  IInv'
<1>1. phase[r] = "returned" /\ "responded" \in Phases
  BY DEF Respond, Phases
<1>2. /\ phase'[r] = "responded" /\ op'[r] = op[r]
      /\ snap'[r] = snap[r] /\ write'[r] = write[r]
      /\ Fits(r)' => IInv'
  BY <1>1, PhaseStep, ZenonT(40) DEF Respond
<1>3. Fits(r)
  BY DEF IInv
<1>4. WriteFits(r)'
  BY <1>2, <1>3, SameWriteFits DEF Fits, Respond
<1> QED
  BY <1>1, <1>2, <1>3, <1>4 DEF Fits, PhaseFits, ReadFits, LinkFits, LookupFits

-----------------------------------------------------------------------------
(***************************************************************************)
(* The steps of create_order.                                              *)
(***************************************************************************)

\* Taking the advisory lock of the scope preserves the invariant.
LEMMA LockScopeKeeps ==
    ASSUME IInv, NEW r \in Requests, LockScope(r)
    PROVE  IInv'
<1>1. phase[r] = "lock_scope" /\ "lookup" \in Phases
  BY DEF LockScope, Phases
<1>2. /\ phase'[r] = "lookup" /\ op'[r] = op[r]
      /\ snap'[r] = snap[r] /\ write'[r] = write[r]
      /\ TypeOK' /\ \A q \in Requests \ {r} : Still(q)
  BY <1>1, PhaseStep, ZenonT(40) DEF LockScope
<1>3. Fits(r) /\ write[r] = None
  BY <1>1 DEF IInv, Fits, PhaseFits
<1>4. Fits(r)'
  BY <1>1, <1>2, <1>3 DEF Fits, PhaseFits, ReadFits, WriteFits, LinkFits, LookupFits
<1>5. ASSUME NEW q \in Requests \ {r}
      PROVE  Disjoint(q, r)' /\ Disjoint(r, q)'
  <2>1. Still(q) /\ ~HoldsScope(q, op[r])
    BY <1>2 DEF LockScope
  <2>2. Fits(q)
    BY DEF IInv
  <2> QED
    BY <1>2, <1>3, <2>1, <2>2
       DEF Disjoint, HoldsScope, SameScope, Still, Fits, PhaseFits
<1> QED
  BY <1>2, <1>4, <1>5, Frame DEF LockScope

\* The lookup preserves the invariant: a request that finds no record holds the
\* advisory lock, so none can appear before its insert.
LEMMA LookupRecordKeeps ==
    ASSUME IInv, NEW r \in Requests, LookupRecord(r)
    PROVE  IInv'
<1>1. phase[r] = "lookup"
  BY DEF LookupRecord
<1>2. Fits(r) /\ write[r] = None /\ op[r] # None /\ op[r].kind = "create"
  BY <1>1 DEF IInv, Fits, PhaseFits
<1>3. CASE /\ {i \in idempotency : SameScope(i, op[r])} = {}
           /\ phase' = [phase EXCEPT ![r] = "insert"]
           /\ UNCHANGED <<tables, op, snap, write, error>>
  <2>1. "insert" \in Phases
    BY DEF Phases
  <2>2. /\ phase'[r] = "insert" /\ op'[r] = op[r] /\ write'[r] = write[r]
        /\ Fits(r)' => IInv'
    BY <1>1, <1>3, <2>1, PhaseStep, ZenonT(40)
  <2>3. ~ScopeTaken(r)'
    BY <1>3, <2>2 DEF ScopeTaken, tables
  <2> QED
    BY <1>2, <2>2, <2>3 DEF Fits, PhaseFits, ReadFits, WriteFits, LinkFits, LookupFits
<1>4. ASSUME NEW i \in idempotency,
             phase' = [phase EXCEPT ![r] = "returned"],
             snap' = [snap EXCEPT ![r] = i.response],
             UNCHANGED <<tables, op, write, error>>
      PROVE  IInv'
  <2>1. "returned" \in Phases /\ i.response \in DeliveryOrder
    BY DEF IInv, TypeOK, TablesTypeOK, IdempotencyRow, Phases
  <2>2. /\ phase'[r] = "returned" /\ op'[r] = op[r] /\ write'[r] = write[r]
        /\ Fits(r)' => IInv'
    BY <1>1, <1>4, <2>1, SnapStep, ZenonT(40)
  <2> QED
    BY <1>2, <2>2 DEF Fits, PhaseFits, ReadFits, WriteFits, LinkFits, LookupFits
<1>5. CASE Raise(r, "IdempotencyConflict")
  BY <1>1, <1>5, RaiseKeeps DEF Exceptions
<1> QED
  BY <1>3, <1>4, <1>5 DEF LookupRecord
\* The rows of a create have their shape.
LEMMA CreateRows ==
    ASSUME NEW o \in OrderIds, NEW c \in CreateCommand
    PROVE  LET order == create(o, c.customer, c.details) IN
           /\ order \in DeliveryOrder
           /\ [order |-> o, row |-> row_of(order), assignments |-> {},
               history |-> {}, outbox |-> {created_event(order)},
               idempotency |-> {idempotency_row(order, c.key, c.details)}] \in WriteSet
<1> DEFINE order == create(o, c.customer, c.details)
<1>1. order \in DeliveryOrder
  BY DEF create, DeliveryOrder, OrderStatus, CreateCommand, Details
<1>2. row_of(order) \in OrderRow /\ created_event(order) \in OutboxRow
  BY <1>1 DEF row_of, created_event, create, DeliveryOrder, OrderRow, OutboxRow
<1>3. idempotency_row(order, c.key, c.details) \in IdempotencyRow
  BY <1>1 DEF idempotency_row, create, DeliveryOrder, IdempotencyRow, CreateCommand
<1> HIDE DEF order
<1> QED
  BY <1>1, <1>2, <1>3 DEF WriteSet, order


\* The inserts of a create preserve the invariant: the new write is a whole
\* create, of an order and a scope nobody else writes.
LEMMA InsertOrderKeeps ==
    ASSUME IInv, NEW r \in Requests, NEW o \in OrderIds, InsertOrder(r, o)
    PROVE  IInv'
<1> DEFINE order == create(o, op[r].customer, op[r].details)
           w == [order |-> o, row |-> row_of(order), assignments |-> {},
                 history |-> {}, outbox |-> {created_event(order)},
                 idempotency |-> {idempotency_row(order, op[r].key, op[r].details)}]
<1>1. phase[r] = "insert"
  BY DEF InsertOrder
<1>2. Fits(r) /\ write[r] = None /\ op[r] # None /\ op[r].kind = "create"
  BY <1>1 DEF IInv, Fits, PhaseFits
<1>3. op[r] \in CreateCommand
  BY <1>2, CommandKinds DEF IInv, TypeOK
<1>4. CASE /\ phase' = [phase EXCEPT ![r] = "returned"]
           /\ snap' = [snap EXCEPT ![r] = order]
           /\ write' = [write EXCEPT ![r] = w]
           /\ UNCHANGED <<tables, op, error>>
           /\ ~ScopeTaken(r)
  <2>1. order \in DeliveryOrder /\ w \in WriteSet
    BY <1>3, CreateRows
  <2> HIDE DEF order, w
  <2>2. "returned" \in Phases
    BY DEF Phases
  <2>4. /\ phase'[r] = "returned" /\ op'[r] = op[r] /\ write'[r] = w
        /\ \A q \in Requests \ {r} : Still(q)
        /\ Fits(r)' /\ (\A q \in Requests \ {r} : Disjoint(q, r)' /\ Disjoint(r, q)')
              => IInv'
    BY <1>4, <2>1, <2>2, WriteStep, ZenonT(40)
  <2>5. w.order = o /\ w.assignments = {}
    BY DEF w
  <2>6. CreateFits(r, write[r])'
    <3>1. ~ScopeTaken(r)' /\ ~Exists(o)'
      BY <1>4, <2>4 DEF ScopeTaken, tables, InsertOrder, Exists
    <3>2. order = create(w.order, op'[r].customer, op'[r].details)
      BY <2>4, <2>5 DEF order
    <3>3. w = [order |-> w.order, row |-> row_of(order), assignments |-> {},
               history |-> {}, outbox |-> {created_event(order)},
               idempotency |-> {idempotency_row(order, op'[r].key, op'[r].details)}]
      BY <2>4, <2>5 DEF w
    <3> QED
      BY <1>2, <2>4, <2>5, <3>1, <3>2, <3>3 DEF CreateFits
  <2>7. Fits(r)'
    BY <1>2, <2>4, <2>6 DEF Fits, PhaseFits, ReadFits, WriteFits, LinkFits, LookupFits
  <2>8. ASSUME NEW q \in Requests \ {r}
        PROVE  Disjoint(q, r)' /\ Disjoint(r, q)'
    <3>1. Still(q) /\ Disjoint(q, r) /\ Disjoint(r, q) /\ ~Writes(q, o)
      BY <2>4 DEF IInv, InsertOrder
    <3> QED
      BY <1>1, <1>2, <2>4, <2>5, <3>1 DEF Disjoint, HoldsScope, Still, Writes
  <2> QED
    BY <2>4, <2>7, <2>8
<1>5. CASE Raise(r, "DataError")
  BY <1>1, <1>5, RaiseKeeps DEF Exceptions
<1>6. CASE Raise(r, "IntegrityError")
  BY <1>1, <1>6, RaiseKeeps DEF Exceptions
<1> QED
  BY <1>4, <1>5, <1>6 DEF InsertOrder

-----------------------------------------------------------------------------
(***************************************************************************)
(* The steps of get, update, transition and assign.                        *)
(***************************************************************************)

\* The read of the order row preserves the invariant.
LEMMA ReadOrderKeeps ==
    ASSUME IInv, NEW r \in Requests, ReadOrder(r)
    PROVE  IInv'
<1> DEFINE o == op[r].order
           seen == _domain(o, orders[o], None)
<1>1. phase[r] = "read_order"
  BY DEF ReadOrder
<1>2. /\ Fits(r) /\ write[r] = None /\ op[r] # None
      /\ op[r].kind \in {"get", "update", "transition", "assign"}
  BY <1>1 DEF IInv, Fits, PhaseFits
<1>3. o \in OrderIds
  BY <1>2, CommandKinds
     DEF IInv, TypeOK, GetCommand, UpdateCommand, TransitionCommand, AssignCommand
<1>4. CASE /\ Exists(o)
           /\ phase' = [phase EXCEPT ![r] = "read_assignments"]
           /\ snap' = [snap EXCEPT ![r] = seen]
           /\ UNCHANGED <<tables, op, write, error>>
  <2>1. orders[o] \in OrderRow
    BY <1>3, <1>4 DEF IInv, TypeOK, TablesTypeOK, Exists
  <2>2. /\ seen \in DeliveryOrder /\ seen.id = o /\ seen.version = orders[o].version
        /\ row_of(seen) = orders[o]
    BY <1>3, <2>1 DEF _domain, row_of, OrderRow, DeliveryOrder
  <2>3. seen # None
    BY <2>2, NoRowAssumption
  <2> HIDE DEF seen
  <2>4. "read_assignments" \in Phases
    BY DEF Phases
  <2>5. /\ phase'[r] = "read_assignments" /\ op'[r] = op[r]
        /\ snap'[r] = seen /\ write'[r] = write[r]
        /\ Fits(r)' => IInv'
    <3>1. /\ phase'[r] = "read_assignments" /\ op'[r] = op[r]
          /\ snap'[r] = seen /\ write'[r] = write[r]
          /\ phase[r] \notin {"idle", "lock_scope"} /\ Fits(r)' => IInv'
      BY <1>4, <2>2, <2>4, SnapStep
    <3> QED
      BY ONLY <1>1, <3>1
  <2>6. ReadFits(r)'
    <3>1. Exists(o)' /\ orders' = orders
      BY <1>4 DEF Exists, tables
    <3>2. orders[o].version \in Nat
      BY <2>1 DEF OrderRow
    <3>3. orders[o].version <= orders[o].version
      BY ONLY <3>2, SMT
    <3> QED
      BY <2>2, <2>3, <2>5, <3>1, <3>3 DEF ReadFits
  <2> QED
    BY <1>2, <2>5, <2>6 DEF Fits, PhaseFits, WriteFits, LinkFits, LookupFits
<1>5. CASE Raise(r, "OrderNotFound")
  BY <1>1, <1>5, RaiseKeeps DEF Exceptions
<1> QED
  BY <1>4, <1>5 DEF ReadOrder

\* Reading the assignments preserves the invariant: what passes the checks is a
\* legal command on the version read.
LEMMA ReadAssignmentsKeeps ==
    ASSUME IInv, NEW r \in Requests, ReadAssignments(r)
    PROVE  IInv'
<1> DEFINE o == op[r].order
           current == [snap[r] EXCEPT !.courier = ActiveCourier(o)]
<1>1. phase[r] = "read_assignments"
  BY DEF ReadAssignments
<1>2. /\ Fits(r) /\ write[r] = None /\ op[r] # None
      /\ op[r].kind \in {"get", "update", "transition", "assign"}
      /\ snap[r] \in DeliveryOrder /\ snap[r].id = o /\ Exists(o)
      /\ snap[r].version <= orders[o].version
      /\ snap[r].version = orders[o].version => row_of(snap[r]) = orders[o]
  BY <1>1 DEF IInv, TypeOK, Fits, PhaseFits, ReadFits
<1>3. /\ ActiveCourier(o) \in Couriers \cup {None}
      /\ ActiveCourier(o) # None => \E a \in assignments : a.order = o
  BY DEF ActiveCourier, IInv, TypeOK, TablesTypeOK, AssignmentRow
<1>4. /\ current \in DeliveryOrder /\ current.id = o
      /\ current.version = snap[r].version /\ row_of(current) = row_of(snap[r])
      /\ current.courier = ActiveCourier(o)
  BY <1>2, <1>3 DEF DeliveryOrder, row_of
<1>5. CASE /\ ~Illegal(op[r], current)
           /\ phase' = [phase EXCEPT ![r] =
                            IF op[r].kind = "get" THEN "returned" ELSE "save"]
           /\ snap' = [snap EXCEPT ![r] = current]
           /\ UNCHANGED <<tables, op, write, error>>
  <2>1. current # None
    BY <1>4, NoRowAssumption
  <2> HIDE DEF current
  <2> DEFINE next == IF op[r].kind = "get" THEN "returned" ELSE "save"
  <2>2. /\ phase' = [phase EXCEPT ![r] = next] /\ snap' = [snap EXCEPT ![r] = current]
        /\ UNCHANGED <<tables, op, write, error>>
        /\ next \in Phases /\ current \in DeliveryOrder
    BY <1>4, <1>5 DEF Phases
  <2> HIDE DEF next
  <2>3. /\ phase'[r] = next
        /\ op'[r] = op[r] /\ snap'[r] = current /\ write'[r] = write[r]
        /\ Fits(r)' => IInv'
    BY <1>1, <2>2, SnapStep, ZenonT(40)
  <2>4. ReadFits(r)'
    <3>1. Exists(o)' /\ orders' = orders /\ assignments' = assignments
      BY <1>2, <1>5 DEF Exists, tables
    <3>2. ~Illegal(op[r], snap[r])'
      BY <1>5, <2>3
    <3> QED
      BY <1>2, <1>3, <1>4, <2>1, <2>3, <3>1, <3>2 DEF ReadFits, next
  <2> QED
    BY <1>2, <2>3, <2>4 DEF Fits, PhaseFits, WriteFits, LinkFits, LookupFits, next
<1>6. ASSUME NEW e \in {"Forbidden", "ConcurrentUpdate", "ValueError"}, Raise(r, e)
      PROVE  IInv'
  BY <1>1, <1>6, RaiseKeeps DEF Exceptions
<1> QED
  BY <1>5, <1>6 DEF ReadAssignments

\* A command that passed the domain checks changes the order it read in one of
\* two ways: new, different addresses, or an allowed transition.
LEMMA ChangedEffect ==
    ASSUME NEW c \in Command, NEW current \in DeliveryOrder,
           c.kind \in {"update", "transition", "assign"}, ~Illegal(c, current)
    PROVE  LET after == Changed(c, current) IN
           /\ after \in DeliveryOrder
           /\ after.id = current.id
           /\ after.customer = current.customer
           /\ after.version = current.version + 1
           /\ \/ /\ after.status = current.status
                 /\ after.courier = current.courier
                 /\ ValidDetails(after.details)
              \/ /\ allows(current.status, after.status)
                 /\ after.status # current.status
                 /\ after.details = current.details
                 /\ \/ after.courier = current.courier
                    \/ after.status = "assigned"
<1> DEFINE after == Changed(c, current)
<1>1. CASE c.kind = "update"
  <2>1. c \in UpdateCommand /\ after = update_details(current, c.changes)
    BY <1>1, CommandKinds DEF Changed
  <2>2. c.changes \in DetailChanges
    BY <2>1 DEF UpdateCommand
  <2>4. /\ after \in DeliveryOrder /\ after.id = current.id
        /\ after.customer = current.customer
        /\ after.version = current.version + 1
        /\ after.status = current.status /\ after.courier = current.courier
    <3> HIDE DEF after
    <3>1. PICK details \in Details :
             after = [id |-> current.id, customer |-> current.customer,
                      details |-> details, status |-> current.status,
                      courier |-> current.courier, version |-> current.version + 1]
      BY <2>1, <2>2, UpdateEffect
    <3> QED
      BY <3>1 DEF DeliveryOrder
  <2>5. ValidDetails(after.details)
    BY <1>1 DEF Illegal
  <2> QED
    BY <2>4, <2>5
<1>2. CASE c.kind \in {"transition", "assign"}
  <2>1. /\ Target(c) \in OrderStatus
        /\ c.kind = "transition" => after = transition(current, Target(c))
        /\ c.kind = "assign" => /\ after = assign(current, c.courier)
                                /\ Target(c) = "assigned"
                                /\ c.courier \in Couriers
    BY <1>2, CommandKinds
       DEF Changed, Target, TransitionCommand, AssignCommand, OrderStatus
  <2>2. allows(current.status, Target(c)) /\ current.status # Target(c)
    BY <1>2 DEF Illegal, allows, ALLOWED_TRANSITIONS, DeliveryOrder, OrderStatus
  <2>3. /\ after \in DeliveryOrder /\ after.id = current.id
        /\ after.customer = current.customer /\ after.details = current.details
        /\ after.version = current.version + 1
        /\ after.status = Target(c)
        /\ c.kind = "transition" => after.courier = current.courier
    <3> HIDE DEF after
    <3> QED
      BY <1>2, <2>1, TransitionEffect, AssignEffect DEF DeliveryOrder
  <2> HIDE DEF after
  <2> QED
    BY <1>2, <2>1, <2>2, <2>3 DEF after
<1> QED
  BY <1>1, <1>2

\* The rows a changed order is saved with are a whole update or transition of the
\* committed row, if that row is the one that was changed.
LEMMA WriteOfFits ==
    ASSUME TablesTypeOK,
           NEW before \in DeliveryOrder, NEW after \in DeliveryOrder,
           after.id = before.id, after.customer = before.customer,
           after.version = before.version + 1,
           Exists(before.id), row_of(before) = orders[before.id],
           \/ after.status = before.status /\ ValidDetails(after.details)
           \/ /\ allows(before.status, after.status)
              /\ after.status # before.status
              /\ after.details = before.details
    PROVE  LET w == WriteOf(before, after) IN
           /\ w \in WriteSet /\ w # None
           /\ w.order = before.id /\ w.assignments = {}
           /\ w.row.status = after.status
           /\ after.status # before.status => w.history # {}
           /\ UpdateFits(w) \/ TransitionFits(w)
<1> DEFINE w == WriteOf(before, after)
           o == before.id
<1>1. /\ o \in OrderIds /\ orders[o] \in OrderRow
      /\ orders[o].customer = before.customer /\ orders[o].details = before.details
      /\ orders[o].status = before.status /\ orders[o].version = before.version
  BY DEF DeliveryOrder, TablesTypeOK, Exists, row_of
<1>2. /\ row_of(after) \in OrderRow
      /\ history_row(before, after) \in TransitionHistoryRow
      /\ status_changed_event(after) \in OutboxRow
  BY DEF row_of, history_row, status_changed_event, DeliveryOrder, OrderRow,
         TransitionHistoryRow, OutboxRow
<1>3. w \in WriteSet /\ w # None
  <2> DEFINE row == row_of(after)
             changed == after.status # before.status
             changes == IF changed THEN {history_row(before, after)} ELSE {}
             events == IF changed THEN {status_changed_event(after)} ELSE {}
  <2>1. changes \subseteq TransitionHistoryRow /\ events \subseteq OutboxRow
    BY <1>2
  <2>2. w = [order |-> o, row |-> row, assignments |-> {}, history |-> changes,
             outbox |-> events, idempotency |-> {}]
    BY DEF WriteOf
  <2> HIDE DEF row, changes, events, w, o
  <2>3. row \in OrderRow /\ o \in OrderIds
    BY <1>1, <1>2 DEF row
  <2>4. w \in WriteSet
    BY <2>1, <2>2, <2>3 DEF WriteSet
  <2> QED
    BY <2>4, NoWriteAssumption
<1>4. /\ w.order = o /\ w.row = row_of(after) /\ w.row.status = after.status
      /\ w.row.details = after.details
      /\ w.assignments = {} /\ w.idempotency = {}
  BY DEF WriteOf, row_of
<1>5. CASE after.status = before.status /\ ValidDetails(after.details)
  <2>1. w.history = {} /\ w.outbox = {}
    BY <1>5 DEF WriteOf
  <2>2. w.row = [customer |-> orders[o].customer, details |-> w.row.details,
                 status |-> orders[o].status, version |-> orders[o].version + 1]
    BY <1>1, <1>4, <1>5 DEF row_of
  <2> HIDE DEF w
  <2>3. UpdateFits(w)
    BY <1>4, <1>5, <2>1, <2>2 DEF UpdateFits
  <2> QED
    BY <1>3, <1>4, <1>5, <2>3 DEF w
<1>6. CASE /\ allows(before.status, after.status)
           /\ after.status # before.status
           /\ after.details = before.details
  <2> DEFINE b == _domain(o, orders[o], None)
             a == transition(b, after.status)
  <2>1. w.history = {history_row(before, after)} /\ w.outbox = {status_changed_event(after)}
    BY <1>6 DEF WriteOf
  <2>2. b \in DeliveryOrder
    BY <1>1 DEF _domain, OrderRow, DeliveryOrder
  <2>3. after.status \in OrderStatus
    BY DEF DeliveryOrder
  <2>4. a = [id |-> o, customer |-> before.customer, details |-> before.details,
             status |-> after.status, courier |-> None, version |-> before.version + 1]
    BY <1>1, <2>2, <2>3, TransitionEffect DEF _domain
  <2>5. b.status = before.status
    BY <1>1 DEF _domain
  <2> HIDE DEF a, b
  <2>6. /\ row_of(a) = row_of(after)
        /\ history_row(b, a) = history_row(before, after)
        /\ status_changed_event(a) = status_changed_event(after)
    BY <1>6, <2>4, <2>5 DEF row_of, history_row, status_changed_event
  <2> HIDE DEF w
  <2>7. TransitionFits(w)
    BY <1>4, <1>6, <2>1, <2>5, <2>6 DEF TransitionFits, a, b
  <2> QED
    BY <1>3, <1>4, <2>1, <2>7 DEF w
<1> QED
  BY <1>5, <1>6

-----------------------------------------------------------------------------
(***************************************************************************)
(* The steps that write.                                                   *)
(***************************************************************************)

\* The versioned UPDATE preserves the invariant: it writes only over the very row
\* that was read, and only when nobody else writes it.
LEMMA SaveOrderKeeps ==
    ASSUME IInv, NEW r \in Requests, SaveOrder(r)
    PROVE  IInv'
<1> DEFINE before == snap[r]
           after == Changed(op[r], snap[r])
           w == WriteOf(before, after)
<1>1. phase[r] = "save"
  BY DEF SaveOrder
<1>2. /\ Fits(r) /\ write[r] = None /\ op[r] \in Command /\ op[r] # None
      /\ op[r].kind \in {"update", "transition", "assign"}
      /\ before \in DeliveryOrder /\ Exists(before.id)
      /\ before.version = orders[before.id].version =>
             row_of(before) = orders[before.id]
      /\ ~Illegal(op[r], before)
      /\ before.courier # None => \E a \in assignments : a.order = before.id
  BY <1>1 DEF IInv, TypeOK, Fits, PhaseFits, ReadFits
<1>3. CASE /\ orders[before.id].version = before.version
           /\ ~RowLocked(r, before.id)
           /\ write' = [write EXCEPT ![r] = w]
           /\ snap' = [snap EXCEPT ![r] = after]
           /\ phase' = [phase EXCEPT ![r] =
                            IF after.courier = None THEN "returned" ELSE "link"]
           /\ UNCHANGED <<tables, op, error>>
  <2>1. /\ after \in DeliveryOrder
        /\ after.id = before.id /\ after.customer = before.customer
        /\ after.version = before.version + 1
        /\ \/ /\ after.status = before.status
              /\ after.courier = before.courier
              /\ ValidDetails(after.details)
           \/ /\ allows(before.status, after.status)
              /\ after.status # before.status
              /\ after.details = before.details
              /\ \/ after.courier = before.courier
                 \/ after.status = "assigned"
    BY <1>2, ChangedEffect
  <2>2. row_of(before) = orders[before.id] /\ TablesTypeOK
    BY <1>2, <1>3 DEF IInv, TypeOK
  <2> HIDE DEF before, after
  <2>3. /\ w \in WriteSet /\ w # None
        /\ w.order = before.id /\ w.assignments = {}
        /\ w.row.status = after.status
        /\ after.status # before.status => w.history # {}
        /\ UpdateFits(w) \/ TransitionFits(w)
    BY <1>2, <2>1, <2>2, WriteOfFits
  <2> HIDE DEF w
  <2> DEFINE next == IF after.courier = None THEN "returned" ELSE "link"
  <2>4. /\ next \in Phases /\ after \in DeliveryOrder \cup {None} /\ w \in WriteSet
        /\ phase' = [phase EXCEPT ![r] = next] /\ snap' = [snap EXCEPT ![r] = after]
        /\ write' = [write EXCEPT ![r] = w] /\ UNCHANGED <<tables, op, error>>
    BY <1>3, <2>1, <2>3 DEF Phases
  <2> HIDE DEF next
  <2>5. /\ phase'[r] = next
        /\ op'[r] = op[r] /\ snap'[r] = after /\ write'[r] = w
        /\ \A q \in Requests \ {r} : Still(q)
        /\ Fits(r)' /\ (\A q \in Requests \ {r} : Disjoint(q, r)' /\ Disjoint(r, q)')
              => IInv'
    BY <2>4, WriteStep, ZenonT(40)
  <2>6. WriteFits(r)'
    <3> USE <1>3, <2>5 DEF tables, Exists
    <3>1. UpdateFits(w) => UpdateFits(write[r])'
      BY DEF UpdateFits
    <3>2. TransitionFits(w) => TransitionFits(write[r])'
      BY DEF TransitionFits, AssignmentTaken
    <3> QED
      BY <2>3, <3>1, <3>2 DEF WriteFits
  <2>7. LinkFits(r)'
    <3>1. after # None
      BY <2>1, NoRowAssumption
    <3>2. \/ after.courier = None
          \/ w.row.status = "assigned" /\ w.history # {}
          \/ \E a \in assignments : a.order = after.id
      BY <1>2, <2>1, <2>3 DEF before
    <3>3. assignments' = assignments
      BY <1>3 DEF tables
    <3> QED
      BY <2>1, <2>3, <2>5, <3>1, <3>2, <3>3 DEF LinkFits, next
  <2>8. Fits(r)'
    BY <1>2, <2>3, <2>5, <2>6, <2>7 DEF Fits, PhaseFits, ReadFits, LookupFits, next
  <2>9. ASSUME NEW q \in Requests \ {r}
         PROVE  Disjoint(q, r)' /\ Disjoint(r, q)'
    <3>1. Still(q) /\ Disjoint(q, r) /\ Disjoint(r, q) /\ ~Writes(q, before.id)
      BY <1>3, <2>5 DEF IInv, RowLocked
    <3> QED
      BY <1>1, <2>3, <2>5, <3>1, <1>2 DEF Disjoint, HoldsScope, Still, Writes
  <2> QED
    BY <2>5, <2>8, <2>9
<1>4. CASE Raise(r, "ConcurrentUpdate")
  BY <1>1, <1>4, RaiseKeeps DEF Exceptions
<1> QED
  BY <1>3, <1>4 DEF SaveOrder

\* The insert of the assignment completes a transition to assigned.
LEMMA InsertAssignmentKeeps ==
    ASSUME IInv, NEW r \in Requests, NEW courier \in Couriers, NEW e \in Exceptions,
           InsertAssignment(r, courier, e), phase[r] \in {"link", "flush_claim"},
           write[r].row.status = "assigned", write[r].history # {}
    PROVE  IInv'
<1> DEFINE o == write[r].order
           new == [order |-> o, courier |-> courier]
           w == [write[r] EXCEPT !.assignments = {new}]
           read == snap[r]
<1>1. /\ Fits(r) /\ write[r] # None /\ write[r] \in WriteSet /\ op[r] # None
  BY DEF IInv, TypeOK, Fits, PhaseFits
<1>2. TransitionFits(write[r])
  <2>1. ~UpdateFits(write[r])
    BY DEF UpdateFits
  <2>2. ~CreateFits(r, write[r])
    BY CreateFields
  <2> QED
    BY <1>1, <2>1, <2>2 DEF Fits, WriteFits
<1>3. CASE /\ ~AssignmentPending(r, o, courier)
           /\ ~AssignmentTaken(o, courier)
           /\ phase' = [phase EXCEPT ![r] = "returned"]
           /\ write' = [write EXCEPT ![r].assignments = {new}]
           /\ UNCHANGED <<tables, op, snap, error>>
  <2>1. o \in OrderIds /\ new \in AssignmentRow /\ new.order = o /\ new.courier = courier
    BY <1>1 DEF WriteSet, AssignmentRow
  <2>2. /\ w \in WriteSet /\ w # None /\ w.order = o /\ w.assignments = {new}
        /\ w.row = write[r].row /\ w.history = write[r].history
        /\ w.outbox = write[r].outbox /\ w.idempotency = write[r].idempotency
    BY <1>1, <2>1, NoWriteAssumption DEF WriteSet
  <2>3. /\ write' = [write EXCEPT ![r] = w] /\ phase' = [phase EXCEPT ![r] = "returned"]
        /\ snap' = [snap EXCEPT ![r] = read] /\ UNCHANGED <<tables, op, error>>
    BY <1>3 DEF IInv, TypeOK
  <2>4. "returned" \in Phases /\ read \in DeliveryOrder \cup {None} /\ w \in WriteSet
    BY <2>2 DEF IInv, TypeOK, Phases
  <2> HIDE DEF w, new, read
  <2>5. /\ phase'[r] = "returned" /\ op'[r] = op[r] /\ snap'[r] = read /\ write'[r] = w
        /\ \A q \in Requests \ {r} : Still(q)
        /\ Fits(r)' /\ (\A q \in Requests \ {r} : Disjoint(q, r)' /\ Disjoint(r, q)')
              => IInv'
    BY <2>3, <2>4, WriteStep, ZenonT(40)
  <2>6. TransitionFits(write[r])'
    <3> DEFINE before == _domain(o, orders[o], None)
               after == transition(before, write[r].row.status)
    <3>1. orders' = orders /\ assignments' = assignments
      BY <1>3 DEF tables
    <3>2. /\ Exists(o) /\ allows(before.status, write[r].row.status)
          /\ write[r].row = row_of(after) /\ write[r].history = {history_row(before, after)}
          /\ write[r].outbox = {status_changed_event(after)} /\ write[r].idempotency = {}
      BY <1>2 DEF TransitionFits
    <3>3. \A a \in w.assignments :
             /\ w.row.status = "assigned" /\ a.order = w.order /\ w.assignments = {a}
             /\ ~AssignmentTaken(a.order, a.courier)
      BY <1>3, <2>1, <2>2
    <3>4. orders'[o] # None
      BY <3>1, <3>2 DEF Exists
    <3> HIDE DEF o
    <3>5. _domain(w.order, orders'[w.order], None) = before /\ w.row.status = write[r].row.status
      BY <2>2, <3>1
    <3> HIDE DEF before
    <3>6. transition(_domain(w.order, orders'[w.order], None), w.row.status) = after
      BY <3>5
    <3> HIDE DEF after
    <3> QED
      BY <2>2, <2>5, <3>1, <3>2, <3>3, <3>4, <3>5, <3>6 DEF TransitionFits, Exists, AssignmentTaken
  <2>7. Fits(r)'
    BY <1>1, <2>2, <2>5, <2>6
       DEF Fits, PhaseFits, ReadFits, WriteFits, LinkFits, LookupFits
  <2>8. ASSUME NEW q \in Requests \ {r}
        PROVE  Disjoint(q, r)' /\ Disjoint(r, q)'
    <3>1. Still(q) /\ Disjoint(q, r) /\ Disjoint(r, q)
      BY <2>5 DEF IInv
    <3>2. write[q] # None => \A a \in write[q].assignments : a.courier # courier
      BY <1>3 DEF AssignmentPending
    <3>3. /\ write'[q] = write[q] /\ write'[r] = w /\ op'[q] = op[q] /\ op'[r] = op[r]
          /\ phase'[q] = phase[q] /\ phase'[r] = "returned" /\ phase[r] \notin {"idle", "lock_scope"}
      BY <2>5, <3>1 DEF Still
    <3>4. write[q] # None =>
             /\ write[q].order # w.order
             /\ \A a \in write[q].assignments, b \in w.assignments : a.courier # b.courier
      BY <1>1, <2>1, <2>2, <3>1, <3>2 DEF Disjoint
    <3>5. /\ op[r] # None /\ op[r].kind = "create" => ~HoldsScope(q, op[r])'
          /\ op[q] # None /\ op[q].kind = "create" /\ phase[q] # "lock_scope"
                => ~HoldsScope(r, op[q])'
      BY <3>1, <3>3 DEF Disjoint, HoldsScope
    <3> QED
      BY <3>3, <3>4, <3>5 DEF Disjoint, HoldsScope
  <2> QED
    BY <2>5, <2>7, <2>8
<1>4. CASE Raise(r, e)
  BY <1>4, RaiseKeeps
<1> QED
  BY <1>3, <1>4 DEF InsertAssignment

\* The tail of save preserves the invariant.
LEMMA LinkAssignmentKeeps ==
    ASSUME IInv, NEW r \in Requests, LinkAssignment(r)
    PROVE  IInv'
<1>1. phase[r] = "link"
  BY DEF LinkAssignment
<1>2. /\ Fits(r) /\ op[r] # None /\ snap[r] \in DeliveryOrder
      /\ snap[r].courier \in Couriers
      /\ \/ write[r].row.status = "assigned" /\ write[r].history # {}
         \/ \E a \in assignments : a.order = snap[r].id
  BY <1>1 DEF IInv, TypeOK, Fits, PhaseFits, LinkFits, DeliveryOrder
<1>3. CASE /\ phase' = [phase EXCEPT ![r] = "returned"]
           /\ UNCHANGED <<tables, op, snap, write, error>>
  <2>1. "returned" \in Phases
    BY DEF Phases
  <2>2. /\ phase'[r] = "returned" /\ op'[r] = op[r] /\ write'[r] = write[r]
        /\ Fits(r)' => IInv'
    BY <1>1, <1>3, <2>1, PhaseStep, ZenonT(40)
  <2>3. WriteFits(r)'
    BY <1>2, <1>3, <2>2, SameWriteFits DEF Fits
  <2> QED
    BY <1>2, <2>2, <2>3 DEF Fits, PhaseFits, ReadFits, LinkFits, LookupFits
<1>4. CASE /\ ~ \E a \in assignments : a.order = snap[r].id
           /\ InsertAssignment(r, snap[r].courier, "IntegrityError")
  BY <1>1, <1>2, <1>4, InsertAssignmentKeeps DEF Exceptions
<1> QED
  BY <1>3, <1>4 DEF LinkAssignment

-----------------------------------------------------------------------------
(***************************************************************************)
(* The steps of claim_next_order.                                          *)
(***************************************************************************)

\* Picking the next order (FOR UPDATE SKIP LOCKED) preserves the invariant.
LEMMA PickOrderKeeps ==
    ASSUME IInv, NEW r \in Requests, PickOrder(r)
    PROVE  IInv'
<1>1. phase[r] = "pick"
  BY DEF PickOrder
<1>2. /\ Fits(r) /\ write[r] = None /\ op[r] # None
      /\ op[r].kind = "claim" /\ op[r].courier \in Couriers
  BY <1>1, CommandKinds DEF IInv, TypeOK, Fits, PhaseFits, ClaimCommand
<1>3. CASE /\ phase' = [phase EXCEPT ![r] = "returned"]
           /\ UNCHANGED <<tables, op, snap, write, error>>
  <2>1. "returned" \in Phases
    BY DEF Phases
  <2>2. /\ phase'[r] = "returned" /\ op'[r] = op[r] /\ write'[r] = write[r]
        /\ Fits(r)' => IInv'
    BY <1>1, <1>3, <2>1, PhaseStep, ZenonT(40)
  <2> QED
    BY <1>2, <2>2 DEF Fits, PhaseFits, ReadFits, WriteFits, LinkFits, LookupFits
<1>4. ASSUME NEW o \in Queue(r),
             write' = [write EXCEPT ![r] =
                 WriteOf(_domain(o, orders[o], None),
                         assign(_domain(o, orders[o], None), op[r].courier))],
             snap' = [snap EXCEPT ![r] =
                 assign(_domain(o, orders[o], None), op[r].courier)],
             phase' = [phase EXCEPT ![r] = "flush_claim"],
             UNCHANGED <<tables, op, error>>
      PROVE  IInv'
  <2> DEFINE before == _domain(o, orders[o], None)
             claimed == assign(before, op[r].courier)
             w == WriteOf(before, claimed)
  <2>1. /\ o \in OrderIds /\ Exists(o) /\ orders[o].status = "created"
        /\ ~RowLocked(r, o) /\ TablesTypeOK
    BY DEF Queue, IInv, TypeOK
  <2>2. orders[o] \in OrderRow
    BY <2>1 DEF TablesTypeOK, Exists
  <2>3. /\ before \in DeliveryOrder /\ before.id = o
        /\ before.status = "created" /\ row_of(before) = orders[o]
    BY <2>1, <2>2 DEF _domain, OrderRow, DeliveryOrder, row_of
  <2> HIDE DEF before
  <2>4. claimed = [id |-> before.id, customer |-> before.customer,
                   details |-> before.details, status |-> "assigned",
                   courier |-> op[r].courier, version |-> before.version + 1]
    BY <1>2, <2>3, AssignEffect
  <2> HIDE DEF claimed
  <2>5. /\ claimed \in DeliveryOrder /\ claimed.id = before.id
        /\ claimed.customer = before.customer /\ claimed.details = before.details
        /\ claimed.version = before.version + 1 /\ claimed.status = "assigned"
    <3>1. /\ before.id \in OrderIds /\ before.customer \in Customers
          /\ before.details \in Details /\ before.version + 1 \in Nat
      BY ONLY <2>3 DEF DeliveryOrder
    <3>2. "assigned" \in OrderStatus /\ op[r].courier \in Couriers \cup {None}
      BY <1>2 DEF OrderStatus
    <3> QED
      BY ONLY <2>4, <3>1, <3>2 DEF DeliveryOrder
  <2>6. allows(before.status, claimed.status)
    BY <2>3, <2>5 DEF allows, ALLOWED_TRANSITIONS, OrderStatus
  <2>7. /\ w \in WriteSet /\ w # None /\ w.order = o /\ w.assignments = {}
        /\ w.row.status = "assigned" /\ w.history # {}
        /\ UpdateFits(w) \/ TransitionFits(w)
    BY <2>1, <2>3, <2>5, <2>6, WriteOfFits
  <2>8. /\ write' = [write EXCEPT ![r] = w] /\ snap' = [snap EXCEPT ![r] = claimed]
        /\ phase' = [phase EXCEPT ![r] = "flush_claim"] /\ UNCHANGED <<tables, op, error>>
    BY <1>4 DEF before, claimed
  <2> HIDE DEF w
  <2>9. "flush_claim" \in Phases /\ claimed \in DeliveryOrder \cup {None} /\ w \in WriteSet
    BY <2>5, <2>7 DEF Phases
  <2>10. /\ phase'[r] = "flush_claim" /\ op'[r] = op[r] /\ write'[r] = w
         /\ \A q \in Requests \ {r} : Still(q)
         /\ Fits(r)' /\ (\A q \in Requests \ {r} : Disjoint(q, r)' /\ Disjoint(r, q)')
               => IInv'
    BY <2>8, <2>9, WriteStep, ZenonT(40)
  <2>11. WriteFits(r)'
    <3> USE <1>4, <2>10 DEF tables, Exists
    <3>1. UpdateFits(w) => UpdateFits(write[r])'
      BY DEF UpdateFits
    <3>2. TransitionFits(w) => TransitionFits(write[r])'
      BY DEF TransitionFits, AssignmentTaken
    <3> QED
      BY <2>7, <3>1, <3>2 DEF WriteFits
  <2>12. Fits(r)'
    BY <1>2, <2>7, <2>10, <2>11 DEF Fits, PhaseFits, ReadFits, LinkFits, LookupFits
  <2>13. ASSUME NEW q \in Requests \ {r}
         PROVE  Disjoint(q, r)' /\ Disjoint(r, q)'
    <3>1. Still(q) /\ Disjoint(q, r) /\ Disjoint(r, q) /\ ~Writes(q, o)
      BY <2>1, <2>10 DEF IInv, RowLocked
    <3> QED
      BY <1>2, <2>7, <2>10, <3>1 DEF Disjoint, HoldsScope, Still, Writes
  <2> QED
    BY <2>10, <2>12, <2>13
<1> QED
  BY <1>3, <1>4 DEF PickOrder

\* The flush of a claim preserves the invariant.
LEMMA FlushClaimKeeps ==
    ASSUME IInv, NEW r \in Requests, FlushClaim(r)
    PROVE  IInv'
<1>1. phase[r] = "flush_claim"
  BY DEF FlushClaim
<1>2. /\ write[r].row.status = "assigned" /\ write[r].history # {}
      /\ op[r].courier \in Couriers
  <2>1. PhaseFits(r) /\ LinkFits(r) /\ op[r] \in Command \cup {None}
    BY DEF IInv, TypeOK, Fits
  <2>2. op[r].kind = "claim" /\ op[r] \in Command
    BY <1>1, <2>1 DEF PhaseFits
  <2>3. op[r].courier \in Couriers
    BY <2>2, CommandKinds DEF ClaimCommand
  <2> QED
    BY <1>1, <2>1, <2>3 DEF LinkFits
<1> QED
  BY <1>1, <1>2, InsertAssignmentKeeps DEF FlushClaim, Exceptions

-----------------------------------------------------------------------------
(***************************************************************************)
(* Commit: the one step that changes the tables.                           *)
(***************************************************************************)

\* Committing a write is one whole command of OrderBook.
LEMMA CommitIsCommand ==
    ASSUME IInv, NEW r \in Requests, write[r] # None, Apply(write[r])
    PROVE  BookNext
<1> DEFINE w == write[r]
           o == w.order
<1>1. w \in WriteSet /\ o \in OrderIds /\ TablesTypeOK /\ WriteFits(r)
  BY DEF IInv, TypeOK, Fits, WriteSet
<1>2. CASE CreateFits(r, w)
  <2>0. op[r] # None /\ op[r].kind = "create"
    BY <1>2 DEF CreateFits, IInv, Fits, PhaseFits
  <2>1. op[r] \in CreateCommand
    BY <2>0, CommandKinds DEF IInv, TypeOK
  <2>2. /\ op[r].customer \in Customers /\ op[r].key \in Keys
        /\ op[r].details \in Details /\ ValidDetails(op[r].details)
    BY <2>1 DEF CreateCommand
  <2>3. BookCreate(o, op[r].customer, op[r].key, op[r].details)
    <3> DEFINE order == create(o, op[r].customer, op[r].details)
    <3>1. /\ w.row = row_of(order) /\ w.assignments = {} /\ w.history = {}
          /\ w.outbox = {created_event(order)}
          /\ w.idempotency = {idempotency_row(order, op[r].key, op[r].details)}
      BY <1>2, CreateFields
    <3>2. /\ ~Exists(o)
          /\ \A i \in idempotency : ~(i.customer = op[r].customer /\ i.key = op[r].key)
      BY <1>2, CreateFields DEF ScopeTaken, SameScope
    <3> QED
      BY <2>2, <3>1, <3>2 DEF BookCreate, Apply
  <2> QED
    BY <1>1, <2>2, <2>3 DEF BookNext
<1>3. CASE UpdateFits(w)
  <2>1. orders[o] \in OrderRow
    BY <1>1, <1>3 DEF UpdateFits, TablesTypeOK, Exists
  <2>2. w.row.details \in Details
    BY <1>1 DEF WriteSet, OrderRow
  <2>3. BookUpdate(o, w.row.details)
    BY <1>1, <1>3, Zenon DEF BookUpdate, UpdateFits, Apply
  <2> QED
    BY <1>1, <2>2, <2>3 DEF BookNext
<1>4. CASE TransitionFits(w)
  <2>1. w.row.status \in OrderStatus
    BY <1>1 DEF WriteSet, OrderRow
  <2>2. Advance(o, w.row.status)
    BY <1>4, Zenon DEF TransitionFits, Advance, Apply
  <2>3. CASE w.assignments = {}
    BY <1>1, <2>1, <2>2, <2>3 DEF BookNext, BookTransition, Apply
  <2>4. ASSUME NEW a \in w.assignments
        PROVE  BookNext
    <3>1. /\ w.row.status = "assigned" /\ a.order = o /\ w.assignments = {a}
          /\ ~AssignmentTaken(o, a.courier)
      BY <1>4 DEF TransitionFits
    <3>2. a.courier \in Couriers /\ a = [order |-> o, courier |-> a.courier]
      BY <1>1, <3>1 DEF WriteSet, AssignmentRow
    <3>3. BookAssign(o, a.courier)
      BY <2>2, <3>1, <3>2 DEF BookAssign, AssignmentTaken, Apply
    <3> QED
      BY <1>1, <3>2, <3>3 DEF BookNext
  <2> QED
    BY <2>3, <2>4
<1> QED
  BY <1>1, <1>2, <1>3, <1>4 DEF WriteFits

\* The requests that go on still fit the tables after another one's commit.
LEMMA CommitKeeps ==
    ASSUME IInv, NEW r \in Requests, Commit(r)
    PROVE  IInv'
<1> DEFINE w == write[r]
           o == w.order
<1>1. phase[r] = "responded" /\ EndSession(r)
  BY DEF Commit
<1>2. CASE w = None
  BY <1>1, <1>2, EndKeeps DEF Commit
<1>3. CASE w # None
  <2>1. Apply(w)
    BY <1>3 DEF Commit
  <2>2. w \in WriteSet /\ o \in OrderIds /\ TypeOK /\ Fits(r) /\ TablesTypeOK
    BY <1>3 DEF IInv, TypeOK, WriteSet
  <2>3. TypeOK'
    <3>1. TablesTypeOK'
      BY <2>1, <2>2 DEF Apply, TablesTypeOK, WriteSet
    <3> QED
      BY <1>1, <2>2, <3>1, EndedFits DEF TypeOK
  <2>4. \A q \in Requests \ {r} : Still(q) /\ Disjoint(q, r)' /\ Disjoint(r, q)'
    BY <1>1, <2>2, EndedFits
  <2>5. \A p, q \in Requests \ {r} : p # q => Disjoint(p, q)'
    BY <2>4, StillDisjoint DEF IInv
  <2>6. /\ \A p \in OrderIds : p # o => orders'[p] = orders[p]
        /\ orders'[o] = w.row
        /\ assignments' = assignments \cup w.assignments
        /\ idempotency' = idempotency \cup w.idempotency
    BY <2>1, <2>2 DEF Apply, TablesTypeOK
  <2> HIDE DEF w
  <2>7. /\ Exists(o) => orders[o].version \in Nat /\ w.row.version = orders[o].version + 1
        /\ \A a \in w.assignments : a.order = o
        /\ \A i \in w.idempotency : op[r].kind = "create" /\ SameScope(op[r], i)
    <3>1. CreateFits(r, w) \/ UpdateFits(w) \/ TransitionFits(w)
      BY <1>3, <2>2 DEF Fits, WriteFits, w
    <3> QED
      BY <2>2, <3>1, WriteEffect
  <2>8. op[r] # None
    BY <1>1, <2>2 DEF Fits, PhaseFits
  <2>9. w.row # None
    BY <2>2, NoRowAssumption DEF WriteSet
  <2> HIDE DEF o
  <2>11. ASSUME NEW q \in Requests \ {r}
         PROVE  Fits(q)'
    <3>1. Still(q) /\ Fits(q) /\ Disjoint(q, r) /\ Disjoint(r, q)
      BY <2>4 DEF IInv
    <3>2. PhaseFits(q)'
      BY <3>1 DEF Fits, PhaseFits, Still
    <3>3. ReadFits(q)'
      <4>1. snap[q] # None => snap[q].id \in OrderIds /\ snap[q].version \in Nat
        BY <2>2 DEF TypeOK, DeliveryOrder
      <4>2. ReadFits(q)
        BY <3>1 DEF Fits
      <4>3. ASSUME phase[q] \in {"read_assignments", "save"}
            PROVE  /\ snap[q] # None /\ snap[q].id = op[q].order
                   /\ orders'[snap[q].id] # None
                   /\ snap[q].version <= orders'[snap[q].id].version
                   /\ snap[q].version = orders'[snap[q].id].version =>
                          row_of(snap[q]) = orders'[snap[q].id]
        <5>1. /\ snap[q] # None /\ snap[q].id = op[q].order /\ Exists(snap[q].id)
              /\ snap[q].version <= orders[snap[q].id].version
              /\ snap[q].version = orders[snap[q].id].version =>
                     row_of(snap[q]) = orders[snap[q].id]
          BY <4>2, <4>3 DEF ReadFits
        <5>2. CASE snap[q].id = o
          <6>1. /\ snap[q].version \in Nat /\ orders[o].version \in Nat
                /\ snap[q].version <= orders[o].version
                /\ w.row.version = orders[o].version + 1
            BY <2>7, <4>1, <5>1, <5>2
          <6>2. snap[q].version <= w.row.version /\ snap[q].version # w.row.version
            BY ONLY <6>1, SMT
          <6> QED
            BY <2>6, <2>9, <5>1, <5>2, <6>2
        <5>3. CASE snap[q].id # o
          BY <2>6, <4>1, <5>1, <5>3 DEF Exists
        <5> QED
          BY <5>2, <5>3
      <4> QED
        BY <2>6, <3>1, <4>2, <4>3 DEF ReadFits, Still, Exists
    <3>4. phase[q] \notin {"idle", "lock_scope"} /\ op[q] # None /\ op[q].kind = "create"
             /\ ~ScopeTaken(q) => ~ScopeTaken(q)'
      BY <1>1, <2>6, <2>7, <2>8, <3>1
         DEF ScopeTaken, SameScope, Still, Disjoint, HoldsScope
    <3>5. ASSUME write[q] # None
          PROVE  /\ write[q].order \in OrderIds /\ write[q].order # o
                 /\ orders'[write[q].order] = orders[write[q].order]
                 /\ phase[q] \notin {"idle", "lock_scope"} /\ op[q] # None
      <4>1. write[q].order \in OrderIds
        BY <2>2, <3>5 DEF TypeOK, WriteSet
      <4>2. write[q].order # o
        BY <1>3, <3>1, <3>5 DEF Disjoint, w, o
      <4> QED
        BY <2>6, <3>1, <3>5, <4>1, <4>2 DEF Fits, PhaseFits
    <3>6. WriteFits(q)'
      <4>1. CASE write[q] = None
        BY <3>1, <4>1 DEF WriteFits, Still
      <4>2. CASE write[q] # None
        <5> USE <3>1, <3>5, <4>2 DEF Still
        <5>1. CreateFits(q, write[q]) => CreateFits(q, write[q])'
          BY <3>4 DEF CreateFits, Exists
        <5>2. UpdateFits(write[q]) => UpdateFits(write[q])'
          BY DEF UpdateFits, Exists
        <5>3. TransitionFits(write[q]) => TransitionFits(write[q])'
          <6>1. ASSUME TransitionFits(write[q]), NEW a \in write[q].assignments
                PROVE  ~AssignmentTaken(a.order, a.courier)'
            <7>1. a.order = write[q].order /\ ~AssignmentTaken(a.order, a.courier)
              BY <6>1 DEF TransitionFits
            <7>2. \A b \in w.assignments : b.courier # a.courier
              BY <1>3, <3>1, <4>2 DEF Disjoint, w
            <7>3. \A b \in w.assignments : b.order = o
              BY ONLY <2>7
            <7>4. a.order # o
              BY <3>5, <4>2, <7>1
            <7>5. \A b \in assignments : b.order # a.order /\ b.courier # a.courier
              BY <7>1 DEF AssignmentTaken
            <7>6. \A b \in assignments' : b.order # a.order /\ b.courier # a.courier
              BY ONLY <2>6, <7>2, <7>3, <7>4, <7>5
            <7> QED
              BY ONLY <7>6 DEF AssignmentTaken
          <6> QED
            BY <6>1 DEF TransitionFits, Exists
        <5> QED
          BY <5>1, <5>2, <5>3 DEF Fits, WriteFits
      <4> QED
        BY <4>1, <4>2
    <3>7. LinkFits(q)'
      BY <2>6, <3>1 DEF Fits, LinkFits, Still
    <3>8. LookupFits(q)'
      BY <3>1, <3>4 DEF Fits, LookupFits, PhaseFits, Still
    <3> QED
      BY <3>2, <3>3, <3>6, <3>7, <3>8 DEF Fits
  <2>12. Fits(r)'
    BY <1>1, <2>2, EndedFits
  <2> QED
    BY <2>3, <2>4, <2>5, <2>11, <2>12 DEF IInv
<1> QED
  BY <1>2, <1>3

-----------------------------------------------------------------------------
(***************************************************************************)
(* The theorems.                                                           *)
(***************************************************************************)

\* A step of a request that does not commit leaves the tables alone.
LEMMA QuietSteps ==
    ASSUME NEW r \in Requests
    PROVE  /\ \A c \in Commands : Start(r, c) => UNCHANGED tables
           /\ LockScope(r) => UNCHANGED tables
           /\ LookupRecord(r) => UNCHANGED tables
           /\ \A o \in OrderIds : InsertOrder(r, o) => UNCHANGED tables
           /\ ReadOrder(r) => UNCHANGED tables
           /\ ReadAssignments(r) => UNCHANGED tables
           /\ SaveOrder(r) => UNCHANGED tables
           /\ LinkAssignment(r) => UNCHANGED tables
           /\ PickOrder(r) => UNCHANGED tables
           /\ FlushClaim(r) => UNCHANGED tables
           /\ Respond(r) => UNCHANGED tables
           /\ Rollback(r) => UNCHANGED tables
           /\ Abort(r) => UNCHANGED tables
<1>1. \A e : Raise(r, e) => UNCHANGED tables
  BY DEF Raise
<1>2. /\ LookupRecord(r) => UNCHANGED tables
      /\ \A o \in OrderIds : InsertOrder(r, o) => UNCHANGED tables
      /\ ReadOrder(r) => UNCHANGED tables
      /\ ReadAssignments(r) => UNCHANGED tables
      /\ SaveOrder(r) => UNCHANGED tables
  BY <1>1, Zenon DEF LookupRecord, InsertOrder, ReadOrder, ReadAssignments, SaveOrder
<1>3. LinkAssignment(r) \/ FlushClaim(r) => UNCHANGED tables
  BY <1>1 DEF LinkAssignment, FlushClaim, InsertAssignment
<1>4. PickOrder(r) => UNCHANGED tables
  BY Zenon DEF PickOrder
<1> QED
  BY <1>2, <1>3, <1>4 DEF Start, LockScope, Respond, Rollback, Abort

\* IInv holds in every state of the adapter, whatever the number of requests.
THEOREM PgInvariant == Spec => []IInv
<1>1. Init => IInv
  <2> SUFFICES ASSUME Init PROVE IInv
    OBVIOUS
  <2>1. TypeOK
    BY DEF Init, BookInit, TypeOK, TablesTypeOK, Phases
  <2>2. \A r \in Requests : phase[r] = "idle" /\ op[r] = None /\ write[r] = None
    BY DEF Init
  <2>3. \A r \in Requests : Fits(r)
    BY <2>2 DEF Fits, PhaseFits, ReadFits, WriteFits, LinkFits, LookupFits
  <2>4. \A q, r \in Requests : Disjoint(q, r)
    BY <2>2 DEF Disjoint
  <2> QED
    BY <2>1, <2>3, <2>4 DEF IInv
<1>2. IInv /\ [Next]_vars => IInv'
  <2> SUFFICES ASSUME IInv, [Next]_vars PROVE IInv'
    OBVIOUS
  <2>1. CASE UNCHANGED vars
    <3>1. TypeOK' /\ UNCHANGED tables
      BY <2>1 DEF IInv, TypeOK, TablesTypeOK, vars, session, tables
    <3>2. \A q \in Requests : Still(q)
      BY <2>1 DEF vars, session, Still
    <3> QED
      BY <3>1, <3>2, StillFits, StillDisjoint DEF IInv
  <2>2. ASSUME NEW r \in Requests, NEW c \in Commands, Start(r, c)
        PROVE  IInv'
    BY <2>2, StartKeeps
  <2>3. ASSUME NEW r \in Requests, Step(r)
        PROVE  IInv'
    <3>1. CASE Rollback(r)
      BY <3>1, EndKeeps DEF Rollback
    <3> QED
      BY <2>3, <3>1, LockScopeKeeps, LookupRecordKeeps, InsertOrderKeeps,
         ReadOrderKeeps, ReadAssignmentsKeeps, SaveOrderKeeps, LinkAssignmentKeeps,
         PickOrderKeeps, FlushClaimKeeps, RespondKeeps, CommitKeeps DEF Step
  <2>4. ASSUME NEW r \in Requests, Abort(r)
        PROVE  IInv'
    BY <2>4, EndKeeps DEF Abort
  <2> QED
    BY <2>1, <2>2, <2>3, <2>4 DEF Next
<1> QED
  BY <1>1, <1>2, PTL DEF Spec

\* The concurrent adapter implements OrderBook: whatever the interleaving, the
\* refusals and the crashes, the tables change by whole commands, one at a time.
THEOREM PgImplementsOrderBook == Spec => ImplementsOrderBook
<1>1. Init => BookInit
  BY DEF Init
<1>2. IInv /\ [Next]_vars => [BookNext]_tables
  <2> SUFFICES ASSUME IInv, [Next]_vars PROVE [BookNext]_tables
    OBVIOUS
  <2>1. CASE UNCHANGED vars
    BY <2>1 DEF vars
  <2>2. ASSUME NEW r \in Requests, Commit(r)
        PROVE  [BookNext]_tables
    BY <2>2, CommitIsCommand DEF Commit
  <2> QED
    BY <2>1, <2>2, QuietSteps DEF Next, Step
<1> QED
  BY <1>1, <1>2, PgInvariant, PTL DEF Spec, ImplementsOrderBook, BookSpec

\* In the adapter the audit trail of every order stays an unbroken chain, the
\* outbox matches it, assignments stay exclusive, orders and idempotency records
\* stay in bijection, and the addresses of an order differ.
THEOREM PgTablesAgree == Spec => []TablesAgree
BY PgImplementsOrderBook, BookTablesAgree, PTL DEF ImplementsOrderBook

\* Every variable of the adapter keeps its type.
THEOREM PgTypeCorrect == Spec => []TypeOK
<1>1. IInv => TypeOK
  BY DEF IInv
<1> QED
  BY <1>1, PgInvariant, PTL

\* A create never fails on the unique key: a concurrent retry waits on the
\* advisory lock and then finds the record of the first.
THEOREM PgRetryNeverHitsUniqueKey == Spec => []RetryNeverHitsUniqueKey
<1>1. Init => RetryNeverHitsUniqueKey
  BY DEF Init, RetryNeverHitsUniqueKey
<1>2. IInv /\ RetryNeverHitsUniqueKey /\ [Next]_vars => RetryNeverHitsUniqueKey'
  <2> SUFFICES ASSUME IInv, RetryNeverHitsUniqueKey, [Next]_vars,
                      NEW p \in Requests, phase'[p] = "raised", op'[p].kind = "create"
               PROVE  error'[p] # "IntegrityError"
    BY DEF RetryNeverHitsUniqueKey
  <2> USE DEF IInv, TypeOK
  <2>1. CASE phase'[p] = phase[p] /\ op'[p] = op[p] /\ error'[p] = error[p]
    BY <2>1 DEF RetryNeverHitsUniqueKey
  <2>2. ASSUME NEW r \in Requests, NEW e, Raise(r, e),
               e # "IntegrityError" \/ op[r].kind # "create"
        PROVE  error'[p] # "IntegrityError"
    BY <2>1, <2>2 DEF Raise
  <2>3. ASSUME NEW r \in Requests, NEW c \in Commands, Start(r, c)
        PROVE  error'[p] # "IntegrityError"
    BY <2>1, <2>3 DEF Start, FirstPhase
  <2>4. ASSUME NEW r \in Requests, EndSession(r)
        PROVE  error'[p] # "IntegrityError"
    BY <2>1, <2>4 DEF EndSession
  <2>5. ASSUME NEW r \in Requests, NEW o \in OrderIds, InsertOrder(r, o)
        PROVE  error'[p] # "IntegrityError"
    <3>1. ~ScopeTaken(r)
      BY <2>5 DEF InsertOrder, Fits, LookupFits
    <3> QED
      BY <2>1, <2>2, <2>5, <3>1 DEF InsertOrder
  <2>6. ASSUME NEW r \in Requests, LinkAssignment(r)
        PROVE  error'[p] # "IntegrityError"
    <3>1. op[r].kind # "create"
      BY <2>6 DEF LinkAssignment, Fits, PhaseFits
    <3> QED
      BY <2>1, <2>2, <2>6, <3>1 DEF LinkAssignment, InsertAssignment
  <2>7. ASSUME NEW r \in Requests,
               LockScope(r) \/ LookupRecord(r) \/ ReadOrder(r) \/ ReadAssignments(r)
        PROVE  error'[p] # "IntegrityError"
    BY <2>1, <2>2, <2>7 DEF LockScope, LookupRecord, ReadOrder, ReadAssignments
  <2>8. ASSUME NEW r \in Requests,
               SaveOrder(r) \/ PickOrder(r) \/ FlushClaim(r) \/ Respond(r)
        PROVE  error'[p] # "IntegrityError"
    BY <2>1, <2>2, <2>8
       DEF SaveOrder, PickOrder, FlushClaim, InsertAssignment, Respond
  <2>9. CASE UNCHANGED vars
    BY <2>1, <2>9 DEF vars, session
  <2> QED
    BY <2>3, <2>4, <2>5, <2>6, <2>7, <2>8, <2>9
       DEF Next, Step, Commit, Rollback, Abort
<1> QED
  BY <1>1, <1>2, PgInvariant, PTL DEF Spec

-----------------------------------------------------------------------------
(***************************************************************************)
(* What requests are told.                                                 *)
(***************************************************************************)

\* Only the request that takes a step moves.
LEMMA MovesAlone ==
    ASSUME TypeOK, NEW r \in Requests, NEW q \in Requests, q # r,
           \/ \E c \in Commands : Start(r, c)
           \/ Step(r)
           \/ Abort(r)
    PROVE  Still(q)
<1> USE DEF TypeOK, Still
<1>1. \A e : Raise(r, e) => Still(q)
  BY DEF Raise
<1>2. EndSession(r) => Still(q)
  BY DEF EndSession
<1>3. \A c : Start(r, c) => Still(q)
  BY DEF Start
<1>4. LockScope(r) \/ LookupRecord(r) \/ Respond(r) => Still(q)
  BY <1>1 DEF LockScope, LookupRecord, Respond
<1>5. \A o : InsertOrder(r, o) => Still(q)
  BY <1>1 DEF InsertOrder
<1>6. ReadOrder(r) \/ ReadAssignments(r) => Still(q)
  BY <1>1 DEF ReadOrder, ReadAssignments
<1>7. SaveOrder(r) => Still(q)
  BY <1>1 DEF SaveOrder
<1>8. LinkAssignment(r) \/ FlushClaim(r) => Still(q)
  BY <1>1 DEF LinkAssignment, FlushClaim, InsertAssignment
<1>9. PickOrder(r) => Still(q)
  BY DEF PickOrder
<1> HIDE DEF TypeOK, Still
<1> QED
  BY <1>2, <1>3, <1>4, <1>5, <1>6, <1>7, <1>8, <1>9
     DEF Step, Commit, Rollback, Abort

\* An order that has an assignment has left the queue.
LEMMA AssignedLeftQueue ==
    ASSUME TablesTypeOK, TablesAgree, NEW a \in assignments
    PROVE  Exists(a.order) /\ orders[a.order].status # "created"
<1> DEFINE o == a.order
<1>1. PICK h \in history : h.order = o /\ h.to = "assigned"
  BY DEF TablesAgree, AssignmentsExclusive
<1>2. /\ o \in OrderIds /\ Exists(o) /\ h.version <= orders[o].version
      /\ h.version \in Nat
  BY <1>1 DEF TablesAgree, HistoryChain, TablesTypeOK, AssignmentRow,
              TransitionHistoryRow
<1>3. orders[o].version \in Nat
  BY <1>2 DEF TablesTypeOK, Exists, OrderRow
<1>4. StatusBefore(history, o, orders[o].version + 1, orders[o].status)
  BY <1>2 DEF TablesAgree, HistoryChain
<1>5. \A g \in history : g.to # "created"
  BY DEF TablesAgree, HistoryChain, allows, ALLOWED_TRANSITIONS, TablesTypeOK,
         TransitionHistoryRow, OrderStatus
<1>6. h.version < orders[o].version + 1
  BY <1>2, <1>3
<1> QED
  BY <1>1, <1>2, <1>4, <1>5, <1>6 DEF StatusBefore, LastBefore

\* A retried create is told the stored order.
THEOREM PgRetryReturnsSameOrder == Spec => []RetryReturnsSameOrder
<1>1. Init => RetryReturnsSameOrder
  BY DEF Init, RetryReturnsSameOrder
<1>2. IInv /\ RetryReturnsSameOrder /\ [Next]_vars => RetryReturnsSameOrder'
  <2> DEFINE Told(i, p) == /\ SameScope(i, op[p])
                           /\ i.fingerprint = op[p].details
                           /\ i.response = snap[p]
             Rows(p) == IF write[p] = None THEN {} ELSE write[p].idempotency
  <2> SUFFICES ASSUME IInv, RetryReturnsSameOrder, [Next]_vars, NEW p \in Requests,
                      phase'[p] \in {"returned", "responded"}, op'[p].kind = "create"
               PROVE  \E i \in idempotency' \cup Rows(p)' : Told(i, p)'
    BY DEF RetryReturnsSameOrder
  <2>1. idempotency \subseteq idempotency'
    <3>1. UNCHANGED tables \/ \E r \in Requests : Commit(r)
      BY QuietSteps DEF Next, Step, vars
    <3> QED
      BY <3>1 DEF Commit, Apply, tables
  <2>2. CASE /\ phase[p] \in {"returned", "responded"} /\ op'[p] = op[p]
             /\ snap'[p] = snap[p] /\ write'[p] = write[p]
    <3>1. PICK i \in idempotency \cup Rows(p) : Told(i, p)
      BY <2>2 DEF RetryReturnsSameOrder
    <3> QED
      BY <2>1, <2>2, <3>1 DEF SameScope
  <2>3. CASE Still(p)
    BY <2>2, <2>3 DEF Still
  <2>4. ASSUME NEW r \in Requests, r # p,
               (\E c \in Commands : Start(r, c)) \/ Step(r) \/ Abort(r)
        PROVE  Still(p)
    BY <2>4, MovesAlone DEF IInv
  <2>5. ASSUME LookupRecord(p)
        PROVE  \E i \in idempotency' \cup Rows(p)' : Told(i, p)'
    <3>1. PICK i \in idempotency :
             /\ SameScope(i, op[p]) /\ i.fingerprint = op[p].details
             /\ snap' = [snap EXCEPT ![p] = i.response]
             /\ op' = op
      BY <2>5 DEF LookupRecord, Raise, IInv, TypeOK
    <3>2. snap'[p] = i.response
      BY <3>1 DEF IInv, TypeOK
    <3> QED
      BY <2>1, <3>1, <3>2 DEF SameScope
  <2>6. ASSUME NEW o \in OrderIds, InsertOrder(p, o)
        PROVE  \E i \in idempotency' \cup Rows(p)' : Told(i, p)'
    <3> DEFINE order == create(o, op[p].customer, op[p].details)
               i == idempotency_row(order, op[p].key, op[p].details)
    <3>1. ~(\E e : Raise(p, e))
      BY DEF Raise, IInv, TypeOK
    <3>2. /\ op' = op /\ snap' = [snap EXCEPT ![p] = order]
          /\ write' = [write EXCEPT ![p] =
                 [order |-> o, row |-> row_of(order), assignments |-> {},
                  history |-> {}, outbox |-> {created_event(order)},
                  idempotency |-> {i}]]
      BY <2>6, <3>1 DEF InsertOrder
    <3>3. SameScope(i, op[p]) /\ i.fingerprint = op[p].details /\ i.response = order
      BY DEF SameScope, idempotency_row, create
    <3>4. phase[p] = "insert"
      BY <2>6 DEF InsertOrder
    <3>5. op[p] \in CreateCommand
      BY <3>4, CommandKinds DEF IInv, TypeOK, Fits, PhaseFits
    <3>6. snap'[p] = order /\ write'[p] # None /\ write'[p].idempotency = {i}
      BY <3>2, <3>5, CreateRows, NoWriteAssumption DEF IInv, TypeOK
    <3> QED
      BY <3>2, <3>3, <3>6
  <2>7. ASSUME \/ \E c \in Commands : Start(p, c)
               \/ LockScope(p)
               \/ EndSession(p)
        PROVE  FALSE
    BY <2>7 DEF Start, FirstPhase, LockScope, EndSession, IInv, TypeOK
  <2>8. ASSUME \/ ReadOrder(p) \/ ReadAssignments(p) \/ SaveOrder(p)
               \/ LinkAssignment(p) \/ PickOrder(p) \/ FlushClaim(p)
        PROVE  FALSE
    <3>1. op'[p] = op[p]
      BY <2>8 DEF ReadOrder, ReadAssignments, SaveOrder, LinkAssignment, PickOrder,
                  FlushClaim, InsertAssignment, Raise
    <3>2. phase[p] \in {"read_order", "read_assignments", "save", "link", "pick", "flush_claim"}
      BY <2>8 DEF ReadOrder, ReadAssignments, SaveOrder, LinkAssignment, PickOrder, FlushClaim
    <3>3. PhaseFits(p)
      BY DEF IInv, Fits
    <3> QED
      BY <3>1, <3>2, <3>3 DEF PhaseFits
  <2>9. CASE Respond(p)
    BY <2>2, <2>9 DEF Respond
  <2>10. CASE UNCHANGED vars
    BY <2>3, <2>10 DEF vars, session, Still
  <2> QED
    BY <2>3, <2>4, <2>5, <2>6, <2>7, <2>8, <2>9, <2>10
       DEF Next, Step, Commit, Rollback, Abort
<1> QED
  BY <1>1, <1>2, PgInvariant, PTL DEF Spec

\* The courier each request holds stays the one of its order.
LEMMA CouriersStep ==
    ASSUME IInv, TablesAgree, CouriersFit, [Next]_vars
    PROVE  CouriersFit'
<1> SUFFICES ASSUME NEW p \in Requests
             PROVE  CourierFits(p)'
  BY DEF CouriersFit
<1>1. CourierFits(p) /\ Fits(p) /\ TypeOK /\ TablesTypeOK
  BY DEF CouriersFit, IInv, TypeOK
<1>2. CASE Still(p) /\ UNCHANGED tables
  <2>1. /\ phase'[p] = phase[p] /\ op'[p] = op[p] /\ snap'[p] = snap[p]
        /\ write'[p] = write[p] /\ orders' = orders /\ assignments' = assignments
    BY <1>2 DEF Still, tables
  <2> QED
    BY <1>1, <2>1, Zenon DEF CourierFits
<1>3. ASSUME NEW r \in Requests, r # p, Commit(r), write[r] # None
      PROVE  CourierFits(p)'
  <2> DEFINE w == write[r]
             o == w.order
  <2>1. Still(p)
    BY <1>1, <1>3, MovesAlone DEF Step
  <2>2. w \in WriteSet /\ o \in OrderIds /\ Fits(r) /\ Disjoint(p, r)
    BY <1>1, <1>3 DEF IInv, TypeOK, WriteSet
  <2>3. /\ \A q \in OrderIds : q # o => orders'[q] = orders[q]
        /\ orders'[o] = w.row
        /\ assignments' = assignments \cup w.assignments
    BY <1>1, <1>3, <2>2 DEF Commit, Apply, TablesTypeOK
  <2>4. /\ Exists(o) => orders[o].version \in Nat /\ w.row.version = orders[o].version + 1
        /\ \A a \in w.assignments : a.order = o
    <3>1. CreateFits(r, w) \/ UpdateFits(w) \/ TransitionFits(w)
      BY <1>3, <2>2 DEF Fits, WriteFits
    <3> QED
      BY <1>1, <2>2, <3>1, WriteEffect
  <2>5. write[p] # None => write[p].order # o
    BY <1>3, <2>2 DEF Disjoint
  <2> HIDE DEF w
  <2> HIDE DEF o
  <2>6. ASSUME phase[p] = "save", snap[p].version = orders'[snap[p].id].version
        PROVE  CourierIs(snap[p].id, snap[p].courier, assignments')
    <3>1. /\ snap[p] # None /\ Exists(snap[p].id)
          /\ snap[p].version <= orders[snap[p].id].version
          /\ snap[p].version \in Nat /\ snap[p].id \in OrderIds
      BY <1>1, <2>6 DEF Fits, ReadFits, TypeOK, DeliveryOrder
    <3>2. snap[p].id # o
      <4>1. SUFFICES ASSUME snap[p].id = o
                     PROVE  FALSE
        OBVIOUS
      <4>2. /\ snap[p].version \in Nat /\ orders[o].version \in Nat
            /\ snap[p].version <= orders[o].version
            /\ snap[p].version = orders[o].version + 1
        BY <2>3, <2>4, <2>6, <3>1, <4>1
      <4> QED
        BY ONLY <4>2, SMT
    <3>3. CourierIs(snap[p].id, snap[p].courier, assignments)
      BY <1>1, <2>3, <2>6, <3>1, <3>2 DEF CourierFits
    <3> QED
      BY <2>3, <2>4, <3>2, <3>3 DEF CourierIs
  <2>7. ASSUME phase[p] \in {"link", "flush_claim"}
        PROVE  write[p] # None
    BY <1>1, <2>7 DEF Fits, PhaseFits
  <2>8. phase[p] = "link" => snap[p].id = write[p].order
    BY <1>1 DEF Fits, LinkFits
  <2>9. ASSUME phase[p] \in {"returned", "responded"}, write[p] # None
        PROVE  CourierIs(write[p].order, snap[p].courier, assignments' \cup write[p].assignments)
    BY <1>1, <2>3, <2>4, <2>5, <2>9 DEF CourierFits, CourierIs
  <2> QED
    BY <1>1, <2>1, <2>3, <2>4, <2>5, <2>6, <2>7, <2>8, <2>9 DEF CourierFits, Still
<1>4. ASSUME NEW e, Raise(p, e)
      PROVE  CourierFits(p)'
  BY <1>1, <1>4 DEF Raise, CourierFits, TypeOK
<1>5. ASSUME EndSession(p)
      PROVE  CourierFits(p)'
  BY <1>1, <1>5 DEF EndSession, CourierFits, TypeOK
<1>6. ASSUME LockScope(p) \/ \E c \in Commands : Start(p, c)
      PROVE  CourierFits(p)'
  BY <1>1, <1>6 DEF LockScope, Start, FirstPhase, CourierFits, TypeOK
<1>7. ASSUME LookupRecord(p)
      PROVE  CourierFits(p)'
  <2>1. write[p] = None
    BY <1>1, <1>7 DEF LookupRecord, Fits, PhaseFits
  <2> QED
    BY <1>1, <1>4, <1>7, <2>1 DEF LookupRecord, CourierFits, TypeOK
<1>8. ASSUME NEW o \in OrderIds, InsertOrder(p, o)
      PROVE  CourierFits(p)'
  <2> DEFINE order == create(o, op[p].customer, op[p].details)
             w == [order |-> o, row |-> row_of(order), assignments |-> {},
                   history |-> {}, outbox |-> {created_event(order)},
                   idempotency |-> {idempotency_row(order, op[p].key, op[p].details)}]
  <2>1. CASE /\ phase' = [phase EXCEPT ![p] = "returned"]
             /\ snap' = [snap EXCEPT ![p] = order]
             /\ write' = [write EXCEPT ![p] = w]
             /\ assignments' = assignments
    <3>1. /\ phase'[p] = "returned" /\ snap'[p].courier = None
          /\ write'[p].order = o /\ write'[p].assignments = {}
      BY <1>1, <2>1 DEF TypeOK, create
    <3>2. \A a \in assignments : a.order # o
      BY <1>1, <1>8, AssignedLeftQueue DEF InsertOrder
    <3> QED
      BY <2>1, <3>1, <3>2, NoneAssumption DEF CourierFits, CourierIs
  <2> QED
    BY <1>4, <1>8, <2>1 DEF InsertOrder, tables
<1>9. ASSUME ReadOrder(p)
      PROVE  CourierFits(p)'
  BY <1>1, <1>4, <1>9 DEF ReadOrder, CourierFits, TypeOK
<1>10. ASSUME ReadAssignments(p)
       PROVE  CourierFits(p)'
  <2> DEFINE o == op[p].order
             current == [snap[p] EXCEPT !.courier = ActiveCourier(o)]
  <2>1. phase[p] = "read_assignments" /\ write[p] = None /\ snap[p] \in DeliveryOrder
    BY <1>1, <1>10 DEF ReadAssignments, Fits, PhaseFits, ReadFits, TypeOK
  <2>2. snap[p].id = o
    BY <1>1, <2>1 DEF Fits, ReadFits
  <2>3. current.courier = ActiveCourier(o) /\ current.id = o
    BY <2>1, <2>2 DEF DeliveryOrder
  <2>4. CourierIs(o, ActiveCourier(o), assignments)
    <3>1. CASE \E a \in assignments : a.order = o
      <4>1. PICK a \in assignments : a.order = o /\ ActiveCourier(o) = a.courier
        BY <3>1 DEF ActiveCourier
      <4>2. \A b \in assignments : b.order = o => b = a
        BY <4>1 DEF TablesAgree, AssignmentsExclusive
      <4> QED
        BY <4>1, <4>2 DEF CourierIs
    <3>2. CASE ~ \E a \in assignments : a.order = o
      BY <3>2, NoneAssumption DEF ActiveCourier, CourierIs
    <3> QED
      BY <3>1, <3>2
  <2> HIDE DEF current
  <2>5. CASE /\ phase' = [phase EXCEPT ![p] =
                              IF op[p].kind = "get" THEN "returned" ELSE "save"]
             /\ snap' = [snap EXCEPT ![p] = current]
             /\ UNCHANGED <<assignments, write>>
    <3>1. phase'[p] \in {"returned", "save"} /\ snap'[p] = current /\ write'[p] = None
      BY <1>1, <2>1, <2>5 DEF TypeOK
    <3> QED
      BY <2>3, <2>4, <2>5, <3>1 DEF CourierFits
  <2> QED
    BY <1>4, <1>10, <2>5 DEF ReadAssignments, tables, current
<1>11. ASSUME SaveOrder(p)
       PROVE  CourierFits(p)'
  <2> DEFINE before == snap[p]
             after == Changed(op[p], snap[p])
             w == WriteOf(before, after)
  <2>1. /\ phase[p] = "save" /\ op[p] \in Command
        /\ op[p].kind \in {"update", "transition", "assign"}
        /\ before \in DeliveryOrder /\ Exists(before.id) /\ ~Illegal(op[p], before)
        /\ before.version = orders[before.id].version =>
               row_of(before) = orders[before.id]
    BY <1>1, <1>11 DEF SaveOrder, TypeOK, Fits, PhaseFits, ReadFits
  <2>2. CASE /\ orders[before.id].version = before.version
             /\ write' = [write EXCEPT ![p] = w]
             /\ snap' = [snap EXCEPT ![p] = after]
             /\ phase' = [phase EXCEPT ![p] =
                              IF after.courier = None THEN "returned" ELSE "link"]
             /\ assignments' = assignments
    <3>1. /\ after.id = before.id
          /\ \/ after.courier = before.courier
             \/ allows(before.status, "assigned")
      BY <2>1, ChangedEffect
    <3>2. w.order = after.id /\ w.assignments = {}
      BY DEF WriteOf
    <3>3. CourierIs(before.id, before.courier, assignments)
      BY <1>1, <2>1, <2>2 DEF CourierFits
    <3>4. \A a \in assignments : a.courier \in Couriers
      BY <1>1 DEF TablesTypeOK, AssignmentRow
    <3>5. allows(before.status, "assigned") => \A a \in assignments : a.order # before.id
      <4>1. before.status = orders[before.id].status /\ before.status \in OrderStatus
        <5>1. row_of(before).status = before.status
          BY DEF row_of
        <5> QED
          BY <2>1, <2>2, <5>1 DEF DeliveryOrder
      <4>2. allows(before.status, "assigned") => before.status = "created"
        BY <4>1 DEF allows, ALLOWED_TRANSITIONS, OrderStatus
      <4> QED
        BY <1>1, <4>1, <4>2, AssignedLeftQueue
    <3> HIDE DEF before, after, w
    <3>6. \A a \in assignments : a.order = after.id => a.courier = after.courier
      BY <3>1, <3>3, <3>4, <3>5 DEF CourierIs
    <3>7. /\ snap'[p] = after /\ write'[p] = w
          /\ phase'[p] = IF after.courier = None THEN "returned" ELSE "link"
      BY <1>1, <2>2 DEF TypeOK
    <3>8. after.courier = None => \A a \in assignments : a.order # after.id
      BY <3>4, <3>6, NoneAssumption
    <3>9. after.courier = None => CourierIs(w.order, after.courier, assignments \cup {})
      BY <3>2, <3>8, NoneAssumption DEF CourierIs
    <3>10. CASE after.courier = None
      <4>1. phase'[p] = "returned"
        BY <3>7, <3>10
      <4> QED
        BY <2>2, <3>2, <3>7, <3>9, <3>10, <4>1 DEF CourierFits
    <3>11. CASE after.courier # None
      <4>1. phase'[p] = "link"
        BY <3>7, <3>11
      <4> QED
        BY <2>2, <3>2, <3>6, <3>7, <4>1 DEF CourierFits
    <3> QED
      BY <3>10, <3>11
  <2> QED
    BY <1>4, <1>11, <2>2 DEF SaveOrder, tables
<1>12. ASSUME NEW e, InsertAssignment(p, snap[p].courier, e), write[p] # None
       PROVE  CourierFits(p)'
  <2> DEFINE o == write[p].order
             new == [order |-> o, courier |-> snap[p].courier]
  <2>1. CASE /\ ~AssignmentTaken(o, snap[p].courier)
             /\ phase' = [phase EXCEPT ![p] = "returned"]
             /\ write' = [write EXCEPT ![p].assignments = {new}]
             /\ UNCHANGED <<tables, snap>>
    <3>1. write[p] \in WriteSet
      BY <1>1, <1>12 DEF TypeOK
    <3>2. write'[p].assignments = {new} /\ write'[p].order = o
      BY <1>1, <2>1, <3>1 DEF TypeOK, WriteSet
    <3>3. phase'[p] = "returned" /\ snap'[p] = snap[p] /\ assignments' = assignments
      BY <1>1, <2>1 DEF TypeOK, tables
    <3>4. \A a \in assignments : a.order # o
      BY <2>1 DEF AssignmentTaken
    <3>5. new.order = o /\ new.courier = snap[p].courier
      OBVIOUS
    <3> HIDE DEF o, new
    <3> QED
      BY <3>2, <3>3, <3>4, <3>5 DEF CourierFits, CourierIs
  <2> QED
    BY <1>4, <1>12, <2>1 DEF InsertAssignment
<1>13. ASSUME LinkAssignment(p)
       PROVE  CourierFits(p)'
  <2>1. /\ phase[p] = "link" /\ write[p] # None /\ snap[p].id = write[p].order
        /\ write[p].assignments = {}
        /\ \A a \in assignments : a.order = snap[p].id => a.courier = snap[p].courier
    BY <1>1, <1>13 DEF LinkAssignment, Fits, PhaseFits, LinkFits, CourierFits
  <2>2. CASE /\ \E a \in assignments : a.order = snap[p].id
             /\ phase' = [phase EXCEPT ![p] = "returned"]
             /\ UNCHANGED <<tables, op, snap, write, error>>
    <3>1. phase'[p] = "returned" /\ assignments' = assignments
      BY <1>1, <2>2 DEF TypeOK, tables
    <3> QED
      BY <2>1, <2>2, <3>1 DEF CourierFits, CourierIs
  <2> QED
    BY <1>12, <1>13, <2>1, <2>2 DEF LinkAssignment
<1>14. ASSUME FlushClaim(p)
       PROVE  CourierFits(p)'
  <2>1. phase[p] = "flush_claim" /\ write[p] # None /\ snap[p].courier = op[p].courier
    BY <1>1, <1>14 DEF FlushClaim, Fits, PhaseFits, CourierFits
  <2> QED
    BY <1>12, <1>14, <2>1 DEF FlushClaim
<1>15. ASSUME PickOrder(p)
       PROVE  CourierFits(p)'
  <2>1. /\ phase[p] = "pick" /\ write[p] = None /\ op[p].courier \in Couriers
    BY <1>1, <1>15, CommandKinds DEF PickOrder, TypeOK, Fits, PhaseFits, ClaimCommand
  <2>2. CASE /\ phase' = [phase EXCEPT ![p] = "returned"]
             /\ UNCHANGED <<tables, op, snap, write, error>>
    BY <1>1, <2>1, <2>2 DEF CourierFits, TypeOK
  <2>3. ASSUME NEW o \in Queue(p),
               write' = [write EXCEPT ![p] =
                   WriteOf(_domain(o, orders[o], None),
                           assign(_domain(o, orders[o], None), op[p].courier))],
               snap' = [snap EXCEPT ![p] =
                   assign(_domain(o, orders[o], None), op[p].courier)],
               phase' = [phase EXCEPT ![p] = "flush_claim"],
               UNCHANGED <<tables, op, error>>
        PROVE  CourierFits(p)'
    <3> DEFINE before == _domain(o, orders[o], None)
               claimed == assign(before, op[p].courier)
    <3>1. o \in OrderIds /\ orders[o] \in OrderRow /\ orders[o].status = "created"
      BY <1>1 DEF Queue, TablesTypeOK, Exists
    <3>2. before \in DeliveryOrder /\ before.id = o
      BY <3>1 DEF _domain, OrderRow, DeliveryOrder
    <3> HIDE DEF before
    <3>3. claimed \in DeliveryOrder /\ claimed.courier = op[p].courier /\ claimed.id = o
      BY <2>1, <3>2, AssignEffect DEF DeliveryOrder, OrderStatus
    <3>4. \A a \in assignments : a.order # o
      BY <1>1, <3>1, AssignedLeftQueue
    <3> HIDE DEF claimed
    <3>5. /\ phase'[p] = "flush_claim" /\ op'[p] = op[p] /\ snap'[p] = claimed
          /\ write'[p] = WriteOf(before, claimed) /\ assignments' = assignments
      BY <1>1, <2>3 DEF TypeOK, tables, before, claimed
    <3>6. WriteOf(before, claimed).order = o
      BY <3>3 DEF WriteOf
    <3>7. claimed # None
      BY <3>3, NoRowAssumption
    <3> QED
      BY <3>3, <3>4, <3>5, <3>6, <3>7 DEF CourierFits
  <2> QED
    BY <1>15, <2>2, <2>3 DEF PickOrder
<1>16. CASE Respond(p)
  BY <1>1, <1>16 DEF Respond, CourierFits, CourierIs, TypeOK, tables
<1>17. CASE UNCHANGED vars
  BY <1>2, <1>17 DEF vars, session, Still
<1>18. ASSUME NEW r \in Requests, r # p,
              (\E c \in Commands : Start(r, c)) \/ Step(r) \/ Abort(r)
       PROVE  CourierFits(p)'
  <2>1. Still(p)
    BY <1>1, <1>18, MovesAlone
  <2>2. UNCHANGED tables \/ (Commit(r) /\ write[r] # None)
    BY <1>18, QuietSteps DEF Step, Commit
  <2> QED
    BY <1>2, <1>3, <1>18, <2>1, <2>2
<1> QED
  BY <1>5, <1>6, <1>7, <1>8, <1>9, <1>10, <1>11, <1>13, <1>14, <1>15, <1>16, <1>17,
     <1>18 DEF Next, Step, Commit, Rollback, Abort

\* What a claim or an assignment reports is what it commits.
THEOREM PgReportedCourierIsAssigned == Spec => []ReportedCourierIsAssigned
<1>1. Init => CouriersFit
  BY DEF Init, CouriersFit, CourierFits
<1>2. IInv /\ TablesAgree /\ CouriersFit /\ [Next]_vars => CouriersFit'
  BY CouriersStep
<1>3. CouriersFit => ReportedCourierIsAssigned
  BY DEF CouriersFit, CourierFits, ReportedCourierIsAssigned
<1> QED
  BY <1>1, <1>2, <1>3, PgInvariant, PgTablesAgree, PTL DEF Spec
=============================================================================
