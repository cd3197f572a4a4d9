------------------------------ MODULE MCMemory ------------------------------
(***************************************************************************)
(* The service with the in-memory adapters, the mode of development and of *)
(* most tests: orders, refresh sessions and tracking.  The three share no  *)
(* state; a behaviour is a behaviour of one of them, chosen at the start.  *)
(***************************************************************************)
EXTENDS MemoryTracking

CONSTANTS Jtis, OrderIds, Customers, Couriers, Addresses, Keys, MaxVersion

ASSUME MemoryAssumption ==
    /\ None \notin Jtis
    /\ OrderIds \subseteq Nat
    /\ None \notin OrderIds \cup Customers \cup Couriers \cup Addresses

VARIABLES
    adapter,
    sessions, expired, reused,
    orders, idempotency, order_outbox, answers

R == INSTANCE MemoryRefresh
M == INSTANCE MemoryOrders

\* No row and no record is None.
ASSUME NoRowAssumption ==
    /\ None \notin R!RefreshSession /\ None \notin M!DeliveryOrder
    /\ None \notin [fingerprint : M!Details, response : M!DeliveryOrder]

store == <<sessions, expired, reused>>
memory == <<orders, idempotency, order_outbox, answers>>
all == <<adapter, vars, store, memory>>

MCInit ==
    /\ adapter \in {"tracking", "refresh", "orders"}
    /\ Init /\ R!StoreInit /\ M!MemoryInit

MCNext ==
    \/ adapter = "tracking" /\ Next /\ UNCHANGED <<adapter, store, memory>>
    \/ adapter = "refresh" /\ R!Next /\ UNCHANGED <<adapter, vars, memory>>
    \/ adapter = "orders" /\ M!MemoryNext /\ UNCHANGED <<adapter, vars, store>>

MCSpec == MCInit /\ [][MCNext]_all

-----------------------------------------------------------------------------
\* Of every chain of rotations one token is live at most, and presenting a used one
\* again ends the whole family (InMemoryRefreshSessionRepository.rotate).
FamiliesAreSafe == R!LineIsUnbroken /\ R!ReuseRevokesFamily

\* The outbox tells the same story of an order as its row, and no courier is on two
\* orders at once (save_transition, claim_next_created_order).
OrdersAgree == M!EventsTellTheStatus /\ M!OneOrderInProgress

\* All answers to one idempotency key are one answer, whatever has happened to the
\* order between the repetitions (create_order).
OneAnswerPerKey == M!OneAnswerPerKey
=============================================================================
