----------------------------- MODULE OrderDomain -----------------------------
(***************************************************************************)
(* The delivery order aggregate and the access policy: domain.py and       *)
(* access.py.  No state of its own; every order module builds on it.       *)
(*                                                                         *)
(* One tenant is modelled: every order and every actor belongs to it, so   *)
(* the tenant comparison of can_access_order always succeeds.  The weight  *)
(* is left out: both schemas and both domain methods bound it the same way *)
(* and nothing else reads it.  created_at is the order of the identifiers. *)
(***************************************************************************)
EXTENDS Naturals

CONSTANTS
    OrderIds,     \* order identifiers, numbers in created_at order
    Customers,    \* customer identifiers
    Couriers,     \* courier identifiers
    Addresses,    \* case-folded, whitespace-normalised addresses
    None          \* Python's None

ASSUME OrderIdsAssumption == OrderIds \subseteq Nat

ASSUME NoneAssumption ==
    None \notin OrderIds \cup Customers \cup Couriers \cup Addresses

OrderStatus == {"created", "assigned", "picked_up", "delivered", "cancelled"}

ALLOWED_TRANSITIONS ==
    [current \in OrderStatus |->
        CASE current = "created"   -> {"assigned", "cancelled"}
          [] current = "assigned"  -> {"picked_up", "cancelled"}
          [] current = "picked_up" -> {"delivered"}
          [] OTHER                 -> {}]

allows(current, target) == target \in ALLOWED_TRANSITIONS[current]

Details == [pickup : Addresses, destination : Addresses]

DeliveryOrder ==
    [id : OrderIds, customer : Customers, details : Details,
     status : OrderStatus, courier : Couriers \cup {None}, version : Nat]

\* The two addresses of a valid order differ: OrderCreate.addresses_must_differ
\* and the ValueError of update_details.
ValidDetails(details) == details.pickup # details.destination

create(id, customer, details) ==
    [id |-> id, customer |-> customer, details |-> details,
     status |-> "created", courier |-> None, version |-> 1]

transition(order, target) ==
    [order EXCEPT !.status = target, !.version = @ + 1]

assign(order, courier) ==
    [transition(order, "assigned") EXCEPT !.courier = courier]

\* A PATCH carries the fields to change; a field that is absent or null is
\* dropped by model_dump and changes() and keeps its value.
DetailChanges == [pickup : Addresses \cup {None}, destination : Addresses \cup {None}]

replaced(old, new) == IF new = None THEN old ELSE new

update_details(order, changes) ==
    [order EXCEPT
        !.details = [pickup |-> replaced(@.pickup, changes.pickup),
                     destination |-> replaced(@.destination, changes.destination)],
        !.version = @ + 1]

-----------------------------------------------------------------------------
Actor ==
    [role : {"dispatcher"}, id : {None}]
        \cup [role : {"customer"}, id : Customers]
        \cup [role : {"courier"}, id : Couriers]

can_access_order(actor, order) ==
    \/ actor.role = "dispatcher"
    \/ actor.role = "customer" /\ actor.id = order.customer
    \/ actor.role = "courier" /\ order.courier # None /\ actor.id = order.courier
=============================================================================
