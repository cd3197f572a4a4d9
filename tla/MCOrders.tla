------------------------------ MODULE MCOrders ------------------------------
(***************************************************************************)
(* Small instances of PgOrders.  Each set of commands asks one question;   *)
(* there is at least one order identifier for every scope that can be      *)
(* created, so a create never runs out of identifiers.                     *)
(***************************************************************************)
EXTENDS PgOrders, TLC

CONSTANTS alice, bob, carl, cora, north, south, east, k1, long

Way(pickup, destination) == [pickup |-> pickup, destination |-> destination]
Dispatcher == [role |-> "dispatcher", id |-> None]
Customer(c) == [role |-> "customer", id |-> c]
Courier(c) == [role |-> "courier", id |-> c]

Create(customer, key, details) ==
    [kind |-> "create", customer |-> customer, key |-> key, details |-> details]
Get(actor, o) == [kind |-> "get", actor |-> actor, order |-> o]
Update(actor, o, expected, changes) ==
    [kind |-> "update", actor |-> actor, order |-> o, expected |-> expected,
     changes |-> changes]
Transition(actor, o, expected, target) ==
    [kind |-> "transition", actor |-> actor, order |-> o, expected |-> expected,
     target |-> target]
Assign(o, courier) == [kind |-> "assign", order |-> o, courier |-> courier]
Claim(courier) == [kind |-> "claim", courier |-> courier]

\* No operator of PgOrders tells two requests apart.
Symmetry == Permutations(Requests)

MCKeyLength == [k \in Keys |-> IF k = long THEN 128 ELSE 36]

\* Two orders, two couriers: claims, direct assignments and cancellations race.
AssignCommands ==
    {Create(alice, k1, Way(north, south)), Create(bob, k1, Way(north, south)),
     Claim(carl), Claim(cora), Assign(1, carl), Assign(2, carl),
     Get(Courier(carl), 1), Transition(Customer(alice), 1, 1, "cancelled"),
     Transition(Customer(alice), 1, 2, "cancelled"),
     Transition(Courier(carl), 1, 2, "picked_up")}

\* The whole life of an order, with stale and current versions: creates retried
\* with the same and with another payload, or with a key too long for the column,
\* edits, and every transition.  The first update makes both addresses equal
\* unless the second came before it.
LifeCommands ==
    {Create(alice, k1, Way(north, south)), Create(alice, k1, Way(south, north)),
     Create(alice, long, Way(north, south)), Claim(carl), Get(Customer(bob), 1),
     Transition(Customer(alice), 1, 2, "delivered"),
     Transition(Courier(carl), 1, 3, "picked_up"),
     Transition(Courier(carl), 1, 4, "delivered")}
        \cup {Update(Customer(alice), 1, v, d) :
                v \in 1..2, d \in {Way(south, None), Way(None, east)}}
        \cup {Transition(Dispatcher, 1, v, s) :
                v \in 1..2, s \in {"assigned", "cancelled"}}
=============================================================================
