SPECIFICATION MCSpec
CONSTANTS
    None = None
    Orders = {o1}
    Watched = o1
    Events = {e1, e2}
    Requests = {r1, r2}
    Sse = {c1}
    WebSockets = {w1}
    queue_size = 2
    MaxSequence = 3
    Jtis = {j1, j2, j3, j4}
    OrderIds = {1, 2}
    Customers = {alice}
    Couriers = {carl}
    Addresses = {north, south}
    Keys = {k1, k2}
    MaxVersion = 4
INVARIANTS
    WsMissesNothing
    OutboxIsTheTrail
    FamiliesAreSafe
    OrdersAgree
    OneAnswerPerKey
