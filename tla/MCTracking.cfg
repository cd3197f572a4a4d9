SPECIFICATION Spec
CONSTANTS
    None = None
    Orders = {o1, o2}
    Watched = o1
    Events = {e1, e2}
    Requests = {r1, r2}
    MaxBus = 2
    Sse = {c1}
    WebSockets = {}
    queue_size = 1
VIEW View
SYMMETRY Symmetry
INVARIANTS
    IInv
    PublishedInOrder
    SseOnlyAdvances
    NewestIsKept
