SPECIFICATION LineSpec
CONSTANTS
    None = None
    j1 = j1
    j2 = j2
    j3 = j3
    Jtis = {j1, j2, j3, j4, j5}
    Requests = {r1, r2}
INVARIANTS
    IInv
    LineIsUnbroken
PROPERTIES
    EveryRequestEnds
CHECK_DEADLOCK FALSE
