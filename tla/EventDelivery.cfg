CONSTANTS
    Events = {1, 2}
    Created = {1}
    Relays = {r1, r2}
    OldRelays = {r2}
    Workers = {w1, w2}
    Fragile = {r1, w1}
    BatchSize = 2
    None = None
    MaxCopies = 1
    MaxFailures = 1
SPECIFICATION FairSpec
INVARIANTS IInv MarkedIsNotForgotten
PROPERTIES NeverPublishedAgain EveryEventSettles
