SPECIFICATION FairSpec
CONSTANTS
    None = None
    photo = photo
    text = text
    huge = huge
    Requests = {r1, r2}
    Capacity = 2
    Bodies = {photo, text, huge}
    media_of <- MCMedia
    Oversized = {huge}
    max_ttl_seconds = 3
    TicksPerSecond = 2
    MaxTime = 12
    Inputs <- MCInputs
INVARIANTS
    IInv
    RowsHaveTheirObject
    MetricsTellTheTruth
    LinkLivesItsTtl
PROPERTY
    EveryRequestEnds
