SPECIFICATION MCSpec
CONSTANTS
    Callers = {c1, c2, c3}
    failure_threshold = 2
    attempts = 3
    Calls = {t1, t2, t3}
    max_attempts = 3
    Readers = {g1, g2}
    ttl = 2
    MaxVersion = 3
    Absent = Absent
    Workers = {w1, w2}
    Nobody = Nobody
    None = None
INVARIANTS
    IInv
    TakesEffectOnce
    LeaseIsKept
PROPERTIES
    OpensOnWholeLookups
    LookupRecovers
    StaleHeals
CHECK_DEADLOCK FALSE
