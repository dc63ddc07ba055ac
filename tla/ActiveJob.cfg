SPECIFICATION FairSpec
CONSTANTS
    Jobs <- MCJobs
    TabJobs <- MCTabJobs
    Canonical <- MCCanonical
    Sessions <- MCSessions
    SessionOf <- MCSessionOf
    MaxPending = 1
    MaxFlushRetries = 1
    None = None
    c1 = c1
    c2 = c2
    t1 = t1
    t2 = t2
    g1 = g1
    chat = chat
    group = group
INVARIANTS TypeOK ExclusiveUnlessForced ParkedExactlyOnce PendingBounded
PROPERTY LeakedLockReclaimed
CHECK_DEADLOCK FALSE
