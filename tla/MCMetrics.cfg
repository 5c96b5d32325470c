SPECIFICATION MetricsSpec
CONSTANTS
    Observed = {r1, r2, r3}
    Results <- SomeResults
    HistoryLimit = 1
    SegmentBytes = 2
    Limits = {1, 2}
    MaxAge = 1
    MaxTime = 2
    MaxFailures = 1
    MaxStarts = 2
SYMMETRY Symmetry
INVARIANTS EpochBalances LogIsNewest
CHECK_DEADLOCK FALSE
