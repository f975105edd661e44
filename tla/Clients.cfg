SPECIFICATION Spec
CONSTANTS
    Searches = {"s", "t"}
    Async = {"t"}
    MaxResults = 1
    Width = 256
    Timeout = 2
    Resend = 1
    Period = 64
    Start = 0
    QLen = 2
    MaxTicks = 4
    MaxRx = 2
    MaxQueries = 3
    Controllers = {"c"}
    QueueSize = 2
    MaxWork = 3
    MaxStarts = 2
INVARIANTS NobodyUsesFreed LimitsAreKept ResultsMatchRecords ChangesAreReported NoLoss RunInOrder
PROPERTY NothingIsReplaced
CHECK_DEADLOCK FALSE
