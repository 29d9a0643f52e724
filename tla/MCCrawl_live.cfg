SPECIFICATION FairSpec
CONSTANTS
    a1 = a1
    a2 = a2
    a3 = a3
    w1 = w1
    w2 = w2
    Nil = Nil
    NoLimit = NoLimit
    Route <- RouteOf
    Pool <- PoolOf
    Addrs = {a1, a2, a3}
    Workers = {w1, w2}
    TorAddrs = {a2}
    TorWorkers = {w2}
    Enabled = {a1, a2, a3}
    Seeds = {a1}
    MaxAttempts = 2
    MaxNodes = 2
    MaxAddresses = 2
    Threshold = 2
    Timestamps = {3, 4}
    StartNow = 5
    MaxNow = 6
    MaxBatch = 2
    RetryOnTimeout = FALSE
    ProbeMode = FALSE
INVARIANTS
    StaleJustified
    QueueNeverFull
PROPERTIES
    Terminates
    ImplementsFrontier
