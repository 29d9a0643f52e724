SPECIFICATION Spec
CONSTANTS
    a1 = a1
    a2 = a2
    a3 = a3
    w1 = w1
    w2 = w2
    Nil = Nil
    NoLimit = NoLimit
    Route <- RouteOf
    Pool <- PoolOf
    Addrs = {a1, a2, a3}
    Workers = {w1, w2}
    TorAddrs = {}
    TorWorkers = {}
    Enabled = {a1, a2, a3}
    Seeds = {a1, a2}
    MaxAttempts = 2
    MaxNodes = 1
    MaxAddresses = 3
    Threshold = 0
    Timestamps = {5}
    StartNow = 5
    MaxNow = 5
    MaxBatch = 2
    RetryOnTimeout = FALSE
    ProbeMode = FALSE
INVARIANTS
    ProcessedClassified
