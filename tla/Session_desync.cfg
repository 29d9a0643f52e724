SPECIFICATION Spec
CONSTANTS
    Network = "onion"
    MaxAttempts = 1
    RetryOnTimeout = FALSE
INVARIANTS
    DesyncMeansUnsound
