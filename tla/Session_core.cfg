SPECIFICATION Spec
CONSTANTS
    Network = "i2p"
    MaxAttempts = 3
    RetryOnTimeout = FALSE
INVARIANTS
    AttemptsExplained
    VerdictExplained
    RetriesJustified
    ProtocolOrder
PROPERTIES
    Settles
