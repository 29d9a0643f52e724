SPECIFICATION Spec
CONSTANTS
    Network = "direct"
    MaxAttempts = 1
    RetryOnTimeout = FALSE
PROPERTIES
    PingsAnswered
