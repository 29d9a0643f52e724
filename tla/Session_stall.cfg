SPECIFICATION SpecUnread
CONSTANTS
    Network = "direct"
    MaxAttempts = 2
    RetryOnTimeout = TRUE
PROPERTIES
    Settles
