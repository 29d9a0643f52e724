SPECIFICATION Spec
CONSTANTS
    None = None
    Workers = {w1, w2, w3}
    MaxSessions = 3
INVARIANTS
    StreamsKept
    OneSession
    NotRefusedAgain
PROPERTIES
    AttemptsEnd
