SPECIFICATION Spec
CONSTANTS
    None = None
    Header = 2
    MaxPayload = 4
    Chunk = 3
    Hard = 2
    Timeouts = {1, 3}
    Count = 2
    Sizes = {0, 1, 2, 4}
    Kinds = {"none", "checksum", "command", "oversize"}
    Streams <- AllStreams
INVARIANTS
    HardDeadline
PROPERTIES
    CompleteIsReturned
    ImplementsEnvelopes
