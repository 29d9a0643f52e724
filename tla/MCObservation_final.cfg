SPECIFICATION Spec
CONSTANTS
    n1 = n1
    n2 = n2
    b1 = b1
    b2 = b2
    b3 = b3
    Nil = Nil
    Nodes = {n1}
    Seeds = {}
    Messages <- SomeMessages
    Closings = {"hard", "quiet", "envelope", "disconnect"}
    MaxMessages = 2
    MaxCheckpoints = 2
    MaxFaults = 2
INVARIANTS
    CompleteMeansIntact
    OutcomeMatchesBlocks
PROPERTIES
    FinalIsLast
