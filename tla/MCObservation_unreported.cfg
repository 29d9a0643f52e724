SPECIFICATION Spec
CONSTANTS
    n1 = n1
    n2 = n2
    b1 = b1
    b2 = b2
    b3 = b3
    Nil = Nil
    Nodes = {n1}
    Seeds = {}
    Messages = {{b1}}
    Closings = {"quiet"}
    MaxMessages = 1
    MaxCheckpoints = 1
    MaxFaults = 1
INVARIANTS
    LogFailureReported
