SPECIFICATION Spec
CONSTANTS
    Nil = Nil
    Base = 12
    MAX_ADDR_TO_SEND = 2
    MaxLength = 40
    MAX_SUBVERSION_LENGTH = 10
    AddrFromVersion = 20
    RelayVersion = 700
    Messages <- TheMessages
    Variants <- Edits
    AddrVectors <- TheAddrVectors
    Addrv2Vectors <- TheAddrv2Vectors
    Versions <- TheVersions
INVARIANT
    TorV2Ignored
