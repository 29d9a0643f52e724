SPECIFICATION Spec
CONSTANTS
    Files = {"reachable", "handshake_failed", "unreachable", "stats"}
    MaxGenerations = 3
INVARIANTS
    ManifestBacked
    ReturnedSurvives
    FinalNameComplete
PROPERTIES
    ImplementsManifests
