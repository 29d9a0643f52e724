SPECIFICATION Spec
CONSTANTS
    l1 = l1
    l2 = l2
    r1 = r1
    r2 = r2
    Nil = Nil
    Launches = {l1, l2}
    Runs = {r1, r2}
    Configs <- SomeConfigs
    Resolutions <- SomeResolutions
    ProbeLimit = 2
INVARIANTS
    RunDirExclusive
    SeedsServed
    ExitHonest
