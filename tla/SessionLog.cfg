SPECIFICATION Spec
CONSTANTS
    f1 = f1
    f2 = f2
    none = none
    NoPath = none
    Files = {f1, f2}
    FirstId = 4
    MaxId = 5
    Kinds <- SomeKinds
    MaxFaults = 1
    Earlier <- EarlierFiles
SYMMETRY SamePaths
INVARIANTS TypeOK LossIsBounded FileMirrorsMemory PathsEnd
PROPERTIES ForkKeepsContext
CHECK_DEADLOCK FALSE
