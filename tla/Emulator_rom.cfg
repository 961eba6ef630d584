SPECIFICATION Spec
CONSTANTS
    Code <- MCCode
    Vector <- MCVector
    UserStacks = {u1, u2}
    SliceCycles = 2
    WatchdogLimit = 2
    WatchdogRange = 8
    MaxFrames = 2
    Masks = {0, 1, 7}
INVARIANTS
    TypeOK
    OneServicePerTick
    WarmBootByNmi
PROPERTIES
    OnlyMaskedStopSkipsSlice
    HangIsDetected
    ImplementsCalls
