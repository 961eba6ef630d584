SPECIFICATION Spec
CONSTANTS
    Hosts <- MCHosts
    NoText = NoText
    MaxEvents = 5
INVARIANTS
    NoStuckKey
PROPERTIES
    ImplementsKeystrokes
    StrokesReachCat
