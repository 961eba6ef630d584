SPECIFICATION Spec
CONSTANTS
    Bytes <- MCBytes
    Input <- MCInput
    NoByte = "none"
    LF = "lf"
    CR = "cr"
    TrgRange = 4
    translate = TRUE
    Stream = "file"
    SplitDriver = TRUE
    StatusPolled = TRUE
INVARIANTS
    PendingByteAnnounced
PROPERTIES
    InputKeepsFlowing
