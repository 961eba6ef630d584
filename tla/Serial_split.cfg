SPECIFICATION Spec
CONSTANTS
    Bytes <- MCBytes
    Input <- MCInput
    NoByte = "none"
    LF = "lf"
    CR = "cr"
    TrgRange = 4
    translate = TRUE
    Stream = "pipe"
    SplitDriver = TRUE
    StatusPolled = FALSE
INVARIANTS
    ReceivedInOrder
