SPECIFICATION Spec
CONSTANTS
    Bytes <- MCBytes
    Input <- MCInput
    NoByte = "none"
    LF = "lf"
    CR = "cr"
    TrgRange = 4
    translate = TRUE
    Stream = "pipe"
    SplitDriver = FALSE
    StatusPolled = FALSE
INVARIANTS
    Conservation
    ReceivedInOrder
PROPERTIES
    ImplementsChannel
