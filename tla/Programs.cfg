SPECIFICATION Spec
CONSTANTS
    ByteBits <- MCByteBits
    AddressSpace <- MCSpace
    Ram <- MCRam
    VectorTable <- MCVectors
    Ten = 5
    Library <- MCLibrary
    MaxTicks = 1
INVARIANTS
    TypeOK
    ResultAsSpecified
    StackAligned
    InterruptReturns
PROPERTIES
    UserKeepsOut
    RefusedIsWhole
    Terminates
