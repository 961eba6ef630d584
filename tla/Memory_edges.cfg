SPECIFICATION Spec
CONSTANTS
    RAM_SIZE = 262144
    RamCells <- MCRamCells
    SvramCells <- MCSvramCells
    FASTER_VIDEO = TRUE
    translate = TRUE
    outputs = {"serial"}
    Addresses <- MCAll
    Values = {10, 13}
    MaxWrites = 2
INVARIANTS
    RamIsFlat
    SvramIsFlat
    ReadOrderIsFree
    SentInOrder
