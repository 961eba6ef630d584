SPECIFICATION Spec
CONSTANTS
    RAM_SIZE = 262144
    RamCells <- MCRamCells
    SvramCells = {}
    FASTER_VIDEO = TRUE
    translate = FALSE
    outputs = {}
    Interfaces = {"sdl", "xlib"}
    Addresses <- MCAddresses
    Values = {0, 1}
    Longs <- MCLongs
    OprValues <- MCOprValues
    Images <- MCImages
INVARIANTS
    TypeOK
    ScreenShowsRam
    BlankStaysDark
    WrittenIsVisible
