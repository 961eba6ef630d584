SPECIFICATION Spec
CONSTANTS
    Blocks = 2
    OptionSets <- MCAllOptions
    Kills = TRUE
    WriteErrors = TRUE
    MaxVersion = 3
    NoFile = NoFile
INVARIANTS
    IntactUnlessCut
    WarmBootRestores
    RamNotNewer
PROPERTIES
    FullStaysFull
