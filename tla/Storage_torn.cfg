SPECIFICATION Spec
CONSTANTS
    Blocks = 2
    OptionSets <- MCAllOptions
    Kills = TRUE
    WriteErrors = FALSE
    MaxVersion = 3
    NoFile = NoFile
INVARIANTS
    SavedStateRestored
