SPECIFICATION Spec
CONSTANTS
    Sizes <- MCSizes
    Radices <- MCRadices
    Widths <- MCWidths
INVARIANTS
    MultiwordExact
    MultiwordSign
    DecimalExact
    DivisionExact
    ConditionsCompare
    QuotientOrKept
    ShiftsCompose
CHECK_DEADLOCK FALSE
