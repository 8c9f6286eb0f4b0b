SPECIFICATION Spec
CONSTANTS
    Programs <- MCPrograms
    MaxSteps <- MCMaxSteps
INVARIANTS
    ScanIsFresh
    HaltedAtTerminal
    FiresLeast
    HaltedNeverRepeated
    GoldenExactly
PROPERTY Settles
CHECK_DEADLOCK FALSE
