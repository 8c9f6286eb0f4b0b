SPECIFICATION Spec
CONSTANTS
    Machines <- MCMachines
    MaxSteps <- MCMaxSteps
INVARIANTS
    TypeOK
    WalkAgrees
    PrintsGolden
PROPERTY LoopSpec
CHECK_DEADLOCK FALSE
