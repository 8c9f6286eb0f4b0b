SPECIFICATION Spec
CONSTANTS
    Models <- MCModels
    MaxSteps <- MCMaxSteps
INVARIANT UntouchedUnlessEnabled
PROPERTY LoopSpec
CHECK_DEADLOCK FALSE
