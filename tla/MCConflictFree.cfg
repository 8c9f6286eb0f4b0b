SPECIFICATION RerunSpec
CONSTANTS
    Nets <- SmallNets
    Weightings = {}
    MaxFirings <- MCMaxFirings
INVARIANT ConflictFreeOutcome
CHECK_DEADLOCK FALSE
