SPECIFICATION RerunSpec
CONSTANTS
    Nets <- RerunNets
    Weightings <- MCWeightings
    MaxFirings <- MCMaxFirings
INVARIANTS
    Conserved
    UniqueOutcome
    NoRunOutlasts
    SameOutcome
CHECK_DEADLOCK FALSE
