SPECIFICATION Spec
CONSTANTS
    Nets <- MCNets
    MaxLines <- MCMaxLines
INVARIANTS
    ListsReachable
    WalkIsPolicy
PROPERTY ExploreEnds
CHECK_DEADLOCK FALSE
