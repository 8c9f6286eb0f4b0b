SPECIFICATION Spec
CONSTANT Nets <- MCNetsOfProof
INVARIANTS
    SearchInv
    VerdictIsProof
    SearchIsBounded
    RunStaysVerified
    ClauseIsRedundant
PROPERTIES
    VerdictReached
    RunIsMachine
CHECK_DEADLOCK FALSE
