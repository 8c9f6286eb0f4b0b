SPECIFICATION LeanSpec
CONSTANT Models <- MCModels
CONSTANT Widths = {3, 16}
INVARIANT FuelSuffices
INVARIANT BasisIsComplete
INVARIANT WeightsFit
INVARIANT Elaborates
INVARIANT SpacesAgree
CHECK_DEADLOCK FALSE
