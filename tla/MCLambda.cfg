SPECIFICATION LambdaSpec
CONSTANT Schedules <- AllSchedules
INVARIANT ServesExactly
CHECK_DEADLOCK FALSE
