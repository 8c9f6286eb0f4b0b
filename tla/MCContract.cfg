SPECIFICATION Spec
CONSTANTS
    d1 = d1
    d2 = d2
    d3 = d3
    Drivers = {d1, d2, d3}
INVARIANTS
    LogReplays
    FiresOnce
    DriverAdvanced
    DriverServes
    PaidBeforePoured
PROPERTY EventuallyServed
