SPECIFICATION Spec
CONSTANTS
    Requests = {t1}
    Addresses = {"a"}
    MaxEndpoints = 1
    MaxAttempts = 2
    BatchSize = 2
    MaxCreated = 2
    MaxDeliveries = 2
    MaxCrashes = 1
    MaxRefusals = 2
INVARIANTS
    GivenUpInTheEnd
CHECK_DEADLOCK FALSE
