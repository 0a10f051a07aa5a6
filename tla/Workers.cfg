SPECIFICATION Spec
CONSTANTS
    Requests = {t1}
    Addresses = {"a"}
    MaxEndpoints = 1
    MaxAttempts = 2
    BatchSize = 2
    MaxCreated = 2
    MaxDeliveries = 2
    MaxCrashes = 1
    MaxRefusals = 2
INVARIANTS
    TypeOK
    WithdrawnLeftAlone
PROPERTIES
    EveryDeliveryCloses
    ImplementsOutbox
CHECK_DEADLOCK FALSE
