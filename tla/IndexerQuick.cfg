\* A dispute settled in the next block.
SPECIFICATION Spec
CONSTANTS
    o1 = o1
    Orders = {o1}
    Strangers = {}
    Amount = 4
    FeeBps = 1
    Shares = {2}
    BpsDenominator = 4
    MaxFeeBps = 2
    Confirmations = 2
    ReorgDepth = 1
    ChunkSize = 2
    FundingDeadline = 1
    ExpiryGrace = 4
    Reorgable = 1
    SettleDelay = 1
    BatchedCalls = FALSE
    Stall = 2
    MaxHeight = 5
    MaxForks = 0
    MaxCrashes = 0
PROPERTY IndexingContinues
