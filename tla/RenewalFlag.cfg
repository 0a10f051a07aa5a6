\* A cancellation applied again after the renewal that followed it.
SPECIFICATION Spec
CONSTANTS
    Parts = {"subscriptions"}
    Orders = {"o1"}
    Strangers = {}
    Amount = 4
    FeeBps = 1
    Shares = {2}
    BpsDenominator = 4
    MaxFeeBps = 2
    Subscribers = {"a"}
    Period = 3
    Confirmations = 2
    ReorgDepth = 1
    ChunkSize = 2
    FundingDeadline = 1
    ExpiryGrace = 2
    Stall = 1
    Reorgable = 1
    SettleDelay = 2
    EscrowHeight = 5
    SubscriptionHeight = 4
    MaxForks = 1
    MaxCrashes = 1
INVARIANT RenewalFollowsChain
