\* Every part of the marketplace, each with two overlapping requests.
\* The parts are bounded: a behaviour ends when the bounds are reached.
SPECIFICATION Spec
CONSTANTS
    Parts = {"reputation", "subscriptions", "catalogue", "proofs", "desk", "reorganised", "crowded", "probe", "monitor"}
    Requests = {r1, r2}
    Orders = {1}
    Strangers = {2}
    MaxBegun = 3
    \* reputation
    Ratings = {4}
    MinOrders = 1
    CountedByHand = TRUE
    \* subscriptions
    Accounts = {"alice", "gov"}
    Governor = "gov"
    PlanIds = {"basic"}
    Tokens = {"usd", "skim"}
    Skimmed <- KeepsAUnit
    Endowment <- FewCoins
    Prices = {0, 1}
    Periods = {1, 2, 3}
    MinPeriod = 1
    MaxPeriod = 2
    MaxCoverage = 4
    \* catalogue
    OrderIds = {1, 2}
    Wallets = {"w"}
    Quotes = {5}
    Hours = {7}
    ReleaseHours = {2}
    DefaultHours = 9
    \* proofs
    Domains = {"d", "e"}
    Logins = {"g"}
    MaxIssued = 2
    MaxSites = 2
    \* the desk and the indexer
    DeskWorker = "indexer"
    Amount = 4
    FeeBps = 1
    Shares = {0, 2}
    BpsDenominator = 4
    MaxFeeBps = 2
    Confirmations = 2
    ReorgDepth = 1
    ChunkSize = 2
    FundingDeadline = 0
    ExpiryGrace = 1
    Reorgable = 3
    SettleDelay = 0
    Stall = 2
    MaxHeight = 3
    MaxForks = 1
    \* readiness check and subscriptions
    Window = 2
    MaxAttempts = 2
    MaxTime = 5
    \* monitor
    Threshold = 2
    HeartbeatAfter = 1
    OkLag = 1
    DownLag = 2
    StaleAfter = 1
    MaxSkew = 1
    Lookback = 1
    MaxHead = 3
    MaxRestarts = 1
SYMMETRY Symmetry
INVARIANTS
    TypeOK
    FiguresFollowRows
    ServiceRowSound
    OrdersAsOffered
    NeverAheadOfChain
    WorkerNeverRefused
    OrderMatchesEscrow
    OneRoundPerWindow
    NothingUnsaid
PROPERTIES
    VerdictsStay
    CoverageIsPaid
    TierFollowsProof
    EscrowRowKept
CHECK_DEADLOCK FALSE
