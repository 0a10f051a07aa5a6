\* Two escrows over one token, with the governor's settings fixed.
SPECIFICATION Spec
CONSTANTS
    alice = alice
    bob = bob
    ops = ops
    usd = usd
    BpsDenominator = 4
    MaxFeeBps = 2
    NEscrows = 2
    Accounts = {alice, bob, ops}
    Zero = Zero
    Vault = Vault
    Tokens <- OneToken
    Skimmed <- NothingSkimmed
    Endowment <- Endowed
    MaxAmount = 2
    MinWindow = 1
    MaxWindow = 1
    FeeChoices = {2, 3}
    MaxTime = 2
    Admin = ops
    Arbiter = ops
    ArbiterCandidates = {}
    OrderedBy <- BuyersOnRecord
    Team <- TeamsOnRecord
INVARIANTS TypeOK FullyDivided Solvent ExitsStayOpen AdviceMatchesContract
PROPERTY ImplementsLedger
