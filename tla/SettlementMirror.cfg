\* One escrow, two tokens and the escrow's row, with the governor and the role
\* table moving freely.
SPECIFICATION MirrorSpec
CONSTANTS
    alice = alice
    bob = bob
    ops = ops
    usd = usd
    skim = skim
    BpsDenominator = 4
    MaxFeeBps = 2
    NEscrows = 1
    Accounts = {alice, bob, ops}
    Zero = Zero
    Vault = Vault
    Tokens <- TwoTokens
    Skimmed <- SkimSkimmed
    Endowment <- Endowed
    MaxAmount = 3
    MinWindow = 1
    MaxWindow = 1
    FeeChoices = {0, 2, 3}
    MaxTime = 3
    Admin = ops
    Arbiter = ops
    ArbiterCandidates = {alice, ops}
INVARIANTS Solvent FeesReconcile RowsReconcile
PROPERTY TermsFrozen
