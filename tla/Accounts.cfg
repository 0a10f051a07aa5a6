SPECIFICATION Spec
CONSTANTS
    Users = {u1, u2}
    Orgs = {"team"}
    Offers = {i1, i2}
    MaxTeamOrgs = 1
    Addresses = {"a"}
    Emails = {"e", "f"}
    Rows = {s1, s2, s3}
    Scopes = {"read"}
    MaxActiveKeys = 1
    Requests = {r1, r2}
    Callers <- Neighbours
    Quota = 1
    Window = 4
    MaxTime = 6
    MaxArrivals = 4
    MaxDelay = 3
    None = None
SYMMETRY Symmetry
INVARIANTS
    TypeOK
    MembersConsented
    OwnedUnlessOverlapped
    NonceSpentOnce
    ExactlyOnePayoutWallet
    ProvenUnlessOverlapped
PROPERTIES
    LimitsNearlyHold
    SignedOutUntilSignIn
    RevocationSticks
CHECK_DEADLOCK FALSE
