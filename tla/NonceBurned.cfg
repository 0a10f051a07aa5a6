\* A sign-in that fails after it has spent its nonce.
SPECIFICATION Spec
CONSTANTS
    Addresses = {"a"}
    Chains = {"c"}
    Nonces = {n1}
    Sessions = {s1}
    Requests = {r1, r2}
    Anyone = "anyone"
PROPERTY FailedAttemptBurns
CHECK_DEADLOCK FALSE
