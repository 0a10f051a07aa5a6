\* A refund recorded while the start of work is under way.
\* The run ends when the only order has: nothing is left to do.
SPECIFICATION Spec
CONSTANTS
    o1 = o1
    r1 = r1
    r2 = r2
    r3 = r3
    Orders = {o1}
    Requests = {r1}
    Worker = Worker
    Amount = 2
    FeeBps = 2
    Shares = {0, 1}
    BpsDenominator = 4
    MaxFeeBps = 2
INVARIANT StatusDivergenceReported
CHECK_DEADLOCK FALSE
