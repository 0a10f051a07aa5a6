\* The first review of a service whose completed orders nobody counts.
SPECIFICATION Spec
CONSTANTS
    Orders = {1}
    Requests = {r1, r2}
    Ratings = {4}
    MinOrders = 1
    MaxBegun = 3
    CountedByHand = FALSE
INVARIANT FirstReviewFits
CHECK_DEADLOCK FALSE
