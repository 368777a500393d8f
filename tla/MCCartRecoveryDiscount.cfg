SPECIFICATION CartFairSpec
CONSTANTS
    Worker = {w1}
    Campaign = {k1}
    Discounted = {k1}
    Addressed = FALSE
    ScanLimit = 2
    Checkout = {c1}
    Order = {o1}
    MaxFaults = 0
PROPERTY
    DiscountedIsTried
