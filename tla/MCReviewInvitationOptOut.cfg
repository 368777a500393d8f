SPECIFICATION FairSpec
CONSTANTS
    d1 = d1
    d2 = d2
    o1 = o1
    Webhook = {d1, d2}
    Order = {o1}
    OrderOf <- BothOfOneOrder
    Engine = {e1}
    Sender = {s1, s2}
    MaxRetries = 1
    MaxSends = 3
    MaxInvitations = 2
    MaxReviews = 1
    MaxFaults = 0
PROPERTY
    OptOutIsHonoured
