CONSTANTS
    None = None
    Users = {u1}
    Payments = {p1, p2}
    Handlers = {h1, h2}
    Terms = {2}
    MaxTime = 3
    MaxSlips = 1
SPECIFICATION FairSpec
INVARIANT PaymentIsFollowed
INVARIANT GrantSafety
INVARIANT PremiumIsPaid
PROPERTY PublishedIsGranted
PROPERTY ExpiredPlanEnds
