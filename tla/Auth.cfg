CONSTANTS
    SignUps = {1, 2, 3}
    Nowhere = Nowhere
    Links = {l1}
    Names = {1}
    Addresses = {1}
    GoogleIds = {1}
    GoogleAddress <- SameAddress
    GoogleName <- SameAddress
    RefCodes = {1, 2}
    RefCodeTries = 1
    AccountFaults = TRUE
    Visits = {v1, v2}
    MaxDay = 4
    MongoFails = TRUE
    Requests = {q1, q2}
    EmailCodeTTL = 2
    RateLimitTTL = 1
    MaxAttempts = 2
    MaxCodes = 2
    MaxChecks = 5
    MaxErrors = 1
    Members = {a, b, c}
    Nobody = Nobody
    Referees = {a, b}
    Applies = {p1, p2}
    ReferralCap = 1
    MaxMatches = 2
    ReferralFaults = TRUE
    Learners = {x}
    Guests = {x}
    LastDay = 4
    JobsFail = TRUE
    Screens = {s1, s2}
    MaxChanges = 2
    PlanFaults = TRUE
SPECIFICATION AuthSpec
CHECK_DEADLOCK FALSE
INVARIANT AccountSafety
INVARIANT StreakSafety
INVARIANT CodeSafety
INVARIANT ReferralSafety
INVARIANT WarningSafety
INVARIANT PlanShownSafety
