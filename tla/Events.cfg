CONSTANTS
    GamePlayers = {p1, p2}
    Calls = {c1, c2}
    Nobody = Nobody
    GameRounds = 2
    MaxDropped = 1
    Tourneys = {f, p, seeded}
    TextIds = {f, p}
    PremiumTourneys = {p}
    Entrants = {a, b}
    PremiumUsers = {a}
    Joins = {j1}
    Starts = {7, 8}
    TickEvery = 2
    WindowStart = 2
    WindowEnd = 6
    TickerFaults = TRUE
    MaxMisses = 1
    Recipients = {u1, u2}
    Devices = {d1}
    Queues = {q1, q2}
    Notices = {1, 2}
    PushFaults = TRUE
    Opponents = {o1, o2}
    Invitings = {g1, g2, g3}
    InviteFaults = TRUE
    Topics = {"science", "history", "geography", "sports"}
    FreeTopics = {"science", "history", "geography"}
    Roommates = {r1, r2}
    Banks <- MatchBanks
    MaxFailures = 1
SPECIFICATION EventsSpec
CHECK_DEADLOCK FALSE
INVARIANT StreamSafety
INVARIANT ReminderSafety
INVARIANT PushSafety
INVARIANT InviteSafety
INVARIANT SelectionSafety
INVARIANT StartSafety
SYMMETRY EventsSymmetry
