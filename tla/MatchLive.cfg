CONSTANTS
    None = None
    Users = {u1, u2}
    Calls = {c1}
    Rooms = {r1}
    Streams = {s1, s2}
    ChanCap = 1
    MaxBatch = 2
    PlanChangers = {}
    Faults = FALSE
    Midnights = FALSE
SPECIFICATION LiveSpec
INVARIANT HeardRoomIsAnnounced
PROPERTY SubscribedPlayerHears
PROPERTY NoPairWaitsForever
PROPERTY DropsOnlyALoneWaiter
