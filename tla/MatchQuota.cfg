CONSTANTS
    None = None
    Users = {u1, u2}
    Calls = {c1, c2}
    Rooms = {1, 2}
    Streams = {1, 2, 3}
    ChanCap = 1
    MaxBatch = 2
    PlanChangers = {u1, u2}
    Faults = TRUE
    Midnights = TRUE
SPECIFICATION SafetySpec
INVARIANT TypeOK
INVARIANT PlacesArePaid
INVARIANT FreeMatchesPerDay
INVARIANT RoomHasOpponents
INVARIANT AnnouncedRoomsWritten
INVARIANT ChannelSafety
SYMMETRY SafetySymmetry
