CONSTANTS
    None = None
    Consumer = Consumer
    Players = {p1, p2}
    Conns = {c1, c2}
    Slots = {g1, g2}
    Rounds = 3
    MaxSelected = 2
    Faults = TRUE
SPECIFICATION Spec
CHECK_DEADLOCK FALSE
INVARIANT TypeOK
INVARIANT OneRoundAtATime
INVARIANT RoundsInOrder
INVARIANT FullCountMeansAllAsked
INVARIANT FinishedOnceIfAllStay
SYMMETRY RoomSymmetry
