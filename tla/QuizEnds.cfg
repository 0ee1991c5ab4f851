CONSTANTS
    None = None
    Consumer = Consumer
    Players = {p1, p2}
    Conns = {c1, c2}
    Slots = {g1, g2}
    Rounds = 2
    MaxSelected = 1
    Faults = FALSE
SPECIFICATION FairSpec
CHECK_DEADLOCK FALSE
PROPERTY StartedMatchEnds
