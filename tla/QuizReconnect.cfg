CONSTANTS
    None = None
    Consumer = Consumer
    Players = {p1, p2}
    Conns = {c1, c2, c3}
    Slots = {g1, g2}
    Rounds = 2
    MaxSelected = 1
    Faults = FALSE
SPECIFICATION Spec
CHECK_DEADLOCK FALSE
PROPERTY ReconnectionSafe
