CONSTANTS
    None = None
    Users = {u1}
    Payments = {p1, p2}
    Handlers = {h1}
    Terms = {2}
    MaxTime = 0
    MaxSlips = 1
SPECIFICATION Spec
INVARIANT AnsweredIsPublished
