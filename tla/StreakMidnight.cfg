CONSTANTS
    Visits = {v1, v2}
    MaxDay = 3
    MongoFails = FALSE
SPECIFICATION StreakSpec
CHECK_DEADLOCK FALSE
INVARIANT RewardOncePerDay
