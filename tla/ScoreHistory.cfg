CONSTANTS
    Players = {1, 2}
    Rounds = 2
    Elapsed = {4000, 15001}
    MaxAnswers = 3
    MaxFaults = 1
    Referred = {1}
    Newcomers = {1}
    MaxEnds = 2
SPECIFICATION MCSpec
CHECK_DEADLOCK FALSE
INVARIANT ScoreIsBacked
INVARIANT HistoryExplainsScore
INVARIANT PersistSafety
INVARIANT FirstMatchConverts
PROPERTY ScoredOnce
PROPERTY AnswerIsKept
PROPERTY FinishedIsPersisted
