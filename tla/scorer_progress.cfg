CONSTANTS
    Nobody = Nobody
    Tasks = {t1, t2}
    Mints = {m1, m2}
    Models = {a}
    Answers = {"good", "high", "low"}
    RetryAttempts = 2
    MaxFails = 1
    MaxRestarts = 0
SPECIFICATION ScorerFairSpec
PROPERTIES
    TasksEnd
CHECK_DEADLOCK FALSE
