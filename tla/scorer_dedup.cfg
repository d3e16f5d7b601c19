CONSTANTS
    Nobody = Nobody
    Tasks = {t1, t2, t3}
    Mints = {m1}
    Models = {a, b}
    Answers = {"good", "high", "low"}
    RetryAttempts = 1
    MaxFails = 1
    MaxRestarts = 1
SPECIFICATION ScorerSpec
SYMMETRY Symmetry
INVARIANTS
    ScorerTypeOK
    AlertOncePerWindow
    AlertHasScore
    NoLostAlert
    StandsBackForScore
PROPERTIES
    DedupsScores
CHECK_DEADLOCK FALSE
