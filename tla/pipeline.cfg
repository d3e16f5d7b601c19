CONSTANTS
    m1 = m1
    m2 = m2
    c1 = c1
    c2 = c2
    Nobody = Nobody
    Profiler = Profiler
    Tasks = {t1, t2}
    Mints = {m1}
    Models = {a}
    Creates = {c1, c2}
    MintOf <- MCMintOf
    Answers = {"good"}
    RetryAttempts = 1
    MaxFails = 1
    MaxRestarts = 1
    Limit = 2
    Measures = 2
SPECIFICATION Spec
SYMMETRY Symmetry
INVARIANTS
    ScoredTwiceUnchecked
CHECK_DEADLOCK FALSE
