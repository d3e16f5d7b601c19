CONSTANTS
    m1 = m1
    m2 = m2
    c1 = c1
    c2 = c2
    Nobody = Nobody
    Profiler = Profiler
    Tasks = {t1, t2}
    Mints = {m1, m2}
    Models = {a}
    Creates = {c1, c2}
    MintOf <- MCTwoMints
    Answers = {"low"}
    RetryAttempts = 1
    MaxFails = 1
    MaxRestarts = 0
    Limit = 1
    Measures = 1
SPECIFICATION FairSpec
INVARIANTS
    ProfilesScored
PROPERTIES
    EveryMintProfiled
CHECK_DEADLOCK FALSE
