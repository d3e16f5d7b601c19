CONSTANTS
    pool = pool
    token = token
    Pools = {pool}
    Program <- MCProgram
    A <- MCA
    B <- MCB
    Mints = {SOL, token}
    SOL = SOL
    NoMint = NoMint
    WhirlpoolAsRead = TRUE
    NoPair = NoPair
    NoRow = NoRow
    NoPool = NoPool
SPECIFICATION SwapsSpec
INVARIANT AmountsInTheirUnits
CHECK_DEADLOCK FALSE
