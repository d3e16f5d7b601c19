CONSTANTS
    NoId = NoId
    Settings <- MCSettings
    Lengths = {0, 5, 300}
    Trims <- MCTrims
    MaxLookups = 2
    Missing = {0, 1, 5}
    Swaps <- MCSwaps
    InitialPrices = {0, 1}
    MaxSwaps = 2
    MaxFailures = 2
    Pools <- MCPools
    Program <- MCProgram
    A <- MCA
    B <- MCB
    Mints = {SOL, t1, t2, t3, t4, t5, t6}
    SOL = SOL
    NoMint = NoMint
    WhirlpoolAsRead = TRUE
    NoPair = NoPair
    NoRow = NoRow
    NoPool = NoPool
    t1 = t1
    t2 = t2
    t3 = t3
    t4 = t4
    t5 = t5
    t6 = t6
SPECIFICATION MCSpec
INVARIANTS
    RightParser
    AlignedOrNone
    WholeBodyIsParsed
    ForeignNeverRow
    AccountsAsNamed
    SwapsTypeOK
    OneMintPerPool
    DirectionTellsTruth
    PriceIsQuotePerBase
    AmountsInTheirUnitsButExactOut
    WindowsNested
    PeakIsHighest
    MultiplierFromFirstTrade
CHECK_DEADLOCK FALSE
