CONSTANTS
    p1 = p1
    NoPool = NoPool
    Pools <- MCPools
    LogPayloads <- MCLogPayloads
    Transactions <- MCTransactions
    BatchSize = 2
    MaxPayloads = 3
    MaxFails = 2
    MaxCancels = 1
    MaxCrashes = 1
SPECIFICATION Spec
INVARIANTS
    TypeOK
    BatchBounded
    EventCopies
    NoSilentLoss
    CreatesFollowSwaps
    ResolvedSwapHasCreate
    RegistryKnowsStored
PROPERTIES
    DeliversRows
