CONSTANTS
    p1 = p1
    NoPool = NoPool
    Pools <- MCPools
    LogPayloads <- LiveLogPayloads
    Transactions <- LiveTransactions
    BatchSize = 2
    MaxPayloads = 4
    MaxFails = 1
    MaxCancels = 1
    MaxCrashes = 0
SPECIFICATION FairSpec
PROPERTIES
    ShutdownEnds
    BatchFlushed
