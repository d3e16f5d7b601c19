CONSTANTS
    p1 = p1
    NoPool = NoPool
    Pools <- MCPools
    LogPayloads <- LiveLogPayloads
    Transactions <- LiveTransactions
    BatchSize = 2
    MaxPayloads = 2
    MaxFails = 0
    MaxCancels = 0
    MaxCrashes = 0
SPECIFICATION FairSpec
PROPERTIES
    AutoReconnect
