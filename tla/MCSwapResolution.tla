-------------------------- MODULE MCSwapResolution --------------------------
\* One pool of Meteora.
EXTENDS SwapResolution

CONSTANTS pool, token

MCProgram == [p \in Pools |-> "meteora"]
MCA == [p \in Pools |-> token]
MCB == [p \in Pools |-> SOL]
=============================================================================
