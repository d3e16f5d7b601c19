-------------------------------- MODULE MCRows --------------------------------
(***************************************************************************)
(* The parsers that are ready, what one of them reads from a body, where   *)
(* its accounts come from, what the rows say of the trades, and what a     *)
(* profile says of the rows share no variable: one run checks them, each   *)
(* behaviour being one of a single part while the others stand still.      *)
(***************************************************************************)
EXTENDS ParserStartup, EventDecoding, EntryDecoding, SwapResolution, ProfileMetrics

CONSTANTS t1, t2, t3, t4, t5, t6

VARIABLE part

vars == <<startupVars, decodingVars, entryVars, swapVars, metricsVars, part>>

\* The maps: none, the shipped one, one with the ids exchanged, and one that
\* gives a file an id that another file has already.
MCSettings == {s \in SettingsSpace :
    /\ s.raydium \in {{}, {"clmm", "cpmm", "launchlab"}, {"launchlab", "pump"}}
    /\ s.idmap \in {{}, {<<"meteora", "meteora">>, <<"whirlpool", "whirlpool">>},
                    {<<"meteora", "whirlpool">>, <<"whirlpool", "meteora">>},
                    {<<"meteora", "meteora">>, <<"whirlpool", "pump">>}}}

\* Cut by a byte, by a key, by more than poolFees; whole; a byte, a u64 and a
\* key longer.
MCTrims == {-33, -32, -1, 0, 1, 8, 32}

\* A pool of each program, and one of Meteora with SOL as token A.
MCPools == Programs \cup {"meteora_sol"}
MCProgram == [p \in MCPools |-> IF p = "meteora_sol" THEN "meteora" ELSE p]
MCA == [pumpfun |-> t1, launchlab |-> t2, meteora |-> t3, whirlpool |-> t4, pumpswap |-> t5, meteora_sol |-> SOL]
MCB == [p \in MCPools |-> IF p = "meteora_sol" THEN t6 ELSE SOL]

\* Trades before, at and after the ends of the windows; one price is 0.
MCSwaps == [time : {3, 15, 40, 300}, price : {1, 2}] \cup {[time |-> 4, price |-> 0]}

\* Initial states in which the parts stand still.
StartupAtRest ==
    /\ settings = [pumpfun |-> NoId, pumpswap |-> NoId, damm_v2 |-> NoId, whirlpool |-> NoId,
                   raydium |-> {}, validate |-> FALSE, idmap |-> {}]
    /\ broken = {} /\ nameless = {} /\ discriminated = Addressed
    /\ loaded = 0 /\ idls = <<>> /\ parsers = {} /\ instructions = {} /\ phase = "loading"

DecodingAtRest ==
    /\ body = [program |-> "whirlpool", name |-> "Traded", trim |-> 0, length |-> 0, fields |-> <<>>]
    /\ parser = "whirlpool"
    /\ pos = 0 /\ next = 1 /\ got = <<>> /\ outcome = "reading"

EntryAtRest ==
    /\ instruction = "sell" /\ sent = <<>> /\ looked_up = {} /\ accounts = <<>>
    /\ stage = "sent" /\ picked = NoRowYet

MetricsAtRest == initial_price = 0 /\ to_come = {} /\ visible = {} /\ answers = <<>> /\ profile = NotYet

MCInit ==
    \/ part = "startup" /\ StartupInit /\ DecodingAtRest /\ EntryAtRest /\ SwapsInit /\ MetricsAtRest
    \/ part = "decoding" /\ StartupAtRest /\ DecodingInit /\ EntryAtRest /\ SwapsInit /\ MetricsAtRest
    \/ part = "entry" /\ StartupAtRest /\ DecodingAtRest /\ EntryInit /\ SwapsInit /\ MetricsAtRest
    \/ part = "swaps" /\ StartupAtRest /\ DecodingAtRest /\ EntryAtRest /\ SwapsInit /\ MetricsAtRest
    \/ part = "metrics" /\ StartupAtRest /\ DecodingAtRest /\ EntryAtRest /\ SwapsInit /\ MetricsInit

MCNext ==
    /\ UNCHANGED part
    /\ \/ part = "startup" /\ StartupNext /\ UNCHANGED <<decodingVars, entryVars, swapVars, metricsVars>>
       \/ part = "decoding" /\ DecodingNext /\ UNCHANGED <<startupVars, entryVars, swapVars, metricsVars>>
       \/ part = "entry" /\ EntryNext /\ UNCHANGED <<startupVars, decodingVars, swapVars, metricsVars>>
       \/ part = "swaps" /\ SwapsNext /\ UNCHANGED <<startupVars, decodingVars, entryVars, metricsVars>>
       \/ part = "metrics" /\ MetricsNext /\ UNCHANGED <<startupVars, decodingVars, entryVars, swapVars>>

MCSpec == MCInit /\ [][MCNext]_vars
=============================================================================
