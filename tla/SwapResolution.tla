--------------------------- MODULE SwapResolution ---------------------------
(***************************************************************************)
(* From what happens in a pool to a row of swaps: the parsers of           *)
(* src/app/event_parsers and src/app/instruction_parsers, the registry     *)
(* that tells some of them the mints of a pool, and its restoration from   *)
(* pool_creates after a restart.                                           *)
(*                                                                         *)
(* The chain is not a variable: pools exist, and their creation and trades *)
(* are seen in any order, from the logs, from the instructions or from     *)
(* both, any number of times.  Amounts are abstracted to the token they    *)
(* are measured in, prices to the two tokens whose amounts are divided.    *)
(***************************************************************************)
EXTENDS Naturals, FiniteSets

CONSTANTS
    Pools,
    Program,    \* [Pools -> Programs]
    A, B,       \* [Pools -> the mint of each token]
    Mints,
    SOL,        \* SOL_MINT
    NoMint,     \* the empty string
    WhirlpoolAsRead,  \* PoolInitialized is laid out as whirlpool.py reads it
    NoPair, NoRow, NoPool

Programs == {"pumpfun", "launchlab", "meteora", "whirlpool", "pumpswap"}

\* The two bonding curves sell their token, A, for SOL.
ASSUME PoolsAssumption ==
    /\ Program \in [Pools -> Programs]
    /\ A \in [Pools -> Mints]
    /\ B \in [Pools -> Mints]
    /\ SOL \in Mints /\ NoMint \notin Mints
    /\ NoPair \notin Mints \X Mints /\ NoPool \notin Pools
    /\ WhirlpoolAsRead \in BOOLEAN
    /\ \A p \in Pools : A[p] # B[p]
    /\ \A p \in Pools : Program[p] \in {"pumpfun", "launchlab"} => B[p] = SOL

\* A trade: which token the trader gives, and whether the amount given (in) or
\* received (out) was asked for exactly.
Trades == [pool : Pools, gives : {"A", "B"}, exact : {"in", "out"}]

TokenA(t) == A[t.pool]
TokenB(t) == B[t.pool]
Given(t) == IF t.gives = "A" THEN A[t.pool] ELSE B[t.pool]
Received(t) == IF t.gives = "A" THEN B[t.pool] ELSE A[t.pool]

VARIABLES
    registry,   \* PoolRegistry._store: [Pools -> <<mint, quote>> or NoPair]
    buffered,   \* creates in AnalyticsSink, not yet written
    stored,     \* pool_creates
    row,        \* the last swap row, with the trade it stands for, or NoRow
    mints       \* per pool: the mints of the rows that name the pool

swapVars == <<registry, buffered, stored, row, mints>>

Create(p, mint, quote) == [pool |-> p, mint |-> mint, quote |-> quote]

Creates == [pool : Pools, mint : Mints \cup {NoMint}, quote : Mints]

\* The create that the log of a new pool gives.  LaunchLab's has no mint;
\* PumpSwap has no event parser, and Whirlpool's refuses the event unless it
\* is longer than the IDL says.
LogCreates(p) ==
    CASE Program[p] = "pumpfun" -> {Create(p, A[p], SOL)}
      [] Program[p] = "launchlab" -> {Create(p, NoMint, SOL)}
      [] Program[p] = "meteora" -> {Create(p, A[p], B[p])}
      [] Program[p] = "whirlpool" /\ WhirlpoolAsRead -> {Create(p, A[p], B[p])}
      [] OTHER -> {}

\* Instructions: only Pumpfun's are taken for creates.
InstructionCreates(p) ==
    IF Program[p] = "pumpfun" THEN {Create(p, A[p], SOL)} ELSE {}

\* Mutant: the empty mint is registered like any other.
UpdateAlways(reg, c) == [reg EXCEPT ![c.pool] = <<c.mint, c.quote>>]

\* PoolRegistry.update and its callers refuse an empty mint.
Update(reg, c) == IF c.mint = NoMint THEN reg ELSE [reg EXCEPT ![c.pool] = <<c.mint, c.quote>>]

\* A row of swaps for trade t.  price is <<dividend, divisor>>.
Row(t, pool, pair, direction, in, out, price) ==
    [trade |-> t, pool |-> pool, mint |-> pair[1], quote |-> pair[2], direction |-> direction,
     amount_in |-> in, amount_out |-> out, price |-> price]

\* Mutant: the amounts of a sale in the order of a purchase.
PumpfunRowUnswapped(t) ==
    LET is_buy == t.gives = "B"
        mint == TokenA(t)
    IN  Row(t, NoPool, <<mint, SOL>>, IF is_buy THEN "buy" ELSE "sell", SOL, mint, <<SOL, mint>>)

\* TradeEvent of Pumpfun: is_buy, sol_amount and token_amount.
PumpfunRow(t) ==
    LET is_buy == t.gives = "B"
        mint == TokenA(t)
    IN  Row(t, NoPool, <<mint, SOL>>, IF is_buy THEN "buy" ELSE "sell",
            IF is_buy THEN SOL ELSE mint, IF is_buy THEN mint ELSE SOL, <<SOL, mint>>)

\* TradeEvent of LaunchLab: trade_direction 0 is a buy.
LaunchLabRow(t) ==
    LET pair == registry[t.pool]
    IN  Row(t, t.pool, pair, IF t.gives = "B" THEN "buy" ELSE "sell", Given(t), Received(t), <<TokenB(t), TokenA(t)>>)

\* Mutant: directions the other way round.
MeteoraRowFlipped(t) ==
    LET pair == registry[t.pool]
        amount0 == IF t.exact = "in" THEN Given(t) ELSE Received(t)
    IN  Row(t, t.pool, pair, IF t.gives = "A" THEN "buy" ELSE "sell", amount0, Received(t), <<TokenB(t), TokenA(t)>>)

\* EvtSwap2: amount0 is what was asked for exactly, sqrt_price is B per A.
MeteoraRow(t) ==
    LET pair == registry[t.pool]
        amount0 == IF t.exact = "in" THEN Given(t) ELSE Received(t)
    IN  Row(t, t.pool, pair, IF t.gives = "B" THEN "buy" ELSE "sell", amount0, Received(t), <<TokenB(t), TokenA(t)>>)

\* Mutant: the token bought is taken for the base, so every swap is a buy.
WhirlpoolRowOfBought(t) ==
    Row(t, t.pool, <<Received(t), Given(t)>>, "buy", Given(t), Received(t), <<Given(t), Received(t)>>)

\* Traded of Whirlpool: aToB is a sale.
WhirlpoolRow(t) ==
    LET pair == registry[t.pool]
    IN  Row(t, t.pool, pair, IF t.gives = "A" THEN "sell" ELSE "buy", Given(t), Received(t), <<TokenB(t), TokenA(t)>>)

LogRow(t) ==
    CASE Program[t.pool] = "pumpfun" -> PumpfunRow(t)
      [] Program[t.pool] = "launchlab" -> LaunchLabRow(t)
      [] Program[t.pool] = "meteora" -> MeteoraRow(t)
      [] Program[t.pool] = "whirlpool" -> WhirlpoolRow(t)

\* buy, buy_exact_sol_in and sell of Pumpfun: the amounts are the limits that
\* the trader set, in the same tokens.
BuyInstructionRow(t) == Row(t, t.pool, <<TokenA(t), SOL>>, "buy", SOL, TokenA(t), <<SOL, TokenA(t)>>)

\* Mutant: what is given over what is received, as in a buy.
SellInstructionRowInverted(t) == Row(t, t.pool, <<TokenA(t), SOL>>, "sell", TokenA(t), SOL, <<TokenA(t), SOL>>)

SellInstructionRow(t) == Row(t, t.pool, <<TokenA(t), SOL>>, "sell", TokenA(t), SOL, <<SOL, TokenA(t)>>)

\* A swap of PumpSwap whose accounts name a registered pool.
PumpSwapRow(t) ==
    Row(t, t.pool, registry[t.pool], "swap", Given(t), Received(t), <<Given(t), Received(t)>>)

InstructionRow(t) ==
    CASE Program[t.pool] = "pumpswap" -> PumpSwapRow(t)
      [] OTHER -> IF t.gives = "B" THEN BuyInstructionRow(t) ELSE SellInstructionRow(t)

SwapsInit ==
    /\ registry = [p \in Pools |-> NoPair]
    /\ buffered = {} /\ stored = {}
    /\ row = NoRow
    /\ mints = [p \in Pools |-> {}]

SeeCreate(p) ==
    /\ \E c \in LogCreates(p) \cup InstructionCreates(p) :
        /\ buffered' = buffered \cup {c}
        /\ registry' = Update(registry, c)
    /\ UNCHANGED <<stored, row, mints>>

Buffer(r) ==
    /\ row' = r
    /\ mints' = IF r.pool = NoPool THEN mints ELSE [mints EXCEPT ![r.pool] = @ \cup {r.mint}]

\* A parser that does not find the pool returns None.
SkipsUnknown(p) == Program[p] # "pumpfun" /\ registry[p] = NoPair

SeeTradeLog(t) ==
    /\ Program[t.pool] # "pumpswap"
    /\ IF SkipsUnknown(t.pool) THEN UNCHANGED <<row, mints>> ELSE Buffer(LogRow(t))
    /\ UNCHANGED <<registry, buffered, stored>>

SeeTradeInstruction(t) ==
    /\ Program[t.pool] \in {"pumpfun", "pumpswap"}
    /\ IF SkipsUnknown(t.pool) THEN UNCHANGED <<row, mints>> ELSE Buffer(InstructionRow(t))
    /\ UNCHANGED <<registry, buffered, stored>>

StoreCreates ==
    /\ buffered # {}
    /\ stored' = stored \cup buffered
    /\ buffered' = {}
    /\ UNCHANGED <<registry, row, mints>>

\* bootstrap_from_clickhouse.
Bootstrapped(rows) ==
    [p \in Pools |-> IF \E c \in rows : c.pool = p /\ c.mint # NoMint
                     THEN LET c == CHOOSE c \in rows : c.pool = p /\ c.mint # NoMint IN <<c.mint, c.quote>>
                     ELSE NoPair]

\* A kill and the next start; without the rows when their query fails.
Restart(failed) ==
    /\ registry' = IF failed THEN [p \in Pools |-> NoPair] ELSE Bootstrapped(stored)
    /\ buffered' = {}
    /\ UNCHANGED <<stored, row, mints>>

SwapsNext ==
    \/ \E p \in Pools : SeeCreate(p)
    \/ \E t \in Trades : SeeTradeLog(t)
    \/ \E t \in Trades : SeeTradeInstruction(t)
    \/ StoreCreates
    \/ \E failed \in BOOLEAN : Restart(failed)

SwapsSpec == SwapsInit /\ [][SwapsNext]_swapVars
-----------------------------------------------------------------------------
SwapsTypeOK ==
    /\ registry \in [Pools -> (Mints \X Mints) \cup {NoPair}]
    /\ buffered \subseteq Creates
    /\ stored \subseteq Creates
    /\ mints \in [Pools -> SUBSET Mints]

\* A pool is always about the same mint, whichever way its create and its
\* trades were seen, and before and after a restart: a swap that lands under
\* another mint would be missing from one profile and spoil another.
OneMintPerPool == \A p \in Pools : Cardinality(mints[p]) <= 1

\* A buy is a row whose trader received the row's mint, a sale one whose
\* trader gave it; every profile counts buyers and sellers by this word.
DirectionTellsTruth ==
    row # NoRow =>
        /\ row.direction = "buy" => Received(row.trade) = row.mint /\ Given(row.trade) = row.quote
        /\ row.direction = "sell" => Given(row.trade) = row.mint /\ Received(row.trade) = row.quote

\* price is "quote per base" (base.py:25), never its inverse: peak, last and
\* initial price of a mint are compared with each other although log, buy and
\* sell instruction each compute it from other fields.
PriceIsQuotePerBase == row # NoRow => row.price = <<row.quote, row.mint>>

ExactOut(r) == Program[r.trade.pool] = "meteora" /\ r.trade.exact = "out"

\* base.py:23: "raw u64, units of input token", and the same for the output.
AmountsInTheirUnits ==
    row # NoRow => row.amount_in = Given(row.trade) /\ row.amount_out = Received(row.trade)

\* The same for all but the swaps of Meteora with an exact output.
AmountsInTheirUnitsButExactOut ==
    row # NoRow /\ ~ExactOut(row) => row.amount_in = Given(row.trade) /\ row.amount_out = Received(row.trade)
=============================================================================
