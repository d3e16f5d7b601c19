----------------------------- MODULE IdlLayouts -----------------------------
(***************************************************************************)
(* The bodies of the events and instructions the parsers read, as the IDL  *)
(* files of src/idl lay them out: their fields in order, each a name and a *)
(* type.  Struct fields are listed in place of the struct.                 *)
(***************************************************************************)
EXTENDS Naturals, Sequences

\* A field of a body: its name and its type.
u8(name) == [name |-> name, type |-> "u8"]
bool(name) == [name |-> name, type |-> "bool"]
u16(name) == [name |-> name, type |-> "u16"]
u64(name) == [name |-> name, type |-> "u64"]
i64(name) == [name |-> name, type |-> "i64"]
u128(name) == [name |-> name, type |-> "u128"]
pubkey(name) == [name |-> name, type |-> "pubkey"]
string(name) == [name |-> name, type |-> "string"]
fees(name) == [name |-> name, type |-> "fees"]
params(name) == [name |-> name, type |-> "params"]
jump(name) == [name |-> name, type |-> "jump"]

\* The types of no fixed width, and the bytes of the others.
Varying == {"string", "fees", "params"}

Bytes(type) ==
    CASE type = "u16" -> 2
      [] type \in {"u64", "i64"} -> 8
      [] type = "u128" -> 16
      [] type = "pubkey" -> 32
      [] OTHER -> 1                         \* u8, bool

PumpLayouts == [
    TradeEvent |-> <<
        pubkey("mint"), u64("sol_amount"), u64("token_amount"), bool("is_buy"), pubkey("user"),
        i64("timestamp"), u64("virtual_sol"), u64("virtual_token"), u64("real_sol"), u64("real_token"),
        pubkey("fee_recipient"), u64("fee_bp"), u64("fee"), pubkey("creator"), u64("creator_fee_bp"),
        u64("creator_fee"), bool("track_volume"), u64("total_unclaimed"), u64("total_claimed"),
        u64("current_sol_volume"), i64("last_update"), string("ix_name") >>,
    CreateEvent |-> <<
        string("name"), string("symbol"), string("uri"), pubkey("mint"), pubkey("bonding_curve"),
        pubkey("user"), pubkey("creator"), i64("timestamp"), u64("virtual_token"), u64("virtual_sol"),
        u64("real_token"), u64("token_total_supply"), pubkey("token_program"), bool("is_mayhem_mode") >>]

PumpInstructionLayouts == [
    buy |-> << u64("amount"), u64("max_sol_cost"), bool("track_volume") >>,
    buy_exact_sol_in |->
        << u64("spendable_sol_in"), u64("min_tokens_out"), bool("track_volume") >>,
    sell |-> << u64("amount"), u64("min_sol_output") >>,
    create |-> << string("name"), string("symbol"), string("uri"), pubkey("creator") >>,
    create_v2 |-> <<
        string("name"), string("symbol"), string("uri"), pubkey("creator"), bool("is_mayhem_mode") >>]

\* The curve, vesting and fee parameters of a LaunchLab pool are one field
\* here: no reader gets that far.
LaunchLabLayouts == [
    TradeEvent |-> <<
        pubkey("pool_state"), u64("total_base_sell"), u64("virtual_base"), u64("virtual_quote"),
        u64("real_base_before"), u64("real_quote_before"), u64("real_base_after"), u64("real_quote_after"),
        u64("amount_in"), u64("amount_out"), u64("protocol_fee"), u64("platform_fee"), u64("creator_fee"),
        u64("share_fee"), u8("trade_direction"), u8("pool_status"), bool("exact_in") >>,
    PoolCreateEvent |-> <<
        pubkey("pool_state"), pubkey("creator"), pubkey("config"), u8("decimals"), string("name"),
        string("symbol"), string("uri"), params("curve_and_vesting") >>]

WhirlpoolLayouts == [
    Traded |-> <<
        pubkey("whirlpool"), bool("aToB"), u128("preSqrtPrice"), u128("postSqrtPrice"), u64("inputAmount"),
        u64("outputAmount"), u64("inputTransferFee"), u64("outputTransferFee"), u64("lpFee"),
        u64("protocolFee") >>,
    PoolInitialized |-> <<
        pubkey("whirlpool"), pubkey("whirlpoolsConfig"), pubkey("tokenMintA"), pubkey("tokenMintB"),
        u16("tickSpacing"), pubkey("tokenProgramA"), pubkey("tokenProgramB"), u8("decimalsA"),
        u8("decimalsB"), u128("initialSqrtPrice") >>]

MeteoraLayouts == [
    EvtSwap2 |-> <<
        pubkey("pool"), u8("tradeDirection"), u8("collectFeeMode"), bool("hasReferral"), u64("amount0"),
        u64("amount1"), u8("swapMode"), u64("includedFeeInputAmount"), u64("excludedFeeInputAmount"),
        u64("amountLeft"), u64("outputAmount"), u128("nextSqrtPrice"), u64("claimingFee"),
        u64("protocolFee"), u64("compoundingFee"), u64("referralFee"), u64("includedTransferFeeAmountIn"),
        u64("includedTransferFeeAmountOut"), u64("excludedTransferFeeAmountOut"), u64("currentTimestamp"),
        u64("reserveA"), u64("reserveB") >>,
    EvtInitializePool |-> <<
        pubkey("pool"), pubkey("tokenAMint"), pubkey("tokenBMint"), pubkey("creator"), pubkey("payer"),
        pubkey("alphaVault"), fees("poolFees"), u128("sqrtMinPrice"), u128("sqrtMaxPrice"),
        u8("activationType"), u8("collectFeeMode"), u128("liquidity"), u128("sqrtPrice"),
        u64("activationPoint"), u8("tokenAFlag"), u8("tokenBFlag"), u64("tokenAAmount"),
        u64("tokenBAmount"), u64("totalAmountA"), u64("totalAmountB"), u8("poolType") >>]
=============================================================================
