--------------------------- MODULE EventDecoding ---------------------------
(***************************************************************************)
(* One body, of an event or of an instruction, read field by field by a    *)
(* parser of src/app/event_parsers or src/app/instruction_parsers.         *)
(*                                                                         *)
(* A parser recognises a body by its discriminator, the hash of its name,  *)
(* and by nothing else: a payload may carry events of several programs, and*)
(* TradeEvent is a name that two of them use.  A body may be shorter than  *)
(* its layout (a truncated log, an older program) or longer (a newer one). *)
(*                                                                         *)
(* A field is told apart by the bytes it was read from; values do not      *)
(* matter, except that a pool address is known to the registry and a mint, *)
(* or 32 bytes from the middle of something, is not.                       *)
(***************************************************************************)
EXTENDS Integers, Functions, IdlLayouts

CONSTANTS
    Lengths,    \* of the strings in a body
    Trims       \* bytes by which a body misses (< 0) or exceeds (> 0) its layout

ASSUME DecodingAssumption ==
    /\ Lengths \subseteq Nat
    /\ Trims \subseteq Int

Layouts == [pump |-> PumpLayouts, pump_ix |-> PumpInstructionLayouts, launchlab |-> LaunchLabLayouts,
            meteora |-> MeteoraLayouts, whirlpool |-> WhirlpoolLayouts]

Parsers == DOMAIN Layouts

\* What each parser function reads; "-" is a field it does not use.
\* Mutants: the reserves in the wrong order; a parser that stops at the last
\* field it uses before the reserves.
PumpTradeReadsSwapped == <<
    pubkey("mint"), u64("sol_amount"), u64("token_amount"), bool("is_buy"), pubkey("user"), i64("-"),
    u64("virtual_token"), u64("virtual_sol"), u64("real_token"), u64("real_sol"), pubkey("-"), u64("-"),
    u64("fee") >>
PumpTradeReadsHasty == <<
    pubkey("mint"), u64("sol_amount"), u64("token_amount"), bool("is_buy"), pubkey("user") >>

PumpTradeReads == <<
    pubkey("mint"), u64("sol_amount"), u64("token_amount"), bool("is_buy"), pubkey("user"), i64("-"),
    u64("virtual_sol"), u64("virtual_token"), u64("real_sol"), u64("real_token"), pubkey("-"), u64("-"),
    u64("fee") >>

PumpCreateReads == <<
    string("name"), string("symbol"), string("uri"), pubkey("mint"), pubkey("bonding_curve"), pubkey("-"),
    pubkey("creator"), i64("-"), u64("virtual_token"), u64("virtual_sol"), u64("real_token"),
    u64("token_total_supply") >>

BuyReads == << u64("amount"), u64("max_sol_cost"), bool("-") >>

BuyExactSolInReads == << u64("spendable_sol_in"), u64("min_tokens_out"), bool("-") >>

SellReads == << u64("amount"), u64("min_sol_output") >>

CreateReads == << string("name"), string("symbol"), string("uri"), pubkey("creator") >>

CreateV2Reads ==
    << string("name"), string("symbol"), string("uri"), pubkey("creator"), bool("-") >>

LaunchLabTradeReads == <<
    pubkey("pool_state"), u64("-"), u64("virtual_base"), u64("virtual_quote"), u64("-"), u64("-"),
    u64("real_base_after"), u64("real_quote_after"), u64("amount_in"), u64("amount_out"),
    u64("protocol_fee"), u64("platform_fee"), u64("creator_fee"), u64("-"), u8("trade_direction"), u8("-"),
    bool("-") >>

LaunchLabCreateReads == <<
    pubkey("pool_state"), pubkey("creator"), pubkey("-"), u8("decimals"), string("name"), string("symbol"),
    string("uri") >>

TradedReads == <<
    pubkey("whirlpool"), bool("aToB"), u128("-"), u128("postSqrtPrice"), u64("inputAmount"),
    u64("outputAmount"), u64("-"), u64("-"), u64("lpFee"), u64("protocolFee") >>

PoolInitializedReads == <<
    pubkey("-"), pubkey("whirlpool"), pubkey("tokenMintA"), pubkey("tokenMintB"), pubkey("-"), pubkey("-"),
    pubkey("-"), u16("-"), u128("initialSqrtPrice") >>

EvtSwapReads == <<
    pubkey("pool"), u8("tradeDirection"), u8("-"), bool("-"), u64("amount0"), u64("-"), u8("-"), u64("-"),
    u64("-"), u64("-"), u64("outputAmount"), u128("nextSqrtPrice"), u64("-"), u64("protocolFee"), u64("-"),
    u64("-"), u64("-"), u64("-"), u64("-"), u64("-"), u64("reserveA"), u64("reserveB") >>

\* jump: skip what lies before the last _TRAILING bytes.
EvtInitializePoolReads == <<
    pubkey("pool"), pubkey("tokenAMint"), pubkey("tokenBMint"), pubkey("creator"), pubkey("-"), pubkey("-"),
    jump("-"), u8("-"), u8("-"), u128("-"), u128("-"), u128("-"), u128("sqrtPrice"), u64("-"), u8("-"),
    u8("-"), u64("tokenAAmount"), u64("tokenBAmount"), u64("-"), u64("-"), u8("-") >>

\* Mutant: poolFees counted among the trailing fields.
TRAILINGWithFees == 172

TRAILING == 109

\* The functions that the try_parse of a program calls, by discriminator.
Reads(p) ==
    CASE p = "pump" -> [TradeEvent |-> PumpTradeReads, CreateEvent |-> PumpCreateReads]
      [] p = "pump_ix" -> [buy |-> BuyReads, buy_exact_sol_in |-> BuyExactSolInReads, sell |-> SellReads,
                           create |-> CreateReads, create_v2 |-> CreateV2Reads]
      [] p = "launchlab" -> [TradeEvent |-> LaunchLabTradeReads, PoolCreateEvent |-> LaunchLabCreateReads]
      [] p = "meteora" -> [EvtSwap2 |-> EvtSwapReads, EvtInitializePool |-> EvtInitializePoolReads]
      [] p = "whirlpool" -> [Traded |-> TradedReads, PoolInitialized |-> PoolInitializedReads]

\* The field that the registry must know as a pool, of the bodies whose parser
\* asks it.
PoolField == [launchlab |-> [TradeEvent |-> "pool_state"], meteora |-> [EvtSwap2 |-> "pool"],
              whirlpool |-> [Traded |-> "whirlpool"]]

AsksRegistry(p, name) == p \in DOMAIN PoolField /\ name \in DOMAIN PoolField[p]

VARIABLES
    body,       \* program, name, fields with their places, trim, length
    parser,     \* the program whose parser reads it
    pos,        \* BorshReader._pos
    next,       \* the field the parser reads next
    got,        \* the fields read: name -> <<from, width>>
    outcome     \* reading, or what try_parse returned: row, none

decodingVars == <<body, parser, pos, next, got, outcome>>

\* The widths a field may have.
Widths(type) ==
    CASE type = "string" -> {4 + n : n \in Lengths}
      [] type = "fees" -> {31, 63}        \* with or without a dynamic fee
      [] type = "params" -> {40}
      [] OTHER -> {Bytes(type)}

\* Every choice of the widths of the fields of a layout.
FieldWidths(layout) ==
    LET varying == {i \in DOMAIN layout : layout[i].type \in Varying}
        chosen == {w \in [varying -> UNION {Widths(layout[i].type) : i \in varying}] :
                       \A i \in varying : w[i] \in Widths(layout[i].type)}
    IN  {[i \in DOMAIN layout |-> IF i \in varying THEN w[i] ELSE Bytes(layout[i].type)] : w \in chosen}

\* The places of fields of these widths, one after the other.
Places(widths) ==
    LET from[i \in DOMAIN widths] == IF i = 1 THEN 0 ELSE from[i - 1] + widths[i - 1]
    IN  from

\* The fields of a layout at their places.
Placed(layout) ==
    {[i \in DOMAIN layout |-> [name |-> layout[i].name, type |-> layout[i].type,
                               from |-> Places(w)[i], width |-> w[i]]] : w \in FieldWidths(layout)}

DecodingInit ==
    /\ \E p \in Parsers : \E n \in DOMAIN Layouts[p], t \in Trims :
           \E fields \in Placed(Layouts[p][n]) :
               body = [program |-> p, name |-> n, fields |-> fields, trim |-> t,
                       length |-> fields[Len(fields)].from + fields[Len(fields)].width + t]
    /\ body.length >= 0
    /\ parser \in {p \in Parsers : body.name \in DOMAIN Reads(p)}
    /\ pos = 0
    /\ next = 1
    /\ got = <<>>
    /\ outcome = "reading"

Script == Reads(parser)[body.name]

Reading == outcome = "reading" /\ next <= Len(Script)

\* The widths a read may turn out to have: that of a string is in the four
\* bytes before it, which are a length only where the body has a string.
ReadWidths(type) ==
    IF type # "string" THEN {Bytes(type)}
    ELSE LET here == {f \in Range(body.fields) : f.from = pos /\ f.type = "string"}
         IN  IF here = {} THEN Widths("string") ELSE {f.width : f \in here}

Return(what) == outcome' = what /\ UNCHANGED <<body, parser, pos, next, got>>

\* _consume: the bytes are there, or ValueError is raised and caught.
Consume(width) ==
    IF pos + width <= body.length
    THEN /\ pos' = pos + width
         /\ next' = next + 1
         /\ got' = [name \in DOMAIN got \cup ({Script[next].name} \ {"-"}) |->
                       IF name \in DOMAIN got THEN got[name] ELSE <<pos, width>>]
         /\ UNCHANGED <<body, parser, outcome>>
    ELSE Return("none")

ReadField ==
    /\ Reading
    /\ Script[next].type # "jump"
    /\ \E width \in ReadWidths(Script[next].type) : Consume(width)

Jump ==
    /\ Reading
    /\ Script[next].type = "jump"
    /\ IF body.length - pos < TRAILING THEN Return("none") ELSE Consume(body.length - pos - TRAILING)

\* Whether the registry may know the address read as a pool.
IsPool ==
    LET name == PoolField[parser][body.name]
    IN  \E f \in Range(body.fields) : f.name = name /\ <<f.from, f.width>> = got[name]

\* try_parse returns: a row, unless the pool is not registered (yet).
EndBody ==
    /\ outcome = "reading"
    /\ next > Len(Script)
    /\ \/ (AsksRegistry(parser, body.name) => IsPool) /\ Return("row")
       \/ AsksRegistry(parser, body.name) /\ Return("unknown")

DecodingNext == ReadField \/ Jump \/ EndBody

DecodingSpec == DecodingInit /\ [][DecodingNext]_decodingVars
-----------------------------------------------------------------------------
DecodingTypeOK ==
    /\ parser \in Parsers
    /\ pos \in 0 .. body.length
    /\ next \in 1 .. Len(Script) + 1
    /\ outcome \in {"reading", "row", "unknown", "none"}

\* The layout of PoolInitialized in whirlpool.py is not that of the IDL: it is
\* 30 bytes longer and has the pool in second place.
Strange == body.program = "whirlpool" /\ body.name = "PoolInitialized"

\* What a reader jumps to: known to be in place only when the body is exactly
\* its layout, since it counts from the end.
AfterJump(name) ==
    \E i, j \in DOMAIN Script : Script[i].type = "jump" /\ i < j /\ Script[j].name = name

\* A row never carries the bytes of another field: every field that a parser
\* takes into a row of its own program was read from the place and with the
\* width the IDL gives it, however long the strings before it and whether the
\* body was cut short or is longer than the IDL knows.  The two amounts and
\* the price of a Meteora pool, counted from the end, are exempt unless the
\* body has the length of its layout.  Nothing but its length keeps a
\* PoolInitialized of Whirlpool, whose layout the parser has wrong, from
\* registering the configuration as a pool.
AlignedOrNone ==
    outcome = "row" /\ parser = body.program /\ (Strange => body.trim < 30) =>
        \A name \in DOMAIN got :
            \/ AfterJump(name) /\ body.trim # 0
            \/ \E f \in Range(body.fields) : f.name = name /\ <<f.from, f.width>> = got[name]

\* A body that is whole, or has fields appended to it by a newer program, is
\* never given up for its length.
WholeBodyIsParsed ==
    outcome = "none" /\ parser = body.program /\ ~Strange => body.trim < 0

\* An event of another program that bears the same name, and with it the same
\* discriminator, never becomes a row: it is too short for the parser or names
\* no registered pool.  Only a LaunchLab TradeEvent that had grown by 30 bytes,
\* less than a public key, would pass for one of Pumpfun.
ForeignNeverRow == outcome = "row" /\ body.trim < 30 => parser = body.program
=============================================================================
