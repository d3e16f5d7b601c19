---------------------------- MODULE ParserStartup ----------------------------
(***************************************************************************)
(* From the settings and the IDL files to the parsers that are ready when  *)
(* ingestion starts: idl_registry.py, config.py, the start of run() in     *)
(* main.py and build_parser_registry.                                      *)
(*                                                                         *)
(* Program ids stand for themselves by the name of the program that has    *)
(* the id, and IDL files by the program they describe.  The settings may   *)
(* name the id of another program, a file may be missing or broken, and    *)
(* the two files without an address depend on IDL_PROGRAM_ID_MAP_JSON.     *)
(***************************************************************************)
EXTENDS Naturals, Sequences, FiniteSets, Functions

CONSTANTS NoId, Settings

\* What the settings may say.
SettingsSpace == [
    pumpfun : {"pump", "launchlab", NoId}, pumpswap : {"pumpswap", NoId},
    damm_v2 : {"meteora", "whirlpool", NoId}, whirlpool : {"whirlpool", "meteora", NoId},
    raydium : SUBSET {"clmm", "cpmm", "launchlab", "pump"}, validate : BOOLEAN,
    idmap : SUBSET ({"meteora", "whirlpool"} \X {"meteora", "whirlpool", "pump"})]

ASSUME StartupAssumption == Settings \subseteq SettingsSpace

\* The files of src/idl in the order of sorted(root.glob("*.json")).
Files == <<"meteora", "pump", "clmm", "cpmm", "launchlab", "whirlpool">>

\* The files that hold their program's address.
Addressed == {"pump", "clmm", "cpmm", "launchlab"}

\* The events of a file that some parser asks for.
EventNames == [meteora |-> {"EvtSwap2", "EvtInitializePool"}, pump |-> {"TradeEvent", "CreateEvent"},
               clmm |-> {"SwapEvent"}, cpmm |-> {"SwapEvent"},
               launchlab |-> {"TradeEvent", "PoolCreateEvent"}, whirlpool |-> {"Traded", "PoolInitialized"}]

VARIABLES
    settings,
    broken,         \* files that _load_json cannot read
    discriminated,  \* files whose entries carry a discriminator
    nameless,       \* files without metadata.name and name: label is the stem
    loaded,         \* number of Files seen
    idls,           \* IdlRegistry._by_program_id: id -> file
    parsers,        \* EventParserRegistry._parsers, as a set of <<id, parser>>
    instructions,   \* instruction parsers ready: "pumpfun", "pumpswap"
    phase           \* loading, validating, registering, ready, refused

startupVars == <<settings, broken, discriminated, nameless, loaded, idls, parsers, instructions, phase>>

StartupInit ==
    /\ settings \in Settings
    /\ broken \in {{}, {"pump"}, {"launchlab"}}
    /\ discriminated \in {Addressed, Addressed \cup {"meteora", "whirlpool"}}
    /\ nameless \in {{}, {"cpmm", "launchlab"}}
    /\ loaded = 0
    /\ idls = <<>>
    /\ parsers = {}
    /\ instructions = {}
    /\ phase = "loading"

\* _resolve_program_id: the file's own address goes before the map.
ProgramId(f) ==
    IF f \in Addressed THEN {f} ELSE {id \in Range(Files) : <<f, id>> \in settings.idmap}

\* A later file takes the place of an earlier one with the same id.
LoadFile ==
    /\ phase = "loading"
    /\ loaded < Len(Files)
    /\ loaded' = loaded + 1
    /\ LET f == Files[loaded + 1]
           ids == IF f \in broken THEN {} ELSE ProgramId(f)
       IN  idls' = [id \in DOMAIN idls \cup ids |-> IF id \in ids THEN f ELSE idls[id]]
    /\ phase' = IF loaded' = Len(Files) THEN "validating" ELSE phase
    /\ UNCHANGED <<settings, broken, discriminated, nameless, parsers, instructions>>

\* tracked_program_lookup
Tracked ==
    ({settings.pumpfun, settings.pumpswap, settings.damm_v2, settings.whirlpool} \ {NoId}) \cup settings.raydium

\* RuntimeError, or a warning when the validation is switched off.
Validate ==
    /\ phase = "validating"
    /\ phase' = IF settings.validate /\ ~(Tracked \subseteq DOMAIN idls) THEN "refused" ELSE "registering"
    /\ UNCHANGED <<settings, broken, discriminated, nameless, loaded, idls, parsers, instructions>>

\* Mutant: one of the discriminators is enough.
FindsAny(id, events) ==
    id \in DOMAIN idls /\ idls[id] \in discriminated /\ events \cap EventNames[idls[id]] # {}

\* _get_event_disc finds all of them in the IDL under the id.
Finds(id, events) ==
    id \in DOMAIN idls /\ idls[id] \in discriminated /\ events \subseteq EventNames[idls[id]]

\* The labels of the shipped files, raydium_launchpad and raydium_cp_swap,
\* contain neither word; the stems of their names do.
LabelSays(id, word) == id \in DOMAIN idls /\ idls[id] = word /\ word \in nameless

\* build_parser_registry and the instruction parsers of run().
RegisterParsers ==
    /\ phase = "registering"
    /\ parsers' =
        {<<id, "pump">> : id \in {i \in {settings.pumpfun} : Finds(i, {"TradeEvent", "CreateEvent"})}} \cup
        {<<id, "launchlab">> : id \in {i \in settings.raydium :
            LabelSays(i, "launchlab") /\ Finds(i, {"TradeEvent", "PoolCreateEvent"})}} \cup
        {<<id, "meteora">> : id \in {i \in {settings.damm_v2} : Finds(i, {"EvtSwap2", "EvtInitializePool"})}} \cup
        {<<id, "whirlpool">> : id \in {i \in {settings.whirlpool} : Finds(i, {"Traded", "PoolInitialized"})}} \cup
        {<<id, "cpmm">> : id \in {i \in settings.raydium : LabelSays(i, "cpmm") /\ Finds(i, {"SwapEvent"})}}
    /\ instructions' =
        (IF settings.pumpfun \in DOMAIN idls THEN {"pumpfun"} ELSE {}) \cup
        (IF settings.pumpswap # NoId THEN {"pumpswap"} ELSE {})
    /\ phase' = "ready"
    /\ UNCHANGED <<settings, broken, discriminated, nameless, loaded, idls>>

StartupNext == LoadFile \/ Validate \/ RegisterParsers

StartupSpec == StartupInit /\ [][StartupNext]_startupVars
-----------------------------------------------------------------------------
\* Whatever ids the settings and the map give to whichever program, the logs
\* of an id are never handed to a parser made for another program's IDL than
\* the one that stands under the id, and to one parser only: all parsers know
\* each other's events, for a TradeEvent is one of Pumpfun and of LaunchLab
\* and a SwapEvent one of CLMM and of CPMM.
RightParser == \A entry \in parsers : idls[entry[1]] = entry[2]

\* .env.example and the files of src/idl as they are.
Shipped ==
    /\ settings.pumpfun = "pump" /\ settings.pumpswap = "pumpswap"
    /\ settings.damm_v2 = "meteora" /\ settings.whirlpool = "whirlpool"
    /\ settings.raydium = {"clmm", "cpmm", "launchlab"}
    /\ settings.idmap = {<<"meteora", "meteora">>, <<"whirlpool", "whirlpool">>}
    /\ broken = {} /\ nameless = {} /\ discriminated = Addressed

\* README.md:8 promises "Multi-program parsing with IDL-based discriminators":
\* as shipped, the logs of more than one program have a parser.
SeveralProgramsParsed == Shipped /\ phase = "ready" => Cardinality(parsers) > 1
=============================================================================
