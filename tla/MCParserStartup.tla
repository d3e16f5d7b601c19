--------------------------- MODULE MCParserStartup ---------------------------
\* .env.example, with and without the validation.
EXTENDS ParserStartup

MCSettings == {s \in SettingsSpace :
    /\ s.pumpfun = "pump" /\ s.pumpswap = "pumpswap" /\ s.damm_v2 = "meteora" /\ s.whirlpool = "whirlpool"
    /\ s.raydium = {"clmm", "cpmm", "launchlab"}
    /\ s.idmap = {<<"meteora", "meteora">>, <<"whirlpool", "whirlpool">>}}
=============================================================================
