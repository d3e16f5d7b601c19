--------------------------- MODULE ProfileMetrics ---------------------------
(***************************************************************************)
(* The measuring of one mint: the eight queries that _profile_one of       *)
(* src/app/profiler.py awaits one after the other, and what it derives     *)
(* from their answers.  MintProfiler counts these queries; this module     *)
(* says what they return.                                                  *)
(*                                                                         *)
(* Swaps of the mint go on being stored between two queries, late ones     *)
(* too, and each query may be refused or fail, which the profiler takes    *)
(* for an answer without rows.  Counts stand for every column that grows   *)
(* with the rows of a window: volume_quote, trade_count, unique_buyers.    *)
(***************************************************************************)
EXTENDS Integers, Sequences, FiniteSets, FiniteSetsExt

CONSTANTS
    Swaps,          \* rows of swaps the mint may get: [time, price]
    InitialPrices,  \* pool_creates.initial_price; 0 stands for NULL, too
    MaxSwaps,       \* bound: swaps of the mint
    MaxFailures     \* bound: queries that fail

ASSUME MetricsAssumption ==
    /\ Swaps \subseteq [time : Nat, price : Nat]
    /\ InitialPrices \subseteq Nat
    /\ MaxSwaps \in Nat
    /\ MaxFailures \in Nat

\* Minutes after the creation.
T5m == 5
T15m == 15
T1h == 60
T4h == 240

\* Mutants: the peak before the windows; the widest window first.
QueriesPeakFirst == <<"peak", "p5m", "p15m", "p1h", "m5m", "m15m", "m1h", "conc5m">>
QueriesWidestFirst == <<"p5m", "p15m", "p1h", "m1h", "m15m", "m5m", "conc5m", "peak">>

Queries == <<"p5m", "p15m", "p1h", "m5m", "m15m", "m1h", "conc5m", "peak">>

VARIABLES
    initial_price,
    to_come,    \* swaps that will be stored
    visible,     \* swaps in the table
    answers,    \* per query asked: its answer
    profile     \* the row of mint_profiles, or NotYet

metricsVars == <<initial_price, to_come, visible, answers, profile>>

\* No rows, or NULL in the only one.
Nothing == [count |-> -1, price |-> 0, first |-> 0, time |-> 0]

NotYet == [peak_multiplier |-> <<0, 0>>]

MetricsInit ==
    /\ initial_price \in InitialPrices
    /\ to_come \in UNION {kSubset(n, Swaps) : n \in 0 .. MaxSwaps}
    /\ visible = {}
    /\ answers = <<>>
    /\ profile = NotYet

Land(s) ==
    /\ s \in to_come
    /\ to_come' = to_come \ {s}
    /\ visible' = visible \cup {s}
    /\ UNCHANGED <<initial_price, answers, profile>>

\* WHERE price > 0 AND ingested_at BETWEEN the creation and end.
Within(end) == {s \in visible : s.price > 0 /\ s.time <= end}

Highest(rows) == Max({s.price : s \in rows})

\* The first rows of a set by ingested_at; which of them comes first is open.
Earliest(rows) == {s \in rows : \A other \in rows : s.time <= other.time}

\* _Q_SWAP_WINDOW: aggregates of no rows are 0.
Window(end) ==
    LET rows == Within(end)
    IN  IF rows = {} THEN {[Nothing EXCEPT !.count = 0]}
        ELSE {[count |-> Cardinality(rows), price |-> Highest(rows), first |-> s.price, time |-> end] :
                  s \in Earliest(rows)}

\* _Q_PRICE_AT has no upper end.
PriceAt(after) ==
    LET rows == {s \in visible : s.price > 0 /\ s.time >= after}
    IN  IF rows = {} THEN {Nothing}
        ELSE {[Nothing EXCEPT !.price = s.price, !.time = s.time] : s \in Earliest(rows)}

PeakPrice(end) ==
    IF Within(end) = {} THEN {Nothing} ELSE {[Nothing EXCEPT !.price = Highest(Within(end)), !.time = end]}

Answers(query) ==
    CASE query = "p5m" -> PriceAt(T5m) [] query = "p15m" -> PriceAt(T15m) [] query = "p1h" -> PriceAt(T1h)
      [] query = "m5m" -> Window(T5m) [] query = "m15m" -> Window(T15m) [] query = "m1h" -> Window(T1h)
      [] query = "conc5m" -> {Nothing}    \* a share of the window's volume, not told apart
      [] query = "peak" -> PeakPrice(T4h)

\* q(): a failed query has no rows.
Ask(ok) ==
    /\ Len(answers) < Len(Queries)
    /\ ok \/ Cardinality({i \in DOMAIN answers : ~answers[i].ok}) < MaxFailures
    /\ \E a \in IF ok THEN Answers(Queries[Len(answers) + 1]) ELSE {Nothing} :
           answers' = Append(answers, [answer |-> a, ok |-> ok])
    /\ UNCHANGED <<initial_price, to_come, visible, profile>>

Position(query) == CHOOSE i \in DOMAIN Queries : Queries[i] = query

Got(query) == answers[Position(query)].answer

Succeeded(query) == answers[Position(query)].ok

\* Mutant: the price after five minutes for the first one.
EffectiveInitialAtFive == IF initial_price > 0 THEN initial_price ELSE Got("p5m").price

EffectiveInitial == IF initial_price > 0 THEN initial_price ELSE Got("m5m").first

\* peak_mult as <<dividend, divisor>>, <<0, 0>> for None.
Write ==
    /\ Len(answers) = Len(Queries)
    /\ profile = NotYet
    /\ profile' = [
        initial_price |-> EffectiveInitial,
        price_5m |-> Got("p5m").price, price_15m |-> Got("p15m").price, price_1h |-> Got("p1h").price,
        price_peak |-> Got("peak").price,
        peak_multiplier |-> IF EffectiveInitial > 0 /\ Got("peak").price > 0
                            THEN <<Got("peak").price, EffectiveInitial>> ELSE <<0, 0>>,
        volume_5m |-> Got("m5m").count, volume_15m |-> Got("m15m").count, volume_1h |-> Got("m1h").count]
    /\ UNCHANGED <<initial_price, to_come, visible, answers>>

MetricsNext ==
    \/ \E s \in Swaps : Land(s)
    \/ \E ok \in BOOLEAN : Ask(ok)
    \/ Write

MetricsSpec == MetricsInit /\ [][MetricsNext]_metricsVars
-----------------------------------------------------------------------------
Known(volume) == volume >= 0

\* The windows of a profile are nested like the times they stand for although
\* each was measured at another moment and swaps were stored in between: no row
\* shows less volume in an hour than in five minutes.
WindowsNested ==
    profile # NotYet =>
        /\ Known(profile.volume_5m) /\ Known(profile.volume_15m) => profile.volume_5m <= profile.volume_15m
        /\ Known(profile.volume_15m) /\ Known(profile.volume_1h) => profile.volume_15m <= profile.volume_1h
        /\ Known(profile.volume_5m) /\ Known(profile.volume_1h) => profile.volume_5m <= profile.volume_1h

\* Of the trades whose price is in the row, none of the first four hours was
\* above price_peak when the peak's query succeeded: neither a price "at" a
\* time, although it was asked before and swaps were stored since, nor the
\* first trade's price where it is the initial one.  A price "at" a time may be
\* that of a much later trade; and an initial price that the create itself
\* gave is no trade's.  Both may be above the peak.
PeakIsHighest ==
    profile # NotYet /\ Succeeded("peak") =>
        /\ Got("p5m").time <= T4h => profile.price_5m <= profile.price_peak
        /\ Got("p15m").time <= T4h => profile.price_15m <= profile.price_peak
        /\ Got("p1h").time <= T4h => profile.price_1h <= profile.price_peak
        /\ initial_price = 0 => profile.initial_price <= profile.price_peak

\* A mint created without a price is measured against its first trade, so its
\* multiplier is never below 1, whichever queries failed.
MultiplierFromFirstTrade ==
    profile # NotYet /\ initial_price = 0 => profile.peak_multiplier[1] >= profile.peak_multiplier[2]
=============================================================================
