------------------------ MODULE ClickHouseSession ------------------------
(***************************************************************************)
(* The one clickhouse_connect client the profiler makes and hands to the   *)
(* scorer.  Its queries run in worker threads.  The client serves one      *)
(* query at a time: a query that starts while another is in progress is    *)
(* refused with an error, and has no effect.  Any query may fail.          *)
(***************************************************************************)
EXTENDS Naturals

CONSTANT MaxFails  \* bound: queries that fail of themselves

ASSUME SessionAssumption == MaxFails \in Nat

VARIABLES
    using,    \* who has a query in progress
    clashed,  \* those of them whose query was refused
    fails     \* failures so far

session == <<using, clashed, fails>>

SessionInit ==
    /\ using = {}
    /\ clashed = {}
    /\ fails = 0

Begins(a) ==
    /\ a \notin using
    /\ using' = using \cup {a}
    /\ clashed' = IF using = {} THEN clashed ELSE clashed \cup {a}
    /\ UNCHANGED fails

Returns(a) ==
    /\ a \in using \ clashed
    /\ using' = using \ {a}
    /\ UNCHANGED <<clashed, fails>>

Raises(a) ==
    /\ a \in using
    /\ using' = using \ {a}
    /\ clashed' = clashed \ {a}
    /\ IF a \in clashed
       THEN UNCHANGED fails
       ELSE fails < MaxFails /\ fails' = fails + 1
=============================================================================
