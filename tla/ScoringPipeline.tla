-------------------------- MODULE ScoringPipeline --------------------------
(***************************************************************************)
(* The profiler and the scoring tasks it creates, in one event loop and    *)
(* over one ClickHouse client.  The scorer's queries exclude each other by *)
(* a lock; the profiler issues its own one after the other; nothing keeps  *)
(* the two apart.                                                          *)
(***************************************************************************)
EXTENDS MintScorer, MintProfiler

ASSUME PipelineAssumption ==
    /\ MintOf \in [Creates -> Mints]
    /\ Profiler \notin Tasks

vars == <<scorer, profiler, session>>

Init == ScorerInit /\ ProfilerInit

\* create_task makes a new task; which of the idle ones it is does not matter.
NewTaskId == CHOOSE t \in Tasks : task[t].pc = "idle"

\* create_task(score_and_store(...)) ends the profiler's last section.
HandOver ==
    \E history, updated \in BOOLEAN :
        /\ \E t \in Tasks : task[t].pc = "idle"
        /\ WriteProfile(history, updated)
        /\ IF HandsOver(updated)
           THEN Spawn(NewTaskId, Mint)
           ELSE UNCHANGED scorer

Restart ==
    \E newModel \in Models, landed, inserted \in BOOLEAN :
        /\ ~(landed /\ inserted)
        /\ ScorerRestart(newModel, inserted)
        /\ ProfilerRestart(landed)
        /\ SessionRestart

Next ==
    \/ HandOver
    \/ ProfilerStep /\ UNCHANGED scorer
    \/ Clock /\ UNCHANGED scorer
    \/ (\E t \in Tasks : Run(t)) /\ UNCHANGED profiler
    \/ Expire /\ UNCHANGED profiler
    \/ Restart

Spec == Init /\ [][Next]_vars

\* The event loop runs the profiler, whose sleep and queries end, and a query
\* of a scoring task ends.  Nothing is asked of the Claude API.
Fairness ==
    /\ WF_vars(HandOver \/ (ProfilerStep /\ UNCHANGED scorer))
    /\ \A t \in Tasks : WF_vars(t \in using /\ Query(t) /\ UNCHANGED profiler)

FairSpec == Spec /\ Fairness

-----------------------------------------------------------------------------
(* Correctness *)

Started == {t \in Tasks : task[t].pc # "idle"}

PipelineTypeOK ==
    /\ ScorerTypeOK
    /\ stage \in Stages
    /\ queue \in Seq(Creates)
    /\ measured \in 0 .. Measures
    /\ whole \in BOOLEAN
    /\ ready \subseteq Creates /\ late \subseteq Creates \ ready
    /\ profiles \in Seq([mint : Mints, whole : BOOLEAN])
    /\ unchecked \subseteq Mints
    /\ using \subseteq Tasks \cup {Profiler}
    /\ clashed \subseteq using

\* How a task ends that could not score its mint, or cannot tell.
GivenUp == {"no_examples", "no_answer", "unverified", "killed"}

\* A stored profile is handed to the scorer, also when queries of the profiler
\* are refused: only a kill or an insert that fails by itself comes between.
\* The task it is handed to does not end without a score of the mint in the
\* table, its own or another task's, unless it gave up: a refused query for
\* the examples, no answer of Claude, an insert or its verification refused,
\* or a kill.  Then the mint can stay without a score, since a mint with a
\* profile is not pending again.
ProfilesScored ==
    \A i \in DOMAIN profiles :
        LET mine == {t \in Started : task[t].mint = profiles[i].mint}
        IN  /\ mine # {} \/ restarts + fails > 0
            /\ \A t \in mine :
                   task[t].pc = "done" =>
                       \/ task[t].end \in GivenUp
                       \/ \E j \in DOMAIN scores : scores[j].mint = profiles[i].mint

\* A mint is scored twice only after a failed check for its profile.
ScoredTwiceUnchecked ==
    \A t, u \in Started :
        t # u /\ task[t].mint = task[u].mint => task[t].mint \in unchecked

\* Every row that stays in the profiler's window gets its mint a profile.
EveryMintProfiled ==
    \A c \in Creates :
        c \in ready ~> (MintOf[c] \in Profiled \/ c \in late)

\* profiler.py, line 288: "Run queries sequentially to avoid concurrent-use
\* errors in clickhouse_connect."
NoConcurrentUseError == clashed = {}
=============================================================================
