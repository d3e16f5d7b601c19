----------------------------- MODULE MintScorer -----------------------------
(***************************************************************************)
(* ClaudeScorer.score_and_store of src/app/claude_scorer.py: any number of *)
(* asyncio tasks, one for every profile the profiler hands over, that      *)
(* share a lock per mint, a lock around the ClickHouse client, and the     *)
(* table mint_scores.                                                      *)
(*                                                                         *)
(* A task gives up control at every await: for a lock, for a query in a    *)
(* worker thread, for the Claude API and its back-off, and for the         *)
(* broadcast.  The process can be killed and started again, with another   *)
(* CLAUDE_MODEL.                                                           *)
(***************************************************************************)
EXTENDS ClickHouseSession, Sequences

CONSTANTS
    Mints,          \* mint addresses
    Models,         \* values of CLAUDE_MODEL
    Tasks,          \* score_and_store tasks
    Nobody,         \* a lock without a holder
    RetryAttempts,  \* max(1, settings.claude_retry_attempts)
    Answers,        \* bound: the verdicts Claude gives
    MaxRestarts     \* bound: kills of the process

\* What Claude's answer amounts to, _is_good_opportunity included.
\*   good   the score reaches the threshold and the filters pass
\*   high   the score reaches the threshold, a filter does not pass
\*   low    the score stays below the threshold
Verdicts == {"good", "high", "low"}

ASSUME ScorerAssumption ==
    /\ RetryAttempts \in Nat \ {0}
    /\ MaxRestarts \in Nat
    /\ Nobody \notin Tasks
    /\ Mints # {}
    /\ Answers \subseteq Verdicts

\* The queries of a task, in this order; "insert" and "verify" are the two of
\* _store_score_if_absent, "pumped" and "dead" the two of _fetch_examples.
Queries == {"pumped", "dead", "recent", "high", "insert", "verify"}

\* These start a critical section of the ClickHouse lock.
Opening == {"pumped", "recent", "high", "insert"}

\*  idle   not created yet     claude  awaiting the API or a back-off
\*  lock   awaiting the mint's lock    alert  awaiting DexScreener and the broadcast
PCs == Queries \cup {"idle", "claude", "lock", "alert", "done"}

\* How a task ended; the code logs each of them.
Ends == {"running", "no_examples", "no_answer", "recent", "absent", "unverified",
         "deduped", "unqualified", "alerted", "unsent", "killed"}

VARIABLES
    model,           \* CLAUDE_MODEL of the running process
    task,            \* the tasks' local state
    mintLock,        \* holders of _score_locks
    clickhouseLock,  \* holder of _clickhouse_lock
    scores,          \* rows of mint_scores, oldest first
    expired,         \* how many of them are older than the dedup window
    restarts         \* kills so far

locks == <<mintLock, clickhouseLock>>
table == <<scores, expired>>
scorer == <<model, task, locks, table, restarts>>

NewTask(m) ==
    [pc |-> "idle", end |-> "running", mint |-> m, verdict |-> "low",
     attempt |-> 1, absent |-> FALSE, dup |-> FALSE, blind |-> FALSE]

ScorerInit ==
    /\ model \in Models
    /\ task = [t \in Tasks |-> NewTask(CHOOSE m \in Mints : TRUE)]
    /\ mintLock = [m \in Mints |-> Nobody]
    /\ clickhouseLock = Nobody
    /\ scores = <<>>
    /\ expired = 0
    /\ restarts = 0
    /\ SessionInit

-----------------------------------------------------------------------------
(* The queries of mint_scores *)

InWindow == expired + 1 .. Len(scores)

\* _has_recent_score, and the NOT EXISTS of the insert.
HasRecentScore(m) ==
    \E i \in InWindow : scores[i].mint = m /\ scores[i].model = model

\* Mutant: only the current model's alerts count.
HasRecentHighScoreOfModel(m) ==
    \E i \in InWindow :
        scores[i].mint = m /\ scores[i].model = model /\ scores[i].verdict # "low"

\* _has_recent_high_score_alert: by any model.
HasRecentHighScore(m) ==
    \E i \in InWindow : scores[i].mint = m /\ scores[i].verdict # "low"

ScoreOf(t) ==
    [task |-> t, mint |-> task[t].mint, model |-> model, verdict |-> task[t].verdict]

\* Mutants: the insert does not look for recent rows; the verification counts
\* any row, or none.
AbsentUnchecked(t) == TRUE
VerifiedAlways(t) == TRUE
VerifiedNever(t) == FALSE

\* The NOT EXISTS of the insert, evaluated when the insert starts.
Absent(t) == ~HasRecentScore(task[t].mint)

\* The verification counts the row with this task's timestamp.
Verified(t) == \E i \in DOMAIN scores : scores[i].task = t

-----------------------------------------------------------------------------
(* Locks and progress *)

Goto(t, pc) == task' = [task EXCEPT ![t].pc = pc]

Finish(t, end) == task' = [task EXCEPT ![t].pc = "done", ![t].end = end]

\* Mutant: an early return inside the section forgets the lock.
UnlockNothing(t) == UNCHANGED mintLock

\* The async with of the mint's lock is left.
Unlock(t) == mintLock' = [mintLock EXCEPT ![task[t].mint] = Nobody]

\* The async with of _run_clickhouse_query is left.
ReleaseClient == clickhouseLock' = Nobody

\* A query starts in a worker thread.  The first of a critical section waits
\* for the ClickHouse lock.
StartQuery(t) ==
    /\ task[t].pc \in Queries
    /\ IF task[t].pc \in Opening
       THEN clickhouseLock = Nobody /\ clickhouseLock' = t
       ELSE UNCHANGED clickhouseLock
    /\ Begins(t)
    /\ task' = [task EXCEPT ![t].absent = task[t].pc = "insert" /\ Absent(t)]
    /\ UNCHANGED <<model, mintLock, table, restarts>>

-----------------------------------------------------------------------------
(* score_and_store *)

Spawn(t, m) ==
    /\ task[t].pc = "idle"
    /\ task' = [task EXCEPT ![t] = [NewTask(m) EXCEPT !.pc = "pumped"]]
    /\ UNCHANGED <<model, locks, table, restarts>>

Examples(t) ==
    /\ task[t].pc \in {"pumped", "dead"}
    /\ Returns(t)
    /\ IF task[t].pc = "pumped"
       THEN Goto(t, "dead") /\ UNCHANGED clickhouseLock
       ELSE Goto(t, "claude") /\ ReleaseClient
    /\ UNCHANGED <<model, mintLock, table, restarts>>

\* The outer except ends the task: the mint is never scored.
ExamplesFail(t) ==
    /\ task[t].pc \in {"pumped", "dead"}
    /\ Raises(t)
    /\ Finish(t, "no_examples")
    /\ ReleaseClient
    /\ UNCHANGED <<model, mintLock, table, restarts>>

ClaudeAnswers(t, verdict) ==
    /\ task[t].pc = "claude"
    /\ task' = [task EXCEPT ![t].pc = "lock", ![t].verdict = verdict]
    /\ UNCHANGED <<model, locks, table, restarts, session>>

\* An answer without the tool's block is not retried.
ClaudeGivesNothing(t) ==
    /\ task[t].pc = "claude"
    /\ Finish(t, "no_answer")
    /\ UNCHANGED <<model, locks, table, restarts, session>>

\* Mutant: one attempt too many.
LastAttemptLate(n) == n > RetryAttempts

LastAttempt(n) == n >= RetryAttempts

ClaudeRaises(t) ==
    /\ task[t].pc = "claude"
    /\ IF LastAttempt(task[t].attempt)
       THEN Finish(t, "no_answer")
       ELSE task' = [task EXCEPT ![t].attempt = @ + 1]
    /\ UNCHANGED <<model, locks, table, restarts, session>>

LockMint(t) ==
    /\ task[t].pc = "lock"
    /\ mintLock[task[t].mint] = Nobody
    /\ mintLock' = [mintLock EXCEPT ![task[t].mint] = t]
    /\ Goto(t, "recent")
    /\ UNCHANGED <<model, clickhouseLock, table, restarts, session>>

RecentScore(t) ==
    /\ task[t].pc = "recent"
    /\ Returns(t)
    /\ ReleaseClient
    /\ IF HasRecentScore(task[t].mint)
       THEN Finish(t, "recent") /\ Unlock(t)
       ELSE Goto(t, "high") /\ UNCHANGED mintLock
    /\ UNCHANGED <<model, table, restarts>>

\* Mutant: a failed query is taken for a recent score.
RecentScoreFailsClosed(t) ==
    /\ task[t].pc = "recent"
    /\ Raises(t)
    /\ ReleaseClient
    /\ Finish(t, "recent")
    /\ Unlock(t)
    /\ UNCHANGED <<model, table, restarts>>

\* A failed query counts as: no recent score.
RecentScoreFails(t) ==
    /\ task[t].pc = "recent"
    /\ Raises(t)
    /\ ReleaseClient
    /\ Goto(t, "high")
    /\ UNCHANGED <<model, mintLock, table, restarts>>

RecentHighScore(t) ==
    /\ task[t].pc = "high"
    /\ Returns(t)
    /\ ReleaseClient
    /\ task' = [task EXCEPT ![t].pc = "insert",
                            ![t].dup = HasRecentHighScore(task[t].mint)]
    /\ UNCHANGED <<model, mintLock, table, restarts>>

\* A failed query counts as: no recent alert.
RecentHighScoreFails(t) ==
    /\ task[t].pc = "high"
    /\ Raises(t)
    /\ ReleaseClient
    /\ task' = [task EXCEPT ![t].pc = "insert", ![t].blind = TRUE]
    /\ UNCHANGED <<model, mintLock, table, restarts>>

Insert(t) ==
    /\ task[t].pc = "insert"
    /\ Returns(t)
    /\ scores' = IF task[t].absent THEN Append(scores, ScoreOf(t)) ELSE scores
    /\ Goto(t, "verify")
    /\ UNCHANGED <<model, locks, expired, restarts>>

\* The insert or its verification raises: "not inserted", stored or not.
InsertFails(t, stored) ==
    /\ task[t].pc = "insert"
    /\ stored => task[t].absent /\ t \notin clashed
    /\ Raises(t)
    /\ scores' = IF stored THEN Append(scores, ScoreOf(t)) ELSE scores
    /\ Finish(t, "unverified")
    /\ ReleaseClient
    /\ Unlock(t)
    /\ UNCHANGED <<model, expired, restarts>>

VerifyFails(t) ==
    /\ task[t].pc = "verify"
    /\ Raises(t)
    /\ Finish(t, "unverified")
    /\ ReleaseClient
    /\ Unlock(t)
    /\ UNCHANGED <<model, table, restarts>>

\* Only who inserted may alert, and only outside the dedup window.
Verify(t) ==
    /\ task[t].pc = "verify"
    /\ Returns(t)
    /\ ReleaseClient
    /\ Unlock(t)
    /\ IF ~Verified(t) THEN Finish(t, "absent")
       ELSE IF task[t].verdict # "good" THEN Finish(t, "unqualified")
       ELSE IF task[t].dup THEN Finish(t, "deduped")
       ELSE Goto(t, "alert")
    /\ UNCHANGED <<model, table, restarts>>

\* The broadcast swallows the errors of its channels; an unreadable
\* DexScreener answer raises before it.
Alert(t, readable) ==
    /\ task[t].pc = "alert"
    /\ Finish(t, IF readable THEN "alerted" ELSE "unsent")
    /\ UNCHANGED <<model, locks, table, restarts, session>>

-----------------------------------------------------------------------------
(* The window moves on; the process is killed and started again *)

Expire ==
    /\ expired < Len(scores)
    /\ expired' = expired + 1
    /\ UNCHANGED <<model, task, locks, scores, restarts, session>>

Inserting(t) == task[t].pc = "insert" /\ t \in using \ clashed /\ task[t].absent

\* An insert under way is carried out or not.
ScorerRestart(newModel, landed) ==
    /\ restarts < MaxRestarts
    /\ restarts' = restarts + 1
    /\ model' = newModel
    /\ IF landed
       THEN \E t \in Tasks : Inserting(t) /\ scores' = Append(scores, ScoreOf(t))
       ELSE scores' = scores
    /\ task' = [t \in Tasks |->
                   IF task[t].pc \in {"idle", "done"} THEN task[t]
                   ELSE [task[t] EXCEPT !.pc = "done", !.end = "killed"]]
    /\ mintLock' = [m \in Mints |-> Nobody]
    /\ clickhouseLock' = Nobody
    /\ UNCHANGED expired

SessionRestart ==
    /\ using' = {}
    /\ clashed' = {}
    /\ UNCHANGED fails

-----------------------------------------------------------------------------
(* The specification *)

\* Steps that keep to the task, its locks and the client.
Query(t) ==
    \/ StartQuery(t)
    \/ Examples(t) \/ ExamplesFail(t)
    \/ RecentScore(t) \/ RecentScoreFails(t)
    \/ RecentHighScore(t) \/ RecentHighScoreFails(t)
    \/ Insert(t) \/ (\E stored \in BOOLEAN : InsertFails(t, stored))
    \/ Verify(t) \/ VerifyFails(t)

Call(t) ==
    \/ \E verdict \in Answers : ClaudeAnswers(t, verdict)
    \/ ClaudeGivesNothing(t)
    \/ ClaudeRaises(t)

Run(t) ==
    \/ Query(t)
    \/ Call(t)
    \/ LockMint(t)
    \/ \E readable \in BOOLEAN : Alert(t, readable)

ScorerNext ==
    \/ \E t \in Tasks :
        \/ Run(t)
        \/ \E m \in Mints : Spawn(t, m) /\ UNCHANGED session
    \/ Expire
    \/ \E newModel \in Models, landed \in BOOLEAN :
        ScorerRestart(newModel, landed) /\ SessionRestart

scorerVars == <<scorer, session>>

ScorerSpec == ScorerInit /\ [][ScorerNext]_scorerVars

\* Every query, call and broadcast ends (they have timeouts), and asyncio.Lock
\* serves its waiters in the order they came.
ScorerFairness ==
    \A t \in Tasks :
        /\ WF_scorerVars(Call(t))
        /\ WF_scorerVars(\E readable \in BOOLEAN : Alert(t, readable))
        /\ SF_scorerVars(LockMint(t))
        /\ SF_scorerVars(Query(t))

ScorerFairSpec == ScorerSpec /\ ScorerFairness

-----------------------------------------------------------------------------
(* Correctness *)

Score == [task : Tasks, mint : Mints, model : Models, verdict : Verdicts]

Task == [pc : PCs, end : Ends, mint : Mints, verdict : Verdicts,
         attempt : 1 .. RetryAttempts,
         absent : BOOLEAN, dup : BOOLEAN, blind : BOOLEAN]

ScorerTypeOK ==
    /\ model \in Models
    /\ task \in [Tasks -> Task]
    /\ mintLock \in [Mints -> Tasks \cup {Nobody}]
    /\ clickhouseLock \in Tasks \cup {Nobody}
    /\ scores \in Seq(Score)
    /\ expired \in 0 .. Len(scores)
    /\ restarts \in Nat
    /\ fails \in Nat

Alerted == {t \in Tasks : task[t].end = "alerted"}

\* The table gets no second score of a mint by a model within the window,
\* whichever dedup query fails, although the insert looks for recent rows
\* before it writes and not while it writes.
Window == INSTANCE ScoreWindow

DedupsScores == Window!Spec

\* Two alerts for a mint within the window need a failed dedup query: also
\* when the process was restarted with another model in between.
AlertOncePerWindow ==
    \A i, j \in InWindow :
        /\ i < j
        /\ scores[i].mint = scores[j].mint
        /\ {scores[i].task, scores[j].task} \subseteq Alerted
        => task[scores[j].task].blind

\* Who alerts has its own row in the table, and it is a good one.
AlertHasScore ==
    \A t \in Alerted :
        \E i \in DOMAIN scores :
            scores[i].task = t /\ scores[i].verdict = "good"

\* A good score in the table leads to an alert, unless its task was killed or
\* could not confirm its insert, or an earlier row already scored the mint high.
NoLostAlert ==
    \A i \in DOMAIN scores :
        LET t == task[scores[i].task]
            Rival(j) == scores[j].mint = scores[i].mint /\ scores[j].verdict # "low"
        IN  scores[i].verdict = "good" /\ t.pc = "done" =>
                \/ t.end \in {"alerted", "unsent", "killed", "unverified"}
                \/ t.end = "deduped" /\ \E j \in 1 .. i - 1 : Rival(j)

\* A task that stands back, because it found a recent score or its insert wrote
\* nothing, does so for another task's score that is there: whichever query
\* fails and wherever the process was killed, the tasks of a mint do not stand
\* back for each other and leave it without a score.
StandsBackForScore ==
    \A t \in Tasks :
        task[t].end \in {"recent", "absent"} =>
            \E i \in DOMAIN scores :
                scores[i].mint = task[t].mint /\ scores[i].task # t

\* A scoring task ends: no lock is kept, and no failure is retried for ever.
TasksEnd == \A t \in Tasks : task[t].pc # "idle" ~> task[t].pc = "done"
=============================================================================
