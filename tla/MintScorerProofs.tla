-------------------------- MODULE MintScorerProofs --------------------------
(***************************************************************************)
(* Proofs about MintScorer, for any number of tasks, mints and models, any *)
(* number of failures and any number of restarts: its types, that it is    *)
(* serial and implements ScoreWindow, its alerts, its two levels of locks, *)
(* and how far a task has come.                                            *)
(***************************************************************************)
EXTENDS MintScorer, TLAPS

USE ScorerAssumption, SessionAssumption

-----------------------------------------------------------------------------
(* Types *)

LEMMA ScorerInitType == ScorerInit => ScorerTypeOK
<1> SUFFICES ASSUME ScorerInit
             PROVE  ScorerTypeOK
    OBVIOUS
<1>1. (CHOOSE m \in Mints : TRUE) \in Mints
    OBVIOUS
<1>2. NewTask(CHOOSE m \in Mints : TRUE) \in Task
    BY <1>1 DEF NewTask, Task, PCs, Ends, Verdicts
<1> QED
    BY <1>2 DEF ScorerInit, SessionInit, ScorerTypeOK

\* Appending a task's own score keeps the table a table.
LEMMA ScoreType ==
    ASSUME ScorerTypeOK, NEW t \in Tasks
    PROVE  /\ ScoreOf(t) \in Score
           /\ Append(scores, ScoreOf(t)) \in Seq(Score)
           /\ Len(Append(scores, ScoreOf(t))) = Len(scores) + 1
           /\ expired \in 0 .. Len(Append(scores, ScoreOf(t)))
<1>1. ScoreOf(t) \in Score
    BY DEF ScorerTypeOK, Task, Score, ScoreOf
<1> QED
    BY <1>1 DEF ScorerTypeOK

LEMMA SessionType ==
    ASSUME fails \in Nat, NEW a, Begins(a) \/ Returns(a) \/ Raises(a)
    PROVE  fails' \in Nat
    BY DEF Begins, Returns, Raises

\* A step of the scorer's own variables, whatever becomes of the session of
\* the client: also what it makes of a step of a system it is a part of.
ScorerMoves ==
    /\ fails' \in Nat
    /\ \/ \E t \in Tasks : Run(t) \/ \E m \in Mints : Spawn(t, m)
       \/ Expire
       \/ \E newModel \in Models, landed \in BOOLEAN : ScorerRestart(newModel, landed)
       \/ UNCHANGED scorer

\* A task uses the client for itself or not at all.
LEMMA RunSession ==
    ASSUME NEW t \in Tasks, Run(t)
    PROVE  Begins(t) \/ Returns(t) \/ Raises(t) \/ UNCHANGED session
<1>1. CASE Query(t)
    BY <1>1 DEF Query, StartQuery, Examples, ExamplesFail, RecentScore, RecentScoreFails,
       RecentHighScore, RecentHighScoreFails, Insert, InsertFails, Verify, VerifyFails
<1>2. CASE ~Query(t)
    BY <1>2 DEF Run, Call, ClaudeAnswers, ClaudeGivesNothing, ClaudeRaises, LockMint, Alert
<1> QED
    BY <1>1, <1>2

LEMMA ScorerNextMoves == ScorerTypeOK /\ [ScorerNext]_scorerVars => ScorerMoves
<1> SUFFICES ASSUME ScorerTypeOK, [ScorerNext]_scorerVars
             PROVE  ScorerMoves
    OBVIOUS
<1>1. fails \in Nat
    BY DEF ScorerTypeOK
<1>2. ASSUME NEW t \in Tasks, Run(t)
      PROVE  ScorerMoves
    BY <1>1, <1>2, RunSession, SessionType DEF ScorerMoves, session
<1>3. ASSUME NEW t \in Tasks, NEW m \in Mints, Spawn(t, m), UNCHANGED session
      PROVE  ScorerMoves
    BY <1>1, <1>3 DEF ScorerMoves, session
<1>4. CASE Expire
    BY <1>1, <1>4 DEF ScorerMoves, Expire, session
<1>5. ASSUME NEW newModel \in Models, NEW landed \in BOOLEAN,
             ScorerRestart(newModel, landed), SessionRestart
      PROVE  ScorerMoves
    BY <1>1, <1>5 DEF ScorerMoves, SessionRestart
<1>6. CASE UNCHANGED scorerVars
    BY <1>1, <1>6 DEF ScorerMoves, scorerVars, session
<1> QED
    BY <1>2, <1>3, <1>4, <1>5, <1>6 DEF ScorerNext

\* The records that a step can make of a task.
LEMMA TaskRecords ==
    ASSUME NEW r \in Task, NEW p \in PCs, NEW e \in Ends, NEW b \in BOOLEAN
    PROVE  /\ [r EXCEPT !.pc = p] \in Task
           /\ [r EXCEPT !.pc = p, !.end = e] \in Task
           /\ [r EXCEPT !.absent = b] \in Task
           /\ [r EXCEPT !.pc = p, !.dup = b] \in Task
           /\ [r EXCEPT !.pc = p, !.blind = b] \in Task
    BY DEF Task

LEMMA GotoType ==
    ASSUME ScorerTypeOK, NEW t \in Tasks, NEW p \in PCs, Goto(t, p)
    PROVE  task' \in [Tasks -> Task]
<1>1. task' = [task EXCEPT ![t] = [task[t] EXCEPT !.pc = p]]
    BY DEF Goto
<1> QED
    BY <1>1, TaskRecords DEF ScorerTypeOK, Ends

LEMMA FinishType ==
    ASSUME ScorerTypeOK, NEW t \in Tasks, NEW e \in Ends, Finish(t, e)
    PROVE  task' \in [Tasks -> Task]
<1>1. task' = [task EXCEPT ![t] = [task[t] EXCEPT !.pc = "done", !.end = e]]
    BY DEF Finish
<1>2. "done" \in PCs
    BY DEF PCs
<1> QED
    BY <1>1, <1>2, TaskRecords DEF ScorerTypeOK

LEMMA ScorerTypeMoves == ScorerTypeOK /\ ScorerMoves => ScorerTypeOK'
<1> SUFFICES ASSUME ScorerTypeOK, ScorerMoves
             PROVE  ScorerTypeOK'
    OBVIOUS
<1> USE DEF locks, table
<1>0. /\ {"dead", "claude", "insert", "high", "verify", "alert", "recent", "lock", "pumped"}
           \subseteq PCs
      /\ {"no_examples", "no_answer", "recent", "absent", "unverified", "deduped",
          "unqualified", "alerted", "unsent", "killed"} \subseteq Ends
    BY DEF PCs, Ends, Queries
<1>1. ASSUME NEW t \in Tasks, StartQuery(t)
      PROVE  ScorerTypeOK'
  <2>1. fails' \in Nat
      BY DEF ScorerMoves
  <2>2. task' \in [Tasks -> Task]
    <3> DEFINE absent == task[t].pc = "insert" /\ Absent(t)
    <3>1. absent \in BOOLEAN
        BY Zenon
    <3>2. task' = [task EXCEPT ![t] = [task[t] EXCEPT !.absent = absent]]
        BY <1>1 DEF StartQuery
    <3> HIDE DEF absent
    <3>3. [task[t] EXCEPT !.absent = absent] \in Task
        BY <1>0, <3>1, TaskRecords DEF ScorerTypeOK
    <3> QED
        BY <3>2, <3>3 DEF ScorerTypeOK
  <2> QED
      BY <1>1, <2>1, <2>2 DEF StartQuery, ScorerTypeOK
<1>2. ASSUME NEW t \in Tasks, Examples(t) \/ ExamplesFail(t)
      PROVE  ScorerTypeOK'
  <2>1. fails' \in Nat
      BY DEF ScorerMoves
  <2>2. task' \in [Tasks -> Task]
      BY <1>0, <1>2, GotoType, FinishType DEF Examples, ExamplesFail
  <2> QED
      BY <1>2, <2>1, <2>2 DEF Examples, ExamplesFail, ReleaseClient, ScorerTypeOK
<1>3. ASSUME NEW t \in Tasks, RecentScore(t) \/ RecentScoreFails(t)
      PROVE  ScorerTypeOK'
  <2>1. fails' \in Nat
      BY DEF ScorerMoves
  <2>2. task' \in [Tasks -> Task]
      BY <1>0, <1>3, GotoType, FinishType DEF RecentScore, RecentScoreFails
  <2>3. mintLock' \in [Mints -> Tasks \cup {Nobody}]
      BY <1>3 DEF RecentScore, RecentScoreFails, Unlock, ScorerTypeOK
  <2> QED
      BY <1>3, <2>1, <2>2, <2>3 DEF RecentScore, RecentScoreFails, ReleaseClient, ScorerTypeOK
<1>4. ASSUME NEW t \in Tasks, RecentHighScore(t) \/ RecentHighScoreFails(t)
      PROVE  ScorerTypeOK'
  <2>1. fails' \in Nat
      BY DEF ScorerMoves
  <2>2. HasRecentHighScore(task[t].mint) \in BOOLEAN
      BY ZenonT(20) DEF HasRecentHighScore
  <2>3. task' \in [Tasks -> Task]
    <3>1. \/ task' = [task EXCEPT ![t] = [task[t] EXCEPT !.pc = "insert",
                                        !.dup = HasRecentHighScore(task[t].mint)]]
          \/ task' = [task EXCEPT ![t] = [task[t] EXCEPT !.pc = "insert", !.blind = TRUE]]
        BY <1>4 DEF RecentHighScore, RecentHighScoreFails
    <3>2. /\ [task[t] EXCEPT !.pc = "insert", !.dup = HasRecentHighScore(task[t].mint)] \in Task
          /\ [task[t] EXCEPT !.pc = "insert", !.blind = TRUE] \in Task
        BY <1>0, <2>2, TaskRecords DEF ScorerTypeOK
    <3> QED
        BY <3>1, <3>2 DEF ScorerTypeOK
  <2> QED
      BY <1>4, <2>1, <2>3 DEF RecentHighScore, RecentHighScoreFails, ReleaseClient, ScorerTypeOK
<1>5. ASSUME NEW t \in Tasks, Insert(t)
      PROVE  ScorerTypeOK'
  <2>1. fails' \in Nat
      BY DEF ScorerMoves
  <2>2. task' \in [Tasks -> Task]
      BY <1>0, <1>5, GotoType DEF Insert
  <2> QED
      BY <1>5, <2>1, <2>2, ScoreType DEF Insert, ScorerTypeOK
<1>6. ASSUME NEW t \in Tasks, NEW stored \in BOOLEAN, InsertFails(t, stored)
      PROVE  ScorerTypeOK'
  <2>1. fails' \in Nat
      BY DEF ScorerMoves
  <2>2. task' \in [Tasks -> Task]
      BY <1>0, <1>6, FinishType DEF InsertFails
  <2>3. mintLock' \in [Mints -> Tasks \cup {Nobody}]
      BY <1>6 DEF InsertFails, Unlock, ScorerTypeOK
  <2> QED
      BY <1>6, <2>1, <2>2, <2>3, ScoreType DEF InsertFails, ReleaseClient, ScorerTypeOK
<1>7. ASSUME NEW t \in Tasks, Verify(t) \/ VerifyFails(t)
      PROVE  ScorerTypeOK'
  <2>1. fails' \in Nat
      BY DEF ScorerMoves
  <2>2. \E end \in Ends : Finish(t, end) \/ Goto(t, "alert")
      BY <1>0, <1>7 DEF Verify, VerifyFails
  <2>3. task' \in [Tasks -> Task]
      BY <1>0, <2>2, FinishType, GotoType
  <2>4. mintLock' \in [Mints -> Tasks \cup {Nobody}]
      BY <1>7 DEF Verify, VerifyFails, Unlock, ScorerTypeOK
  <2> QED
      BY <1>7, <2>1, <2>3, <2>4 DEF Verify, VerifyFails, ReleaseClient, ScorerTypeOK
<1>8. ASSUME NEW t \in Tasks, Call(t)
      PROVE  ScorerTypeOK'
  <2>1. task' \in [Tasks -> Task]
    <3>1. CASE \E verdict \in Answers : ClaudeAnswers(t, verdict)
      <4> PICK verdict \in Verdicts : ClaudeAnswers(t, verdict)
          BY <3>1
      <4>1. [task[t] EXCEPT !.pc = "lock", !.verdict = verdict] \in Task
          BY <1>0 DEF ScorerTypeOK, Task
      <4> QED
          BY <4>1 DEF ClaudeAnswers, ScorerTypeOK
    <3>2. CASE ClaudeGivesNothing(t)
        BY <1>0, <3>2, FinishType DEF ClaudeGivesNothing
    <3>3. CASE ClaudeRaises(t)
      <4>1. CASE Finish(t, "no_answer")
          BY <1>0, <4>1, FinishType
      <4>2. CASE ~LastAttempt(task[t].attempt) /\ task' = [task EXCEPT ![t].attempt = @ + 1]
        <5>1. task[t].attempt \in 1 .. RetryAttempts /\ task[t].attempt + 1 \in 1 .. RetryAttempts
            BY <4>2 DEF LastAttempt, ScorerTypeOK, Task
        <5>2. [task[t] EXCEPT !.attempt = task[t].attempt + 1] \in Task
            BY <5>1 DEF ScorerTypeOK, Task
        <5> QED
            BY <4>2, <5>2 DEF ScorerTypeOK
      <4> QED
          BY <3>3, <4>1, <4>2 DEF ClaudeRaises
    <3> QED
        BY <1>8, <3>1, <3>2, <3>3 DEF Call
  <2> QED
      BY <1>8, <2>1 DEF Call, ClaudeAnswers, ClaudeGivesNothing, ClaudeRaises, session,
         ScorerTypeOK
<1>9. ASSUME NEW t \in Tasks, LockMint(t)
      PROVE  ScorerTypeOK'
  <2>1. task' \in [Tasks -> Task]
      BY <1>0, <1>9, GotoType DEF LockMint
  <2>2. mintLock' \in [Mints -> Tasks \cup {Nobody}]
      BY <1>9 DEF LockMint, ScorerTypeOK
  <2> QED
      BY <1>9, <2>1, <2>2 DEF LockMint, session, ScorerTypeOK
<1>10. ASSUME NEW t \in Tasks, NEW readable \in BOOLEAN, Alert(t, readable)
       PROVE  ScorerTypeOK'
  <2>1. task' \in [Tasks -> Task]
      BY <1>0, <1>10, FinishType DEF Alert
  <2> QED
      BY <1>10, <2>1 DEF Alert, session, ScorerTypeOK
<1>11. ASSUME NEW t \in Tasks, NEW m \in Mints, Spawn(t, m)
       PROVE  ScorerTypeOK'
  <2>1. task' \in [Tasks -> Task]
    <3>1. NewTask(m) \in Task
        BY DEF NewTask, Task, Verdicts, Ends, PCs
    <3>2. [NewTask(m) EXCEPT !.pc = "pumped"] \in Task
        BY <1>0, <3>1, TaskRecords
    <3> QED
        BY <1>11, <3>2 DEF Spawn, ScorerTypeOK
  <2> QED
      BY <1>11, <2>1 DEF ScorerMoves, Spawn, ScorerTypeOK
<1>12. CASE Expire
    BY <1>12 DEF Expire, session, ScorerTypeOK
<1>13. ASSUME NEW newModel \in Models, NEW landed \in BOOLEAN,
              ScorerRestart(newModel, landed)
       PROVE  ScorerTypeOK'
  <2>1. scores' \in Seq(Score) /\ expired' \in 0 .. Len(scores')
      BY <1>13, ScoreType DEF ScorerRestart, ScorerTypeOK
  <2>2. task' \in [Tasks -> Task]
    <3>1. \A t \in Tasks : [task[t] EXCEPT !.pc = "done", !.end = "killed"] \in Task
        BY <1>0, TaskRecords DEF ScorerTypeOK, PCs
    <3> QED
        BY <1>13, <3>1 DEF ScorerRestart, ScorerTypeOK
  <2>3. model' \in Models
      BY <1>13 DEF ScorerRestart
  <2>4. mintLock' \in [Mints -> Tasks \cup {Nobody}]
      BY <1>13 DEF ScorerRestart
  <2>5. clickhouseLock' \in Tasks \cup {Nobody}
      BY <1>13 DEF ScorerRestart
  <2>6. restarts' \in Nat
    <3>1. restarts' = restarts + 1
        BY <1>13, Zenon DEF ScorerRestart
    <3> QED
        BY <3>1 DEF ScorerTypeOK
  <2>7. fails' \in Nat
      BY DEF ScorerMoves
  <2> QED
      BY <2>1, <2>2, <2>3, <2>4, <2>5, <2>6, <2>7 DEF ScorerTypeOK
<1>14. CASE UNCHANGED scorer
    BY <1>14 DEF ScorerMoves, scorer, ScorerTypeOK
<1> QED
    BY <1>1, <1>2, <1>3, <1>4, <1>5, <1>6, <1>7, <1>8, <1>9, <1>10, <1>11, <1>12,
       <1>13, <1>14
    DEF ScorerMoves, Run, Query

LEMMA ScorerTypeNext == ScorerTypeOK /\ [ScorerNext]_scorerVars => ScorerTypeOK'
    BY ScorerNextMoves, ScorerTypeMoves

\* Every variable of the scorer keeps its type.
THEOREM ScorerTypeCorrect == ScorerSpec => []ScorerTypeOK
    BY ScorerInitType, ScorerTypeNext, PTL DEF ScorerSpec

-----------------------------------------------------------------------------
(***************************************************************************)
(* One query at a time.  Whoever has a query in progress, or is between    *)
(* the two queries of one critical section, holds the ClickHouse lock; so  *)
(* no query of a scoring task is ever refused.                             *)
(***************************************************************************)
Serial ==
    /\ using \subseteq Tasks
    /\ clashed = {}
    /\ \A t \in Tasks :
          t \in using \/ task[t].pc \in {"dead", "verify"} => clickhouseLock = t

\* A step of a task that has no query afterwards and may release the lock.
LEMMA SerialTask ==
    ASSUME ScorerTypeOK, Serial, NEW t \in Tasks,
           \A u \in Tasks \ {t} : task'[u] = task[u],
           using' \subseteq using, clashed' \subseteq clashed,
           t \in using' \/ task'[t].pc \in {"dead", "verify"} => clickhouseLock' = t,
           \/ clickhouseLock' = clickhouseLock
           \/ clickhouseLock = t
    PROVE  Serial'
    BY DEF Serial

LEMMA SerialNext == ScorerTypeOK /\ Serial /\ [ScorerNext]_scorerVars => Serial'
<1> SUFFICES ASSUME ScorerTypeOK, Serial, [ScorerNext]_scorerVars
             PROVE  Serial'
    OBVIOUS
<1>1. ASSUME NEW t \in Tasks, StartQuery(t)
      PROVE  Serial'
  <2>1. using = {} /\ clashed = {}
    <3>1. \A u \in using : u \in Tasks /\ clickhouseLock = u /\ u # t
        BY <1>1 DEF Serial, StartQuery, Begins
    <3>2. CASE task[t].pc \in Opening
        BY <1>1, <3>1, <3>2 DEF StartQuery, Serial
    <3>3. CASE task[t].pc \notin Opening
      <4>1. task[t].pc \in {"dead", "verify"}
          BY <1>1, <3>3 DEF StartQuery, Queries, Opening
      <4> QED
          BY <3>1, <4>1 DEF Serial
    <3> QED
        BY <3>2, <3>3
  <2>2. using' = {t} /\ clashed' = {}
      BY <1>1, <2>1 DEF StartQuery, Begins
  <2>3. \A u \in Tasks : task'[u].pc = task[u].pc
      BY <1>1 DEF StartQuery, ScorerTypeOK, Task
  <2>4. CASE task[t].pc \in Opening
    <3>1. clickhouseLock = Nobody /\ clickhouseLock' = t
        BY <1>1, <2>4 DEF StartQuery
    <3>2. \A u \in Tasks : task[u].pc \notin {"dead", "verify"}
        BY <3>1 DEF Serial
    <3> QED
        BY <2>2, <2>3, <3>1, <3>2 DEF Serial
  <2>5. CASE task[t].pc \notin Opening
    <3>1. task[t].pc \in {"dead", "verify"} /\ clickhouseLock' = clickhouseLock
        BY <1>1, <2>5 DEF StartQuery, Queries, Opening
    <3> QED
        BY <2>2, <2>3, <3>1 DEF Serial
  <2> QED
      BY <2>4, <2>5
<1>2. ASSUME NEW t \in Tasks, ~StartQuery(t), Query(t)
      PROVE  Serial'
  <2>1. /\ t \in using /\ using' = using \ {t} /\ clashed' \subseteq clashed
      BY <1>2 DEF Query, Examples, ExamplesFail, RecentScore, RecentScoreFails,
         RecentHighScore, RecentHighScoreFails, Insert, InsertFails, Verify, VerifyFails,
         Returns, Raises
  <2>2. clickhouseLock = t
      BY <2>1 DEF Serial
  <2>3. \A u \in Tasks \ {t} : task'[u] = task[u]
      BY <1>2 DEF Query, Examples, ExamplesFail, RecentScore, RecentScoreFails,
         RecentHighScore, RecentHighScoreFails, Insert, InsertFails, Verify, VerifyFails,
         Goto, Finish, ScorerTypeOK
  <2>4. task'[t].pc \in {"dead", "verify"} => clickhouseLock' = clickhouseLock
    <3>1. CASE Insert(t)
        BY <3>1 DEF Insert, locks
    <3>2. CASE Examples(t)
        BY <3>2 DEF Examples, Goto, ScorerTypeOK, Task
    <3>3. CASE ExamplesFail(t) \/ VerifyFails(t) \/ \E stored \in BOOLEAN : InsertFails(t, stored)
        BY <3>3 DEF ExamplesFail, VerifyFails, InsertFails, Finish, ScorerTypeOK, Task
    <3>4. CASE RecentScore(t) \/ RecentScoreFails(t)
        BY <3>4 DEF RecentScore, RecentScoreFails, Goto, Finish, ScorerTypeOK, Task
    <3>5. CASE RecentHighScore(t) \/ RecentHighScoreFails(t)
        BY <3>5 DEF RecentHighScore, RecentHighScoreFails, ScorerTypeOK, Task
    <3>6. CASE Verify(t)
        BY <3>6 DEF Verify, Goto, Finish, ScorerTypeOK, Task
    <3> QED
        BY <1>2, <3>1, <3>2, <3>3, <3>4, <3>5, <3>6 DEF Query
  <2> QED
      BY <2>1, <2>2, <2>3, <2>4, SerialTask
<1>3. ASSUME NEW t \in Tasks,
             \/ Call(t)
             \/ LockMint(t)
             \/ \E readable \in BOOLEAN : Alert(t, readable)
             \/ \E m \in Mints : Spawn(t, m) /\ UNCHANGED session
      PROVE  Serial'
  <2>1. using' = using /\ clashed' = clashed /\ clickhouseLock' = clickhouseLock
      BY <1>3 DEF Call, ClaudeAnswers, ClaudeGivesNothing, ClaudeRaises, LockMint, Alert,
         Spawn, session, locks
  <2>2. \A u \in Tasks \ {t} : task'[u] = task[u]
      BY <1>3 DEF Call, ClaudeAnswers, ClaudeGivesNothing, ClaudeRaises, LockMint, Alert,
         Spawn, Goto, Finish, ScorerTypeOK
  <2>3. task'[t].pc \notin {"dead", "verify"}
    <3>1. CASE Call(t)
        BY <3>1 DEF Call, ClaudeAnswers, ClaudeGivesNothing, ClaudeRaises, Finish,
           ScorerTypeOK, Task
    <3>2. CASE LockMint(t) \/ \E readable \in BOOLEAN : Alert(t, readable)
        BY <3>2 DEF LockMint, Alert, Goto, Finish, ScorerTypeOK, Task
    <3>3. CASE \E m \in Mints : Spawn(t, m) /\ UNCHANGED session
        BY <3>3 DEF Spawn, NewTask, ScorerTypeOK
    <3> QED
        BY <1>3, <3>1, <3>2, <3>3
  <2>4. t \in using => clickhouseLock = t
      BY DEF Serial
  <2> QED
      BY <2>1, <2>2, <2>3, <2>4, SerialTask
<1>4. CASE Expire \/ UNCHANGED scorerVars
    BY <1>4 DEF Expire, scorerVars, scorer, session, locks, Serial
<1>5. ASSUME NEW newModel \in Models, NEW landed \in BOOLEAN,
             ScorerRestart(newModel, landed), SessionRestart
      PROVE  Serial'
  <2>1. \A t \in Tasks : task'[t].pc \notin {"dead", "verify"}
    <3> SUFFICES ASSUME NEW t \in Tasks
                 PROVE  task'[t].pc \notin {"dead", "verify"}
        OBVIOUS
    <3>1. task'[t] = IF task[t].pc \in {"idle", "done"} THEN task[t]
                     ELSE [task[t] EXCEPT !.pc = "done", !.end = "killed"]
        BY <1>5 DEF ScorerRestart
    <3>2. task[t] \in Task
        BY DEF ScorerTypeOK
    <3> QED
        BY <3>1, <3>2 DEF Task
  <2> QED
      BY <1>5, <2>1 DEF SessionRestart, Serial
<1> QED
    BY <1>1, <1>2, <1>3, <1>4, <1>5 DEF ScorerNext, Run

LEMMA SerialInit == ScorerInit => Serial
    BY DEF ScorerInit, SessionInit, Serial, NewTask

LEMMA OneUser ==
    ASSUME Serial, NEW t \in using
    PROVE  using = {t}
    BY DEF Serial

\* The scoring tasks never have two queries in progress on the one client, and
\* none of their queries is refused, however they interleave and fail.
THEOREM ScorerIsSerial == ScorerSpec => []Serial
    BY ScorerInitType, ScorerTypeNext, SerialInit, SerialNext, PTL DEF ScorerSpec

-----------------------------------------------------------------------------
(***************************************************************************)
(* The table refines ScoreWindow.  The insert evaluates its NOT EXISTS     *)
(* when it starts and writes when it ends, so the proof needs that what it *)
(* found still holds in between: no other query can write, and time only   *)
(* shrinks the window.                                                     *)
(***************************************************************************)
AbsentHolds ==
    \A t \in Tasks :
        task[t].pc = "insert" /\ t \in using /\ task[t].absent =>
            ~HasRecentScore(task[t].mint)

LEMMA AbsentNext ==
    ScorerTypeOK /\ Serial /\ AbsentHolds /\ [ScorerNext]_scorerVars => AbsentHolds'
<1> SUFFICES ASSUME ScorerTypeOK, Serial, AbsentHolds, [ScorerNext]_scorerVars
             PROVE  AbsentHolds'
    OBVIOUS
<1>0. ASSUME using' = {}
      PROVE  AbsentHolds'
    BY <1>0 DEF AbsentHolds
<1>1. ASSUME NEW t \in Tasks, StartQuery(t)
      PROVE  AbsentHolds'
  <2>1. Serial'
      BY <1>1, SerialNext DEF ScorerNext, Run, Query
  <2>2. t \in using'
      BY <1>1 DEF StartQuery, Begins
  <2>3. using' = {t}
      BY <2>1, <2>2 DEF Serial
  <2>4. scores' = scores /\ expired' = expired /\ model' = model
      BY <1>1 DEF StartQuery, table
  <2>5. /\ task'[t].mint = task[t].mint
        /\ task'[t].absent = (task[t].pc = "insert" /\ Absent(t))
      BY <1>1 DEF StartQuery, ScorerTypeOK, Task
  <2>6. task'[t].absent => ~HasRecentScore(task[t].mint)
      BY <2>5 DEF Absent
  <2>7. HasRecentScore(task[t].mint)' <=> HasRecentScore(task[t].mint)
      BY <2>4, <2>5 DEF HasRecentScore, InWindow
  <2> QED
      BY <2>3, <2>6, <2>7 DEF AbsentHolds
<1>2. ASSUME NEW t \in Tasks, ~StartQuery(t), Query(t)
      PROVE  AbsentHolds'
  <2>1. t \in using /\ using' = using \ {t}
      BY <1>2 DEF Query, Examples, ExamplesFail, RecentScore, RecentScoreFails,
         RecentHighScore, RecentHighScoreFails, Insert, InsertFails, Verify, VerifyFails,
         Returns, Raises
  <2> QED
      BY <1>0, <2>1, OneUser
<1>3. ASSUME NEW t \in Tasks,
             \/ Call(t)
             \/ LockMint(t)
             \/ \E readable \in BOOLEAN : Alert(t, readable)
             \/ \E m \in Mints : Spawn(t, m) /\ UNCHANGED session
      PROVE  AbsentHolds'
  <2>1. /\ using' = using /\ scores' = scores /\ expired' = expired /\ model' = model
      BY <1>3 DEF Call, ClaudeAnswers, ClaudeGivesNothing, ClaudeRaises, LockMint, Alert,
         Spawn, session, table
  <2>2. \A u \in Tasks \ {t} : task'[u] = task[u]
      BY <1>3 DEF Call, ClaudeAnswers, ClaudeGivesNothing, ClaudeRaises, LockMint, Alert,
         Spawn, Goto, Finish, ScorerTypeOK
  <2>3. task'[t].pc # "insert"
    <3>1. CASE Call(t)
        BY <3>1 DEF Call, ClaudeAnswers, ClaudeGivesNothing, ClaudeRaises, Finish,
           ScorerTypeOK, Task
    <3>2. CASE LockMint(t) \/ \E readable \in BOOLEAN : Alert(t, readable)
        BY <3>2 DEF LockMint, Alert, Goto, Finish, ScorerTypeOK, Task
    <3>3. CASE \E m \in Mints : Spawn(t, m) /\ UNCHANGED session
        BY <3>3 DEF Spawn, NewTask, ScorerTypeOK
    <3> QED
        BY <1>3, <3>1, <3>2, <3>3
  <2> QED
      BY <2>1, <2>2, <2>3 DEF AbsentHolds, HasRecentScore, InWindow
<1>4. CASE Expire
  <2>1. task' = task /\ using' = using
      BY <1>4 DEF Expire, session
  <2>2. \A m : HasRecentScore(m)' => HasRecentScore(m)
      BY <1>4 DEF Expire, HasRecentScore, InWindow, ScorerTypeOK
  <2> QED
      BY <2>1, <2>2 DEF AbsentHolds
<1>5. ASSUME NEW newModel \in Models, NEW landed \in BOOLEAN,
             ScorerRestart(newModel, landed), SessionRestart
      PROVE  AbsentHolds'
    BY <1>0, <1>5 DEF SessionRestart
<1>6. CASE UNCHANGED scorerVars
    BY <1>6 DEF scorerVars, scorer, session, table, AbsentHolds, HasRecentScore, InWindow
<1> QED
    BY <1>1, <1>2, <1>3, <1>4, <1>5, <1>6 DEF ScorerNext, Run

\* A row written where the window holds none of its mint and model.
LEMMA ScoreAdded ==
    ASSUME ScorerTypeOK, NEW t \in Tasks, ~HasRecentScore(task[t].mint),
           scores' = Append(scores, ScoreOf(t)), expired' = expired
    PROVE  Window!Next
<1> DEFINE row == ScoreOf(t)
<1>1. row \in Score /\ row.mint = task[t].mint /\ row.model = model
    BY ScoreType DEF ScoreOf
<1>2. Len(scores') = Len(scores) + 1 /\ scores'[Len(scores')] = row
    BY <1>1 DEF ScorerTypeOK
<1>3. \A i \in expired + 1 .. Len(scores) :
          <<scores[i].mint, scores[i].model>> # <<row.mint, row.model>>
    BY <1>1 DEF HasRecentScore, InWindow
<1>4. Window!Add(row)
    BY <1>3 DEF Window!Add
<1>5. Len(scores') > Len(scores)
    BY <1>2 DEF ScorerTypeOK
<1> HIDE DEF row
<1> QED
    BY <1>2, <1>4, <1>5 DEF Window!Next

LEMMA WindowMoves ==
    ScorerTypeOK /\ AbsentHolds /\ ScorerMoves => [Window!Next]_(Window!vars)
<1> SUFFICES ASSUME ScorerTypeOK, AbsentHolds, ScorerMoves
             PROVE  [Window!Next]_(Window!vars)
    OBVIOUS
<1>0. ASSUME scores' = scores, expired' = expired
      PROVE  Window!vars' = Window!vars
    BY <1>0 DEF Window!vars
<1>1. ASSUME NEW t \in Tasks, Insert(t) \/ \E stored \in BOOLEAN : InsertFails(t, stored)
      PROVE  [Window!Next]_(Window!vars)
  <2>1. t \in using /\ task[t].pc = "insert" /\ expired' = expired
      BY <1>1 DEF Insert, InsertFails, Returns, Raises
  <2>2. CASE scores' = scores
      BY <1>0, <2>1, <2>2
  <2>3. CASE scores' = Append(scores, ScoreOf(t)) /\ task[t].absent
      BY <2>1, <2>3, ScoreAdded DEF AbsentHolds
  <2> QED
      BY <1>1, <2>2, <2>3 DEF Insert, InsertFails
<1>2. ASSUME NEW t \in Tasks, Run(t),
             ~(Insert(t) \/ \E stored \in BOOLEAN : InsertFails(t, stored))
      PROVE  [Window!Next]_(Window!vars)
  <2>1. scores' = scores /\ expired' = expired
      BY <1>2 DEF Run, Query, Call, StartQuery, Examples, ExamplesFail, RecentScore,
         RecentScoreFails, RecentHighScore, RecentHighScoreFails, Verify, VerifyFails,
         ClaudeAnswers, ClaudeGivesNothing, ClaudeRaises, LockMint, Alert, table
  <2> QED
      BY <1>0, <2>1
<1>3. ASSUME NEW t \in Tasks, NEW m \in Mints, Spawn(t, m)
      PROVE  [Window!Next]_(Window!vars)
    BY <1>0, <1>3 DEF Spawn, table
<1>4. CASE Expire
    BY <1>4 DEF Expire, Window!Expire, Window!Next
<1>5. ASSUME NEW newModel \in Models, NEW landed \in BOOLEAN,
             ScorerRestart(newModel, landed)
      PROVE  [Window!Next]_(Window!vars)
  <2>1. expired' = expired
      BY <1>5 DEF ScorerRestart
  <2>2. \/ scores' = scores
        \/ \E t \in Tasks : Inserting(t) /\ scores' = Append(scores, ScoreOf(t))
      BY <1>5, Zenon DEF ScorerRestart
  <2>3. CASE scores' = scores
      BY <1>0, <2>1, <2>3
  <2>4. ASSUME NEW t \in Tasks, Inserting(t), scores' = Append(scores, ScoreOf(t))
        PROVE  Window!Next
      BY <2>1, <2>4, ScoreAdded DEF Inserting, AbsentHolds
  <2> QED
      BY <2>2, <2>3, <2>4
<1>6. CASE UNCHANGED scorer
    BY <1>0, <1>6 DEF scorer, table
<1> QED
    BY <1>1, <1>2, <1>3, <1>4, <1>5, <1>6 DEF ScorerMoves

\* Whatever queries fail, whenever the process is killed and restarted with
\* whichever model, mint_scores gets no second score of a mint by a model
\* within the dedup window.
THEOREM ScorerDedupsScores == ScorerSpec => DedupsScores
<1>1. ScorerInit => Window!Init /\ AbsentHolds
    BY DEF ScorerInit, SessionInit, AbsentHolds, Window!Init
<1> QED
    BY <1>1, ScorerInitType, ScorerTypeNext, SerialInit, SerialNext, AbsentNext, ScorerNextMoves,
       WindowMoves, PTL
    DEF ScorerSpec, DedupsScores, Window!Spec

-----------------------------------------------------------------------------
(***************************************************************************)
(* Alerts follow scores.  A row keeps the verdict of the task that wrote   *)
(* it, since a task writes only after Claude's answer is final; and a task *)
(* gets to its alert only by finding its own row.                          *)
(***************************************************************************)
Written == {"verify", "alert", "done"}

RowsMatch ==
    \A i \in DOMAIN scores :
        /\ task[scores[i].task].pc \in Written
        /\ task[scores[i].task].verdict = scores[i].verdict

AlertsMatch ==
    \A t \in Tasks :
        task[t].pc = "alert" \/ task[t].end = "alerted" =>
            task[t].pc \in {"alert", "done"} /\ task[t].verdict = "good" /\ Verified(t)

LEMMA RowType ==
    ASSUME ScorerTypeOK, NEW i \in DOMAIN scores
    PROVE  scores[i].task \in Tasks
<1>1. i \in 1 .. Len(scores)
    BY DEF ScorerTypeOK
<1>2. scores[i] \in Score
    BY <1>1 DEF ScorerTypeOK
<1> QED
    BY <1>2 DEF Score

\* A step of one task that writes no row.
LEMMA QuietTask ==
    ASSUME ScorerTypeOK, RowsMatch, AlertsMatch, NEW t \in Tasks,
           \A u \in Tasks \ {t} : task'[u] = task[u],
           scores' = scores,
           task[t].pc \in Written =>
               task'[t].pc \in Written /\ task'[t].verdict = task[t].verdict,
           task'[t].pc = "alert" \/ task'[t].end = "alerted" =>
               task'[t].pc \in {"alert", "done"} /\ task'[t].verdict = "good" /\ Verified(t)
    PROVE  RowsMatch' /\ AlertsMatch'
<1>1. \A i \in DOMAIN scores : scores[i].task \in Tasks
    BY RowType
<1>2. RowsMatch'
    BY <1>1 DEF RowsMatch
<1>3. AlertsMatch'
    BY DEF AlertsMatch, Verified
<1> QED
    BY <1>2, <1>3

\* A step of one task that writes its row.
LEMMA WritingTask ==
    ASSUME ScorerTypeOK, RowsMatch, AlertsMatch, NEW t \in Tasks,
           \A u \in Tasks \ {t} : task'[u] = task[u],
           scores' = Append(scores, ScoreOf(t)),
           task'[t].pc \in {"verify", "done"}, task'[t].verdict = task[t].verdict,
           task[t].pc = "insert", task'[t].end # "alerted"
    PROVE  RowsMatch' /\ AlertsMatch'
<1>1. \A i \in DOMAIN scores : scores[i].task \in Tasks \ {t}
    BY RowType DEF RowsMatch, Written
<1>2. /\ ScoreOf(t) \in Score
      /\ ScoreOf(t).task = t /\ ScoreOf(t).verdict = task[t].verdict
    BY ScoreType DEF ScoreOf
<1> DEFINE row == ScoreOf(t)
<1> HIDE DEF row
<1>3. /\ DOMAIN scores' = 1 .. Len(scores) + 1
      /\ \A i \in 1 .. Len(scores) : scores'[i] = scores[i]
      /\ scores'[Len(scores) + 1] = row
      /\ DOMAIN scores = 1 .. Len(scores)
    BY <1>2 DEF ScorerTypeOK, row
<1>4. RowsMatch'
    BY <1>1, <1>2, <1>3 DEF RowsMatch, Written, row
<1>5. \A u \in Tasks : Verified(u) => Verified(u)'
    BY <1>3 DEF Verified
<1>6. AlertsMatch'
    BY <1>5 DEF AlertsMatch
<1> QED
    BY <1>4, <1>6

LEMMA AlertMoves ==
    /\ ScorerTypeOK /\ RowsMatch /\ AlertsMatch /\ ScorerMoves
    => RowsMatch' /\ AlertsMatch'
<1> SUFFICES ASSUME ScorerTypeOK, RowsMatch, AlertsMatch, ScorerMoves
             PROVE  RowsMatch' /\ AlertsMatch'
    OBVIOUS
<1> USE DEF Written
<1>0. \A t \in Tasks : task[t] \in Task
    BY DEF ScorerTypeOK
<1>1. ASSUME NEW t \in Tasks, StartQuery(t)
      PROVE  RowsMatch' /\ AlertsMatch'
  <2>1. scores' = scores /\ \A u \in Tasks \ {t} : task'[u] = task[u]
      BY <1>1 DEF StartQuery, table, ScorerTypeOK
  <2>2. /\ task'[t].pc = task[t].pc /\ task'[t].verdict = task[t].verdict
        /\ task'[t].end = task[t].end
      BY <1>0, <1>1 DEF StartQuery, ScorerTypeOK, Task
  <2> QED
      BY <2>1, <2>2, QuietTask DEF AlertsMatch
\* The steps before the insert.
<1>2. ASSUME NEW t \in Tasks, scores' = scores,
             \A u \in Tasks \ {t} : task'[u] = task[u],
             task[t].pc \notin Written,
             task'[t].pc # "alert", task'[t].end \in {task[t].end} \cup (Ends \ {"alerted"})
      PROVE  RowsMatch' /\ AlertsMatch'
    BY <1>2, QuietTask DEF AlertsMatch
<1>3. ASSUME NEW t \in Tasks, Examples(t) \/ ExamplesFail(t)
      PROVE  RowsMatch' /\ AlertsMatch'
  <2>1. scores' = scores /\ \A u \in Tasks \ {t} : task'[u] = task[u]
      BY <1>3 DEF Examples, ExamplesFail, Goto, Finish, table, ScorerTypeOK
  <2>2. task[t].pc \notin Written
      BY <1>3 DEF Examples, ExamplesFail
  <2>3. task'[t].pc # "alert" /\ task'[t].end \in {task[t].end} \cup (Ends \ {"alerted"})
      BY <1>0, <1>3 DEF Examples, ExamplesFail, Goto, Finish, ScorerTypeOK, Task, Ends
  <2> QED
      BY <1>2, <2>1, <2>2, <2>3
<1>4. ASSUME NEW t \in Tasks, RecentScore(t) \/ RecentScoreFails(t) \/ LockMint(t)
      PROVE  RowsMatch' /\ AlertsMatch'
  <2>1. scores' = scores /\ \A u \in Tasks \ {t} : task'[u] = task[u]
      BY <1>4 DEF RecentScore, RecentScoreFails, LockMint, Goto, Finish, table, ScorerTypeOK
  <2>2. task[t].pc \notin Written
      BY <1>4 DEF RecentScore, RecentScoreFails, LockMint
  <2>3. task'[t].pc # "alert" /\ task'[t].end \in {task[t].end} \cup (Ends \ {"alerted"})
      BY <1>0, <1>4 DEF RecentScore, RecentScoreFails, LockMint, Goto, Finish, ScorerTypeOK,
         Task, Ends
  <2> QED
      BY <1>2, <2>1, <2>2, <2>3
<1>5. ASSUME NEW t \in Tasks, RecentHighScore(t) \/ RecentHighScoreFails(t)
      PROVE  RowsMatch' /\ AlertsMatch'
  <2>1. scores' = scores /\ \A u \in Tasks \ {t} : task'[u] = task[u]
      BY <1>5 DEF RecentHighScore, RecentHighScoreFails, table, ScorerTypeOK
  <2>2. task[t].pc \notin Written
      BY <1>5 DEF RecentHighScore, RecentHighScoreFails
  <2>3. task'[t].pc # "alert" /\ task'[t].end = task[t].end
      BY <1>0, <1>5 DEF RecentHighScore, RecentHighScoreFails, ScorerTypeOK, Task
  <2> QED
      BY <1>2, <2>1, <2>2, <2>3
<1>6. ASSUME NEW t \in Tasks, Call(t)
      PROVE  RowsMatch' /\ AlertsMatch'
  <2>1. scores' = scores /\ task[t].pc \notin Written
      BY <1>6 DEF Call, ClaudeAnswers, ClaudeGivesNothing, ClaudeRaises, table
  <2>2. \A u \in Tasks \ {t} : task'[u] = task[u]
      BY <1>6 DEF Call, ClaudeAnswers, ClaudeGivesNothing, ClaudeRaises, Finish, ScorerTypeOK
  <2>3. task'[t].pc # "alert" /\ task'[t].end \in {task[t].end} \cup (Ends \ {"alerted"})
    <3>1. CASE \E verdict \in Answers : ClaudeAnswers(t, verdict)
        BY <1>0, <3>1 DEF ClaudeAnswers, ScorerTypeOK, Task
    <3>2. CASE Finish(t, "no_answer")
        BY <1>0, <3>2 DEF Finish, ScorerTypeOK, Task, Ends
    <3>3. CASE ClaudeRaises(t) /\ task' = [task EXCEPT ![t].attempt = @ + 1]
        BY <1>0, <3>3 DEF ClaudeRaises, ScorerTypeOK, Task
    <3> QED
        BY <1>6, <3>1, <3>2, <3>3 DEF Call, ClaudeGivesNothing, ClaudeRaises
  <2> QED
      BY <1>2, <2>1, <2>2, <2>3
<1>7. ASSUME NEW t \in Tasks, NEW m \in Mints, Spawn(t, m)
      PROVE  RowsMatch' /\ AlertsMatch'
  <2>1. scores' = scores /\ task[t].pc \notin Written
      BY <1>7 DEF Spawn, table
  <2>2. \A u \in Tasks \ {t} : task'[u] = task[u]
      BY <1>7 DEF Spawn, ScorerTypeOK
  <2>3. task'[t].pc # "alert" /\ task'[t].end = "running"
      BY <1>7 DEF Spawn, NewTask, ScorerTypeOK
  <2> QED
      BY <1>2, <2>1, <2>2, <2>3 DEF Ends
<1>8. ASSUME NEW t \in Tasks, Insert(t) \/ \E stored \in BOOLEAN : InsertFails(t, stored)
      PROVE  RowsMatch' /\ AlertsMatch'
  <2>1. task[t].pc = "insert" /\ \A u \in Tasks \ {t} : task'[u] = task[u]
      BY <1>8 DEF Insert, InsertFails, Goto, Finish, ScorerTypeOK
  <2>2. /\ task'[t].pc \in {"verify", "done"} /\ task'[t].verdict = task[t].verdict
        /\ task'[t].end \in {task[t].end, "unverified"}
      BY <1>0, <1>8 DEF Insert, InsertFails, Goto, Finish, ScorerTypeOK, Task
  <2>3. task[t].end # "alerted"
      BY <2>1 DEF AlertsMatch
  <2>4. scores' = scores \/ scores' = Append(scores, ScoreOf(t))
      BY <1>8 DEF Insert, InsertFails
  <2>5. CASE scores' = scores
      BY <1>2, <2>1, <2>2, <2>5 DEF Ends
  <2>6. CASE scores' = Append(scores, ScoreOf(t))
      BY <2>1, <2>2, <2>3, <2>6, WritingTask
  <2> QED
      BY <2>4, <2>5, <2>6
<1>9. ASSUME NEW t \in Tasks, Verify(t) \/ VerifyFails(t)
      PROVE  RowsMatch' /\ AlertsMatch'
  <2>1. scores' = scores /\ task[t].pc = "verify"
      BY <1>9 DEF Verify, VerifyFails, table
  <2>2. \A u \in Tasks \ {t} : task'[u] = task[u]
      BY <1>9 DEF Verify, VerifyFails, Goto, Finish, ScorerTypeOK
  <2>3. task[t].end # "alerted"
      BY <2>1 DEF AlertsMatch
  <2>4. task'[t].pc \in Written /\ task'[t].verdict = task[t].verdict
      BY <1>0, <1>9 DEF Verify, VerifyFails, Goto, Finish, ScorerTypeOK, Task
  <2>5. task'[t].end # "alerted"
      BY <1>0, <1>9, <2>3 DEF Verify, VerifyFails, Goto, Finish, ScorerTypeOK, Task
  <2>6. task'[t].pc = "alert" => task[t].verdict = "good" /\ Verified(t)
      BY <1>0, <1>9 DEF Verify, VerifyFails, Goto, Finish, ScorerTypeOK, Task
  <2> QED
      BY <2>1, <2>2, <2>4, <2>5, <2>6, QuietTask
<1>10. ASSUME NEW t \in Tasks, NEW readable \in BOOLEAN, Alert(t, readable)
       PROVE  RowsMatch' /\ AlertsMatch'
  <2>1. scores' = scores /\ \A u \in Tasks \ {t} : task'[u] = task[u]
      BY <1>10 DEF Alert, Finish, table, ScorerTypeOK
  <2>2. task[t].verdict = "good" /\ Verified(t)
      BY <1>10 DEF Alert, AlertsMatch
  <2>3. task'[t].pc = "done" /\ task'[t].verdict = task[t].verdict
      BY <1>0, <1>10 DEF Alert, Finish, ScorerTypeOK, Task
  <2> QED
      BY <2>1, <2>2, <2>3, QuietTask
<1>11. CASE Expire
    BY <1>11 DEF Expire, RowsMatch, AlertsMatch, Verified
<1>12. ASSUME NEW newModel \in Models, NEW landed \in BOOLEAN,
              ScorerRestart(newModel, landed)
       PROVE  RowsMatch' /\ AlertsMatch'
  <2>1. ASSUME NEW t \in Tasks
        PROVE  /\ task'[t].verdict = task[t].verdict
               /\ task[t].pc # "idle" => task'[t].pc = "done"
               /\ task'[t].pc \in {"idle", "done"}
               /\ task'[t].end \in {task[t].end, "killed"}
    <3>1. task'[t] = IF task[t].pc \in {"idle", "done"} THEN task[t]
                     ELSE [task[t] EXCEPT !.pc = "done", !.end = "killed"]
        BY <1>12 DEF ScorerRestart
    <3> QED
        BY <1>0, <3>1 DEF Task
  <2>2. \A t \in Tasks : task'[t].end = "alerted" => task[t].end = "alerted" /\ task[t].pc # "idle"
      BY <2>1 DEF AlertsMatch
  <2>3. \/ scores' = scores
        \/ \E t \in Tasks : Inserting(t) /\ scores' = Append(scores, ScoreOf(t))
      BY <1>12, Zenon DEF ScorerRestart
  <2>4. \A i \in DOMAIN scores : scores[i].task \in Tasks
      BY RowType
  <2>5. CASE scores' = scores
    <3>1. RowsMatch'
        BY <2>1, <2>4, <2>5 DEF RowsMatch
    <3>2. AlertsMatch'
        BY <2>1, <2>2, <2>5 DEF AlertsMatch, Verified
    <3> QED
        BY <3>1, <3>2
  <2>6. ASSUME NEW t \in Tasks, Inserting(t), scores' = Append(scores, ScoreOf(t))
        PROVE  RowsMatch' /\ AlertsMatch'
    <3> DEFINE row == ScoreOf(t)
    <3>1. row \in Score /\ row.task = t /\ row.verdict = task[t].verdict
        BY ScoreType DEF ScoreOf
    <3> HIDE DEF row
    <3>2. /\ DOMAIN scores' = 1 .. Len(scores) + 1
          /\ \A i \in 1 .. Len(scores) : scores'[i] = scores[i]
          /\ scores'[Len(scores) + 1] = row
          /\ DOMAIN scores = 1 .. Len(scores)
        BY <2>6, <3>1 DEF ScorerTypeOK, row
    <3>3. task'[t].pc = "done" /\ task'[t].verdict = task[t].verdict
        BY <2>1, <2>6 DEF Inserting
    <3>4. RowsMatch'
        BY <2>1, <2>4, <3>1, <3>2, <3>3 DEF RowsMatch
    <3>5. \A u \in Tasks : Verified(u) => Verified(u)'
        BY <3>2 DEF Verified
    <3>6. AlertsMatch'
        BY <2>1, <2>2, <3>5 DEF AlertsMatch
    <3> QED
        BY <3>4, <3>6
  <2> QED
      BY <2>3, <2>5, <2>6
<1>13. CASE UNCHANGED scorer
    BY <1>13 DEF scorer, table, RowsMatch, AlertsMatch, Verified
<1> QED
    BY <1>1, <1>3, <1>4, <1>5, <1>6, <1>7, <1>8, <1>9, <1>10, <1>11, <1>12, <1>13
    DEF ScorerMoves, Run, Query

\* A task alerts after it has found its row.
LEMMA AlertThenScore == RowsMatch /\ AlertsMatch => AlertHasScore
<1> SUFFICES ASSUME RowsMatch, AlertsMatch, NEW t \in Alerted
             PROVE  \E i \in DOMAIN scores :
                        scores[i].task = t /\ scores[i].verdict = "good"
    BY DEF AlertHasScore
<1>1. Verified(t) /\ task[t].verdict = "good"
    BY DEF Alerted, AlertsMatch
<1> QED
    BY <1>1 DEF Verified, RowsMatch

\* No subscriber is told of a score that the table does not hold: who alerts
\* has written a good row of its own.
THEOREM AlertsHaveScores == ScorerSpec => []AlertHasScore
<1>1. ScorerInit => RowsMatch /\ AlertsMatch
    BY DEF ScorerInit, NewTask, RowsMatch, AlertsMatch
<1> QED
    BY <1>1, AlertThenScore, ScorerInitType, ScorerTypeNext, ScorerNextMoves, AlertMoves, PTL
    DEF ScorerSpec

-----------------------------------------------------------------------------
(***************************************************************************)
(* The two locks.  A task holds its mint's lock just while it is at one of *)
(* the queries made under it, and the client's lock just while it has a    *)
(* query in progress or is between the two of one section; so none is kept *)
(* at an early exit, and who is waited for is on the way to release.       *)
(***************************************************************************)

\* The queries of a task that holds its mint's lock.
Locked == {"recent", "high", "insert", "verify"}

UsesClient(t) == t \in using \/ task[t].pc \in {"dead", "verify"}

HoldsRight(t) ==
    /\ \A m \in Mints : mintLock[m] = t <=> task[t].pc \in Locked /\ task[t].mint = m
    /\ clickhouseLock = t <=> UsesClient(t)
    /\ t \in using => task[t].pc \in Queries

LockInv == \A t \in Tasks : HoldsRight(t)

\* What a task is about to get or has in line: a lock that another one holds.
Waits(t) ==
    \/ task[t].pc = "lock" /\ mintLock[task[t].mint] # Nobody
    \/ task[t].pc \in Opening /\ t \notin using /\ clickhouseLock # Nobody

\* The steps of a task, told apart by what they do to the locks.
Moves(t, from, to) == task[t].pc = from /\ task'[t].pc = to

Starts(t) ==
    /\ t \notin using /\ t \in using' /\ task[t].pc \in Queries /\ task'[t].pc = task[t].pc
    /\ mintLock' = mintLock
    /\ IF task[t].pc \in Opening
       THEN clickhouseLock = Nobody /\ clickhouseLock' = t
       ELSE clickhouseLock' = clickhouseLock

Ended(t) == t \in using /\ t \notin using'

GoesOn(t) ==
    /\ Ended(t) /\ mintLock' = mintLock /\ clickhouseLock' = clickhouseLock
    /\ Moves(t, "pumped", "dead") \/ Moves(t, "insert", "verify")

LeavesClient(t) ==
    /\ Ended(t) /\ mintLock' = mintLock /\ ReleaseClient
    /\ \/ Moves(t, "dead", "claude") \/ Moves(t, "pumped", "done") \/ Moves(t, "dead", "done")
       \/ Moves(t, "recent", "high") \/ Moves(t, "high", "insert")

LeavesBoth(t) ==
    /\ Ended(t) /\ Unlock(t) /\ ReleaseClient
    /\ \/ Moves(t, "recent", "done") \/ Moves(t, "insert", "done")
       \/ Moves(t, "verify", "done") \/ Moves(t, "verify", "alert")

NeedsNoLock(t) ==
    /\ (t \in using' <=> t \in using) /\ mintLock' = mintLock /\ clickhouseLock' = clickhouseLock
    /\ \/ Moves(t, "claude", "lock") \/ Moves(t, "claude", "done") \/ Moves(t, "alert", "done")
       \/ Moves(t, "claude", "claude") /\ task'[t].attempt = task[t].attempt + 1

EntersMint(t) ==
    /\ (t \in using' <=> t \in using) /\ clickhouseLock' = clickhouseLock
    /\ mintLock[task[t].mint] = Nobody /\ mintLock' = [mintLock EXCEPT ![task[t].mint] = t]
    /\ Moves(t, "lock", "recent")

LEMMA RunKinds ==
    ASSUME ScorerTypeOK, NEW t \in Tasks, Run(t)
    PROVE  /\ \A u \in Tasks \ {t} : task'[u] = task[u] /\ (u \in using' <=> u \in using)
           /\ task'[t].mint = task[t].mint
           /\ task'[t].attempt = task[t].attempt \/ Moves(t, "claude", "claude")
           /\ \/ Starts(t) \/ GoesOn(t) \/ LeavesClient(t) \/ LeavesBoth(t)
              \/ NeedsNoLock(t) \/ EntersMint(t)
<1> DEFINE Others == \A u \in Tasks \ {t} : task'[u] = task[u] /\ (u \in using' <=> u \in using)
           Same == task'[t].mint = task[t].mint /\ task'[t].attempt = task[t].attempt
<1> USE DEF locks, Moves
<1>0. task \in [Tasks -> Task] /\ task[t] \in Task
    BY DEF ScorerTypeOK
<1>1. CASE StartQuery(t)
  <2>1. Others /\ Same /\ Starts(t)
      BY <1>0, <1>1 DEF StartQuery, Begins, Starts, Task
  <2> QED
      BY <2>1
<1>2. CASE Examples(t) \/ ExamplesFail(t)
  <2>1. Others /\ Same /\ Ended(t)
      BY <1>0, <1>2 DEF Examples, ExamplesFail, Returns, Raises, Goto, Finish, Task, Ended
  <2>2. GoesOn(t) \/ LeavesClient(t)
      BY <1>0, <1>2, <2>1 DEF Examples, ExamplesFail, Goto, Finish, Task, GoesOn, LeavesClient
  <2> QED
      BY <2>1, <2>2
<1>3. CASE RecentScore(t) \/ RecentScoreFails(t)
  <2>1. Others /\ Same /\ Ended(t)
      BY <1>0, <1>3 DEF RecentScore, RecentScoreFails, Returns, Raises, Goto, Finish, Task, Ended
  <2>2. LeavesBoth(t) \/ LeavesClient(t)
      BY <1>0, <1>3, <2>1 DEF RecentScore, RecentScoreFails, Goto, Finish, Task, LeavesBoth, LeavesClient
  <2> QED
      BY <2>1, <2>2
<1>4. CASE RecentHighScore(t) \/ RecentHighScoreFails(t)
  <2>1. Others /\ Same /\ Ended(t) /\ LeavesClient(t)
      BY <1>0, <1>4 DEF RecentHighScore, RecentHighScoreFails, Returns, Raises, Task, Ended, LeavesClient
  <2> QED
      BY <2>1
<1>5. CASE Insert(t)
  <2>1. Others /\ Same /\ Ended(t) /\ GoesOn(t)
      BY <1>0, <1>5 DEF Insert, Returns, Goto, Task, Ended, GoesOn
  <2> QED
      BY <2>1
<1>6. CASE VerifyFails(t) \/ \E stored \in BOOLEAN : InsertFails(t, stored)
  <2>1. Others /\ Same /\ Ended(t) /\ LeavesBoth(t)
      BY <1>0, <1>6 DEF VerifyFails, InsertFails, Raises, Finish, Task, Ended, LeavesBoth
  <2> QED
      BY <2>1
<1>7. CASE Verify(t)
  <2>1. Goto(t, "alert") \/ \E end \in Ends : Finish(t, end)
      BY <1>7 DEF Verify, Ends
  <2>2. Others /\ Same /\ Ended(t) /\ LeavesBoth(t)
      BY <1>0, <1>7, <2>1 DEF Verify, Returns, Goto, Finish, Task, Ended, LeavesBoth
  <2> QED
      BY <2>2
<1>8. CASE Call(t)
  <2>1. using' = using /\ mintLock' = mintLock /\ clickhouseLock' = clickhouseLock
        /\ task[t].pc = "claude" /\ \A u \in Tasks \ {t} : task'[u] = task[u]
      BY <1>0, <1>8 DEF Call, ClaudeAnswers, ClaudeGivesNothing, ClaudeRaises, Finish, session
  <2>2. CASE \E verdict \in Answers : ClaudeAnswers(t, verdict)
      BY <1>0, <2>1, <2>2 DEF ClaudeAnswers, Task, NeedsNoLock
  <2>3. CASE Finish(t, "no_answer")
      BY <1>0, <2>1, <2>3 DEF Finish, Task, NeedsNoLock
  <2>4. CASE task' = [task EXCEPT ![t].attempt = @ + 1]
      BY <1>0, <2>1, <2>4 DEF Task, NeedsNoLock
  <2> QED
      BY <1>8, <2>2, <2>3, <2>4 DEF Call, ClaudeGivesNothing, ClaudeRaises
<1>9. CASE LockMint(t)
  <2>1. Others /\ Same /\ EntersMint(t)
      BY <1>0, <1>9 DEF LockMint, Goto, Task, session, EntersMint
  <2> QED
      BY <2>1
<1>10. CASE \E readable \in BOOLEAN : Alert(t, readable)
  <2>1. Others /\ Same /\ NeedsNoLock(t)
      BY <1>0, <1>10 DEF Alert, Finish, Task, session, NeedsNoLock
  <2> QED
      BY <2>1
<1> QED
    BY <1>1, <1>2, <1>3, <1>4, <1>5, <1>6, <1>7, <1>8, <1>9, <1>10 DEF Run, Query

\* What the scorer does in a step and what becomes of its queries.
LockMoves ==
    \/ \E t \in Tasks : Run(t)
    \/ /\ (\E t \in Tasks, m \in Mints : Spawn(t, m)) \/ Expire \/ UNCHANGED scorer
       /\ \A t \in Tasks : t \in using' <=> t \in using
    \/ /\ \E newModel \in Models, landed \in BOOLEAN : ScorerRestart(newModel, landed)
       /\ using' = {}

\* The locks of the others, in a step of one task.
LEMMA OthersHold ==
    ASSUME ScorerTypeOK, LockInv, NEW t \in Tasks,
           \A u \in Tasks \ {t} : task'[u] = task[u] /\ (u \in using' <=> u \in using),
           \A m \in Mints : mintLock'[m] = mintLock[m] \/ {mintLock'[m], mintLock[m]} \subseteq {t, Nobody},
           clickhouseLock' = clickhouseLock \/ {clickhouseLock', clickhouseLock} \subseteq {t, Nobody}
    PROVE  \A u \in Tasks \ {t} : HoldsRight(u)'
<1> SUFFICES ASSUME NEW u \in Tasks \ {t}
             PROVE  HoldsRight(u)'
    OBVIOUS
<1>1. HoldsRight(u) /\ u # Nobody /\ task'[u] = task[u] /\ (u \in using' <=> u \in using)
    BY DEF LockInv
<1>2. \A m \in Mints : mintLock'[m] = u <=> mintLock[m] = u
    BY <1>1
<1>3. clickhouseLock' = u <=> clickhouseLock = u
    BY <1>1
<1> QED
    BY <1>1, <1>2, <1>3 DEF HoldsRight, UsesClient

LEMMA RunKeepsLocks ==
    ASSUME ScorerTypeOK, LockInv, NEW t \in Tasks, Run(t)
    PROVE  LockInv'
<1>1. /\ \A u \in Tasks \ {t} : task'[u] = task[u] /\ (u \in using' <=> u \in using)
      /\ task'[t].mint = task[t].mint
    BY RunKinds
<1>2. HoldsRight(t) /\ t # Nobody /\ task[t].mint \in Mints /\ mintLock \in [Mints -> Tasks \cup {Nobody}]
    BY DEF LockInv, ScorerTypeOK, Task
<1> DEFINE Keeps == /\ \A m \in Mints : \/ mintLock'[m] = mintLock[m]
                                        \/ {mintLock'[m], mintLock[m]} \subseteq {t, Nobody}
                    /\ \/ clickhouseLock' = clickhouseLock
                       \/ {clickhouseLock', clickhouseLock} \subseteq {t, Nobody}
                    /\ HoldsRight(t)'
<1> SUFFICES Keeps
  <2>1. Keeps => \A u \in Tasks \ {t} : HoldsRight(u)'
      BY <1>1, OthersHold
  <2> QED
      BY <2>1 DEF LockInv
<1> USE DEF HoldsRight, UsesClient, Moves, Ended, Unlock, ReleaseClient
<1>3. CASE Starts(t)
    BY <1>1, <1>2, <1>3 DEF Starts, Queries, Opening
<1>4. CASE GoesOn(t)
    BY <1>1, <1>2, <1>4 DEF GoesOn, Locked
<1>5. CASE LeavesClient(t)
    BY <1>1, <1>2, <1>5 DEF LeavesClient, Locked
<1>6. CASE LeavesBoth(t)
  <2>1. mintLock[task[t].mint] = t /\ mintLock' = [mintLock EXCEPT ![task[t].mint] = Nobody]
        /\ task'[t].pc \notin Locked
      BY <1>2, <1>6 DEF LeavesBoth, Locked
  <2> QED
      BY <1>1, <1>2, <1>6, <2>1 DEF LeavesBoth
<1>7. CASE NeedsNoLock(t)
    BY <1>1, <1>2, <1>7 DEF NeedsNoLock, Locked, Queries
<1>8. CASE EntersMint(t)
    BY <1>1, <1>2, <1>8 DEF EntersMint, Locked, Queries
<1> QED
    BY <1>3, <1>4, <1>5, <1>6, <1>7, <1>8, RunKinds

LEMMA LockInvInit == ScorerInit => LockInv
    BY DEF ScorerInit, SessionInit, NewTask, LockInv, HoldsRight, UsesClient, Locked

LEMMA LockInvMoves == ScorerTypeOK /\ LockInv /\ LockMoves => LockInv'
<1> SUFFICES ASSUME ScorerTypeOK, LockInv, LockMoves
             PROVE  LockInv'
    OBVIOUS
<1>1. ASSUME NEW t \in Tasks, NEW m \in Mints, Spawn(t, m),
             \A u \in Tasks : u \in using' <=> u \in using
      PROVE  LockInv'
  <2>1. task[t].pc = "idle" /\ task'[t].pc = "pumped" /\ \A u \in Tasks \ {t} : task'[u] = task[u]
      BY <1>1 DEF Spawn, NewTask, ScorerTypeOK
  <2>2. mintLock' = mintLock /\ clickhouseLock' = clickhouseLock
      BY <1>1 DEF Spawn, locks
  <2>3. HoldsRight(t)'
      BY <1>1, <2>1, <2>2 DEF LockInv, HoldsRight, UsesClient, Locked, Queries
  <2>4. \A u \in Tasks \ {t} : HoldsRight(u)'
      BY <1>1, <2>1, <2>2, OthersHold
  <2> QED
      BY <2>3, <2>4 DEF LockInv
<1>2. CASE (Expire \/ UNCHANGED scorer) /\ \A u \in Tasks : u \in using' <=> u \in using
  <2>1. task' = task /\ mintLock' = mintLock /\ clickhouseLock' = clickhouseLock
      BY <1>2 DEF Expire, scorer, locks
  <2> QED
      BY <1>2, <2>1 DEF LockInv, HoldsRight, UsesClient
<1>3. ASSUME NEW newModel \in Models, NEW landed \in BOOLEAN, ScorerRestart(newModel, landed), using' = {}
      PROVE  LockInv'
  <2>1. \A t \in Tasks : task'[t].pc \in {"idle", "done"}
      BY <1>3 DEF ScorerRestart, ScorerTypeOK, Task
  <2>2. (\A m \in Mints : mintLock'[m] = Nobody) /\ clickhouseLock' = Nobody
      BY <1>3 DEF ScorerRestart
  <2> QED
      BY <1>3, <2>1, <2>2 DEF LockInv, HoldsRight, UsesClient, Locked
<1> QED
    BY <1>1, <1>2, <1>3, RunKeepsLocks DEF LockMoves

\* The steps of the scorer alone.
LEMMA ScorerLockMoves == [ScorerNext]_scorerVars => LockMoves
    BY DEF ScorerNext, scorerVars, session, LockMoves, Expire, SessionRestart

\* Who is waited for does not wait, or it waits for one that does not.
NoDeadlock ==
    \A t \in Tasks :
        Waits(t) => \E u \in Tasks : task[u].pc \notin {"idle", "done"} /\ ~Waits(u)

LEMMA LocksThenNoDeadlock == ScorerTypeOK /\ LockInv => NoDeadlock
<1> SUFFICES ASSUME ScorerTypeOK, LockInv, NEW t \in Tasks, Waits(t)
             PROVE  \E u \in Tasks : task[u].pc \notin {"idle", "done"} /\ ~Waits(u)
    BY DEF NoDeadlock
<1>1. \A u \in Tasks : HoldsRight(u) /\ task[u].mint \in Mints
    BY DEF LockInv, ScorerTypeOK, Task
<1>2. CASE clickhouseLock # Nobody
  <2>1. PICK u \in Tasks : u = clickhouseLock
      BY <1>2 DEF ScorerTypeOK
  <2>2. UsesClient(u) /\ (u \in using => task[u].pc \in Queries)
      BY <1>1, <2>1 DEF HoldsRight
  <2>3. task[u].pc \notin {"idle", "done"} /\ ~Waits(u)
      BY <2>2 DEF UsesClient, Queries, Opening, Waits
  <2> QED
      BY <2>3
<1>3. CASE clickhouseLock = Nobody
  <2>1. mintLock[task[t].mint] # Nobody
      BY <1>3 DEF Waits
  <2>2. PICK u \in Tasks : u = mintLock[task[t].mint]
      BY <1>1, <2>1 DEF ScorerTypeOK
  <2>3. task[u].pc \in Locked
      BY <1>1, <2>2 DEF HoldsRight
  <2>4. task[u].pc \notin {"idle", "done"} /\ ~Waits(u)
      BY <1>3, <2>3 DEF Locked, Waits
  <2> QED
      BY <2>4
<1> QED
    BY <1>2, <1>3

\* A task holds its mint's lock just while it makes the queries under it and
\* the client's lock just while it needs it, however it leaves a section and
\* whenever the process restarts.
THEOREM LocksAreLeft == ScorerSpec => []LockInv
    BY ScorerInitType, ScorerTypeNext, LockInvInit, ScorerLockMoves, LockInvMoves, PTL DEF ScorerSpec

\* Tasks that wait for locks never all wait for each other, for any number of
\* tasks and mints: some task has its locks and waits for an answer only.
THEOREM TasksNeverDeadlock == ScorerSpec => []NoDeadlock
    BY ScorerTypeCorrect, LocksAreLeft, LocksThenNoDeadlock, PTL

-----------------------------------------------------------------------------
(***************************************************************************)
(* How far a task is.  Every step of its own brings it closer to its end   *)
(* and no step of another takes it back.                                   *)
(***************************************************************************)
Stage == [idle |-> 0, pumped |-> 1, dead |-> 2, claude |-> 3, lock |-> 4, recent |-> 5,
          high |-> 6, insert |-> 7, verify |-> 8, alert |-> 9, done |-> 10]

Age(t) ==
    IF task[t].pc = "idle" THEN 0
    ELSE 2 * Stage[task[t].pc] + task[t].attempt + (IF t \in using THEN 1 ELSE 0)

\* Of a step.
TasksAge == \A t \in Tasks : Age(t)' >= Age(t) /\ (Run(t) => Age(t)' > Age(t))

AgesBounded == \A t \in Tasks : Age(t) <= 20 + RetryAttempts

LEMMA Stages11 ==
    /\ \A pc \in PCs : Stage[pc] \in Nat /\ Stage[pc] <= 10 /\ (pc # "done" => Stage[pc] <= 9)
    /\ Stage["idle"] = 0 /\ Stage["pumped"] = 1 /\ Stage["dead"] = 2 /\ Stage["claude"] = 3
    /\ Stage["lock"] = 4 /\ Stage["recent"] = 5 /\ Stage["high"] = 6 /\ Stage["insert"] = 7
    /\ Stage["verify"] = 8 /\ Stage["alert"] = 9 /\ Stage["done"] = 10
    BY DEF Stage, PCs, Queries

\* The numbers an age is made of.
LEMMA AgeParts ==
    ASSUME ScorerTypeOK, NEW t \in Tasks
    PROVE  /\ task[t].pc \in PCs /\ Stage[task[t].pc] \in Nat /\ Stage[task[t].pc] <= 10
           /\ task[t].pc # "done" => Stage[task[t].pc] <= 9
           /\ task[t].attempt \in Nat \ {0} /\ task[t].attempt <= RetryAttempts
           /\ RetryAttempts \in Nat /\ Age(t) \in Nat
<1>1. task[t].pc \in PCs /\ task[t].attempt \in 1 .. RetryAttempts
    BY DEF ScorerTypeOK, Task
<1>2. Stage[task[t].pc] \in Nat /\ Stage[task[t].pc] <= 10 /\ (task[t].pc # "done" => Stage[task[t].pc] <= 9)
    BY <1>1, Stages11
<1>3. PICK s \in Nat : s = Stage[task[t].pc]
    BY <1>2
<1>4. PICK a \in Nat : a = task[t].attempt
    BY <1>1
<1>5. Age(t) = IF task[t].pc = "idle" THEN 0 ELSE 2 * s + a + (IF t \in using THEN 1 ELSE 0)
    BY <1>3, <1>4 DEF Age
<1>6. Age(t) \in Nat
    BY <1>5
<1> QED
    BY <1>1, <1>2, <1>6

AgesNatural == \A t \in Tasks : Age(t) \in Nat

LEMMA AgesAreNatural == ScorerTypeOK => AgesNatural
    BY AgeParts DEF AgesNatural

LEMMA AgesNaturalNext == ScorerTypeOK' => AgesNatural'
    BY AgesAreNatural, PTL

\* What is to be compared when a task that was under way takes a step.
LEMMA Older ==
    ASSUME ScorerTypeOK, ScorerTypeOK', NEW t \in Tasks, task[t].pc # "idle", task'[t].pc # "idle",
           \/ /\ Stage[task'[t].pc] > Stage[task[t].pc] /\ task'[t].attempt = task[t].attempt
           \/ /\ Stage[task'[t].pc] = Stage[task[t].pc] /\ task'[t].attempt > task[t].attempt
              /\ t \in using' <=> t \in using
           \/ /\ Stage[task'[t].pc] = Stage[task[t].pc] /\ task'[t].attempt = task[t].attempt
              /\ t \in using' /\ t \notin using
    PROVE  Age(t)' > Age(t)
<1>1. /\ task[t].pc \in PCs /\ task'[t].pc \in PCs
      /\ task[t].attempt \in 1 .. RetryAttempts /\ task'[t].attempt \in 1 .. RetryAttempts
    BY DEF ScorerTypeOK, Task
<1>2. PICK s \in Nat : s = Stage[task[t].pc]
    BY <1>1, Stages11
<1>3. PICK a \in Nat : a = task[t].attempt
    BY <1>1
<1>4. PICK s1 \in Nat : s1 = Stage[task'[t].pc]
    BY <1>1, Stages11
<1>5. PICK a1 \in Nat : a1 = task'[t].attempt
    BY <1>1
<1>6. /\ Age(t) = 2 * s + a + (IF t \in using THEN 1 ELSE 0)
      /\ Age(t)' = 2 * s1 + a1 + (IF t \in using' THEN 1 ELSE 0)
    BY <1>2, <1>3, <1>4, <1>5 DEF Age
<1>7. \/ s1 > s /\ a1 = a
      \/ s1 = s /\ a1 > a /\ (t \in using' <=> t \in using)
      \/ s1 = s /\ a1 = a /\ t \in using' /\ t \notin using
    BY <1>2, <1>3, <1>4, <1>5
<1> QED
    BY <1>6, <1>7

LEMMA RunAges ==
    ASSUME ScorerTypeOK, ScorerTypeOK', NEW t \in Tasks, Run(t)
    PROVE  Age(t)' > Age(t) /\ \A u \in Tasks \ {t} : Age(u)' = Age(u)
<1>1. \A u \in Tasks \ {t} : Age(u)' = Age(u)
    BY RunKinds DEF Age
<1>2. task'[t].attempt = task[t].attempt \/ Moves(t, "claude", "claude")
    BY RunKinds
<1> SUFFICES Age(t)' > Age(t)
    BY <1>1
<1> USE DEF Ended, Moves
<1>3. CASE Starts(t)
  <2>1. task'[t].pc = task[t].pc /\ task[t].pc \notin {"claude", "idle"}
      BY <1>3 DEF Starts, Queries
  <2> QED
      BY <1>2, <1>3, <2>1, Older DEF Starts
<1>4. CASE GoesOn(t) \/ LeavesClient(t) \/ LeavesBoth(t)
  <2>1. Stage[task'[t].pc] > Stage[task[t].pc] /\ task[t].pc \notin {"claude", "idle"} /\ task'[t].pc # "idle"
      BY <1>4, Stages11 DEF GoesOn, LeavesClient, LeavesBoth
  <2> QED
      BY <1>2, <2>1, Older
<1>5. CASE NeedsNoLock(t) \/ EntersMint(t)
  <2>1. t \in using' <=> t \in using
      BY <1>5 DEF NeedsNoLock, EntersMint
  <2>2. CASE Moves(t, "claude", "claude")
    <3>1. task'[t].attempt = task[t].attempt + 1 /\ task[t].attempt \in Nat
        BY <1>5, <2>2, AgeParts DEF NeedsNoLock, EntersMint
    <3>2. task'[t].attempt > task[t].attempt
        BY <3>1
    <3> QED
        BY <2>1, <2>2, <3>2, Older
  <2>3. CASE ~Moves(t, "claude", "claude")
    <3>1. Stage[task'[t].pc] > Stage[task[t].pc] /\ task[t].pc # "idle" /\ task'[t].pc # "idle"
        BY <1>5, <2>3, Stages11 DEF NeedsNoLock, EntersMint
    <3> QED
        BY <1>2, <2>3, <3>1, Older
  <2> QED
      BY <2>2, <2>3
<1> QED
    BY <1>3, <1>4, <1>5, RunKinds

LEMMA StepsAge == ScorerTypeOK /\ ScorerTypeOK' /\ LockInv /\ LockMoves => TasksAge
<1> SUFFICES ASSUME ScorerTypeOK, ScorerTypeOK', LockInv, LockMoves, NEW t \in Tasks
             PROVE  Age(t)' >= Age(t) /\ (Run(t) => Age(t)' > Age(t))
    BY DEF TasksAge
<1>1. Age(t) \in Nat /\ Age(t)' \in Nat
    BY AgesAreNatural, AgesNaturalNext DEF AgesNatural
<1>2. Run(t) => Age(t)' > Age(t)
    BY RunAges
<1>3. ASSUME NEW u \in Tasks, Run(u)
      PROVE  Age(t)' >= Age(t)
    BY <1>1, <1>2, <1>3, RunAges
<1>4. ASSUME NEW u \in Tasks, NEW m \in Mints, Spawn(u, m), \A v \in Tasks : v \in using' <=> v \in using
      PROVE  Age(t)' >= Age(t)
  <2>1. CASE u = t
    <3>1. Age(t) = 0
        BY <1>4, <2>1 DEF Spawn, Age
    <3> QED
        BY <1>1, <3>1
  <2>2. CASE u # t
    <3>1. Age(t)' = Age(t)
        BY <1>4, <2>2 DEF Spawn, ScorerTypeOK, Age
    <3> QED
        BY <1>1, <3>1
  <2> QED
      BY <2>1, <2>2
<1>5. ASSUME Expire \/ UNCHANGED scorer, \A u \in Tasks : u \in using' <=> u \in using
      PROVE  Age(t)' >= Age(t)
  <2>1. Age(t)' = Age(t)
      BY <1>5 DEF Expire, scorer, Age
  <2> QED
      BY <1>1, <2>1
<1>6. ASSUME NEW newModel \in Models, NEW landed \in BOOLEAN, ScorerRestart(newModel, landed), using' = {}
      PROVE  Age(t)' >= Age(t)
  <2>1. task'[t] = IF task[t].pc \in {"idle", "done"} THEN task[t]
                   ELSE [task[t] EXCEPT !.pc = "done", !.end = "killed"]
      BY <1>6 DEF ScorerRestart
  <2>2. CASE task[t].pc \in {"idle", "done"}
    <3>1. t \notin using /\ t \notin using'
        BY <1>6, <2>2 DEF LockInv, HoldsRight, Queries
    <3>2. Age(t)' = Age(t)
        BY <2>1, <2>2, <3>1 DEF Age
    <3> QED
        BY <1>1, <3>2
  <2>3. CASE task[t].pc \notin {"idle", "done"}
    <3>1. task'[t].pc = "done" /\ task'[t].attempt = task[t].attempt
        BY <2>1, <2>3 DEF ScorerTypeOK, Task
    <3>2. Stage[task'[t].pc] > Stage[task[t].pc]
        BY <2>3, <3>1, AgeParts, Stages11
    <3>3. Age(t)' > Age(t)
        BY <2>3, <3>1, <3>2, Older
    <3> QED
        BY <1>1, <3>3
  <2> QED
      BY <2>2, <2>3
<1> QED
    BY <1>2, <1>3, <1>4, <1>5, <1>6 DEF LockMoves

LEMMA LocksThenBounded == ScorerTypeOK /\ LockInv => AgesBounded
<1> SUFFICES ASSUME ScorerTypeOK, LockInv, NEW t \in Tasks
             PROVE  Age(t) <= 20 + RetryAttempts
    BY DEF AgesBounded
<1>1. t \in using => task[t].pc # "done"
    BY DEF LockInv, HoldsRight, Queries
<1>2. PICK s \in Nat : s = Stage[task[t].pc] /\ s <= 10 /\ (task[t].pc # "done" => s <= 9)
    BY AgeParts
<1>3. PICK a \in Nat : a = task[t].attempt /\ a <= RetryAttempts /\ RetryAttempts \in Nat
    BY AgeParts
<1>4. Age(t) = IF task[t].pc = "idle" THEN 0 ELSE 2 * s + a + (IF t \in using THEN 1 ELSE 0)
    BY <1>2, <1>3 DEF Age
<1> QED
    BY <1>1, <1>2, <1>3, <1>4

\* A task takes at most 20 + RetryAttempts steps of its own, whatever fails,
\* and what the others do or a restart does never takes it back.
THEOREM TasksMoveOn == ScorerSpec => [][TasksAge]_scorerVars /\ []AgesBounded
<1>1. ScorerTypeOK /\ LockInv /\ [ScorerNext]_scorerVars => TasksAge
    BY ScorerTypeNext, ScorerLockMoves, StepsAge
<1> QED
    BY <1>1, ScorerTypeCorrect, LocksAreLeft, LocksThenBounded, PTL DEF ScorerSpec
=============================================================================
