--------------------------- MODULE PipelineProofs ---------------------------
(***************************************************************************)
(* Proofs about ScoringPipeline: what the profiler keeps for itself, and   *)
(* what the scorer keeps although the profiler disturbs its queries.  For  *)
(* any number of tasks, mints, models and rows of pool_creates, any number *)
(* of failures and any number of restarts.                                 *)
(***************************************************************************)
EXTENDS ScoringPipeline, AlertDedupProofs, FiniteSetTheorems

USE PipelineAssumption, ProfilerAssumption

-----------------------------------------------------------------------------
(* Types *)

\* While the profiler is about a row there is one; ready stays finite, so the
\* LIMIT of a cycle is a number.
PipelineTypes ==
    /\ PipelineTypeOK
    /\ IsFiniteSet(ready)
    /\ stage \in {"exists", "measure", "write"} => queue # <<>>
    /\ stage \in {"pending", "exists", "sleep"} => measured = 0
    /\ stage = "measure" => measured < Measures

LEMMA PipelineTypesInit == Init => PipelineTypes
<1> SUFFICES ASSUME Init PROVE PipelineTypes
    OBVIOUS
<1>1. ScorerTypeOK
    BY ScorerInitType DEF Init
<1>2. IsFiniteSet(ready)
    BY FS_EmptySet DEF Init, ProfilerInit
<1> QED
    BY <1>1, <1>2 DEF Init, ProfilerInit, ScorerInit, SessionInit, PipelineTypes, PipelineTypeOK, Stages

LEMMA SessionKept ==
    ASSUME using \subseteq Tasks \cup {Profiler}, clashed \subseteq using, fails \in Nat,
           NEW a \in Tasks \cup {Profiler}, Begins(a) \/ Returns(a) \/ Raises(a)
    PROVE  using' \subseteq Tasks \cup {Profiler} /\ clashed' \subseteq using' /\ fails' \in Nat
    BY DEF Begins, Returns, Raises

\* The mint in work is a mint; so is the one that is handed over.
LEMMA MintType ==
    ASSUME PipelineTypes, stage \in {"exists", "measure", "write"}
    PROVE  Mint \in Mints /\ Head(queue) \in Creates /\ Tail(queue) \in Seq(Creates)
<1>1. queue \in Seq(Creates) /\ queue # <<>>
    BY DEF PipelineTypes, PipelineTypeOK
<1>2. Head(queue) \in Creates /\ Tail(queue) \in Seq(Creates)
    BY <1>1
<1> QED
    BY <1>2 DEF Mint

\* Inserting a profile keeps the mints there are and adds its own.
LEMMA Inserted ==
    ASSUME PipelineTypes, stage = "write", NEW b \in BOOLEAN, InsertProfile(b)
    PROVE  /\ profiles' \in Seq([mint : Mints, whole : BOOLEAN])
           /\ Profiled' = Profiled \cup {Mint}
<1> DEFINE row == Profile(b)
<1>1. Mint \in Mints /\ profiles \in Seq([mint : Mints, whole : BOOLEAN])
    BY MintType DEF PipelineTypes, PipelineTypeOK
<1>2. row \in [mint : Mints, whole : BOOLEAN] /\ row.mint = Mint
    BY <1>1 DEF Profile
<1> HIDE DEF row
<1>3. CASE Mint \in Profiled
  <2>1. profiles' = profiles
      BY <1>3 DEF InsertProfile, NotExists
  <2> QED
      BY <1>1, <1>3, <2>1 DEF Profiled
<1>4. CASE Mint \notin Profiled
  <2>1. profiles' = Append(profiles, row)
      BY <1>4 DEF InsertProfile, NotExists, row
  <2>2. /\ DOMAIN profiles = 1 .. Len(profiles) /\ Len(profiles) \in Nat
        /\ DOMAIN profiles' = 1 .. Len(profiles) + 1
        /\ \A i \in 1 .. Len(profiles) : profiles'[i] = profiles[i]
        /\ profiles'[Len(profiles) + 1] = row
      BY <1>1, <1>2, <2>1
  <2>3. Profiled' = Profiled \cup {Mint}
      BY <1>2, <2>2 DEF Profiled
  <2> QED
      BY <1>1, <1>2, <2>1, <2>3
<1> QED
    BY <1>3, <1>4

\* The profiler finds a task to hand a mint to.
LEMMA NewTaskFound ==
    ASSUME \E t \in Tasks : task[t].pc = "idle"
    PROVE  NewTaskId \in Tasks /\ task[NewTaskId].pc = "idle"
    BY DEF NewTaskId

\* What HandOver and WriteProfileFails leave of the session.
LEMMA Disturbed ==
    ASSUME PipelineTypes, DisturbsScorer, fails' = fails \/ fails' = fails + 1
    PROVE  using' = using /\ clashed' \subseteq using' /\ fails' \in Nat
<1>1. fails \in Nat /\ clashed \subseteq using
    BY DEF PipelineTypes, PipelineTypeOK, ScorerTypeOK
<1> QED
    BY <1>1 DEF DisturbsScorer

\* Every step of the pipeline is for the scorer one of its own, or none.
LEMMA PipelineMoves == PipelineTypes /\ [Next]_vars => ScorerMoves
<1> SUFFICES ASSUME PipelineTypes, [Next]_vars
             PROVE  ScorerMoves
    OBVIOUS
<1>0. fails \in Nat
    BY DEF PipelineTypes, PipelineTypeOK, ScorerTypeOK
<1>1. CASE HandOver
  <2>1. stage = "write" /\ fails' \in Nat
    <3>1. /\ stage = "write" /\ DisturbsScorer
          /\ fails' = fails \/ fails' = fails + 1
        BY <1>1 DEF HandOver, WriteProfile
    <3> QED
        BY <3>1, Disturbed
  <2>2. \E t \in Tasks, m \in Mints : Spawn(t, m)
    <3>1. Spawn(NewTaskId, Mint) /\ \E t \in Tasks : task[t].pc = "idle"
        BY <1>1 DEF HandOver, HandsOver
    <3> QED
        BY <2>1, <3>1, NewTaskFound, MintType
  <2> QED
      BY <2>1, <2>2 DEF ScorerMoves
<1>2. CASE ProfilerStep /\ UNCHANGED scorer
  <2>1. fails' \in Nat
    <3>1. CASE ProfilerQueries
      <4>1. Begins(Profiler) \/ Returns(Profiler) \/ Raises(Profiler)
          BY <3>1 DEF ProfilerQueries, ProfilerQuery, PendingMints, PendingMintsFail,
             ExistingProfile, ExistingProfileFails, MeasureReturns, MeasureFails
      <4> QED
          BY <1>0, <4>1 DEF Begins, Returns, Raises
    <3>2. CASE \E stored \in BOOLEAN : WriteProfileFails(stored)
        BY <1>0, <3>2 DEF WriteProfileFails
    <3>3. CASE UNCHANGED session
        BY <1>0, <3>3 DEF session
    <3> QED
        BY <1>2, <3>1, <3>2, <3>3 DEF ProfilerStep
  <2> QED
      BY <1>2, <2>1 DEF ScorerMoves
<1>3. CASE Clock /\ UNCHANGED scorer
    BY <1>0, <1>3 DEF Clock, session, ScorerMoves
<1>4. ASSUME NEW t \in Tasks, Run(t)
      PROVE  ScorerMoves
    BY <1>0, <1>4, RunSession, SessionType DEF ScorerMoves, session
<1>5. CASE Expire
    BY <1>0, <1>5 DEF Expire, session, ScorerMoves
<1>6. CASE Restart
    BY <1>0, <1>6 DEF Restart, SessionRestart, ScorerMoves
<1>7. CASE UNCHANGED vars
    BY <1>0, <1>7 DEF vars, session, ScorerMoves
<1> QED
    BY <1>1, <1>2, <1>3, <1>4, <1>5, <1>6, <1>7 DEF Next

\* The state of the profiler that is about to look for rows, or about the next
\* one of them, or done with them.
LEMMA NextRowTypes ==
    ASSUME PipelineTypes, stage \in {"exists", "measure", "write"}, NextRow
    PROVE  /\ stage' \in {"sleep", "exists"} /\ queue' \in Seq(Creates)
           /\ stage' = "exists" => queue' # <<>>
           /\ measured' = 0 /\ whole' \in BOOLEAN
    BY MintType DEF NextRow

LEMMA PipelineTypesNext == PipelineTypes /\ [Next]_vars => PipelineTypes'
<1> SUFFICES ASSUME PipelineTypes, [Next]_vars
             PROVE  PipelineTypes'
    OBVIOUS
<1> USE DEF Stages
<1> DEFINE
      ProfilerOK ==
        /\ stage \in Stages /\ queue \in Seq(Creates) /\ measured \in 0 .. Measures
        /\ whole \in BOOLEAN
        /\ stage \in {"exists", "measure", "write"} => queue # <<>>
        /\ stage \in {"pending", "exists", "sleep"} => measured = 0
        /\ stage = "measure" => measured < Measures
      RowsOK ==
        /\ ready \subseteq Creates /\ late \subseteq Creates \ ready /\ IsFiniteSet(ready)
        /\ unchecked \subseteq Mints
        /\ profiles \in Seq([mint : Mints, whole : BOOLEAN])
      SessionOK == using \subseteq Tasks \cup {Profiler} /\ clashed \subseteq using
<1>0. /\ ProfilerOK /\ RowsOK /\ SessionOK /\ ScorerTypeOK
      /\ fails \in Nat /\ Measures \in Nat \ {0}
    BY DEF PipelineTypes, PipelineTypeOK, ScorerTypeOK
<1>1. ScorerTypeOK'
    BY <1>0, PipelineMoves, ScorerTypeMoves
<1>2. SUFFICES ProfilerOK' /\ RowsOK' /\ SessionOK'
    BY <1>1, <1>2 DEF PipelineTypes, PipelineTypeOK
<1>3. CASE HandOver
  <2> PICK history \in BOOLEAN, updated \in BOOLEAN : WriteProfile(history, updated)
      BY <1>3 DEF HandOver
  <2>1. stage = "write" /\ NextRow /\ DisturbsScorer /\ InsertProfile(whole /\ history)
      BY DEF WriteProfile
  <2>2. ProfilerOK'
      BY <1>0, <2>1, NextRowTypes
  <2>3. RowsOK'
    <3>1. (whole /\ history) \in BOOLEAN
        BY <1>0
    <3>2. profiles' \in Seq([mint : Mints, whole : BOOLEAN])
        BY <2>1, <3>1, Inserted
    <3> QED
        BY <1>0, <3>2 DEF WriteProfile
  <2>4. SessionOK'
      BY <1>0, <2>1, Disturbed DEF DisturbsScorer
  <2> QED
      BY <2>2, <2>3, <2>4
<1>4. CASE ProfilerQueries
  <2>1. SessionOK'
    <3>1. Begins(Profiler) \/ Returns(Profiler) \/ Raises(Profiler)
        BY <1>4 DEF ProfilerQueries, ProfilerQuery, PendingMints, PendingMintsFail,
           ExistingProfile, ExistingProfileFails, MeasureReturns, MeasureFails
    <3> QED
        BY <1>0, <3>1, SessionKept
  <2>2. CASE ProfilerQuery
      BY <1>0, <2>1, <2>2 DEF ProfilerQuery, profiler
  <2>3. ASSUME NEW rows \in Selections, PendingMints(rows)
        PROVE  ProfilerOK' /\ RowsOK'
    <3>1. rows \in Seq(Creates)
      <4>1. IsFiniteSet(Pending) /\ Pending \subseteq Creates
          BY <1>0, FS_Subset DEF Pending
      <4>2. Cardinality(Pending) \in Nat
          BY <4>1, FS_CardinalityType
      <4>3. \E size \in Nat : rows \in [1 .. size -> Pending]
          BY <4>2 DEF Selections
      <4> QED
          BY <4>1, <4>3
    <3> QED
        BY <1>0, <2>3, <3>1 DEF PendingMints
  <2>4. CASE PendingMintsFail
      BY <1>0, <2>1, <2>4 DEF PendingMintsFail, AfterCycleError
  <2>5. CASE ExistingProfile
    <3>1. CASE NextRow
        BY <1>0, <2>1, <2>5, <3>1, NextRowTypes DEF ExistingProfile
    <3>2. CASE Measure
        BY <1>0, <2>1, <2>5, <3>2 DEF ExistingProfile, Measure
    <3> QED
        BY <2>5, <3>1, <3>2 DEF ExistingProfile
  <2>6. CASE ExistingProfileFails
    <3>1. Mint \in Mints
        BY <2>6, MintType DEF ExistingProfileFails
    <3> QED
        BY <1>0, <2>1, <2>6, <3>1 DEF ExistingProfileFails, Measure
  <2>7. ASSUME NEW complete \in BOOLEAN, Measured(complete)
        PROVE  ProfilerOK' /\ RowsOK'
      BY <1>0, <2>7 DEF Measured
  <2> QED
      BY <1>4, <2>1, <2>2, <2>3, <2>4, <2>5, <2>6, <2>7
      DEF ProfilerQueries, MeasureReturns, MeasureFails
<1>5. ASSUME NEW stored \in BOOLEAN, WriteProfileFails(stored)
      PROVE  ProfilerOK' /\ RowsOK' /\ SessionOK'
  <2>1. /\ stage = "write" /\ NextRow /\ DisturbsScorer
        /\ InsertProfile(whole) \/ profiles' = profiles
      BY <1>5 DEF WriteProfileFails
  <2>2. profiles' \in Seq([mint : Mints, whole : BOOLEAN])
      BY <1>0, <2>1, Inserted
  <2>3. ProfilerOK'
      BY <1>0, <2>1, NextRowTypes
  <2>4. RowsOK'
      BY <1>0, <1>5, <2>2 DEF WriteProfileFails
  <2>5. SessionOK'
      BY <1>0, <2>1 DEF DisturbsScorer
  <2> QED
      BY <2>3, <2>4, <2>5
<1>6. CASE Wakes /\ UNCHANGED session
    BY <1>0, <1>6 DEF Wakes, session
<1>7. CASE Clock
  <2> PICK c \in Creates : Ripens(c) \/ Ages(c)
      BY <1>7 DEF Clock
  <2>1. UNCHANGED <<using, clashed>>
      BY <1>7 DEF Clock, session
  <2>2. UNCHANGED <<stage, queue, measured, whole, profiles, unchecked>>
      BY DEF Ripens, Ages
  <2>3. ready' = ready \cup {c} \/ ready' = ready \ {c}
      BY DEF Ripens, Ages
  <2>4. IsFiniteSet(ready')
      BY <1>0, <2>3, FS_AddElement, FS_RemoveElement
  <2>5. ready' \subseteq Creates /\ late' \subseteq Creates \ ready'
      BY <1>0 DEF Ripens, Ages
  <2> QED
      BY <1>0, <2>1, <2>2, <2>4, <2>5
<1>8. ASSUME NEW t \in Tasks, Run(t), UNCHANGED profiler
      PROVE  ProfilerOK' /\ RowsOK' /\ SessionOK'
    BY <1>0, <1>8, RunSession, SessionKept DEF profiler, session
<1>9. CASE Expire /\ UNCHANGED profiler
    BY <1>0, <1>9 DEF Expire, profiler, session
<1>10. ASSUME NEW landed \in BOOLEAN, ProfilerRestart(landed), SessionRestart
       PROVE  ProfilerOK' /\ RowsOK' /\ SessionOK'
  <2>1. profiles' = profiles \/ (stage = "write" /\ InsertProfile(whole))
      BY <1>10 DEF ProfilerRestart
  <2>2. profiles' \in Seq([mint : Mints, whole : BOOLEAN])
      BY <1>0, <2>1, Inserted
  <2> QED
      BY <1>0, <1>10, <2>2 DEF ProfilerRestart, SessionRestart
<1>11. CASE UNCHANGED vars
    BY <1>0, <1>11 DEF vars, profiler, session
<1> QED
    BY <1>3, <1>4, <1>5, <1>6, <1>7, <1>8, <1>9, <1>10, <1>11 DEF Next, ProfilerStep, Restart

\* The scorer and the profiler, put together, keep their types.
THEOREM PipelineTypeCorrect == Spec => []PipelineTypeOK
<1>1. PipelineTypes => PipelineTypeOK
    BY DEF PipelineTypes
<1> QED
    BY <1>1, PipelineTypesInit, PipelineTypesNext, PTL DEF Spec

-----------------------------------------------------------------------------
(***************************************************************************)
(* One profile, one score.  The profiler alone inserts profiles, so what   *)
(* its check found still holds when it inserts, however long the measuring *)
(* takes; and only a mint with a profile has a task.  A second task is     *)
(* therefore made only for a mint whose check failed, or was not followed  *)
(* up before a restart.                                                    *)
(***************************************************************************)
\* Only a failure or a kill comes between a profile and its first task.
TaskMade ==
    \A i \in DOMAIN profiles :
        \/ \E t \in Started : task[t].mint = profiles[i].mint
        \/ restarts + fails > 0

PipelineInv ==
    /\ PipelineTypes
    /\ \A t \in Started : task[t].mint \in Profiled
    /\ stage \in {"measure", "write"} /\ Mint \in Profiled => Mint \in unchecked
    /\ ScoredTwiceUnchecked
    /\ TaskMade

\* The tasks that are there and their mints.
SameTasks ==
    \A t \in Tasks : /\ task'[t].pc = "idle" <=> task[t].pc = "idle"
                     /\ task'[t].mint = task[t].mint

LEMMA RunSameTasks ==
    ASSUME ScorerTypeOK, NEW t \in Tasks, Run(t)
    PROVE  SameTasks /\ restarts' = restarts
<1>0. task \in [Tasks -> Task] /\ task[t] \in Task
    BY DEF ScorerTypeOK
<1>1. restarts' = restarts
    BY DEF Run, Query, Call, StartQuery, Examples, ExamplesFail, RecentScore, RecentScoreFails,
       RecentHighScore, RecentHighScoreFails, Insert, InsertFails, Verify, VerifyFails,
       ClaudeAnswers, ClaudeGivesNothing, ClaudeRaises, LockMint, Alert
<1>2. ASSUME NEW p \in PCs \ {"idle"}, NEW e \in Ends, Goto(t, p) \/ Finish(t, e), task[t].pc # "idle"
      PROVE  SameTasks
    BY <1>0, <1>2 DEF Goto, Finish, SameTasks, Task
<1>3. CASE StartQuery(t)
    BY <1>0, <1>3 DEF StartQuery, SameTasks, Task
<1>4. CASE RecentHighScore(t) \/ RecentHighScoreFails(t)
    BY <1>0, <1>4 DEF RecentHighScore, RecentHighScoreFails, SameTasks, Task
<1>5. CASE Call(t)
  <2>1. ASSUME NEW verdict \in Answers, ClaudeAnswers(t, verdict)
        PROVE  SameTasks
      BY <1>0, <2>1 DEF ClaudeAnswers, SameTasks, Task
  <2>2. CASE ClaudeGivesNothing(t)
      BY <1>2, <2>2 DEF ClaudeGivesNothing, PCs, Ends
  <2>3. CASE ClaudeRaises(t)
    <3>1. CASE Finish(t, "no_answer")
        BY <1>2, <2>3, <3>1 DEF ClaudeRaises, PCs, Ends
    <3>2. CASE task' = [task EXCEPT ![t].attempt = @ + 1]
        BY <1>0, <2>3, <3>2 DEF ClaudeRaises, SameTasks, Task
    <3> QED
        BY <2>3, <3>1, <3>2 DEF ClaudeRaises
  <2> QED
      BY <1>1, <1>5, <2>1, <2>2, <2>3 DEF Call
<1>6. CASE \/ Examples(t) \/ ExamplesFail(t) \/ RecentScore(t) \/ RecentScoreFails(t)
           \/ Insert(t) \/ (\E stored \in BOOLEAN : InsertFails(t, stored))
           \/ Verify(t) \/ VerifyFails(t) \/ LockMint(t)
           \/ \E readable \in BOOLEAN : Alert(t, readable)
  <2>1. task[t].pc # "idle"
      BY <1>6 DEF Examples, ExamplesFail, RecentScore, RecentScoreFails, Insert, InsertFails,
         Verify, VerifyFails, LockMint, Alert
  <2>2. \/ \E p \in {"dead", "claude", "high", "verify", "alert", "recent"} : Goto(t, p)
        \/ \E e \in Ends : Finish(t, e)
      BY <1>6 DEF Examples, ExamplesFail, RecentScore, RecentScoreFails, Insert, InsertFails,
         Verify, VerifyFails, LockMint, Alert, Ends
  <2>3. {"dead", "claude", "high", "verify", "alert", "recent"} \subseteq PCs \ {"idle"}
      BY DEF PCs, Queries
  <2>4. \E p \in PCs \ {"idle"}, e \in Ends : Goto(t, p) \/ Finish(t, e)
      BY <2>2, <2>3 DEF Ends
  <2> QED
      BY <1>1, <1>2, <2>1, <2>4
<1> QED
    BY <1>1, <1>3, <1>4, <1>5, <1>6 DEF Run, Query

LEMMA RestartSameTasks ==
    ASSUME ScorerTypeOK, NEW newModel, NEW landed, ScorerRestart(newModel, landed)
    PROVE  SameTasks
<1> SUFFICES ASSUME NEW t \in Tasks
             PROVE  (task'[t].pc = "idle" <=> task[t].pc = "idle") /\ task'[t].mint = task[t].mint
    BY DEF SameTasks
<1>1. task'[t] = IF task[t].pc \in {"idle", "done"} THEN task[t]
                 ELSE [task[t] EXCEPT !.pc = "done", !.end = "killed"]
    BY DEF ScorerRestart
<1>2. task[t] \in Task
    BY DEF ScorerTypeOK
<1> QED
    BY <1>1, <1>2 DEF Task

\* A step that makes no task, and no profile except in a failure.
LEMMA NoNewTask ==
    ASSUME PipelineInv, PipelineTypes', SameTasks,
           \/ profiles' = profiles
           \/ /\ stage = "write" /\ restarts' + fails' > 0
              /\ \E b \in BOOLEAN : InsertProfile(b),
           restarts' + fails' > 0 \/ restarts + fails = 0,
           unchecked \subseteq unchecked',
           (stage' \in {"measure", "write"} /\ Mint' \in Profiled' => Mint' \in unchecked')
    PROVE  PipelineInv'
<1>1. Started' = Started /\ \A t \in Started : task'[t].mint = task[t].mint
    BY DEF SameTasks, Started
<1>2. Profiled \subseteq Profiled'
  <2>1. CASE profiles' = profiles
      BY <2>1 DEF Profiled
  <2>2. CASE stage = "write" /\ \E b \in BOOLEAN : InsertProfile(b)
      BY <2>2, Inserted DEF PipelineInv
  <2> QED
      BY <2>1, <2>2
<1>3. \A t \in Started' : task'[t].mint \in Profiled'
    BY <1>1, <1>2 DEF PipelineInv
<1>4. ScoredTwiceUnchecked'
    BY <1>1 DEF PipelineInv, ScoredTwiceUnchecked
<1>5. TaskMade'
  <2>1. CASE restarts' + fails' > 0
      BY <2>1 DEF TaskMade
  <2>2. CASE profiles' = profiles /\ restarts + fails = 0
      BY <1>1, <2>2 DEF PipelineInv, TaskMade
  <2> QED
      BY <2>1, <2>2
<1> QED
    BY <1>2, <1>3, <1>4, <1>5 DEF PipelineInv

\* The hand-over of a mint with its profile.
LEMMA HandOverKeeps == PipelineInv /\ PipelineTypes' /\ HandOver => PipelineInv'
<1> SUFFICES ASSUME PipelineInv, PipelineTypes', HandOver
             PROVE  PipelineInv'
    OBVIOUS
<1> PICK history \in BOOLEAN, updated \in BOOLEAN : WriteProfile(history, updated)
    BY DEF HandOver
<1>0. /\ PipelineTypes /\ ScorerTypeOK /\ whole \in BOOLEAN
    BY DEF PipelineInv, PipelineTypes, PipelineTypeOK
<1>1. /\ stage = "write" /\ stage' \in {"sleep", "exists"} /\ unchecked' = unchecked
      /\ InsertProfile(whole /\ history)
    BY DEF WriteProfile, NextRow
<1> PICK new \in Tasks : new = NewTaskId /\ task[new].pc = "idle"
    BY NewTaskFound DEF HandOver
<1> PICK m \in Mints : m = Mint
    BY <1>0, <1>1, MintType
<1>2. (whole /\ history) \in BOOLEAN
    BY <1>0
<1>3. Profiled' = Profiled \cup {m}
    BY <1>0, <1>1, <1>2, Inserted DEF PipelineInv
<1>4. Spawn(new, m)
    BY DEF HandOver, HandsOver
<1>5. /\ task'[new].pc = "pumped" /\ task'[new].mint = m
      /\ \A t \in Tasks \ {new} : task'[t] = task[t]
    BY <1>0, <1>4 DEF Spawn, NewTask, ScorerTypeOK
<1>6. Started' = Started \cup {new} /\ new \notin Started
    BY <1>5 DEF Started
<1>7. \A t \in Started' : task'[t].mint \in Profiled'
    BY <1>3, <1>5, <1>6 DEF PipelineInv, Started
<1>8. ScoredTwiceUnchecked'
  <2>1. \A t \in Started : task[t].mint = m => m \in unchecked
      BY <1>1 DEF PipelineInv
  <2> SUFFICES ASSUME NEW t \in Started', NEW u \in Started', t # u, task'[t].mint = task'[u].mint
               PROVE  task'[t].mint \in unchecked'
      BY DEF ScoredTwiceUnchecked
  <2>2. CASE t # new /\ u # new
      BY <1>1, <1>5, <1>6, <2>2 DEF PipelineInv, ScoredTwiceUnchecked, Started
  <2>3. CASE t = new \/ u = new
      BY <1>1, <1>5, <1>6, <2>1, <2>3 DEF Started
  <2> QED
      BY <2>2, <2>3
<1>9. TaskMade'
  <2>1. /\ profiles \in Seq([mint : Mints, whole : BOOLEAN])
        /\ \/ profiles' = profiles
           \/ \E row \in [mint : Mints, whole : BOOLEAN] :
                  row.mint = m /\ profiles' = Append(profiles, row)
    <3>1. Profile(whole /\ history) \in [mint : Mints, whole : BOOLEAN]
        BY <1>2 DEF Profile
    <3>2. Profile(whole /\ history).mint = m
        BY DEF Profile
    <3> QED
        BY <1>0, <1>1, <3>1, <3>2 DEF InsertProfile, PipelineTypes, PipelineTypeOK
  <2>2. \A i \in DOMAIN profiles' :
            (i \in DOMAIN profiles /\ profiles'[i] = profiles[i]) \/ profiles'[i].mint = m
      BY <2>1
  <2>3. restarts' = restarts /\ (fails' = fails \/ fails' = fails + 1)
      BY <1>4 DEF Spawn, WriteProfile
  <2>4. restarts \in Nat /\ fails \in Nat
      BY <1>0 DEF ScorerTypeOK
  <2>5. \A t \in Started : task'[t].mint = task[t].mint /\ t \in Started'
      BY <1>5, <1>6 DEF Started
  <2>6. new \in Started' /\ task'[new].mint = m
      BY <1>5, <1>6
  <2>7. restarts + fails > 0 => restarts' + fails' > 0
      BY <2>3, <2>4
  <2> SUFFICES ASSUME NEW i \in DOMAIN profiles'
               PROVE  \/ \E t \in Started' : task'[t].mint = profiles'[i].mint
                      \/ restarts' + fails' > 0
      BY DEF TaskMade
  <2>8. CASE profiles'[i].mint = m
      BY <2>6, <2>8
  <2>9. CASE i \in DOMAIN profiles /\ profiles'[i] = profiles[i]
    <3>1. (\E t \in Started : task[t].mint = profiles[i].mint) \/ restarts + fails > 0
        BY <2>9 DEF PipelineInv, TaskMade
    <3> QED
        BY <2>5, <2>7, <2>9, <3>1
  <2> QED
      BY <2>2, <2>8, <2>9
<1> QED
    BY <1>1, <1>3, <1>7, <1>8, <1>9 DEF PipelineInv

\* Failures and restarts are counted up.
LEMMA FailuresStay ==
    ASSUME NEW r \in Nat, NEW f \in Nat, NEW g \in {f, f + 1}
    PROVE  /\ r + g > 0 \/ r + f = 0
           /\ g = f + 1 => r + g > 0
           /\ r + 1 + g > 0
    OBVIOUS

LEMMA PipelineInvNext == PipelineInv /\ [Next]_vars => PipelineInv'
<1> SUFFICES ASSUME PipelineInv, [Next]_vars
             PROVE  PipelineInv'
    OBVIOUS
<1>0. PipelineTypes /\ ScorerTypeOK /\ PipelineTypes' /\ whole \in BOOLEAN
    BY PipelineTypesNext DEF PipelineInv, PipelineTypes, PipelineTypeOK
<1>n. restarts \in Nat /\ fails \in Nat
    BY <1>0 DEF ScorerTypeOK
<1>1. CASE HandOver
    BY <1>0, <1>1, HandOverKeeps
\* The profiler goes on with its row, takes another one or none.
<1>2. ASSUME UNCHANGED scorer, profiles' = profiles, fails' \in {fails, fails + 1},
             unchecked \subseteq unchecked',
             stage' \in {"measure", "write"} /\ Mint' \in Profiled => Mint' \in unchecked'
      PROVE  PipelineInv'
  <2>1. SameTasks /\ restarts' = restarts
      BY <1>2 DEF scorer, SameTasks
  <2>2. Profiled' = Profiled
      BY <1>2 DEF Profiled
  <2>3. restarts' + fails' > 0 \/ restarts + fails = 0
      BY <1>n, <1>2, <2>1, FailuresStay, Zenon
  <2> QED
      BY <1>0, <1>2, <2>1, <2>2, <2>3, NoNewTask
<1>3. CASE ProfilerQueries /\ UNCHANGED scorer
  <2>1. profiles' = profiles /\ unchecked \subseteq unchecked'
      BY <1>3 DEF ProfilerQueries, ProfilerQuery, PendingMints, PendingMintsFail,
         ExistingProfile, ExistingProfileFails, MeasureReturns, MeasureFails, Measured, profiler
  <2>2. fails' \in {fails, fails + 1}
    <3>1. Begins(Profiler) \/ Returns(Profiler) \/ Raises(Profiler)
        BY <1>3 DEF ProfilerQueries, ProfilerQuery, PendingMints, PendingMintsFail,
           ExistingProfile, ExistingProfileFails, MeasureReturns, MeasureFails
    <3> QED
        BY <3>1 DEF Begins, Returns, Raises
  <2>3. stage' \in {"measure", "write"} /\ Mint' \in Profiled => Mint' \in unchecked'
    <3>1. CASE ProfilerQuery
        BY <3>1 DEF ProfilerQuery, profiler, PipelineInv, Mint
    <3>2. CASE (\E rows \in Selections : PendingMints(rows)) \/ PendingMintsFail
        BY <3>2 DEF PendingMints, PendingMintsFail, AfterCycleError
    <3>3. CASE ExistingProfile
      <4>1. CASE Mint \in Profiled
          BY <3>3, <4>1 DEF ExistingProfile, HasExistingProfile, NextRow
      <4>2. CASE Mint \notin Profiled
          BY <3>3, <4>2 DEF ExistingProfile, HasExistingProfile, Measure, Mint
      <4> QED
          BY <4>1, <4>2
    <3>4. CASE ExistingProfileFails
        BY <3>4 DEF ExistingProfileFails, Measure, Mint
    <3>5. ASSUME NEW complete \in BOOLEAN, Measured(complete)
          PROVE  Mint' \in Profiled => Mint' \in unchecked'
        BY <3>5 DEF Measured, PipelineInv, Mint
    <3> QED
        BY <1>3, <3>1, <3>2, <3>3, <3>4, <3>5 DEF ProfilerQueries, MeasureReturns, MeasureFails
  <2> QED
      BY <1>2, <1>3, <2>1, <2>2, <2>3
<1>4. ASSUME NEW stored \in BOOLEAN, WriteProfileFails(stored), UNCHANGED scorer
      PROVE  PipelineInv'
  <2>1. /\ stage = "write" /\ stage' \in {"sleep", "exists"} /\ unchecked' = unchecked
        /\ fails' \in {fails, fails + 1}
        /\ stored => fails' = fails + 1 /\ InsertProfile(whole)
        /\ ~stored => profiles' = profiles
      BY <1>4 DEF WriteProfileFails, NextRow
  <2>2. CASE ~stored
      BY <1>2, <1>4, <2>1, <2>2
  <2>3. CASE stored
    <3>1. SameTasks
        BY <1>4 DEF scorer, SameTasks
    <3>2. restarts' + fails' > 0
        BY <1>n, <1>4, <2>1, <2>3 DEF scorer
    <3>3. /\ stage = "write" /\ restarts' + fails' > 0
          /\ \E b \in BOOLEAN : InsertProfile(b)
        BY <1>0, <2>1, <2>3, <3>2
    <3> QED
        BY <1>0, <2>1, <3>1, <3>3, NoNewTask
  <2> QED
      BY <2>2, <2>3
<1>5. CASE Wakes /\ UNCHANGED session /\ UNCHANGED scorer
    BY <1>2, <1>5 DEF Wakes, session
<1>6. CASE Clock /\ UNCHANGED scorer
  <2>1. UNCHANGED <<stage, queue, profiles, unchecked, fails>>
      BY <1>6 DEF Clock, Ripens, Ages, session
  <2> QED
      BY <1>2, <1>6, <2>1 DEF PipelineInv, Mint
<1>7. ASSUME SameTasks, UNCHANGED profiler, restarts' = restarts, fails' \in {fails, fails + 1}
      PROVE  PipelineInv'
  <2>1. UNCHANGED <<stage, queue, profiles, unchecked>>
      BY <1>7 DEF profiler
  <2>2. stage' \in {"measure", "write"} /\ Mint' \in Profiled' => Mint' \in unchecked'
      BY <2>1 DEF PipelineInv, Mint, Profiled
  <2>3. restarts' + fails' > 0 \/ restarts + fails = 0
      BY <1>n, <1>7, FailuresStay, Zenon
  <2> QED
      BY <1>0, <1>7, <2>1, <2>2, <2>3, NoNewTask
<1>8. ASSUME NEW t \in Tasks, Run(t), UNCHANGED profiler
      PROVE  PipelineInv'
  <2>1. fails' \in {fails, fails + 1}
      BY <1>8, RunSession DEF Begins, Returns, Raises, session
  <2> QED
      BY <1>0, <1>7, <1>8, <2>1, RunSameTasks
<1>9. CASE Expire /\ UNCHANGED profiler
    BY <1>7, <1>9 DEF Expire, session, SameTasks
<1>10. CASE Restart
  <2> PICK newModel \in Models, landed \in BOOLEAN, inserted \in BOOLEAN :
          ScorerRestart(newModel, inserted) /\ ProfilerRestart(landed) /\ SessionRestart
      BY <1>10 DEF Restart
  <2>1. SameTasks
      BY <1>0, RestartSameTasks
  <2>2. restarts' + fails' > 0
    <3>1. restarts' = restarts + 1 /\ fails' = fails
        BY Zenon DEF ScorerRestart, SessionRestart
    <3> QED
        BY <1>n, <3>1, FailuresStay
  <2>3. /\ stage' = "pending" /\ unchecked' = unchecked
        /\ profiles' = profiles \/ (stage = "write" /\ InsertProfile(whole))
      BY DEF ProfilerRestart
  <2> QED
      BY <1>0, <2>1, <2>2, <2>3, NoNewTask
<1>11. CASE UNCHANGED vars
    BY <1>7, <1>11 DEF vars, scorer, session, SameTasks
<1> QED
    BY <1>1, <1>3, <1>4, <1>5, <1>6, <1>8, <1>9, <1>10, <1>11 DEF Next, ProfilerStep

LEMMA PipelineInvInit == Init => PipelineInv
<1> SUFFICES ASSUME Init PROVE PipelineInv
    OBVIOUS
<1>1. PipelineTypes /\ Started = {} /\ stage = "pending" /\ DOMAIN profiles = {}
    BY PipelineTypesInit DEF Init, ScorerInit, ProfilerInit, NewTask, Started
<1> QED
    BY <1>1 DEF PipelineInv, ScoredTwiceUnchecked, TaskMade

LEMMA PipelineInvariant == Spec => []PipelineInv
    BY PipelineInvInit, PipelineInvNext, PTL DEF Spec

\* Two scoring tasks for one mint need a failed check for its profile.
THEOREM SecondTaskUnchecked == Spec => []ScoredTwiceUnchecked
<1>1. PipelineInv => ScoredTwiceUnchecked
    BY DEF PipelineInv
<1> QED
    BY <1>1, PipelineInvariant, PTL

-----------------------------------------------------------------------------
(***************************************************************************)
(* The scorer in the pipeline.  The profiler's queries refuse the scorer's *)
(* and are refused by them: MintScorerProofs' Serial does not hold here.   *)
(* A refused query only fails, and every step of the pipeline is a step of *)
(* the scorer's variables, so what rests on the mints' locks still holds.  *)
(***************************************************************************)
\* The profiler's use of the client is no use of a task.
LEMMA ProfilersUse ==
    ASSUME Begins(Profiler) \/ Returns(Profiler) \/ Raises(Profiler), NEW t \in Tasks
    PROVE  t \in using' <=> t \in using
<1>1. t # Profiler
    BY PipelineAssumption
<1> QED
    BY <1>1 DEF Begins, Returns, Raises

LEMMA PipelineLockMoves == PipelineTypes /\ [Next]_vars => LockMoves
<1> SUFFICES ASSUME PipelineTypes, [Next]_vars
             PROVE  LockMoves
    OBVIOUS
<1>1. CASE HandOver
  <2>1. stage = "write" /\ using' = using
      BY <1>1 DEF HandOver, WriteProfile, DisturbsScorer
  <2>2. (\E t \in Tasks, m \in Mints : Spawn(t, m)) \/ UNCHANGED scorer
    <3>1. UNCHANGED scorer \/ (Spawn(NewTaskId, Mint) /\ \E t \in Tasks : task[t].pc = "idle")
        BY <1>1 DEF HandOver
    <3> QED
        BY <2>1, <3>1, NewTaskFound, MintType
  <2> QED
      BY <2>1, <2>2 DEF LockMoves
<1>2. CASE ProfilerStep /\ UNCHANGED scorer
  <2>1. \A t \in Tasks : t \in using' <=> t \in using
    <3>1. CASE ProfilerQueries
      <4>1. Begins(Profiler) \/ Returns(Profiler) \/ Raises(Profiler)
          BY <3>1 DEF ProfilerQueries, ProfilerQuery, PendingMints, PendingMintsFail,
             ExistingProfile, ExistingProfileFails, MeasureReturns, MeasureFails
      <4> QED
          BY <4>1, ProfilersUse
    <3>2. CASE \E stored \in BOOLEAN : WriteProfileFails(stored)
        BY <3>2 DEF WriteProfileFails, DisturbsScorer
    <3>3. CASE UNCHANGED session
        BY <3>3 DEF session
    <3> QED
        BY <1>2, <3>1, <3>2, <3>3 DEF ProfilerStep
  <2> QED
      BY <1>2, <2>1 DEF LockMoves
<1>3. CASE (Clock /\ UNCHANGED scorer) \/ UNCHANGED vars
    BY <1>3 DEF Clock, vars, session, LockMoves
<1>4. CASE (\E t \in Tasks : Run(t)) \/ Expire
    BY <1>4 DEF Expire, session, LockMoves
<1>5. CASE Restart
    BY <1>5 DEF Restart, SessionRestart, LockMoves
<1> QED
    BY <1>1, <1>2, <1>3, <1>4, <1>5 DEF Next

ScorerInv == PipelineTypes /\ DedupInv /\ AbsentInv /\ StandsInv

LEMMA ScorerInvariant == Spec => []ScorerInv
<1>1. Init => ScorerInv
    BY PipelineTypesInit, DedupInit, AbsentInit, StandsInit DEF Init, ScorerInv
<1>2. ScorerInv /\ [Next]_vars => ScorerInv'
    BY PipelineTypesNext, PipelineMoves, PipelineLockMoves, DedupMoves, AbsentMoves, StandsMoves
       DEF ScorerInv
<1> QED
    BY <1>1, <1>2, PTL DEF Spec

\* Whichever queries of a task the profiler makes fail, mint_scores gets no
\* second score of a mint by a model within the dedup window.
THEOREM PipelineDedupsScores == Spec => DedupsScores
<1>1. Init => Window!Init
    BY DEF Init, ScorerInit, Window!Init
<1>2. ScorerInv /\ [Next]_vars => [Window!Next]_(Window!vars)
    BY PipelineMoves, WindowMoves, AbsentThenHolds DEF ScorerInv, DedupInv
<1> QED
    BY <1>1, <1>2, ScorerInvariant, PTL DEF Spec, DedupsScores, Window!Spec

\* In the pipeline too, a second alert for a mint within the window needs that
\* the later task's "high" query failed.
THEOREM PipelineAlertsOnce == Spec => []AlertOncePerWindow
<1>1. ScorerInv => AlertOncePerWindow
    BY DedupThenOnce DEF ScorerInv
<1> QED
    BY <1>1, ScorerInvariant, PTL

\* Refused queries lose no good score's alert unnoticed: its task ends as one
\* that could not confirm its insert.
THEOREM PipelineGoodScoresAlert == Spec => []NoLostAlert
<1>1. ScorerInv => NoLostAlert
    BY DedupThenAlert DEF ScorerInv
<1> QED
    BY <1>1, ScorerInvariant, PTL

\* In the pipeline, where the profiler makes dedup queries, inserts and
\* verifications fail, a task still stands back only for a score that is there.
THEOREM PipelineStandsBack == Spec => []StandsBackForScore
<1>1. ScorerInv => StandsBackForScore
    BY DEF ScorerInv, StandsInv, StandsTask, OtherScore, StandsBackForScore
<1> QED
    BY <1>1, ScorerInvariant, PTL

\* How a task of a mint can have ended while the mint has no score.
LEMMA EndsScored ==
    ASSUME ScorerInv, NEW t \in Tasks, task[t].pc = "done", task[t].end \notin GivenUp
    PROVE  \E j \in DOMAIN scores : scores[j].mint = task[t].mint
<1>1. task[t].end \in {"recent", "absent", "unqualified", "deduped", "alerted", "unsent"}
    BY DEF ScorerInv, StandsInv, StandsTask, DedupInv, ScorerTypeOK, Task, Ends, GivenUp
<1>2. CASE task[t].end \in {"recent", "absent"}
    BY <1>2 DEF ScorerInv, StandsInv, StandsTask, OtherScore
<1>3. CASE task[t].end \notin {"recent", "absent"}
  <2>1. PICK j \in DOMAIN scores : scores[j].task = t
      BY <1>1, <1>3 DEF ScorerInv, StandsInv, StandsTask, Verified
  <2>2. task[scores[j].task].mint = scores[j].mint
      BY <2>1 DEF ScorerInv, DedupInv, RowInv
  <2> QED
      BY <2>1, <2>2
<1> QED
    BY <1>2, <1>3

\* A stored profile is handed to the scorer unless a query failed by itself or
\* the process was killed, and no task it is handed to ends without a score of
\* its mint in the table, except by one of the four ends that give the mint up.
THEOREM ProfilesAreScored == Spec => []ProfilesScored
<1>1. ASSUME PipelineInv, ScorerInv
      PROVE  ProfilesScored
  <2> SUFFICES ASSUME NEW i \in DOMAIN profiles
               PROVE  /\ \/ {t \in Started : task[t].mint = profiles[i].mint} # {}
                         \/ restarts + fails > 0
                      /\ \A t \in {u \in Started : task[u].mint = profiles[i].mint} :
                             task[t].pc = "done" =>
                                 \/ task[t].end \in GivenUp
                                 \/ \E j \in DOMAIN scores : scores[j].mint = profiles[i].mint
      BY DEF ProfilesScored
  <2>1. \/ {t \in Started : task[t].mint = profiles[i].mint} # {}
        \/ restarts + fails > 0
      BY <1>1 DEF PipelineInv, TaskMade
  <2>2. ASSUME NEW t \in Started, task[t].mint = profiles[i].mint, task[t].pc = "done",
               task[t].end \notin GivenUp
        PROVE  \E j \in DOMAIN scores : scores[j].mint = profiles[i].mint
      BY <1>1, <2>2, EndsScored DEF Started
  <2> QED
      BY <2>1, <2>2
<1> QED
    BY <1>1, PipelineInvariant, ScorerInvariant, PTL

\* Who alerts has a good row in the pipeline, where inserts can be refused.
THEOREM PipelineAlertsHaveScores == Spec => []AlertHasScore
<1>1. ScorerInv => AlertHasScore
    BY AlertThenScore DEF ScorerInv, DedupInv
<1> QED
    BY <1>1, ScorerInvariant, PTL

-----------------------------------------------------------------------------
(***************************************************************************)
(* Locks and progress.  The profiler takes no lock and can only make a     *)
(* task's query fail, so the locks' discipline and the ages of the tasks   *)
(* are those of the scorer.                                                *)
(***************************************************************************)

LEMMA PipelineLocks == Spec => [](PipelineTypes /\ LockInv)
<1>1. Init => PipelineTypes /\ LockInv
    BY PipelineTypesInit, LockInvInit DEF Init
<1>2. PipelineTypes /\ LockInv /\ [Next]_vars => (PipelineTypes /\ LockInv)'
    BY PipelineTypesNext, PipelineLockMoves, LockInvMoves DEF PipelineTypes, PipelineTypeOK
<1> QED
    BY <1>1, <1>2, PTL DEF Spec

\* The profiler's queries keep no task from a lock for good: in the pipeline
\* too some task waits for an answer only, whenever one waits for a lock.
THEOREM PipelineNeverDeadlocks == Spec => []NoDeadlock
<1>1. PipelineTypes /\ LockInv => NoDeadlock
    BY LocksThenNoDeadlock DEF PipelineTypes, PipelineTypeOK
<1> QED
    BY <1>1, PipelineLocks, PTL

\* A task of the pipeline takes at most 20 + RetryAttempts steps, and neither
\* the profiler nor a restart takes it back.
THEOREM PipelineTasksMoveOn == Spec => [][TasksAge]_vars /\ []AgesBounded
<1>1. PipelineTypes /\ LockInv /\ [Next]_vars => TasksAge
  <2>1. PipelineTypes' => ScorerTypeOK'
      BY DEF PipelineTypes, PipelineTypeOK
  <2> QED
      BY <2>1, PipelineTypesNext, PipelineLockMoves, StepsAge DEF PipelineTypes, PipelineTypeOK
<1>2. PipelineTypes /\ LockInv => AgesBounded
    BY LocksThenBounded DEF PipelineTypes, PipelineTypeOK
<1> QED
    BY <1>1, <1>2, PipelineLocks, PTL DEF Spec

=============================================================================
