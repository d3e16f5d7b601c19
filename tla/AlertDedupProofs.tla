-------------------------- MODULE AlertDedupProofs --------------------------
(***************************************************************************)
(* When MintScorer alerts twice and when it does not alert, for any tasks, *)
(* mints, models, failures and restarts.                                   *)
(*                                                                         *)
(* What a task found with its "high" query still holds when it writes its  *)
(* row, because it holds its mint's lock in between: nobody else writes a  *)
(* row of the mint.  From there the finding belongs to the row: it is      *)
(* about the rows before it, which never change.                           *)
(***************************************************************************)
EXTENDS MintScorerProofs

\* How a task that wrote a row may have ended.
WriterEnds == {"alerted", "unsent", "killed", "unverified", "deduped", "unqualified"}

HighRow(i, m) == scores[i].mint = m /\ scores[i].verdict # "low"

TaskInv(t) ==
    /\ task[t].pc \in Locked => mintLock[task[t].mint] = t
    /\ task[t].dup => task[t].pc \in Written \cup {"insert"}
    /\ task[t].pc = "insert" /\ task[t].dup => \E i \in DOMAIN scores : HighRow(i, task[t].mint)
    /\ task[t].pc = "insert" /\ ~task[t].dup /\ ~task[t].blind =>
          \A i \in InWindow : ~HighRow(i, task[t].mint)
    /\ task[t].pc = "alert" \/ task[t].end = "alerted" => ~task[t].dup
    /\ task[t].end = "unqualified" => task[t].verdict # "good"
    /\ task[t].end = "deduped" => task[t].dup
    /\ task[t].pc \notin {"idle", "done"} => task[t].end = "running"

RowInv(i) ==
    LET t == task[scores[i].task]
    IN  /\ t.mint = scores[i].mint
        /\ t.pc = "done" => t.end \in WriterEnds
        /\ t.dup => \E j \in 1 .. i - 1 : HighRow(j, scores[i].mint)
        /\ ~t.dup /\ ~t.blind => \A j \in expired + 1 .. i - 1 : ~HighRow(j, scores[i].mint)
        /\ \A j \in DOMAIN scores : scores[j].task = scores[i].task => j = i

DedupInv ==
    /\ ScorerTypeOK /\ RowsMatch /\ AlertsMatch
    /\ \A t \in Tasks : TaskInv(t)
    /\ \A i \in DOMAIN scores : RowInv(i)

LEMMA DedupInit == ScorerInit => DedupInv
<1> SUFFICES ASSUME ScorerInit PROVE DedupInv
    OBVIOUS
<1>1. ScorerTypeOK
    BY ScorerInitType
<1>2. DOMAIN scores = {}
    BY DEF ScorerInit
<1>3. \A t \in Tasks : task[t].pc = "idle" /\ task[t].end = "running" /\ ~task[t].dup
    BY DEF ScorerInit, NewTask
<1>4. RowsMatch /\ AlertsMatch
    BY <1>2, <1>3 DEF RowsMatch, AlertsMatch
<1>5. \A t \in Tasks : TaskInv(t)
    BY <1>3 DEF TaskInv, Locked
<1> QED
    BY <1>1, <1>2, <1>4, <1>5 DEF DedupInv

\* A step of one task that writes no row: nothing a row says of its task
\* changes, and no other task loses its lock.
LEMMA QuietStep ==
    ASSUME DedupInv, NEW t \in Tasks,
           \A u \in Tasks \ {t} : task'[u] = task[u],
           scores' = scores, expired' = expired,
           \A u \in Tasks \ {t} : task[u].pc \in Locked => mintLock'[task[u].mint] = u,
           Verified(t) =>
               /\ task'[t].mint = task[t].mint /\ task'[t].dup = task[t].dup
               /\ task'[t].blind = task[t].blind
               /\ task'[t].pc = "done" => task'[t].end \in WriterEnds,
           TaskInv(t)'
    PROVE  /\ \A u \in Tasks : TaskInv(u)'
           /\ \A i \in DOMAIN scores' : RowInv(i)'
<1>1. \A i \in DOMAIN scores : scores[i].task \in Tasks /\ Verified(scores[i].task)
    BY RowType DEF DedupInv, Verified
<1>2. \A u \in Tasks \ {t} : TaskInv(u)'
    BY DEF DedupInv, TaskInv, HighRow, InWindow
<1>3. ASSUME NEW i \in DOMAIN scores
      PROVE  RowInv(i)'
  <2>1. RowInv(i) /\ scores[i].task \in Tasks /\ Verified(scores[i].task)
      BY <1>1 DEF DedupInv
  <2>2. CASE scores[i].task = t
      BY <2>1, <2>2 DEF RowInv, HighRow
  <2>3. CASE scores[i].task # t
      BY <2>1, <2>3 DEF RowInv, HighRow
  <2> QED
      BY <2>2, <2>3
<1> QED
    BY <1>2, <1>3

\* The appended row and those before it.
LEMMA Appended ==
    ASSUME ScorerTypeOK, NEW t \in Tasks, scores' = Append(scores, ScoreOf(t))
    PROVE  /\ DOMAIN scores = 1 .. Len(scores) /\ Len(scores) \in Nat
           /\ DOMAIN scores' = 1 .. Len(scores) + 1
           /\ \A i \in 1 .. Len(scores) : scores'[i] = scores[i]
           /\ scores'[Len(scores) + 1].task = t
           /\ scores'[Len(scores) + 1].mint = task[t].mint
           /\ scores'[Len(scores) + 1].verdict = task[t].verdict
<1> DEFINE row == ScoreOf(t)
<1>1. row \in Score /\ row.task = t /\ row.mint = task[t].mint /\ row.verdict = task[t].verdict
    BY ScoreType DEF ScoreOf
<1> HIDE DEF row
<1>2. scores' = Append(scores, row) /\ scores \in Seq(Score)
    BY DEF row, ScorerTypeOK
<1> QED
    BY <1>1, <1>2

\* The rows after a task wrote its own, whatever becomes of the other tasks as
\* long as it is nothing their rows would notice.
LEMMA RowsAfterWrite ==
    ASSUME DedupInv, NEW t \in Tasks, task[t].pc = "insert",
           scores' = Append(scores, ScoreOf(t)), expired' = expired,
           \A u \in Tasks :
               task[u].pc \in Written \cup {"insert"} =>
                   /\ task'[u].mint = task[u].mint /\ task'[u].dup = task[u].dup
                   /\ task'[u].blind = task[u].blind
                   /\ task'[u].pc = "done" => \/ task'[u].end \in WriterEnds
                                              \/ task[u].pc = "done" /\ task'[u].end = task[u].end
    PROVE  \A i \in DOMAIN scores' : RowInv(i)'
<1>1. ScorerTypeOK /\ expired \in Nat
    BY DEF DedupInv, ScorerTypeOK
<1>2. /\ DOMAIN scores = 1 .. Len(scores) /\ Len(scores) \in Nat
      /\ DOMAIN scores' = 1 .. Len(scores) + 1
      /\ \A i \in 1 .. Len(scores) : scores'[i] = scores[i]
      /\ scores'[Len(scores) + 1].task = t
      /\ scores'[Len(scores) + 1].mint = task[t].mint
    BY <1>1, Appended
<1>3. \A i \in 1 .. Len(scores) :
          scores[i].task \in Tasks \ {t} /\ task[scores[i].task].pc \in Written
    BY <1>1, <1>2, RowType DEF DedupInv, RowsMatch, Written
<1>4. TaskInv(t)
    BY DEF DedupInv
<1>5. \A i \in 1 .. Len(scores) : \A m : HighRow(i, m)' <=> HighRow(i, m)
    BY <1>2 DEF HighRow
<1>6. ASSUME NEW i \in 1 .. Len(scores)
      PROVE  RowInv(i)'
  <2> DEFINE u == scores[i].task
  <2>1. RowInv(i)
      BY <1>2 DEF DedupInv
  <2>2. scores'[i] = scores[i] /\ u \in Tasks \ {t} /\ task[u].pc \in Written
      BY <1>2, <1>3
  <2>3. /\ task'[u].mint = task[u].mint /\ task'[u].dup = task[u].dup
        /\ task'[u].blind = task[u].blind
        /\ task'[u].pc = "done" => task'[u].end \in WriterEnds
      BY <2>1, <2>2 DEF RowInv
  <2>4. \A j \in 1 .. i - 1 : j \in 1 .. Len(scores)
      BY <1>2
  <2>5. \A j \in expired + 1 .. i - 1 : j \in 1 .. Len(scores)
      BY <1>1, <1>2
  <2>6. \A j \in DOMAIN scores' : scores'[j].task = u => j = i
      BY <1>2, <2>1, <2>2 DEF RowInv
  <2> HIDE DEF u
  <2>7. u = scores[i].task
      BY DEF u
  <2>8. task'[u].dup => \E j \in 1 .. i - 1 : HighRow(j, scores[i].mint)'
      BY <1>5, <2>1, <2>3, <2>4, <2>7 DEF RowInv
  <2>9. ~task'[u].dup /\ ~task'[u].blind => \A j \in expired + 1 .. i - 1 : ~HighRow(j, scores[i].mint)'
      BY <1>5, <2>1, <2>3, <2>5, <2>7 DEF RowInv
  <2> QED
      BY <2>1, <2>2, <2>3, <2>6, <2>7, <2>8, <2>9 DEF RowInv, HighRow
<1> PICK n : n = Len(scores) + 1
    OBVIOUS
<1> PICK m : m = task[t].mint
    OBVIOUS
<1>7. RowInv(n)'
  <2>1. /\ scores'[n].task = t /\ scores'[n].mint = m
        /\ n - 1 = Len(scores) /\ 1 .. n - 1 = DOMAIN scores
      BY <1>2
  <2>2. /\ task'[t].mint = m /\ task'[t].dup = task[t].dup
        /\ task'[t].blind = task[t].blind
        /\ task'[t].pc = "done" => task'[t].end \in WriterEnds
      OBVIOUS
  <2>3. \A j \in DOMAIN scores' : scores'[j].task = t => j = n
      BY <1>2, <1>3
  <2>4. \A j \in 1 .. n - 1 : HighRow(j, m)' <=> HighRow(j, m)
      BY <1>2, <1>5, <2>1
  <2>5. task[t].dup => \E j \in 1 .. n - 1 : HighRow(j, m)
      BY <1>4, <2>1 DEF TaskInv
  <2>6. ~task[t].dup /\ ~task[t].blind => \A j \in expired + 1 .. n - 1 : ~HighRow(j, m)
      BY <1>4, <2>1 DEF TaskInv, InWindow
  <2>7. \A j \in expired + 1 .. n - 1 : j \in 1 .. n - 1
      BY <1>1, <2>1
  <2>8. task'[t].dup => \E j \in 1 .. n - 1 : HighRow(j, m)'
      BY <2>2, <2>4, <2>5
  <2>9. ~task'[t].dup /\ ~task'[t].blind => \A j \in expired + 1 .. n - 1 : ~HighRow(j, m)'
      BY <2>2, <2>4, <2>6, <2>7
  <2>10. task'[scores'[n].task] = task'[t]
      BY <2>1
  <2>11. /\ task'[t].mint = scores'[n].mint
         /\ task'[t].pc = "done" => task'[t].end \in WriterEnds
      BY <2>1, <2>2
  <2>12. \A j \in DOMAIN scores' : scores'[j].task = scores'[n].task => j = n
      BY <2>1, <2>3
  <2>13. task'[t].dup => \E j \in 1 .. n - 1 :
             scores'[j].mint = scores'[n].mint /\ scores'[j].verdict # "low"
      BY <2>1, <2>8 DEF HighRow
  <2>14. ~task'[t].dup /\ ~task'[t].blind => \A j \in expired + 1 .. n - 1 :
             ~(scores'[j].mint = scores'[n].mint /\ scores'[j].verdict # "low")
      BY <2>1, <2>9 DEF HighRow
  <2>15. expired' = expired
      OBVIOUS
  <2> QED
      BY ONLY <2>10, <2>11, <2>12, <2>13, <2>14, <2>15 DEF RowInv, HighRow
<1>8. \A i \in DOMAIN scores' : i \in 1 .. Len(scores) \/ i = n
    BY <1>2
<1> QED
    BY <1>6, <1>7, <1>8

\* A step of one task that writes its row: the others' findings are about
\* other mints, because this task holds the lock of its own.
LEMMA WritingStep ==
    ASSUME DedupInv, NEW t \in Tasks, task[t].pc = "insert",
           \A u \in Tasks \ {t} : task'[u] = task[u],
           scores' = Append(scores, ScoreOf(t)), expired' = expired,
           \A u \in Tasks \ {t} : task[u].pc \in Locked => mintLock'[task[u].mint] = u,
           task'[t].mint = task[t].mint, task'[t].dup = task[t].dup, task'[t].blind = task[t].blind,
           task'[t].pc # "insert", task'[t].pc = "done" => task'[t].end \in WriterEnds,
           TaskInv(t)'
    PROVE  /\ \A u \in Tasks : TaskInv(u)'
           /\ \A i \in DOMAIN scores' : RowInv(i)'
<1>1. ScorerTypeOK /\ expired \in Nat
    BY DEF DedupInv, ScorerTypeOK
<1>2. /\ DOMAIN scores = 1 .. Len(scores) /\ Len(scores) \in Nat
      /\ DOMAIN scores' = 1 .. Len(scores) + 1
      /\ \A i \in 1 .. Len(scores) : scores'[i] = scores[i]
      /\ scores'[Len(scores) + 1].mint = task[t].mint
    BY <1>1, Appended
<1>4. ASSUME NEW u \in Tasks \ {t}
      PROVE  TaskInv(u)'
  <2>1. TaskInv(u) /\ task'[u] = task[u]
      BY DEF DedupInv
  <2>2. \A i \in 1 .. Len(scores) : \A m : HighRow(i, m)' <=> HighRow(i, m)
      BY <1>2 DEF HighRow
  <2>3. task[u].pc = "insert" => task[u].mint # task[t].mint
      BY DEF DedupInv, TaskInv, Locked
  <2> PICK n : n = Len(scores) + 1
      OBVIOUS
  <2> PICK m : m = task[u].mint
      OBVIOUS
  <2>4. task[u].pc = "insert" => ~HighRow(n, m)'
      BY <1>2, <2>3 DEF HighRow
  <2>5. InWindow' = expired + 1 .. n
    <3>1. Len(scores') = n
        BY <1>1, ScoreType DEF ScorerTypeOK, ScoreOf
    <3> QED
        BY <3>1 DEF InWindow
  <2>6. \A i \in InWindow' : i = n \/ (i \in InWindow /\ i \in 1 .. Len(scores))
      BY <1>1, <1>2, <2>5 DEF InWindow
  <2>7. DOMAIN scores \subseteq DOMAIN scores'
      BY <1>2
  <2>8. task'[u].pc \in Locked => mintLock'[m] = u
      BY <2>1
  <2>9. task'[u].pc = "insert" /\ task'[u].dup => \E i \in DOMAIN scores' : HighRow(i, m)'
    <3>1. task[u].pc = "insert" /\ task[u].dup => \E i \in DOMAIN scores : HighRow(i, m)
        BY <2>1 DEF TaskInv
    <3> QED
        BY <1>2, <2>1, <2>2, <2>7, <3>1
  <2>10. task'[u].pc = "insert" /\ ~task'[u].dup /\ ~task'[u].blind =>
             \A i \in InWindow' : ~HighRow(i, m)'
    <3>1. task[u].pc = "insert" /\ ~task[u].dup /\ ~task[u].blind =>
              \A i \in InWindow : ~HighRow(i, m)
        BY <2>1 DEF TaskInv
    <3> QED
        BY <2>1, <2>2, <2>4, <2>6, <3>1
  <2>11. /\ task'[u].pc = "insert" /\ task'[u].dup =>
                \E i \in DOMAIN scores' : HighRow(i, task[u].mint)'
         /\ task'[u].pc = "insert" /\ ~task'[u].dup /\ ~task'[u].blind =>
                \A i \in InWindow' : ~HighRow(i, task[u].mint)'
      BY <2>1, <2>9, <2>10 DEF HighRow
  <2> QED
      BY <2>1, <2>8, <2>11 DEF TaskInv
<1>5. \A i \in DOMAIN scores' : RowInv(i)'
    BY RowsAfterWrite
<1> QED
    BY <1>4, <1>5

\* The other tasks' locks: who leaves its own mint's lock leaves no other.
LEMMA LocksKept ==
    ASSUME DedupInv, NEW t \in Tasks,
           mintLock' = mintLock \/ (Unlock(t) /\ task[t].pc \in Locked)
    PROVE  \A u \in Tasks \ {t} : task[u].pc \in Locked => mintLock'[task[u].mint] = u
<1> SUFFICES ASSUME NEW u \in Tasks \ {t}, task[u].pc \in Locked
             PROVE  mintLock'[task[u].mint] = u
    OBVIOUS
<1>1. mintLock[task[u].mint] = u
    BY DEF DedupInv, TaskInv
<1>2. CASE mintLock' = mintLock
    BY <1>1, <1>2
<1>3. CASE Unlock(t) /\ task[t].pc \in Locked
  <2>1. mintLock[task[t].mint] = t
      BY <1>3 DEF DedupInv, TaskInv
  <2>2. task[u].mint \in Mints
      BY DEF DedupInv, ScorerTypeOK, Task
  <2> QED
      BY <1>1, <1>3, <2>1, <2>2 DEF Unlock, DedupInv, ScorerTypeOK
<1> QED
    BY <1>2, <1>3

LEMMA DedupMoves == DedupInv /\ ScorerMoves => DedupInv'
<1> SUFFICES ASSUME DedupInv, ScorerMoves
             PROVE  DedupInv'
    OBVIOUS
<1> DEFINE Kept == /\ \A u \in Tasks : TaskInv(u)'
                   /\ \A i \in DOMAIN scores' : RowInv(i)'
<1> USE DEF Written, Locked
<1>0. /\ \A t \in Tasks : task[t] \in Task /\ TaskInv(t)
      /\ task \in [Tasks -> Task] /\ ScorerTypeOK
    BY DEF DedupInv, ScorerTypeOK
\* A task that has written nothing, takes no lock and finds nothing.
<1>1. ASSUME NEW t \in Tasks, scores' = scores, expired' = expired,
             \A u \in Tasks \ {t} : task'[u] = task[u],
             mintLock' = mintLock \/ (Unlock(t) /\ task[t].pc \in Locked),
             task[t].pc \notin Written \cup {"insert"},
             task'[t].pc \notin Locked \/ (task'[t].pc \in Locked /\ task[t].pc \in Locked
                 /\ mintLock' = mintLock /\ task'[t].mint = task[t].mint),
             task'[t].pc \notin {"alert", "insert"},
             task'[t].end \notin {"alerted", "unqualified", "deduped"},
             ~task'[t].dup,
             task'[t].pc \notin {"idle", "done"} => task'[t].end = "running"
      PROVE  Kept
  <2>1. ~Verified(t)
      BY <1>1 DEF DedupInv, RowsMatch, Verified
  <2>2. TaskInv(t)'
      BY <1>0, <1>1 DEF TaskInv
  <2> QED
      BY <1>1, <2>1, <2>2, LocksKept, QuietStep
<1> HIDE DEF Kept
<1>2. ASSUME NEW t \in Tasks, StartQuery(t)
      PROVE  Kept
  <2>1. /\ scores' = scores /\ expired' = expired /\ mintLock' = mintLock
        /\ \A u \in Tasks \ {t} : task'[u] = task[u]
      BY <1>0, <1>2 DEF StartQuery, table
  <2>2. /\ task'[t].pc = task[t].pc /\ task'[t].verdict = task[t].verdict
        /\ task'[t].end = task[t].end /\ task'[t].mint = task[t].mint
        /\ task'[t].dup = task[t].dup /\ task'[t].blind = task[t].blind
      BY <1>0, <1>2 DEF StartQuery, Task
  <2>3. Verified(t) /\ task'[t].pc = "done" => task'[t].end \in WriterEnds
      BY <1>2, <2>2 DEF StartQuery, Queries
  <2>4. TaskInv(t)'
      BY <1>0, <2>1, <2>2 DEF TaskInv, HighRow, InWindow
  <2> QED
      BY <2>1, <2>2, <2>3, <2>4, LocksKept, QuietStep DEF Kept
<1>3. ASSUME NEW t \in Tasks, Examples(t) \/ ExamplesFail(t)
      PROVE  Kept
  <2>1. /\ scores' = scores /\ expired' = expired /\ mintLock' = mintLock
        /\ \A u \in Tasks \ {t} : task'[u] = task[u]
      BY <1>0, <1>3 DEF Examples, ExamplesFail, Goto, Finish, table
  <2>2. task[t].pc \in {"pumped", "dead"} /\ ~task[t].dup /\ task[t].end = "running"
      BY <1>0, <1>3 DEF Examples, ExamplesFail, TaskInv
  <2>3. /\ ~task'[t].dup
        /\ \/ task'[t].pc \in {"dead", "claude"} /\ task'[t].end = "running"
           \/ task'[t].pc = "done" /\ task'[t].end = "no_examples"
      BY <1>0, <1>3, <2>2 DEF Examples, ExamplesFail, Goto, Finish, Task
  <2> QED
      BY <1>1, <2>1, <2>2, <2>3
<1>4. ASSUME NEW t \in Tasks, Call(t)
      PROVE  Kept
  <2>1. /\ scores' = scores /\ expired' = expired /\ mintLock' = mintLock
        /\ \A u \in Tasks \ {t} : task'[u] = task[u]
      BY <1>0, <1>4 DEF Call, ClaudeAnswers, ClaudeGivesNothing, ClaudeRaises, Finish, table, locks
  <2>2. task[t].pc = "claude" /\ ~task[t].dup /\ task[t].end = "running"
      BY <1>0, <1>4 DEF Call, ClaudeAnswers, ClaudeGivesNothing, ClaudeRaises, TaskInv
  <2>3. /\ ~task'[t].dup
        /\ \/ task'[t].pc \in {"claude", "lock"} /\ task'[t].end = "running"
           \/ task'[t].pc = "done" /\ task'[t].end = "no_answer"
    <3>1. CASE \E verdict \in Answers : ClaudeAnswers(t, verdict)
        BY <1>0, <2>2, <3>1 DEF ClaudeAnswers, Task
    <3>2. CASE Finish(t, "no_answer")
        BY <1>0, <2>2, <3>2 DEF Finish, Task
    <3>3. CASE ClaudeRaises(t) /\ task' = [task EXCEPT ![t].attempt = @ + 1]
        BY <1>0, <2>2, <3>3 DEF ClaudeRaises, Task
    <3> QED
        BY <1>4, <3>1, <3>2, <3>3 DEF Call, ClaudeGivesNothing, ClaudeRaises
  <2> QED
      BY <1>1, <2>1, <2>2, <2>3
\* Who takes the lock finds it free, so nobody else is under it.
<1>5. ASSUME NEW t \in Tasks, LockMint(t)
      PROVE  Kept
  <2>1. /\ scores' = scores /\ expired' = expired
        /\ \A u \in Tasks \ {t} : task'[u] = task[u]
      BY <1>0, <1>5 DEF LockMint, Goto, table
  <2>2. task[t].pc = "lock" /\ ~task[t].dup /\ task[t].end = "running"
      BY <1>0, <1>5 DEF LockMint, TaskInv
  <2>3. task'[t].pc = "recent" /\ ~task'[t].dup /\ task'[t].end = "running"
        /\ task'[t].mint = task[t].mint
      BY <1>0, <1>5, <2>2 DEF LockMint, Goto, Task
  <2>4. /\ mintLock[task[t].mint] = Nobody /\ mintLock'[task[t].mint] = t
        /\ \A m \in Mints : m # task[t].mint => mintLock'[m] = mintLock[m]
      BY <1>0, <1>5 DEF LockMint, ScorerTypeOK, Task
  <2>5. \A u \in Tasks \ {t} : task[u].pc \in Locked => mintLock'[task[u].mint] = u
    <3>1. \A u \in Tasks \ {t} : task[u].mint \in Mints
        BY <1>0 DEF Task
    <3>2. \A u \in Tasks \ {t} : task[u].pc \in Locked => mintLock[task[u].mint] = u
        BY <1>0 DEF TaskInv
    <3>3. \A u \in Tasks : u # Nobody
        BY ScorerAssumption
    <3> HIDE DEF Locked
    <3> QED
        BY <2>4, <3>1, <3>2, <3>3
  <2>6. ~Verified(t)
      BY <2>2 DEF DedupInv, RowsMatch, Verified
  <2>7. TaskInv(t)'
      BY <2>3, <2>4 DEF TaskInv
  <2> QED
      BY <2>1, <2>5, <2>6, <2>7, QuietStep DEF Kept
<1>6. ASSUME NEW t \in Tasks, RecentScore(t) \/ RecentScoreFails(t)
      PROVE  Kept
  <2>1. /\ scores' = scores /\ expired' = expired
        /\ \A u \in Tasks \ {t} : task'[u] = task[u]
      BY <1>0, <1>6 DEF RecentScore, RecentScoreFails, Goto, Finish, table
  <2>2. task[t].pc = "recent" /\ ~task[t].dup /\ task[t].end = "running"
      BY <1>0, <1>6 DEF RecentScore, RecentScoreFails, TaskInv
  <2>3. /\ ~task'[t].dup /\ task'[t].mint = task[t].mint
        /\ \/ task'[t].pc = "high" /\ task'[t].end = "running" /\ mintLock' = mintLock
           \/ task'[t].pc = "done" /\ task'[t].end = "recent" /\ Unlock(t)
    <3>1. \/ Goto(t, "high") /\ mintLock' = mintLock
          \/ Finish(t, "recent") /\ Unlock(t)
        BY <1>6 DEF RecentScore, RecentScoreFails
    <3>2. CASE Goto(t, "high")
        BY <1>0, <2>2, <3>1, <3>2 DEF Goto, Finish, Task
    <3>3. CASE Finish(t, "recent")
        BY <1>0, <2>2, <3>1, <3>3 DEF Goto, Finish, Task
    <3> QED
        BY <3>1, <3>2, <3>3
  <2> QED
      BY <1>1, <2>1, <2>2, <2>3
<1>7. ASSUME NEW t \in Tasks, RecentHighScore(t) \/ RecentHighScoreFails(t)
      PROVE  Kept
  <2> PICK m : m = task[t].mint
      OBVIOUS
  <2>1. /\ scores' = scores /\ expired' = expired /\ mintLock' = mintLock
        /\ \A u \in Tasks \ {t} : task'[u] = task[u]
      BY <1>0, <1>7 DEF RecentHighScore, RecentHighScoreFails, table
  <2>2. /\ task[t].pc = "high" /\ ~task[t].dup /\ task[t].end = "running"
        /\ mintLock[m] = t
      BY <1>0, <1>7 DEF RecentHighScore, RecentHighScoreFails, TaskInv
  <2>3. ~Verified(t)
      BY <2>2 DEF DedupInv, RowsMatch, Verified
  <2>4. /\ task'[t].pc = "insert" /\ task'[t].mint = m /\ task'[t].end = "running"
        /\ ~task'[t].blind => task'[t].dup = HasRecentHighScore(m)
        /\ task'[t].dup => HasRecentHighScore(m)
    <3>1. CASE RecentHighScore(t)
        BY <1>0, <2>2, <3>1 DEF RecentHighScore, Task
    <3>2. CASE RecentHighScoreFails(t)
        BY <1>0, <2>2, <3>2 DEF RecentHighScoreFails, Task
    <3> QED
        BY <1>7, <3>1, <3>2
  <2>5. InWindow \subseteq DOMAIN scores /\ InWindow' = InWindow
      BY <1>0, <2>1 DEF InWindow, ScorerTypeOK
  <2>6. HasRecentHighScore(m) <=> \E i \in InWindow : HighRow(i, m)
      BY DEF HasRecentHighScore, HighRow
  <2>7. task'[t].dup => \E i \in DOMAIN scores' : HighRow(i, m)'
      BY <2>1, <2>4, <2>5, <2>6 DEF HighRow
  <2>8. ~task'[t].dup /\ ~task'[t].blind => \A i \in InWindow' : ~HighRow(i, m)'
      BY <2>1, <2>4, <2>5, <2>6 DEF HighRow
  <2>9. TaskInv(t)'
      BY <2>1, <2>2, <2>4, <2>7, <2>8 DEF TaskInv, HighRow
  <2> QED
      BY <2>1, <2>3, <2>9, LocksKept, QuietStep DEF Kept
\* The insert: the row carries the finding.
<1>8. ASSUME NEW t \in Tasks, Insert(t) \/ \E stored \in BOOLEAN : InsertFails(t, stored)
      PROVE  Kept
  <2>1. /\ task[t].pc = "insert" /\ expired' = expired
        /\ \A u \in Tasks \ {t} : task'[u] = task[u]
        /\ scores' = scores \/ scores' = Append(scores, ScoreOf(t))
      BY <1>0, <1>8 DEF Insert, InsertFails, Goto, Finish
  <2>2. task[t].end = "running" /\ ~Verified(t)
      BY <1>0, <2>1 DEF TaskInv, DedupInv, RowsMatch, Verified
  <2>3. \/ Goto(t, "verify") /\ mintLock' = mintLock
        \/ Finish(t, "unverified") /\ Unlock(t)
      BY <1>8 DEF Insert, InsertFails, locks
  <2>4. /\ task'[t].mint = task[t].mint /\ task'[t].dup = task[t].dup
        /\ task'[t].blind = task[t].blind
        /\ \/ task'[t].pc = "verify" /\ task'[t].end = "running" /\ mintLock' = mintLock
           \/ task'[t].pc = "done" /\ task'[t].end = "unverified" /\ Unlock(t)
    <3>1. CASE Goto(t, "verify")
        BY <1>0, <2>2, <2>3, <3>1 DEF Goto, Finish, Task
    <3>2. CASE Finish(t, "unverified")
        BY <1>0, <2>2, <2>3, <3>2 DEF Goto, Finish, Task
    <3> QED
        BY <2>3, <3>1, <3>2
  <2>5. TaskInv(t)'
      BY <1>0, <2>1, <2>4 DEF TaskInv
  <2>6. \A u \in Tasks \ {t} : task[u].pc \in Locked => mintLock'[task[u].mint] = u
      BY <2>1, <2>4, LocksKept
  <2>7. CASE scores' = scores
      BY <2>1, <2>2, <2>5, <2>6, <2>7, QuietStep DEF Kept
  <2>8. CASE scores' = Append(scores, ScoreOf(t))
    <3>1. task'[t].pc # "insert" /\ (task'[t].pc = "done" => task'[t].end \in WriterEnds)
        BY <2>4 DEF WriterEnds
    <3> QED
        BY <2>1, <2>4, <2>5, <2>6, <2>8, <3>1, WritingStep DEF Kept
  <2> QED
      BY <2>1, <2>7, <2>8
<1>9. ASSUME NEW t \in Tasks, Verify(t) \/ VerifyFails(t)
      PROVE  Kept
  <2>1. /\ task[t].pc = "verify" /\ scores' = scores /\ expired' = expired /\ Unlock(t)
        /\ \A u \in Tasks \ {t} : task'[u] = task[u]
      BY <1>0, <1>9 DEF Verify, VerifyFails, Goto, Finish, table
  <2>2. /\ task'[t].mint = task[t].mint /\ task'[t].dup = task[t].dup
        /\ task'[t].blind = task[t].blind /\ task'[t].verdict = task[t].verdict
      BY <1>0, <1>9 DEF Verify, VerifyFails, Goto, Finish, Task
  <2>3. task[t].end = "running"
      BY <1>0, <2>1 DEF TaskInv
  <2>4. \/ Finish(t, "unverified")
        \/ Finish(t, "absent") /\ ~Verified(t)
        \/ Finish(t, "unqualified") /\ task[t].verdict # "good"
        \/ Finish(t, "deduped") /\ task[t].dup
        \/ Goto(t, "alert") /\ ~task[t].dup
      BY <1>9 DEF Verify, VerifyFails
  <2>5. \/ task'[t].pc = "done" /\ task'[t].end = "unverified"
        \/ task'[t].pc = "done" /\ task'[t].end = "absent" /\ ~Verified(t)
        \/ task'[t].pc = "done" /\ task'[t].end = "unqualified" /\ task[t].verdict # "good"
        \/ task'[t].pc = "done" /\ task'[t].end = "deduped" /\ task[t].dup
        \/ task'[t].pc = "alert" /\ task'[t].end = "running" /\ ~task[t].dup
      BY <1>0, <2>3, <2>4 DEF Goto, Finish, Task
  <2>6. TaskInv(t)'
      BY <2>2, <2>5 DEF TaskInv
  <2>7. Verified(t) => (task'[t].pc = "done" => task'[t].end \in WriterEnds)
      BY <2>5 DEF WriterEnds
  <2> QED
      BY <2>1, <2>2, <2>6, <2>7, LocksKept, QuietStep DEF Kept
<1>10. ASSUME NEW t \in Tasks, NEW readable \in BOOLEAN, Alert(t, readable)
       PROVE  Kept
  <2>1. /\ task[t].pc = "alert" /\ scores' = scores /\ expired' = expired
        /\ mintLock' = mintLock /\ ~task[t].dup
        /\ \A u \in Tasks \ {t} : task'[u] = task[u]
      BY <1>0, <1>10 DEF Alert, Finish, table, locks, TaskInv
  <2>2. /\ task'[t].mint = task[t].mint /\ task'[t].dup = task[t].dup
        /\ task'[t].blind = task[t].blind
        /\ task'[t].pc = "done" /\ task'[t].end \in {"alerted", "unsent"}
      BY <1>0, <1>10 DEF Alert, Finish, Task
  <2>3. TaskInv(t)'
      BY <2>1, <2>2 DEF TaskInv
  <2>4. task'[t].end \in WriterEnds
      BY <2>2 DEF WriterEnds
  <2> QED
      BY <2>1, <2>2, <2>3, <2>4, LocksKept, QuietStep DEF Kept
<1>11. ASSUME NEW t \in Tasks, NEW m \in Mints, Spawn(t, m)
       PROVE  Kept
  <2>1. /\ task[t].pc = "idle" /\ scores' = scores /\ expired' = expired /\ mintLock' = mintLock
        /\ \A u \in Tasks \ {t} : task'[u] = task[u]
      BY <1>0, <1>11 DEF Spawn, table, locks
  <2>2. task'[t].pc = "pumped" /\ task'[t].end = "running" /\ ~task'[t].dup
      BY <1>0, <1>11 DEF Spawn, NewTask
  <2> QED
      BY <1>1, <2>1, <2>2
<1>12. ASSUME Expire
       PROVE  Kept
  <2>1. /\ scores' = scores /\ task' = task /\ mintLock' = mintLock
        /\ expired \in Nat /\ expired' = expired + 1
      BY <1>0, <1>12 DEF Expire, locks, ScorerTypeOK
  <2>2. InWindow' \subseteq InWindow
      BY <1>0, <2>1 DEF InWindow, ScorerTypeOK
  <2>3. ASSUME NEW u \in Tasks
        PROVE  TaskInv(u)'
      BY <1>0, <2>1, <2>2 DEF TaskInv, HighRow
  <2>4. ASSUME NEW i \in DOMAIN scores
        PROVE  RowInv(i)'
    <3> DEFINE later == expired' + 1 .. i - 1
    <3>1. i \in Nat
        BY <1>0 DEF ScorerTypeOK
    <3>2. \A j \in later : j \in expired + 1 .. i - 1
        BY <2>1, <3>1
    <3>3. RowInv(i)
        BY DEF DedupInv
    <3>4. later = expired' + 1 .. i - 1
        OBVIOUS
    <3> HIDE DEF later
    <3>5. ~task[scores[i].task].dup /\ ~task[scores[i].task].blind =>
              \A j \in later : ~HighRow(j, scores[i].mint)
        BY <3>2, <3>3 DEF RowInv
    <3>6. \A j : HighRow(j, scores[i].mint)' <=> HighRow(j, scores[i].mint)
        BY <2>1 DEF HighRow
    <3>7. ~task'[scores[i].task].dup /\ ~task'[scores[i].task].blind =>
              \A j \in expired' + 1 .. i - 1 : ~HighRow(j, scores[i].mint)'
        BY <2>1, <3>4, <3>5, <3>6
    <3>8. task'[scores[i].task].dup => \E j \in 1 .. i - 1 : HighRow(j, scores[i].mint)'
        BY <2>1, <3>3, <3>6 DEF RowInv
    <3> QED
        BY <2>1, <3>3, <3>7, <3>8 DEF RowInv
  <2> QED
      BY <2>1, <2>3, <2>4 DEF Kept
\* A restart ends every task; one insert may still land.
<1>13. ASSUME NEW newModel \in Models, NEW landed \in BOOLEAN,
              ScorerRestart(newModel, landed)
       PROVE  Kept
  <2>1. ASSUME NEW u \in Tasks
        PROVE  /\ task'[u].mint = task[u].mint /\ task'[u].dup = task[u].dup
               /\ task'[u].blind = task[u].blind /\ task'[u].verdict = task[u].verdict
               /\ \/ task[u].pc \in {"idle", "done"} /\ task'[u] = task[u]
                  \/ /\ task[u].pc \notin {"idle", "done"}
                     /\ task'[u].pc = "done" /\ task'[u].end = "killed"
    <3>1. task'[u] = IF task[u].pc \in {"idle", "done"} THEN task[u]
                     ELSE [task[u] EXCEPT !.pc = "done", !.end = "killed"]
        BY <1>13 DEF ScorerRestart
    <3>2. task[u] \in Task
        BY <1>0
    <3>3. CASE task[u].pc \in {"idle", "done"}
        BY <3>1, <3>3
    <3>4. CASE task[u].pc \notin {"idle", "done"}
        BY <3>1, <3>2, <3>4 DEF Task
    <3> QED
        BY <3>3, <3>4
  <2>2. ASSUME NEW u \in Tasks
        PROVE  TaskInv(u)'
    <3>1. TaskInv(u) /\ task'[u].pc \in {"idle", "done"}
        BY <1>0, <2>1
    <3> QED
        BY <2>1, <3>1 DEF TaskInv
  <2>3. ASSUME NEW u \in Tasks
        PROVE  task'[u].pc = "done" => \/ task'[u].end \in WriterEnds
                                       \/ task[u].pc = "done" /\ task'[u].end = task[u].end
      BY <2>1 DEF WriterEnds
  <2>4. expired' = expired
      BY <1>13 DEF ScorerRestart
  <2>5. \/ scores' = scores
        \/ \E t \in Tasks : Inserting(t) /\ scores' = Append(scores, ScoreOf(t))
      BY <1>13, Zenon DEF ScorerRestart
  <2>6. ASSUME scores' = scores, NEW i \in DOMAIN scores
        PROVE  RowInv(i)'
    <3>1. RowInv(i) /\ scores[i].task \in Tasks
        BY <1>0, RowType DEF DedupInv
    <3>2. task'[scores[i].task].pc = "done" => task'[scores[i].task].end \in WriterEnds
        BY <2>3, <3>1 DEF RowInv
    <3> QED
        BY <2>1, <2>4, <2>6, <3>1, <3>2 DEF RowInv, HighRow
  <2>7. ASSUME NEW t \in Tasks, Inserting(t), scores' = Append(scores, ScoreOf(t))
        PROVE  \A i \in DOMAIN scores' : RowInv(i)'
      BY <2>1, <2>3, <2>4, <2>7, RowsAfterWrite DEF Inserting
  <2> QED
      BY <2>2, <2>5, <2>6, <2>7 DEF Kept
<1>14. ASSUME UNCHANGED scorer
       PROVE  Kept
  <2>1. task' = task /\ scores' = scores /\ expired' = expired /\ mintLock' = mintLock
      BY <1>14 DEF scorer, locks, table
  <2>2. \A u \in Tasks : TaskInv(u)'
      BY <1>0, <2>1 DEF TaskInv, HighRow, InWindow
  <2>3. ASSUME NEW i \in DOMAIN scores
        PROVE  RowInv(i)'
    <3>1. RowInv(i)
        BY DEF DedupInv
    <3> QED
        BY <2>1, <3>1 DEF RowInv, HighRow
  <2> QED
      BY <2>1, <2>2, <2>3 DEF Kept
<1>15. Kept
  <2>1. ASSUME NEW t \in Tasks, Run(t)
        PROVE  Kept
    <3>1. CASE Query(t)
        BY <1>2, <1>3, <1>6, <1>7, <1>8, <1>9, <3>1 DEF Query
    <3>2. CASE ~Query(t)
        BY <1>4, <1>5, <1>10, <2>1, <3>2 DEF Run
    <3> QED
        BY <3>1, <3>2
  <2> QED
      BY <1>11, <1>12, <1>13, <1>14, <2>1 DEF ScorerMoves
<1>16. ScorerTypeOK' /\ RowsMatch' /\ AlertsMatch'
    BY ScorerTypeMoves, AlertMoves DEF DedupInv
<1> QED
    BY <1>15, <1>16 DEF DedupInv, Kept

LEMMA DedupNext == DedupInv /\ [ScorerNext]_scorerVars => DedupInv'
    BY DedupMoves, ScorerNextMoves DEF DedupInv

LEMMA DedupInvariant == ScorerSpec => []DedupInv
    BY DedupInit, DedupNext, PTL DEF ScorerSpec

\* The later of two alerting tasks looked for a high row, and found the earlier
\* one's.
LEMMA DedupThenOnce == DedupInv => AlertOncePerWindow
<1> SUFFICES ASSUME DedupInv, NEW i \in InWindow, NEW j \in InWindow,
                    i < j, scores[i].mint = scores[j].mint,
                    {scores[i].task, scores[j].task} \subseteq Alerted,
                    ~task[scores[j].task].blind
             PROVE  FALSE
    BY DEF AlertOncePerWindow
<1>1. expired \in Nat /\ i \in DOMAIN scores /\ j \in DOMAIN scores /\ i \in expired + 1 .. j - 1
    BY DEF DedupInv, ScorerTypeOK, InWindow
<1>2. scores[i].task \in Alerted /\ scores[j].task \in Alerted
    OBVIOUS
<1>3. ~task[scores[j].task].dup
    BY <1>2 DEF DedupInv, TaskInv, Alerted
<1>4. ~HighRow(i, scores[j].mint)
    BY <1>1, <1>3 DEF DedupInv, RowInv
<1>5. scores[i].verdict = "good"
    BY <1>1, <1>2 DEF DedupInv, AlertsMatch, RowsMatch, Alerted
<1> QED
    BY <1>4, <1>5 DEF HighRow

\* Two alerts for a mint within the dedup window need a failed "high" query,
\* whatever else fails and however often the process restarts: the later of
\* the two tasks looked for a high row and found none, while the earlier one's
\* was there.
THEOREM AlertsOncePerWindow == ScorerSpec => []AlertOncePerWindow
    BY DedupThenOnce, DedupInvariant, PTL

\* The ways a task with a good row can have ended.
LEMMA DedupThenAlert == DedupInv => NoLostAlert
<1> SUFFICES ASSUME DedupInv, NEW i \in DOMAIN scores, scores[i].verdict = "good",
                    task[scores[i].task].pc = "done"
             PROVE  LET t == task[scores[i].task]
                        Rival(j) == scores[j].mint = scores[i].mint /\ scores[j].verdict # "low"
                    IN  \/ t.end \in {"alerted", "unsent", "killed", "unverified"}
                        \/ t.end = "deduped" /\ \E j \in 1 .. i - 1 : Rival(j)
    BY DEF NoLostAlert
<1> PICK t : t = scores[i].task
    OBVIOUS
<1>1. t \in Tasks /\ task[t].verdict = "good" /\ task[t].end \in WriterEnds
    BY RowType DEF DedupInv, RowsMatch, RowInv
<1>2. task[t].end # "unqualified"
    BY <1>1 DEF DedupInv, TaskInv
<1>3. task[t].end = "deduped" => \E j \in 1 .. i - 1 : HighRow(j, scores[i].mint)
    BY <1>1 DEF DedupInv, TaskInv, RowInv
<1> QED
    BY <1>1, <1>2, <1>3 DEF WriterEnds, HighRow

\* A good row in mint_scores whose task has ended led to an alert, unless the
\* task was killed, could not confirm its insert or could not read DexScreener,
\* or a high row of the mint is before its own.
THEOREM GoodScoresAlert == ScorerSpec => []NoLostAlert
    BY DedupThenAlert, DedupInvariant, PTL

-----------------------------------------------------------------------------
(***************************************************************************)
(* What the insert found holds until it writes, also when other users of   *)
(* the client disturb its queries: the mint's lock keeps the other writers *)
(* away.  So the table refines ScoreWindow without MintScorerProofs'       *)
(* Serial, and in whatever system the scorer is a part of.                 *)
(***************************************************************************)
AbsentTask(t) ==
    /\ task[t].absent => task[t].pc \in Written \cup {"insert"}
    /\ task[t].absent /\ task[t].pc = "insert" => ~HasRecentScore(task[t].mint)

AbsentInv == \A t \in Tasks : AbsentTask(t)

LEMMA AbsentInit == ScorerInit => AbsentInv
    BY DEF ScorerInit, NewTask, AbsentInv, AbsentTask

\* A step of one task that is not in its insert.
LEMMA AbsentQuiet ==
    ASSUME AbsentInv, NEW t \in Tasks,
           \A u \in Tasks \ {t} : task'[u] = task[u],
           scores' = scores, expired' = expired, model' = model,
           task'[t].absent => task[t].absent /\ task[t].pc # "insert",
           task[t].pc \in Written => task'[t].pc \in Written
    PROVE  AbsentInv'
<1>1. \A m : HasRecentScore(m)' <=> HasRecentScore(m)
    BY DEF HasRecentScore, InWindow
<1>2. AbsentTask(t)'
    BY DEF AbsentInv, AbsentTask, Written
<1>3. ASSUME NEW u \in Tasks \ {t}
      PROVE  AbsentTask(u)'
    BY <1>1 DEF AbsentInv, AbsentTask, HasRecentScore, InWindow
<1> QED
    BY <1>2, <1>3 DEF AbsentInv

\* The others' findings while one task writes its row and leaves its insert.
LEMMA AbsentWriting ==
    ASSUME DedupInv, AbsentInv, NEW t \in Tasks, task[t].pc = "insert",
           \A u \in Tasks \ {t} : task'[u] = task[u],
           task'[t].pc \in {"verify", "done"},
           scores' = scores \/ scores' = Append(scores, ScoreOf(t)),
           expired' = expired, model' = model
    PROVE  AbsentInv'
<1>0. ScorerTypeOK /\ expired \in Nat
    BY DEF DedupInv, ScorerTypeOK
<1>1. ASSUME NEW u \in Tasks \ {t}, task[u].pc = "insert", HasRecentScore(task[u].mint)'
      PROVE  HasRecentScore(task[u].mint)
  <2> PICK m : m = task[u].mint
      OBVIOUS
  <2>1. m # task[t].mint
      BY <1>1 DEF DedupInv, TaskInv, Locked
  <2>2. PICK i \in InWindow' : scores'[i].mint = m /\ scores'[i].model = model
      BY <1>1 DEF HasRecentScore
  <2>3. CASE scores' = scores
      BY <2>2, <2>3 DEF HasRecentScore, InWindow
  <2>4. CASE scores' = Append(scores, ScoreOf(t))
    <3>1. /\ DOMAIN scores = 1 .. Len(scores) /\ Len(scores) \in Nat
          /\ \A j \in 1 .. Len(scores) : scores'[j] = scores[j]
          /\ scores'[Len(scores) + 1].mint = task[t].mint
        BY <1>0, <2>4, Appended
    <3>2. Len(scores') = Len(scores) + 1
        BY <1>0, <2>4, ScoreType
    <3>3. i \in InWindow \/ i = Len(scores) + 1
        BY <1>0, <2>2, <3>1, <3>2 DEF InWindow
    <3>4. i # Len(scores) + 1
        BY <2>1, <2>2, <3>1
    <3>5. i \in InWindow /\ scores'[i] = scores[i]
        BY <1>0, <3>1, <3>3, <3>4 DEF InWindow
    <3> QED
        BY <2>2, <3>5 DEF HasRecentScore
  <2> QED
      BY <2>3, <2>4
<1>2. ASSUME NEW u \in Tasks \ {t}
      PROVE  AbsentTask(u)'
  <2>1. task'[u] = task[u] /\ AbsentTask(u)
      BY DEF AbsentInv
  <2>2. task[u].pc = "insert" /\ HasRecentScore(task[u].mint)' => HasRecentScore(task[u].mint)
      BY <1>1
  <2> QED
      BY <2>1, <2>2 DEF AbsentTask
<1>3. AbsentTask(t)'
    BY DEF AbsentTask, Written
<1> QED
    BY <1>2, <1>3 DEF AbsentInv

LEMMA AbsentMoves == DedupInv /\ AbsentInv /\ ScorerMoves => AbsentInv'
<1> SUFFICES ASSUME DedupInv, AbsentInv, ScorerMoves
             PROVE  AbsentInv'
    OBVIOUS
<1>0. /\ task \in [Tasks -> Task] /\ \A t \in Tasks : task[t] \in Task
      /\ ScorerTypeOK /\ expired \in Nat
    BY DEF DedupInv, ScorerTypeOK
<1>1. ASSUME NEW t \in Tasks, StartQuery(t)
      PROVE  AbsentInv'
  <2>1. scores' = scores /\ expired' = expired /\ model' = model
      BY <1>1 DEF StartQuery, table
  <2>2. /\ \A u \in Tasks \ {t} : task'[u] = task[u]
        /\ task'[t].pc = task[t].pc /\ task'[t].mint = task[t].mint
        /\ task'[t].absent <=> task[t].pc = "insert" /\ Absent(t)
      BY <1>0, <1>1 DEF StartQuery, Task
  <2>3. CASE ~task'[t].absent
      BY <2>1, <2>2, <2>3, AbsentQuiet
  <2>4. CASE task'[t].absent
    <3>1. \A m : HasRecentScore(m)' <=> HasRecentScore(m)
        BY <2>1 DEF HasRecentScore, InWindow
    <3>2. AbsentTask(t)'
        BY <2>1, <2>2, <2>4 DEF AbsentTask, Absent, HasRecentScore, InWindow
    <3>3. \A u \in Tasks \ {t} : AbsentTask(u)'
        BY <2>1, <2>2 DEF AbsentInv, AbsentTask, HasRecentScore, InWindow
    <3> QED
        BY <3>2, <3>3 DEF AbsentInv
  <2> QED
      BY <2>3, <2>4
<1>2. ASSUME NEW t \in Tasks, RecentHighScore(t) \/ RecentHighScoreFails(t)
      PROVE  AbsentInv'
  <2>1. /\ scores' = scores /\ expired' = expired /\ model' = model /\ task[t].pc = "high"
        /\ \A u \in Tasks \ {t} : task'[u] = task[u]
        /\ task'[t].absent = task[t].absent
      BY <1>0, <1>2 DEF RecentHighScore, RecentHighScoreFails, table, Task
  <2> QED
      BY <2>1, AbsentQuiet DEF Written
<1>3. ASSUME NEW t \in Tasks, Insert(t) \/ \E stored \in BOOLEAN : InsertFails(t, stored)
      PROVE  AbsentInv'
  <2>1. /\ task[t].pc = "insert" /\ expired' = expired /\ model' = model
        /\ \A u \in Tasks \ {t} : task'[u] = task[u]
        /\ scores' = scores \/ scores' = Append(scores, ScoreOf(t))
      BY <1>0, <1>3 DEF Insert, InsertFails, Goto, Finish
  <2>2. task'[t].pc \in {"verify", "done"}
      BY <1>0, <1>3 DEF Insert, InsertFails, Goto, Finish, Task
  <2> QED
      BY <2>1, <2>2, AbsentWriting
<1>4. ASSUME NEW t \in Tasks, Call(t)
      PROVE  AbsentInv'
  <2>1. /\ scores' = scores /\ expired' = expired /\ model' = model /\ task[t].pc = "claude"
        /\ \A u \in Tasks \ {t} : task'[u] = task[u]
        /\ task'[t].absent = task[t].absent
      BY <1>0, <1>4 DEF Call, ClaudeAnswers, ClaudeGivesNothing, ClaudeRaises, Finish, table, Task
  <2> QED
      BY <2>1, AbsentQuiet DEF Written
<1>5. ASSUME NEW t \in Tasks,
             \/ Examples(t) \/ ExamplesFail(t) \/ RecentScore(t) \/ RecentScoreFails(t)
             \/ Verify(t) \/ VerifyFails(t) \/ LockMint(t)
             \/ \E readable \in BOOLEAN : Alert(t, readable)
      PROVE  AbsentInv'
  <2>1. /\ scores' = scores /\ expired' = expired /\ model' = model /\ task[t].pc # "insert"
      BY <1>5 DEF Examples, ExamplesFail, RecentScore, RecentScoreFails,
         Verify, VerifyFails, LockMint, Alert, table
  <2>2. /\ \A u \in Tasks \ {t} : task'[u] = task[u]
        /\ task'[t].absent = task[t].absent
      BY <1>0, <1>5 DEF Examples, ExamplesFail, RecentScore, RecentScoreFails,
         Verify, VerifyFails, LockMint, Alert, Goto, Finish, Task
  <2>3. task[t].pc \in Written => task'[t].pc \in Written
    <3>1. task[t].pc \in Written =>
              \/ Goto(t, "alert")
              \/ \E e \in Ends : Finish(t, e)
        BY <1>5 DEF Examples, ExamplesFail, RecentScore, RecentScoreFails,
           Verify, VerifyFails, LockMint, Alert, Written, Ends
    <3> QED
        BY <1>0, <3>1 DEF Goto, Finish, Written, Task
  <2> QED
      BY <2>1, <2>2, <2>3, AbsentQuiet
<1>6. ASSUME NEW t \in Tasks, NEW m \in Mints, Spawn(t, m)
      PROVE  AbsentInv'
  <2>1. /\ scores' = scores /\ expired' = expired /\ model' = model /\ task[t].pc = "idle"
        /\ \A u \in Tasks \ {t} : task'[u] = task[u]
        /\ ~task'[t].absent
      BY <1>0, <1>6 DEF Spawn, table, NewTask
  <2> QED
      BY <2>1, AbsentQuiet DEF Written
<1>7. CASE Expire
  <2>1. task' = task /\ \A m : HasRecentScore(m)' => HasRecentScore(m)
      BY <1>0, <1>7 DEF Expire, HasRecentScore, InWindow, ScorerTypeOK
  <2>2. ASSUME NEW t \in Tasks
        PROVE  HasRecentScore(task[t].mint)' => HasRecentScore(task[t].mint)
      BY <1>0, <1>7, <2>1 DEF Expire, HasRecentScore, InWindow, ScorerTypeOK
  <2> QED
      BY <2>1, <2>2 DEF AbsentInv, AbsentTask
<1>8. ASSUME NEW newModel \in Models, NEW landed \in BOOLEAN, ScorerRestart(newModel, landed)
      PROVE  AbsentInv'
  <2> SUFFICES ASSUME NEW t \in Tasks
               PROVE  AbsentTask(t)'
      BY DEF AbsentInv
  <2>1. task'[t] = IF task[t].pc \in {"idle", "done"} THEN task[t]
                   ELSE [task[t] EXCEPT !.pc = "done", !.end = "killed"]
      BY <1>8 DEF ScorerRestart
  <2>2. AbsentTask(t) /\ task[t] \in Task
      BY <1>0 DEF AbsentInv
  <2>3. task'[t].pc \in {"idle", "done"} /\ (task'[t].pc = "idle" => ~task'[t].absent)
      BY <2>1, <2>2 DEF AbsentTask, Written, Task
  <2> QED
      BY <2>3 DEF AbsentTask, Written
<1>9. CASE UNCHANGED scorer
    BY <1>9 DEF scorer, table, AbsentInv, AbsentTask, HasRecentScore, InWindow
<1> QED
    BY <1>1, <1>2, <1>3, <1>4, <1>5, <1>6, <1>7, <1>8, <1>9 DEF ScorerMoves, Run, Query

LEMMA AbsentThenHolds == AbsentInv => AbsentHolds
    BY DEF AbsentInv, AbsentTask, AbsentHolds

-----------------------------------------------------------------------------
(***************************************************************************)
(* Standing back.  A task that finds a score of its mint before it wrote   *)
(* its own row finds another task's, and rows are only ever appended: the  *)
(* score a task stood back for stays.                                      *)
(***************************************************************************)
OtherScore(t) ==
    \E i \in DOMAIN scores : scores[i].mint = task[t].mint /\ scores[i].task # t

StandsTask(t) ==
    /\ task[t].pc = "insert" /\ t \in using /\ ~task[t].absent => OtherScore(t)
    /\ task[t].pc = "verify" => Verified(t) \/ OtherScore(t)
    /\ task[t].pc = "alert" => Verified(t)
    /\ task[t].pc = "done" => task[t].end # "running"
    /\ task[t].end \in {"recent", "absent"} => OtherScore(t)
    /\ task[t].end \in {"unqualified", "deduped", "alerted", "unsent"} => Verified(t)

StandsInv == \A t \in Tasks : StandsTask(t)

LEMMA StandsInit == ScorerInit => StandsInv
    BY DEF ScorerInit, NewTask, StandsInv, StandsTask

\* Rows are only appended.
LEMMA RowsStay ==
    ASSUME ScorerTypeOK, LockMoves
    PROVE  scores' = scores \/ \E t \in Tasks : scores' = Append(scores, ScoreOf(t))
<1>1. ASSUME NEW t \in Tasks, Run(t)
      PROVE  scores' = scores \/ scores' = Append(scores, ScoreOf(t))
    BY <1>1 DEF Run, Query, Call, StartQuery, Examples, ExamplesFail, RecentScore, RecentScoreFails,
       RecentHighScore, RecentHighScoreFails, Insert, InsertFails, Verify, VerifyFails,
       ClaudeAnswers, ClaudeGivesNothing, ClaudeRaises, LockMint, Alert, table
<1>2. ASSUME NEW newModel \in Models, NEW landed \in BOOLEAN, ScorerRestart(newModel, landed)
      PROVE  scores' = scores \/ \E t \in Tasks : scores' = Append(scores, ScoreOf(t))
    BY <1>2, Zenon DEF ScorerRestart
<1>3. ASSUME (\E t \in Tasks, m \in Mints : Spawn(t, m)) \/ Expire \/ UNCHANGED scorer
      PROVE  scores' = scores
    BY <1>3 DEF Spawn, Expire, scorer, table
<1> QED
    BY <1>1, <1>2, <1>3 DEF LockMoves

\* What there is to stand back for, and what a task verified, stays.
LEMMA ScoresStay ==
    ASSUME ScorerTypeOK, LockMoves, NEW t \in Tasks, task'[t].mint = task[t].mint
    PROVE  /\ OtherScore(t) => OtherScore(t)'
           /\ Verified(t) => Verified(t)'
<1>1. \A i \in DOMAIN scores : i \in DOMAIN scores' /\ scores'[i] = scores[i]
  <2>1. CASE scores' = scores
      BY <2>1
  <2>2. ASSUME NEW u \in Tasks, scores' = Append(scores, ScoreOf(u))
        PROVE  \A i \in DOMAIN scores : i \in DOMAIN scores' /\ scores'[i] = scores[i]
      BY <2>2, Appended
  <2> QED
      BY <2>1, <2>2, RowsStay
<1> QED
    BY <1>1 DEF OtherScore, Verified

\* A score that is found before the own row was written is another task's.
LEMMA FoundIsAnothers ==
    ASSUME DedupInv, NEW t \in Tasks, task[t].pc \notin Written, HasRecentScore(task[t].mint)
    PROVE  OtherScore(t)
<1>1. PICK i \in InWindow : scores[i].mint = task[t].mint
    BY DEF HasRecentScore
<1>2. i \in DOMAIN scores
    BY DEF DedupInv, ScorerTypeOK, InWindow
<1>3. scores[i].task # t
    BY <1>2 DEF DedupInv, RowsMatch, Written
<1> QED
    BY <1>1, <1>2, <1>3 DEF OtherScore

\* Nothing happens to a task.
LEMMA StandsOther ==
    ASSUME ScorerTypeOK, StandsInv, LockMoves, NEW t \in Tasks, task'[t] = task[t],
           t \in using' => t \in using \/ task[t].pc # "insert"
    PROVE  StandsTask(t)'
<1>1. (OtherScore(t) => OtherScore(t)') /\ (Verified(t) => Verified(t)')
    BY ScoresStay
<1> QED
    BY <1>1 DEF StandsInv, StandsTask

\* A step of a task.
LEMMA StandsRun ==
    ASSUME DedupInv, StandsInv, LockMoves, NEW t \in Tasks, Run(t)
    PROVE  StandsTask(t)'
<1>0. task \in [Tasks -> Task] /\ task[t] \in Task /\ ScorerTypeOK
    BY DEF DedupInv, ScorerTypeOK
<1>1. task[t].pc \notin {"idle", "done"}
    BY DEF Run, Query, Call, StartQuery, Examples, ExamplesFail, RecentScore, RecentScoreFails,
       RecentHighScore, RecentHighScoreFails, Insert, InsertFails, Verify, VerifyFails,
       ClaudeAnswers, ClaudeGivesNothing, ClaudeRaises, LockMint, Alert, Queries
<1>2. task[t].end = "running" /\ StandsTask(t)
    BY <1>1 DEF DedupInv, TaskInv, StandsInv
<1>3. ASSUME task'[t].mint = task[t].mint
      PROVE  (OtherScore(t) => OtherScore(t)') /\ (Verified(t) => Verified(t)')
    BY <1>0, <1>3, ScoresStay
\* The task goes on to where it has found nothing yet, or gives up.
<1>4. ASSUME NEW p \in {"dead", "claude", "lock", "recent", "high"},
             task'[t].pc = p, task'[t].end = "running"
      PROVE  StandsTask(t)'
    BY <1>4 DEF StandsTask
<1>5. ASSUME NEW e \in {"no_examples", "no_answer", "unverified"}, Finish(t, e)
      PROVE  StandsTask(t)'
  <2>1. task'[t].pc = "done" /\ task'[t].end = e
      BY <1>0, <1>5 DEF Finish, Task
  <2> QED
      BY <2>1 DEF StandsTask
<1>6. ASSUME NEW p \in {"dead", "claude", "lock", "recent", "high"}, Goto(t, p)
      PROVE  StandsTask(t)'
  <2>1. task'[t].pc = p /\ task'[t].end = "running"
      BY <1>0, <1>2, <1>6 DEF Goto, Task
  <2> QED
      BY <1>4, <2>1
<1>7. CASE StartQuery(t)
  <2>1. /\ task'[t].pc = task[t].pc /\ task'[t].end = task[t].end /\ task'[t].mint = task[t].mint
        /\ task'[t].absent <=> task[t].pc = "insert" /\ Absent(t)
      BY <1>0, <1>7 DEF StartQuery, Task
  <2>2. task[t].pc = "insert" /\ ~task'[t].absent => OtherScore(t)
    <3>1. task[t].pc = "insert" => task[t].pc \notin Written
        BY DEF Written
    <3> QED
        BY <2>1, <3>1, FoundIsAnothers DEF Absent
  <2> QED
      BY <1>1, <1>2, <1>3, <2>1, <2>2 DEF StandsTask
<1>8. CASE Examples(t) \/ ExamplesFail(t)
    BY <1>5, <1>6, <1>8 DEF Examples, ExamplesFail
<1>9. CASE Call(t)
  <2>1. ASSUME NEW verdict \in Answers, ClaudeAnswers(t, verdict)
        PROVE  StandsTask(t)'
    <3>1. task'[t].pc = "lock" /\ task'[t].end = "running"
        BY <1>0, <1>2, <2>1 DEF ClaudeAnswers, Task
    <3> QED
        BY <1>4, <3>1
  <2>2. CASE ClaudeRaises(t) /\ task' = [task EXCEPT ![t].attempt = @ + 1]
    <3>1. task'[t].pc = "claude" /\ task'[t].end = "running"
        BY <1>0, <1>2, <2>2 DEF ClaudeRaises, Task
    <3> QED
        BY <1>4, <3>1
  <2> QED
      BY <1>5, <1>9, <2>1, <2>2 DEF Call, ClaudeGivesNothing, ClaudeRaises
<1>10. CASE LockMint(t)
    BY <1>6, <1>10 DEF LockMint
<1>11. CASE RecentScore(t)
  <2>1. CASE HasRecentScore(task[t].mint)
    <3>1. task'[t].pc = "done" /\ task'[t].end = "recent" /\ task'[t].mint = task[t].mint
        BY <1>0, <1>11, <2>1 DEF RecentScore, Finish, Task
    <3>2. OtherScore(t)
        BY <1>11, <2>1, FoundIsAnothers DEF RecentScore, Written
    <3> QED
        BY <1>3, <3>1, <3>2 DEF StandsTask
  <2>2. CASE ~HasRecentScore(task[t].mint)
      BY <1>6, <1>11, <2>2 DEF RecentScore
  <2> QED
      BY <2>1, <2>2
<1>12. CASE RecentScoreFails(t)
    BY <1>6, <1>12 DEF RecentScoreFails
<1>13. CASE RecentHighScore(t) \/ RecentHighScoreFails(t)
  <2>1. t \notin using'
      BY <1>13 DEF RecentHighScore, RecentHighScoreFails, Returns, Raises
  <2>2. task'[t].pc = "insert" /\ task'[t].end = "running"
    <3>1. CASE RecentHighScore(t)
        BY <1>0, <1>2, <3>1 DEF RecentHighScore, Task
    <3>2. CASE RecentHighScoreFails(t)
        BY <1>0, <1>2, <3>2 DEF RecentHighScoreFails, Task
    <3> QED
        BY <1>13, <3>1, <3>2
  <2> QED
      BY <2>1, <2>2 DEF StandsTask
<1>14. CASE Insert(t)
  <2>1. /\ task'[t].pc = "verify" /\ task'[t].end = "running" /\ task'[t].mint = task[t].mint
        /\ t \in using
      BY <1>0, <1>2, <1>14 DEF Insert, Goto, Returns, Task
  <2>2. CASE task[t].absent
    <3>1. scores' = Append(scores, ScoreOf(t))
        BY <1>14, <2>2 DEF Insert
    <3>2. Verified(t)'
        BY <1>0, <3>1, Appended DEF Verified
    <3> QED
        BY <2>1, <3>2 DEF StandsTask
  <2>3. CASE ~task[t].absent
      BY <1>2, <1>3, <1>14, <2>1, <2>3 DEF Insert, StandsTask
  <2> QED
      BY <2>2, <2>3
<1>15. CASE (\E stored \in BOOLEAN : InsertFails(t, stored)) \/ VerifyFails(t)
    BY <1>5, <1>15 DEF InsertFails, VerifyFails
<1>16. CASE Verify(t)
  <2>1. task'[t].mint = task[t].mint
      BY <1>0, <1>16 DEF Verify, Goto, Finish, Task
  <2>2. CASE Verified(t)
    <3>1. \/ Goto(t, "alert")
          \/ \E e \in {"unqualified", "deduped"} : Finish(t, e)
        BY <1>16, <2>2 DEF Verify
    <3>2. \/ task'[t].pc = "alert" /\ task'[t].end = "running"
          \/ task'[t].pc = "done" /\ task'[t].end \in {"unqualified", "deduped"}
        BY <1>0, <1>2, <3>1 DEF Goto, Finish, Task
    <3> QED
        BY <1>3, <2>1, <2>2, <3>2 DEF StandsTask
  <2>3. CASE ~Verified(t)
    <3>1. task'[t].pc = "done" /\ task'[t].end = "absent"
        BY <1>0, <1>16, <2>3 DEF Verify, Finish, Task
    <3>2. OtherScore(t)
        BY <1>2, <1>16, <2>3 DEF Verify, StandsTask
    <3> QED
        BY <1>3, <2>1, <3>1, <3>2 DEF StandsTask
  <2> QED
      BY <2>2, <2>3
<1>17. ASSUME NEW readable \in BOOLEAN, Alert(t, readable)
       PROVE  StandsTask(t)'
  <2>1. /\ task'[t].pc = "done" /\ task'[t].end \in {"alerted", "unsent"}
        /\ task'[t].mint = task[t].mint
      BY <1>0, <1>17 DEF Alert, Finish, Task
  <2>2. Verified(t)
      BY <1>2, <1>17 DEF Alert, StandsTask
  <2> QED
      BY <1>3, <2>1, <2>2 DEF StandsTask
<1> QED
    BY <1>7, <1>8, <1>9, <1>10, <1>11, <1>12, <1>13, <1>14, <1>15, <1>16, <1>17 DEF Run, Query

LEMMA StandsMoves == DedupInv /\ StandsInv /\ LockMoves => StandsInv'
<1> SUFFICES ASSUME DedupInv, StandsInv, LockMoves, NEW t \in Tasks
             PROVE  StandsTask(t)'
    BY DEF StandsInv
<1>0. task \in [Tasks -> Task] /\ task[t] \in Task /\ ScorerTypeOK
    BY DEF DedupInv, ScorerTypeOK
<1>1. ASSUME NEW u \in Tasks, Run(u)
      PROVE  StandsTask(t)'
  <2>1. CASE u = t
      BY <1>1, <2>1, StandsRun
  <2>2. CASE u # t
    <3>1. task'[t] = task[t]
        BY <1>0, <1>1, <2>2 DEF Run, Query, Call, StartQuery, Examples, ExamplesFail, RecentScore,
           RecentScoreFails, RecentHighScore, RecentHighScoreFails, Insert, InsertFails, Verify,
           VerifyFails, ClaudeAnswers, ClaudeGivesNothing, ClaudeRaises, LockMint, Alert, Goto, Finish
    <3>2. t \in using' => t \in using
        BY <1>1, <2>2, RunSession DEF Begins, Returns, Raises, session
    <3> QED
        BY <1>0, <3>1, <3>2, StandsOther
  <2> QED
      BY <2>1, <2>2
<1>2. ASSUME (\E u \in Tasks, m \in Mints : Spawn(u, m)) \/ Expire \/ UNCHANGED scorer,
             t \in using' <=> t \in using
      PROVE  StandsTask(t)'
  <2>1. CASE task'[t] = task[t]
      BY <1>0, <1>2, <2>1, StandsOther
  <2>2. CASE task'[t] # task[t]
    <3>1. PICK m \in Mints : Spawn(t, m)
        BY <1>0, <1>2, <2>2 DEF Spawn, Expire, scorer
    <3>2. task'[t].pc = "pumped" /\ task'[t].end = "running"
        BY <1>0, <3>1 DEF Spawn, NewTask
    <3> QED
        BY <3>2 DEF StandsTask
  <2> QED
      BY <2>1, <2>2
<1>3. ASSUME NEW newModel \in Models, NEW landed \in BOOLEAN, ScorerRestart(newModel, landed)
      PROVE  StandsTask(t)'
  <2>1. task'[t] = IF task[t].pc \in {"idle", "done"} THEN task[t]
                   ELSE [task[t] EXCEPT !.pc = "done", !.end = "killed"]
      BY <1>3 DEF ScorerRestart
  <2>2. CASE task[t].pc \in {"idle", "done"}
      BY <1>0, <2>1, <2>2, StandsOther
  <2>3. CASE task[t].pc \notin {"idle", "done"}
    <3>1. task'[t].pc = "done" /\ task'[t].end = "killed"
        BY <1>0, <2>1, <2>3 DEF Task
    <3> QED
        BY <3>1 DEF StandsTask
  <2> QED
      BY <2>2, <2>3
<1> QED
    BY <1>1, <1>2, <1>3 DEF LockMoves

\* A task that stands back for a recent score, or because its insert wrote
\* nothing, does so for another task's score that is in mint_scores: whatever
\* fails and however often the process restarts, two tasks of a mint never
\* stand back for each other.
THEOREM StandsBackRightly == ScorerSpec => []StandsBackForScore
<1>1. DedupInv /\ StandsInv /\ [ScorerNext]_scorerVars => StandsInv'
    BY StandsMoves, ScorerLockMoves
<1>2. StandsInv => StandsBackForScore
    BY DEF StandsInv, StandsTask, OtherScore, StandsBackForScore
<1> QED
    BY <1>1, <1>2, StandsInit, DedupInvariant, PTL DEF ScorerSpec
=============================================================================
