---------------------- MODULE ShredstreamIngestProofs ----------------------
(***************************************************************************)
(* Proofs about ShredstreamIngest, for every set of pools and payloads,    *)
(* every batch size and every bound on payloads and faults.                *)
(***************************************************************************)
EXTENDS ShredstreamIngest, FiniteSetTheorems, TLAPS

\* The rows made from a payload are rows of this process_payload call, in an
\* analytics table.
LEMMA RowsOfType ==
    ASSUME NEW items \in Seq(Item(LogKinds)) \cup Seq(Item(InstructionKinds)),
           NEW n \in Nat
    PROVE  /\ RowsOf(items, n) \subseteq Row
           /\ \A r \in RowsOf(items, n) : r.n = n /\ r.tbl \in Analytics
<1> SUFFICES ASSUME NEW r \in RowsOf(items, n)
             PROVE  r \in Row /\ r.n = n /\ r.tbl \in Analytics
    OBVIOUS
<1>1. PICK k \in Recorded(items) :
          r = [tbl |-> TableOf[items[k].kind], n |-> n, k |-> k, pool |-> items[k].pool]
    BY DEF RowsOf
<1>2. k \in 1 .. Len(items) /\ items[k].kind \in DOMAIN TableOf
    BY DEF Recorded
<1>3. items[k].pool \in Pools \cup {NoPool} /\ k \in Nat
  <2>1. CASE items \in Seq(Item(LogKinds))
    <3>1. items[k] \in Item(LogKinds)
        BY <1>2, <2>1
    <3> QED
        BY <1>2, <3>1 DEF Item
  <2>2. CASE items \in Seq(Item(InstructionKinds))
    <3>1. items[k] \in Item(InstructionKinds)
        BY <1>2, <2>2
    <3> QED
        BY <1>2, <3>1 DEF Item
  <2> QED
      BY <2>1, <2>2
<1>4. TableOf[items[k].kind] \in {"swaps", "pool_creates", "parse_failures"}
    BY <1>2 DEF TableOf
<1> QED
    BY <1>1, <1>3, <1>4 DEF Row, Tables, Analytics

LEMMA HeadTail ==
    ASSUME TypeOK, todo # <<>>
    PROVE  /\ <<Head(todo)>> \in Seq(Item(InstructionKinds))
           /\ Tail(todo) \in Seq(Item(InstructionKinds))
    BY DEF TypeOK

\* The hit and the event of a call are rows.
LEMMA OwnRows ==
    ASSUME NEW n \in Nat
    PROVE  /\ Hit(n) \in Row /\ Hit(n).n = n /\ Hit(n).tbl \in Analytics
           /\ Event(n) \in Row /\ Event(n).n = n
           /\ Event(n).tbl = "shredstream_events"
    BY DEF Hit, Event, Row, Tables, Analytics

\* What becomes of the database and of the buffers keeps its type.
LEMMA DatabaseTypes ==
    ASSUME TypeOK, NEW rows, DOMAIN copies' = DOMAIN copies, Append2DB(rows)
    PROVE  /\ DOMAIN copies' \subseteq Row
           /\ copies' \in [DOMAIN copies' -> Nat]
    BY DEF TypeOK, Append2DB

LEMMA BufferTypes ==
    ASSUME TypeOK
    PROVE  /\ \A rows \in SUBSET Row :
                 /\ BufferedWith(rows) \in [Analytics -> SUBSET Row]
                 /\ Accept(rows) => /\ DOMAIN copies' \subseteq Row
                                    /\ copies' \in [DOMAIN copies' -> Nat]
           /\ Nothing \in [Analytics -> SUBSET Row]
    BY DEF TypeOK, BufferedWith, Accept, Nothing

\* The part of TypeOK that belongs to the process; it survives its end and the
\* way into the finally block.
ProcessTypes ==
    /\ pc \in PCs
    /\ why \in {"batch", "hits", "final"}
    /\ todo \in Seq(Item(InstructionKinds))
    /\ batch \in SUBSET Row
    /\ buf \in [Analytics -> SUBSET Row]
    /\ local \in [Analytics -> SUBSET Row]
    /\ due \in BOOLEAN
    /\ registry \in SUBSET Pools
    /\ blind \in BOOLEAN

LEMMA ExitTypes ==
    ASSUME Exit
    PROVE  ProcessTypes' /\ interrupted' \in BOOLEAN
<1>1. todo' \in Seq(Item(InstructionKinds))'
    BY DEF Exit
<1>2. Nothing \in [Analytics -> SUBSET Row]
    BY DEF Nothing
<1>3. due' \in BOOLEAN /\ blind' \in BOOLEAN /\ interrupted' \in BOOLEAN
    BY Zenon DEF Exit
<1> QED
    BY <1>1, <1>2, <1>3 DEF Exit, ProcessTypes, PCs

LEMMA FinallyTypes ==
    ASSUME TypeOK, ToFinally
    PROVE  ProcessTypes'
<1>1. todo' \in Seq(Item(InstructionKinds))'
    BY DEF ToFinally
<1>2. Nothing \in [Analytics -> SUBSET Row]
    BY DEF Nothing
<1> QED
    BY <1>1, <1>2 DEF ToFinally, ProcessTypes, PCs, TypeOK

LEMMA InFlightType == TypeOK => InFlight \in SUBSET Row
    BY DEF TypeOK, InFlight

LEMMA TypeInit == Init => TypeOK
<1> SUFFICES ASSUME Init PROVE TypeOK
    OBVIOUS
<1>1. todo \in Seq(Item(InstructionKinds))
    BY DEF Init
<1>2. buf \in [Analytics -> SUBSET Row] /\ local \in [Analytics -> SUBSET Row]
    BY DEF Init, Nothing
<1>3. DOMAIN copies = {}
    BY DEF Init
<1>4. copies \in [DOMAIN copies -> Nat]
    BY DEF Init
<1> QED
    BY <1>1, <1>2, <1>3, <1>4 DEF Init, TypeOK, PCs

LEMMA TypeNext == TypeOK /\ [Next]_vars => TypeOK'
<1> SUFFICES ASSUME TypeOK, [Next]_vars
             PROVE  TypeOK'
    OBVIOUS
<1> USE IngestAssumption
<1>1. ASSUME NEW queryOk \in BOOLEAN, Boot(queryOk)
      PROVE  TypeOK'
  <2>1. fails' \in Nat /\ registry' \in SUBSET Pools
      BY <1>1 DEF Boot, TypeOK, StoredPools
  <2>2. blind' \in BOOLEAN /\ spoiled' \in BOOLEAN
      BY <1>1, Zenon DEF Boot, TypeOK
  <2> QED
      BY <1>1, <2>1, <2>2 DEF Boot, TypeOK, PCs, volatile
<1>2. ASSUME NEW items \in LogPayloads, LogPayload(items)
      PROVE  TypeOK'
  <2>1. seen + 1 \in Nat /\ items \in Seq(Item(LogKinds))
      BY DEF TypeOK
  <2>2. RowsOf(items, seen + 1) \cup {Event(seen + 1)} \in SUBSET Row
      BY <2>1, RowsOfType, OwnRows
  <2> QED
      BY <1>2, <2>1, <2>2, BufferTypes DEF LogPayload, MustFlush, TypeOK, PCs, Register, faults
<1>3. CASE UnmatchedPayload
    BY <1>3 DEF UnmatchedPayload, TypeOK, PCs, volatile, faults
<1>4. ASSUME NEW tx \in Transactions, EntriesPayload(tx)
      PROVE  TypeOK'
    BY <1>4 DEF EntriesPayload, TypeOK, PCs, volatile, faults
<1>5. CASE Disconnect
    BY <1>5, FinallyTypes DEF Disconnect, ProcessTypes, TypeOK, faults
<1>6. CASE TrackedInstruction
  <2>1. seen + 1 \in Nat
      BY DEF TypeOK
  <2>2. RowsOf(<<Head(todo)>>, seen + 1) \cup {Hit(seen + 1)} \in SUBSET Row
      BY <1>6, <2>1, RowsOfType, HeadTail, OwnRows DEF TrackedInstruction
  <2> QED
      BY <1>6, <2>1, <2>2, HeadTail, BufferTypes
      DEF TrackedInstruction, TypeOK, PCs, Register, faults
<1>7. CASE UntrackedInstruction
    BY <1>7, HeadTail DEF UntrackedInstruction, TypeOK, PCs, volatile, faults
<1>8. CASE Tick
    BY <1>8 DEF Tick, TypeOK, PCs, volatile, faults
<1>9. CASE EventsInserted
    BY <1>9, BufferTypes DEF Append2DB, EventsInserted, TakeBuffers, TypeOK, PCs, faults
<1>10. ASSUME NEW stored \in BOOLEAN, EventsInsertFails(stored)
       PROVE  TypeOK'
  <2>1. DOMAIN copies' \subseteq Row /\ copies' \in [DOMAIN copies' -> Nat]
      BY <1>10 DEF EventsInsertFails, Append2DB, TypeOK
  <2>2. spoiled' \in BOOLEAN /\ interrupted' \in BOOLEAN /\ blind' \in BOOLEAN
      BY <1>10, Zenon DEF EventsInsertFails, Exit, ToFinally, TypeOK
  <2> QED
      BY <1>10, <2>1, <2>2, ExitTypes, FinallyTypes DEF EventsInsertFails, ProcessTypes, TypeOK
<1>11. ASSUME NEW t \in Analytics, TableInserted(t)
       PROVE  TypeOK'
    BY <1>11, BufferTypes DEF Append2DB, TableInserted, TypeOK, PCs, control, faults
<1>12. ASSUME NEW t \in Analytics, NEW stored \in BOOLEAN, TableInsertFails(t, stored)
       PROVE  TypeOK'
  <2>1. DOMAIN copies' \subseteq Row /\ copies' \in [DOMAIN copies' -> Nat]
      BY <1>12 DEF TableInsertFails, Append2DB, TypeOK
  <2>2. spoiled' \in BOOLEAN /\ interrupted' \in BOOLEAN /\ blind' \in BOOLEAN
      BY <1>12, Zenon DEF TableInsertFails, Exit, ToFinally, TypeOK
  <2> QED
      BY <1>12, <2>1, <2>2, ExitTypes, FinallyTypes DEF TableInsertFails, ProcessTypes, TypeOK
<1>13. CASE FlushDone
    BY <1>13, ExitTypes DEF FlushDone, Cleared, ProcessTypes, TypeOK, PCs, faults
<1>14. CASE Drain
    BY <1>14, BufferTypes DEF Drain, TakeBuffers, TypeOK, PCs, faults
<1>15. CASE Cancel
  <2>1. spoiled' \in BOOLEAN /\ interrupted' \in BOOLEAN /\ blind' \in BOOLEAN
      BY <1>15, Zenon DEF Cancel, Exit, ToFinally, TypeOK
  <2> QED
      BY <1>15, <2>1, ExitTypes, FinallyTypes, InFlightType DEF Cancel, ProcessTypes, TypeOK
<1>16. ASSUME NEW stored \in BOOLEAN, OrphanEnds(stored)
       PROVE  TypeOK'
  <2>1. DOMAIN copies' \subseteq Row /\ copies' \in [DOMAIN copies' -> Nat]
      BY <1>16 DEF OrphanEnds, Append2DB, TypeOK
  <2>2. fails' \in Nat
      BY <1>16 DEF OrphanEnds, TypeOK
  <2> QED
      BY <1>16, <2>1, <2>2 DEF OrphanEnds, TypeOK, PCs, control, volatile
<1>17. ASSUME NEW stored \in BOOLEAN, Crash(stored)
       PROVE  TypeOK'
  <2>1. DOMAIN copies' \subseteq Row /\ copies' \in [DOMAIN copies' -> Nat]
      BY <1>17 DEF Crash, Append2DB, TypeOK
  <2> QED
      BY <1>17, <2>1, ExitTypes DEF Crash, ProcessTypes, TypeOK
<1>18. CASE UNCHANGED vars
    BY <1>18 DEF TypeOK, vars, control, volatile, faults
<1> QED
    BY <1>1, <1>2, <1>3, <1>4, <1>5, <1>6, <1>7, <1>8, <1>9, <1>10, <1>11,
       <1>12, <1>13, <1>14, <1>15, <1>16, <1>17, <1>18
    DEF Next, Arrivals, Instructions, EventsInsert, AnalyticsInsert, OrphanInsert

\* Every variable keeps its type.
THEOREM TypeCorrect == Spec => []TypeOK
    BY TypeInit, TypeNext, PTL DEF Spec

-----------------------------------------------------------------------------
(***************************************************************************)
(* Where rows can be.  Every row held was accepted; no analytics row is in *)
(* two places; lists taken by flush() exist only while it runs; and the    *)
(* thread of a cancelled insert exists only after the SIGINT.              *)
(***************************************************************************)
Places ==
    /\ \A r \in batch : r \in DOMAIN copies /\ r.tbl = "shredstream_events"
    /\ \A t \in Analytics :
          \A r \in buf[t] \cup local[t] : r \in DOMAIN copies /\ r.tbl = t
    /\ orphan \subseteq DOMAIN copies
    /\ \A r \in DOMAIN copies : r.n <= seen
    /\ \A t \in Analytics :
          /\ buf[t] \cap local[t] = {}
          /\ orphan \cap (buf[t] \cup local[t]) = {}
    /\ pc # "flush" => local = Nothing
    /\ pc = "down" => batch = {} /\ buf = Nothing
    /\ pc # "down" /\ ~interrupted => orphan = {}
    /\ pc = "events" => why # "hits"

\* Appending rows to the database adds no row to the ones accepted.
LEMMA AppendKeepsDomain ==
    ASSUME NEW rows, Append2DB(rows)
    PROVE  DOMAIN copies' = DOMAIN copies
    BY DEF Append2DB

LEMMA AcceptDomain ==
    ASSUME NEW rows, Accept(rows)
    PROVE  /\ DOMAIN copies' = DOMAIN copies \cup rows
           /\ \A r \in DOMAIN copies : copies'[r] = copies[r]
           /\ \A r \in rows \ DOMAIN copies : copies'[r] = 0
    BY DEF Accept

LEMMA BufferedWithRows ==
    ASSUME NEW rows, NEW t \in Analytics
    PROVE  BufferedWith(rows)[t] = buf[t] \cup {r \in rows : r.tbl = t}
    BY DEF BufferedWith

LEMMA NothingIsEmpty == \A t \in Analytics : Nothing[t] = {}
    BY DEF Nothing

\* The rows of an insert under way sit in the batch or in the current list.
LEMMA InFlightPlace ==
    ASSUME TypeOK, Places, NEW r \in InFlight
    PROVE  \/ pc = "events" /\ r \in batch
           \/ pc = "flush" /\ \E t \in Analytics : r \in local[t]
    BY DEF InFlight

LEMMA PlacesInit == Init => Places
    BY NothingIsEmpty DEF Init, Places

LEMMA PlacesExit ==
    ASSUME TypeOK, Places, Exit, DOMAIN copies' = DOMAIN copies, seen' = seen,
           orphan' \subseteq DOMAIN copies
    PROVE  Places'
    BY NothingIsEmpty DEF Places, Exit

LEMMA PlacesFinally ==
    ASSUME TypeOK, Places, ToFinally, DOMAIN copies' = DOMAIN copies,
           seen' = seen, orphan' \subseteq DOMAIN copies,
           \A t \in Analytics : orphan' \cap buf[t] = {},
           ~interrupted' => orphan' = {}
    PROVE  Places'
    BY NothingIsEmpty DEF Places, ToFinally

LEMMA PlacesNext == TypeOK /\ Places /\ [Next]_vars => Places'
<1> SUFFICES ASSUME TypeOK, Places, [Next]_vars
             PROVE  Places'
    OBVIOUS
<1> USE IngestAssumption
<1>1. ASSUME NEW queryOk \in BOOLEAN, Boot(queryOk)
      PROVE  Places'
    BY <1>1, NothingIsEmpty DEF Boot, Places, volatile
<1>2. ASSUME NEW items \in LogPayloads, LogPayload(items)
      PROVE  Places'
  <2> DEFINE rows == RowsOf(items, seen + 1)
  <2>1. \A r \in rows : r.n = seen + 1 /\ r.tbl \in Analytics
      BY RowsOfType DEF TypeOK
  <2>2. Event(seen + 1).n = seen + 1 /\ Event(seen + 1).tbl = "shredstream_events"
      BY OwnRows DEF TypeOK
  <2>3. \A t \in Analytics : buf'[t] = buf[t] \cup {r \in rows : r.tbl = t}
      BY <1>2, BufferedWithRows DEF LogPayload
  <2>4. DOMAIN copies' = DOMAIN copies \cup (rows \cup {Event(seen + 1)})
      BY <1>2, AcceptDomain DEF LogPayload
  <2>5. seen \in Nat /\ \A r \in DOMAIN copies : r.n \in Nat /\ r.n <= seen
      BY DEF TypeOK, Places, Row
  <2>6. \A r \in rows \cup {Event(seen + 1)} : r \notin DOMAIN copies
      BY <2>1, <2>2, <2>5
  <2> HIDE DEF rows
  <2>7. /\ local' = local /\ orphan' = orphan /\ interrupted' = interrupted
        /\ batch' = batch \cup {Event(seen + 1)} /\ seen' = seen + 1
        /\ pc = "loop" /\ (pc' = "loop" \/ (pc' = "events" /\ why' = "batch"))
      BY <1>2 DEF LogPayload, MustFlush, AwaitingPayload
  <2>8. \A r \in DOMAIN copies' : r.n <= seen'
      BY <2>1, <2>2, <2>4, <2>5, <2>7
  <2> QED
      BY <2>1, <2>2, <2>3, <2>4, <2>6, <2>7, <2>8, NothingIsEmpty DEF Places
<1>3. CASE UnmatchedPayload
    BY <1>3 DEF UnmatchedPayload, AwaitingPayload, Places, volatile
<1>4. ASSUME NEW tx \in Transactions, EntriesPayload(tx)
      PROVE  Places'
    BY <1>4 DEF EntriesPayload, Places, volatile
<1>5. CASE Disconnect
    BY <1>5, PlacesFinally DEF Disconnect, Places, AwaitingPayload
<1>6. CASE TrackedInstruction
  <2> DEFINE rows == RowsOf(<<Head(todo)>>, seen + 1) \cup {Hit(seen + 1)}
  <2>1. \A r \in rows : r.n = seen + 1 /\ r.tbl \in Analytics
    <3>1. seen + 1 \in Nat /\ <<Head(todo)>> \in Seq(Item(InstructionKinds))
        BY <1>6, HeadTail DEF TypeOK, TrackedInstruction
    <3>2. \A r \in RowsOf(<<Head(todo)>>, seen + 1) : r.n = seen + 1 /\ r.tbl \in Analytics
        BY <3>1, RowsOfType
    <3> QED
        BY <3>1, <3>2, OwnRows
  <2>2. seen \in Nat /\ \A r \in DOMAIN copies : r.n \in Nat /\ r.n <= seen
      BY DEF TypeOK, Places, Row
  <2>3. \A r \in rows : r \notin DOMAIN copies
      BY <2>1, <2>2
  <2>4. \A t \in Analytics : BufferedWith(rows)[t] = buf[t] \cup {r \in rows : r.tbl = t}
      BY BufferedWithRows
  <2>5. DOMAIN copies' = DOMAIN copies \cup rows
      BY <1>6, AcceptDomain DEF TrackedInstruction
  <2>6. /\ orphan' = orphan /\ interrupted' = interrupted /\ batch' = batch
        /\ seen' = seen + 1 /\ pc = "loop"
        /\ \/ pc' = "loop" /\ local' = local /\ buf' = BufferedWith(rows)
           \/ pc' = "flush" /\ buf' = Nothing /\ local' = BufferedWith(rows)
      BY <1>6 DEF TrackedInstruction
  <2> HIDE DEF rows
  <2>7. \A r \in DOMAIN copies' : r.n <= seen'
      BY <2>1, <2>2, <2>5, <2>6
  <2> QED
      BY <2>1, <2>3, <2>4, <2>5, <2>6, <2>7, NothingIsEmpty DEF Places
<1>7. CASE UntrackedInstruction
    BY <1>7 DEF UntrackedInstruction, Places, volatile
<1>8. CASE Tick
    BY <1>8 DEF Tick, Places, volatile
<1>9. CASE EventsInserted
    BY <1>9, AppendKeepsDomain, NothingIsEmpty DEF EventsInserted, TakeBuffers, Places
<1>10. ASSUME NEW stored \in BOOLEAN, EventsInsertFails(stored)
       PROVE  Places'
  <2>1. DOMAIN copies' = DOMAIN copies
      BY <1>10, AppendKeepsDomain DEF EventsInsertFails
  <2>2. CASE Exit
      BY <1>10, <2>1, <2>2, PlacesExit DEF EventsInsertFails, Places
  <2>3. CASE ToFinally /\ interrupted' = interrupted
      BY <1>10, <2>1, <2>3, PlacesFinally DEF EventsInsertFails, Places
  <2> QED
      BY <1>10, <2>2, <2>3 DEF EventsInsertFails
<1>11. ASSUME NEW t \in Analytics, TableInserted(t)
       PROVE  Places'
  <2>1. DOMAIN copies' = DOMAIN copies
      BY <1>11, AppendKeepsDomain DEF TableInserted
  <2>2. \A u \in Analytics : local'[u] \subseteq local[u]
      BY <1>11 DEF TableInserted, TypeOK
  <2> QED
      BY <1>11, <2>1, <2>2 DEF TableInserted, Places, control
<1>12. ASSUME NEW t \in Analytics, NEW stored \in BOOLEAN, TableInsertFails(t, stored)
       PROVE  Places'
  <2>1. DOMAIN copies' = DOMAIN copies
      BY <1>12, AppendKeepsDomain DEF TableInsertFails
  <2>2. CASE Exit
      BY <1>12, <2>1, <2>2, PlacesExit DEF TableInsertFails, Places
  <2>3. CASE ToFinally /\ interrupted' = interrupted
      BY <1>12, <2>1, <2>3, PlacesFinally DEF TableInsertFails, Places
  <2> QED
      BY <1>12, <2>2, <2>3 DEF TableInsertFails
<1>13. CASE FlushDone
  <2>1. CASE Exit
      BY <1>13, <2>1, PlacesExit DEF FlushDone, Cleared, Places
  <2>2. CASE ~Exit
    <3>1. local = Nothing
        BY <1>13 DEF FlushDone, Cleared, FlushOver, TypeOK, Nothing
    <3> QED
        BY <1>13, <2>2, <3>1 DEF FlushDone, Cleared, Places
  <2> QED
      BY <2>1, <2>2
<1>14. CASE Drain
    BY <1>14, NothingIsEmpty DEF Drain, TakeBuffers, Places
<1>15. CASE Cancel
  <2>1. orphan' \subseteq DOMAIN copies /\ \A t \in Analytics : orphan' \cap buf[t] = {}
    <3>1. SUFFICES ASSUME NEW r \in InFlight
                   PROVE  r \in DOMAIN copies /\ \A t \in Analytics : r \notin buf[t]
        BY <1>15 DEF Cancel
    <3>2. CASE r \in batch
        BY <3>2 DEF Places, Analytics
    <3>3. ASSUME NEW u \in Analytics, r \in local[u]
          PROVE  r \in DOMAIN copies /\ \A t \in Analytics : r \notin buf[t]
        BY <3>3 DEF Places
    <3> QED
        BY <3>2, <3>3, InFlightPlace
  <2>2. CASE Exit
      BY <1>15, <2>1, <2>2, PlacesExit DEF Cancel
  <2>3. CASE ToFinally /\ interrupted' = TRUE
      BY <1>15, <2>1, <2>3, PlacesFinally DEF Cancel
  <2> QED
      BY <1>15, <2>2, <2>3 DEF Cancel
<1>16. ASSUME NEW stored \in BOOLEAN, OrphanEnds(stored)
       PROVE  Places'
    BY <1>16, AppendKeepsDomain DEF OrphanEnds, Places, control, volatile
<1>17. ASSUME NEW stored \in BOOLEAN, Crash(stored)
       PROVE  Places'
    BY <1>17, AppendKeepsDomain, PlacesExit DEF Crash, Places
<1>18. CASE UNCHANGED vars
    BY <1>18 DEF Places, vars, control, volatile
<1> QED
    BY <1>1, <1>2, <1>3, <1>4, <1>5, <1>6, <1>7, <1>8, <1>9, <1>10, <1>11,
       <1>12, <1>13, <1>14, <1>15, <1>16, <1>17, <1>18
    DEF Next, Arrivals, Instructions, EventsInsert, AnalyticsInsert, OrphanInsert

-----------------------------------------------------------------------------
(***************************************************************************)
(* At most one copy of an analytics row, and none while it is held.        *)
(***************************************************************************)
AnalyticsOnce ==
    \A r \in AnalyticsRows : copies[r] <= 1 /\ (r \in Held => copies[r] = 0)

\* An analytics row can only be held in its own buffer, in the list taken from
\* it, or by the thread of a cancelled insert; before and after a step.
HeldApart ==
    \A r : r.tbl \in Analytics =>
        (r \in Held <=> r \in orphan \/ r \in buf[r.tbl] \/ r \in local[r.tbl])

LEMMA HeldPlaces == Places => HeldApart
<1> SUFFICES ASSUME Places, NEW r, r.tbl \in Analytics
             PROVE  r \in Held <=> r \in orphan \/ r \in buf[r.tbl] \/ r \in local[r.tbl]
    BY DEF HeldApart
<1>1. r \in Held => r \in batch \/ r \in orphan \/ \E t \in Analytics : r \in buf[t] \cup local[t]
    BY DEF Held, Buffered
<1>2. r \notin batch
    BY DEF Places, Analytics
<1>3. \A t \in Analytics : r \in buf[t] \cup local[t] => t = r.tbl
    BY DEF Places
<1>4. r \in orphan \/ r \in buf[r.tbl] \/ r \in local[r.tbl] => r \in Held
    BY DEF Held, Buffered
<1> QED
    BY <1>1, <1>2, <1>3, <1>4

LEMMA HeldPlacesNext == Places' => HeldApart'
    BY HeldPlaces, PTL

\* A step after which some analytics rows are no longer held, each written
\* once on that occasion or not at all.
Settles ==
    /\ DOMAIN copies' = DOMAIN copies
    /\ \A r \in AnalyticsRows :
          /\ r \in Held' => r \in Held
          /\ \/ copies'[r] = copies[r]
             \/ r \in Held /\ r \notin Held' /\ copies'[r] = copies[r] + 1

\* A step that buffers new rows.
Accepts ==
    /\ DOMAIN copies \subseteq DOMAIN copies'
    /\ \A r \in DOMAIN copies : copies'[r] = copies[r]
    /\ \A r \in DOMAIN copies' \ DOMAIN copies : copies'[r] = 0
    /\ \A r \in AnalyticsRows : r \in Held' <=> r \in Held
    /\ \A r \in DOMAIN copies' \ DOMAIN copies : r.tbl \in Analytics => r \in Held'

\* A step that changes nothing an analytics row could notice.
LEMMA SettlesIdle ==
    ASSUME Places, Places', copies' = copies, orphan' = orphan,
           \A t \in Analytics : buf'[t] \cup local'[t] = buf[t] \cup local[t]
    PROVE  Settles
    BY HeldPlaces, HeldPlacesNext DEF Settles, HeldApart, AnalyticsRows

\* The end of the process, and the way to its finally block, drop rows only.
LEMMA SettlesDropping ==
    ASSUME Places, Places', TypeOK, NEW rows, Append2DB(rows),
           orphan' = orphan,
           \A t \in Analytics : buf'[t] \cup local'[t] \subseteq buf[t] \cup local[t],
           \A r \in rows : r.tbl \in Analytics =>
              /\ r \in buf[r.tbl] \cup local[r.tbl]
              /\ r \notin buf'[r.tbl] \cup local'[r.tbl]
    PROVE  Settles
<1>1. \A r \in DOMAIN copies :
          copies'[r] = IF r \in rows THEN copies[r] + 1 ELSE copies[r]
    BY DEF Append2DB
<1>2. \A r : r.tbl \in Analytics /\ r \in rows => r \notin orphan
    BY DEF Places
<1> QED
    BY <1>1, <1>2, AppendKeepsDomain, HeldPlaces, HeldPlacesNext
    DEF Settles, HeldApart, AnalyticsRows

\* Exit and ToFinally leave no row in the buffers that was not there.
LEMMA DroppedBuffers ==
    ASSUME Exit \/ ToFinally
    PROVE  \A t \in Analytics :
              /\ buf'[t] \cup local'[t] \subseteq buf[t]
              /\ local'[t] = {}
    BY NothingIsEmpty DEF Exit, ToFinally

\* Every step buffers new rows or settles old ones.
LEMMA StepKinds ==
    TypeOK /\ Places /\ Places' /\ [Next]_vars => Accepts \/ Settles
<1> SUFFICES ASSUME TypeOK, Places, Places', [Next]_vars
             PROVE  Accepts \/ Settles
    OBVIOUS
<1> USE IngestAssumption
<1>1. ASSUME NEW queryOk \in BOOLEAN, Boot(queryOk)
      PROVE  Settles
    BY <1>1, SettlesIdle DEF Boot, volatile
<1>2. ASSUME NEW items \in LogPayloads, LogPayload(items)
      PROVE  Accepts
  <2> DEFINE rows == RowsOf(items, seen + 1)
  <2>1. \A r \in rows : r.n = seen + 1 /\ r.tbl \in Analytics
      BY RowsOfType DEF TypeOK
  <2>2. Event(seen + 1).n = seen + 1 /\ Event(seen + 1).tbl = "shredstream_events"
      BY OwnRows DEF TypeOK
  <2>3. \A t \in Analytics : buf'[t] = buf[t] \cup {r \in rows : r.tbl = t}
      BY <1>2, BufferedWithRows DEF LogPayload
  <2>4. Accept(rows \cup {Event(seen + 1)}) /\ local' = local /\ orphan' = orphan
      BY <1>2 DEF LogPayload
  <2>5. \A r \in DOMAIN copies : r.n # seen + 1
      BY DEF TypeOK, Places, Row
  <2> HIDE DEF rows
  <2>6. DOMAIN copies' = DOMAIN copies \cup (rows \cup {Event(seen + 1)})
      BY <2>4, AcceptDomain
  <2>7. \A r \in AnalyticsRows : r \in Held' <=> r \in Held
      BY <2>1, <2>3, <2>4, <2>5, HeldPlaces, HeldPlacesNext DEF HeldApart, AnalyticsRows
  <2>8. \A r \in DOMAIN copies' \ DOMAIN copies : r.tbl \in Analytics => r \in Held'
    <3> SUFFICES ASSUME NEW r \in DOMAIN copies', r \notin DOMAIN copies, r.tbl \in Analytics
                 PROVE  r \in Held'
        OBVIOUS
    <3>1. r \in rows
        BY <2>2, <2>6 DEF Analytics
    <3> QED
        BY <3>1, <2>3, HeldPlacesNext DEF HeldApart
  <2> QED
      BY <2>4, <2>6, <2>7, <2>8, AcceptDomain DEF Accepts
<1>3. CASE UnmatchedPayload
    BY <1>3, SettlesIdle DEF UnmatchedPayload, volatile
<1>4. ASSUME NEW tx \in Transactions, EntriesPayload(tx)
      PROVE  Settles
    BY <1>4, SettlesIdle DEF EntriesPayload, volatile
<1>5. CASE Disconnect
  <2>1. pc = "loop"
      BY <1>5 DEF Disconnect, AwaitingPayload
  <2>2. local = Nothing /\ local' = Nothing /\ buf' = buf
      BY <1>5, <2>1 DEF Disconnect, ToFinally, Places
  <2> QED
      BY <1>5, <2>2, SettlesIdle DEF Disconnect
<1>6. CASE TrackedInstruction
  <2> DEFINE rows == RowsOf(<<Head(todo)>>, seen + 1) \cup {Hit(seen + 1)}
  <2>1. \A r \in rows : r.n = seen + 1 /\ r.tbl \in Analytics
    <3>1. seen + 1 \in Nat /\ <<Head(todo)>> \in Seq(Item(InstructionKinds))
        BY <1>6, HeadTail DEF TypeOK, TrackedInstruction
    <3>2. \A r \in RowsOf(<<Head(todo)>>, seen + 1) : r.n = seen + 1 /\ r.tbl \in Analytics
        BY <3>1, RowsOfType
    <3> QED
        BY <3>1, <3>2, OwnRows
  <2>2. \A r \in DOMAIN copies : r.n # seen + 1
      BY DEF TypeOK, Places, Row
  <2>3. \A t \in Analytics : BufferedWith(rows)[t] = buf[t] \cup {r \in rows : r.tbl = t}
      BY BufferedWithRows
  <2>4. /\ Accept(rows) /\ orphan' = orphan /\ pc = "loop"
        /\ \/ local' = local /\ buf' = BufferedWith(rows)
           \/ buf' = Nothing /\ local' = BufferedWith(rows)
      BY <1>6 DEF TrackedInstruction
  <2> HIDE DEF rows
  <2>5. \A t \in Analytics : local[t] = {}
      BY <2>4, NothingIsEmpty DEF Places
  <2>6. \A t \in Analytics :
           buf'[t] \cup local'[t] = buf[t] \cup {r \in rows : r.tbl = t}
      BY <2>3, <2>4, <2>5, NothingIsEmpty
  <2>7. DOMAIN copies' = DOMAIN copies \cup rows
      BY <2>4, AcceptDomain
  <2>8. \A r \in AnalyticsRows : r \in Held' <=> r \in Held
      BY <2>1, <2>2, <2>4, <2>5, <2>6, HeldPlaces, HeldPlacesNext
      DEF HeldApart, AnalyticsRows
  <2>9. \A r \in DOMAIN copies' \ DOMAIN copies : r.tbl \in Analytics => r \in Held'
    <3> SUFFICES ASSUME NEW r \in rows, r.tbl \in Analytics
                 PROVE  r \in Held'
        BY <2>7
    <3> QED
        BY <2>6, HeldPlacesNext DEF HeldApart
  <2> QED
      BY <2>4, <2>7, <2>8, <2>9, AcceptDomain DEF Accepts
<1>7. CASE UntrackedInstruction
    BY <1>7, SettlesIdle DEF UntrackedInstruction, volatile
<1>8. CASE Tick
    BY <1>8, SettlesIdle DEF Tick, volatile
<1>9. CASE EventsInserted
  <2>1. pc = "events" /\ Append2DB(batch) /\ orphan' = orphan
        /\ local' = buf /\ buf' = Nothing
      BY <1>9 DEF EventsInserted, TakeBuffers
  <2>2. \A r \in batch : r.tbl \notin Analytics
      BY DEF Places, Analytics
  <2> QED
      BY <2>1, <2>2, SettlesDropping, NothingIsEmpty
<1>10. ASSUME NEW stored \in BOOLEAN, EventsInsertFails(stored)
       PROVE  Settles
  <2> DEFINE rows == IF stored THEN batch ELSE {}
  <2>1. Append2DB(rows) /\ orphan' = orphan /\ (Exit \/ ToFinally)
      BY <1>10 DEF EventsInsertFails
  <2>2. \A r \in rows : r.tbl \notin Analytics
      BY DEF Places, Analytics
  <2> HIDE DEF rows
  <2> QED
      BY <2>1, <2>2, SettlesDropping, DroppedBuffers
<1>11. ASSUME NEW t \in Analytics, TableInserted(t)
       PROVE  Settles
  <2>1. Append2DB(local[t]) /\ orphan' = orphan /\ buf' = buf
        /\ local' = [local EXCEPT ![t] = {}]
      BY <1>11 DEF TableInserted
  <2>2. \A u \in Analytics : local'[u] = IF u = t THEN {} ELSE local[u]
      BY <2>1 DEF TypeOK
  <2>3. \A r \in local[t] : r.tbl = t /\ r \notin buf[t]
      BY DEF Places
  <2> QED
      BY <2>1, <2>2, <2>3, SettlesDropping
<1>12. ASSUME NEW t \in Analytics, NEW stored \in BOOLEAN, TableInsertFails(t, stored)
       PROVE  Settles
  <2> DEFINE rows == IF stored THEN local[t] ELSE {}
  <2>1. Append2DB(rows) /\ orphan' = orphan /\ (Exit \/ ToFinally)
      BY <1>12 DEF TableInsertFails
  <2>2. \A r \in rows : r \in local[t] /\ r.tbl = t /\ r \notin buf[t]
      BY DEF Places
  <2> HIDE DEF rows
  <2> QED
      BY <2>1, <2>2, SettlesDropping, DroppedBuffers
<1>13. CASE FlushDone
  <2>1. \A t \in Analytics : local[t] = {}
      BY <1>13 DEF FlushDone, Cleared, FlushOver
  <2>2. CASE Exit
    <3>1. Append2DB({}) /\ orphan' = orphan
        BY <1>13 DEF FlushDone, Cleared, Append2DB, TypeOK
    <3> QED
        BY <2>2, <3>1, SettlesDropping, DroppedBuffers
  <2>3. CASE ~Exit
      BY <1>13, <2>3, SettlesIdle DEF FlushDone
  <2> QED
      BY <2>2, <2>3
<1>14. CASE Drain
  <2>1. local = Nothing
      BY <1>14 DEF Drain, Places
  <2> QED
      BY <1>14, <2>1, SettlesIdle, NothingIsEmpty DEF Drain, TakeBuffers
<1>15. CASE Cancel
  <2>1. copies' = copies /\ orphan' = InFlight /\ (Exit \/ ToFinally)
      BY <1>15 DEF Cancel
  <2>2. ASSUME NEW r \in AnalyticsRows, r \in Held'
        PROVE  r \in Held
    <3>1. CASE r \in InFlight
      <4>1. r \in batch \/ \E t \in Analytics : r \in local[t]
          BY <3>1, InFlightPlace
      <4> QED
          BY <4>1 DEF Held, Buffered
    <3>2. CASE r \notin InFlight
        BY <2>1, <2>2, <3>2, DroppedBuffers, HeldPlaces, HeldPlacesNext
        DEF HeldApart, AnalyticsRows
    <3> QED
        BY <3>1, <3>2
  <2> QED
      BY <2>1, <2>2 DEF Settles
<1>16. ASSUME NEW stored \in BOOLEAN, OrphanEnds(stored)
       PROVE  Settles
  <2> DEFINE rows == IF stored THEN orphan ELSE {}
  <2>1. Append2DB(rows) /\ orphan' = {} /\ buf' = buf /\ local' = local
      BY <1>16 DEF OrphanEnds, volatile
  <2>2. rows \subseteq orphan
      OBVIOUS
  <2> HIDE DEF rows
  <2>3. \A r \in DOMAIN copies :
           copies'[r] = IF r \in rows THEN copies[r] + 1 ELSE copies[r]
      BY <2>1 DEF Append2DB
  <2>4. \A r \in AnalyticsRows : r \in rows => r \in Held /\ r \notin Held'
      BY <2>1, <2>2, HeldPlaces, HeldPlacesNext DEF HeldApart, AnalyticsRows, Places
  <2>5. \A r \in AnalyticsRows : r \in Held' => r \in Held
      BY <2>1, HeldPlaces, HeldPlacesNext DEF HeldApart, AnalyticsRows
  <2> QED
      BY <2>1, <2>3, <2>4, <2>5, AppendKeepsDomain DEF Settles, AnalyticsRows
<1>17. ASSUME NEW stored \in BOOLEAN, Crash(stored)
       PROVE  Settles
  <2> DEFINE rows == IF stored THEN InFlight ELSE {}
  <2>1. Append2DB(rows) /\ orphan' = orphan /\ Exit
      BY <1>17 DEF Crash
  <2>2. \A t \in Analytics : buf'[t] = {} /\ local'[t] = {}
      BY <2>1, NothingIsEmpty DEF Exit
  <2>3. ASSUME NEW r \in rows, r.tbl \in Analytics
        PROVE  r \in local[r.tbl]
    <3>1. r \in InFlight
        BY <2>3
    <3> QED
        BY <2>3, <3>1, InFlightPlace DEF Places, Analytics
  <2> HIDE DEF rows
  <2> QED
      BY <2>1, <2>2, <2>3, SettlesDropping
<1>18. CASE UNCHANGED vars
    BY <1>18, SettlesIdle DEF vars, volatile
<1> QED
    BY <1>1, <1>2, <1>3, <1>4, <1>5, <1>6, <1>7, <1>8, <1>9, <1>10, <1>11,
       <1>12, <1>13, <1>14, <1>15, <1>16, <1>17, <1>18
    DEF Next, Arrivals, Instructions, EventsInsert, AnalyticsInsert, OrphanInsert

LEMMA OnceInit == Init => AnalyticsOnce
    BY DEF Init, AnalyticsOnce, AnalyticsRows

LEMMA OnceNext ==
    TypeOK /\ AnalyticsOnce /\ (Accepts \/ Settles) => AnalyticsOnce'
<1> SUFFICES ASSUME TypeOK, AnalyticsOnce, Accepts \/ Settles,
                    NEW r \in DOMAIN copies', r.tbl \in Analytics
             PROVE  copies'[r] <= 1 /\ (r \in Held' => copies'[r] = 0)
    BY DEF AnalyticsOnce, AnalyticsRows
<1>1. CASE r \in DOMAIN copies
    BY <1>1 DEF TypeOK, AnalyticsOnce, AnalyticsRows, Accepts, Settles
<1>2. CASE r \notin DOMAIN copies
    BY <1>2 DEF Accepts, Settles
<1> QED
    BY <1>1, <1>2

\* A step of the ingest is a step of the abstract delivery, or changes nothing
\* of what it sees.
LEMMA DeliveryStep ==
    TypeOK /\ AnalyticsOnce /\ (Accepts \/ Settles) => [Delivery!Next]_(Delivery!vars)
<1> DEFINE C == [r \in AnalyticsRows |-> copies[r]]
           W == Held \cap AnalyticsRows
<1> SUFFICES ASSUME TypeOK, AnalyticsOnce, Accepts \/ Settles
             PROVE  Delivery!Accept \/ Delivery!Settle
    BY DEF Delivery!Next
<1>1. CASE Accepts
  <2>1. AnalyticsRows \subseteq AnalyticsRows'
      BY <1>1 DEF Accepts, AnalyticsRows
  <2>2. W \subseteq W' /\ (W' \ W) \cap AnalyticsRows = {}
      BY <1>1, <2>1 DEF Accepts, AnalyticsRows
  <2>3. AnalyticsRows' = AnalyticsRows \cup W'
      BY <1>1, <2>1 DEF Accepts, AnalyticsRows
  <2>4. \A r \in AnalyticsRows' :
           copies'[r] = IF r \in AnalyticsRows THEN copies[r] ELSE 0
      BY <1>1 DEF Accepts, AnalyticsRows
  <2> QED
      BY <2>2, <2>3, <2>4 DEF Delivery!Accept
<1>2. CASE Settles
  <2>1. AnalyticsRows' = AnalyticsRows
      BY <1>2 DEF Settles, AnalyticsRows
  <2>2. W' \subseteq W
      BY <1>2, <2>1 DEF Settles
  <2>3. \A r \in AnalyticsRows :
           \/ copies'[r] = copies[r]
           \/ r \in W \ W' /\ copies[r] = 0 /\ copies'[r] = 1
      BY <1>2 DEF Settles, AnalyticsOnce
  <2> QED
      BY <2>1, <2>2, <2>3 DEF Delivery!Settle
<1> QED
    BY <1>1, <1>2

LEMMA DeliveryInit == Init => Delivery!Init
    BY DEF Init, Delivery!Init, AnalyticsRows

\* The inductive invariant behind the delivery of analytics rows.
LEMMA RowsInvariant == Spec => [](TypeOK /\ Places /\ AnalyticsOnce)
<1>1. Init => TypeOK /\ Places /\ AnalyticsOnce
    BY TypeInit, PlacesInit, OnceInit
<1>2. TypeOK /\ Places /\ AnalyticsOnce /\ [Next]_vars
         => (TypeOK /\ Places /\ AnalyticsOnce)'
    BY TypeNext, PlacesNext, StepKinds, OnceNext
<1> QED
    BY <1>1, <1>2, PTL DEF Spec

\* Every analytics row is written at most once, whatever fails, is cancelled or
\* crashes: the detailed ingest implements RowDelivery.
THEOREM IngestDeliversRows == Spec => DeliversRows
<1>1. TypeOK /\ Places /\ AnalyticsOnce /\ Places' /\ [Next]_vars
         => [Delivery!Next]_(Delivery!vars)
    BY StepKinds, DeliveryStep
<1> QED
    BY <1>1, DeliveryInit, RowsInvariant, PTL DEF Spec, DeliversRows, Delivery!Spec

-----------------------------------------------------------------------------
(***************************************************************************)
(* The raw events.  Writes(r) counts the copies of a row that ClickHouse   *)
(* has or that an abandoned thread may still add.  Until its batch is      *)
(* first written a raw event has none; the flush of the loop makes it at   *)
(* most one; and only the finally block, after a failed or cancelled       *)
(* insert, adds a second.                                                  *)
(***************************************************************************)
Writes(r) == copies[r] + (IF r \in orphan THEN 1 ELSE 0)

Mishap == fails + cancels > 0

Unwritten == pc = "loop" \/ (pc = "events" /\ why = "batch") \/ (pc = "flush" /\ why = "hits")
Rewriting == pc = "drain" \/ (pc = "events" /\ why = "final")

EventInv ==
    /\ orphan # {} => cancels > 0
    /\ \A r \in EventRows :
          /\ Writes(r) <= 2
          /\ Writes(r) = 2 => Mishap
    /\ \A r \in batch :
          /\ Unwritten => Writes(r) = 0
          /\ pc = "flush" /\ why = "batch" => Writes(r) <= 1
          /\ Rewriting => Writes(r) <= 1 /\ (Writes(r) = 1 => Mishap)

LEMMA EventInit == Init => EventInv
    BY DEF Init, EventInv, EventRows

\* A step that neither writes nor abandons, from and to states in which the
\* batch has been written as often.
LEMMA EventsIdle ==
    ASSUME TypeOK, EventInv, copies' = copies, orphan' = orphan,
           fails' >= fails, fails' \in Nat, cancels' = cancels, batch' \subseteq batch,
           batch' # {} =>
              /\ Unwritten' => Unwritten
              /\ pc' = "flush" /\ why' = "batch" => pc = "flush" /\ why = "batch"
              /\ Rewriting' => Unwritten \/ Rewriting
    PROVE  EventInv'
<1>1. \A r : Writes(r)' = Writes(r)
    BY DEF Writes
<1>2. Mishap => Mishap'
    BY DEF Mishap, TypeOK
<1>3. EventRows' = EventRows
    BY DEF EventRows
<1> QED
    BY <1>1, <1>2, <1>3 DEF EventInv, TypeOK

\* An analytics insert, whatever its outcome, writes no raw event.
LEMMA EventsUntouched ==
    ASSUME TypeOK, NEW rows, Append2DB(rows), orphan' = orphan,
           \A r \in rows : r.tbl # "shredstream_events"
    PROVE  /\ EventRows' = EventRows
           /\ \A r \in EventRows : Writes(r)' = Writes(r)
    BY AppendKeepsDomain DEF EventRows, Writes, Append2DB

LEMMA BatchEvents == Places => batch \subseteq EventRows
    BY DEF Places, EventRows

LEMMA EventNext ==
    TypeOK /\ Places /\ TypeOK' /\ EventInv /\ [Next]_vars => EventInv'
<1> SUFFICES ASSUME TypeOK, Places, TypeOK', EventInv, [Next]_vars
             PROVE  EventInv'
    OBVIOUS
<1> USE IngestAssumption, BatchEvents
<1>1. ASSUME NEW queryOk \in BOOLEAN, Boot(queryOk)
      PROVE  EventInv'
  <2>1. batch' = {} /\ fails' >= fails /\ fails' \in Nat
      BY <1>1 DEF Boot, volatile, Places, TypeOK
  <2> QED
      BY <1>1, <2>1, EventsIdle DEF Boot
<1>2. ASSUME NEW items \in LogPayloads, LogPayload(items)
      PROVE  EventInv'
  <2> DEFINE rows == RowsOf(items, seen + 1) \cup {Event(seen + 1)}
  <2>1. /\ Accept(rows) /\ orphan' = orphan /\ batch' = batch \cup {Event(seen + 1)}
        /\ fails' = fails /\ cancels' = cancels
        /\ pc = "loop" /\ (pc' = "loop" \/ (pc' = "events" /\ why' = "batch"))
      BY <1>2 DEF LogPayload, MustFlush, AwaitingPayload, faults
  <2>2. \A r \in rows : r.n = seen + 1
    <3>1. seen + 1 \in Nat /\ items \in Seq(Item(LogKinds))
        BY DEF TypeOK
    <3>2. \A r \in RowsOf(items, seen + 1) : r.n = seen + 1
        BY <3>1, RowsOfType
    <3> QED
        BY <3>1, <3>2, OwnRows
  <2>3. \A r \in DOMAIN copies : r.n # seen + 1
      BY DEF TypeOK, Places, Row
  <2>4. Event(seen + 1) \in rows
      OBVIOUS
  <2> HIDE DEF rows
  <2>5. \A r \in rows : r \notin DOMAIN copies /\ r \notin orphan /\ copies'[r] = 0
      BY <2>1, <2>2, <2>3, AcceptDomain DEF Places
  <2>6. \A r \in rows : Writes(r)' = 0
      BY <2>1, <2>5 DEF Writes
  <2>7. \A r \in DOMAIN copies : Writes(r)' = Writes(r)
      BY <2>1, AcceptDomain DEF Writes
  <2>8. \A r \in EventRows' : r \in EventRows \/ r \in rows
      BY <2>1, AcceptDomain DEF EventRows
  <2>9. \A r \in EventRows : r \in DOMAIN copies
      BY DEF EventRows
  <2>10. Unwritten /\ ~Rewriting' /\ ~(pc' = "flush") /\ (Mishap <=> Mishap')
      BY <2>1 DEF Unwritten, Rewriting, Mishap
  <2>11. \A r \in batch' : Writes(r)' = 0
      BY <2>1, <2>4, <2>6, <2>7, <2>9, <2>10 DEF EventInv
  <2> QED
      BY <2>1, <2>6, <2>7, <2>8, <2>9, <2>10, <2>11 DEF EventInv
<1>3. CASE UnmatchedPayload
    BY <1>3, EventsIdle DEF UnmatchedPayload, AwaitingPayload, volatile, faults,
       Unwritten, Rewriting, TypeOK
<1>4. ASSUME NEW tx \in Transactions, EntriesPayload(tx)
      PROVE  EventInv'
    BY <1>4, EventsIdle DEF EntriesPayload, volatile, faults, Unwritten, Rewriting, TypeOK
<1>5. CASE Disconnect
    BY <1>5, EventsIdle DEF Disconnect, AwaitingPayload, ToFinally, faults,
       Unwritten, Rewriting, TypeOK
<1>6. CASE TrackedInstruction
  <2> DEFINE rows == RowsOf(<<Head(todo)>>, seen + 1) \cup {Hit(seen + 1)}
  <2>1. /\ Accept(rows) /\ orphan' = orphan /\ batch' = batch
        /\ fails' = fails /\ cancels' = cancels
        /\ pc = "loop" /\ (pc' = "loop" \/ (pc' = "flush" /\ why' = "hits"))
      BY <1>6 DEF TrackedInstruction, faults
  <2>2. \A r \in rows : r.tbl \in Analytics
    <3>1. seen + 1 \in Nat /\ <<Head(todo)>> \in Seq(Item(InstructionKinds))
        BY <1>6, HeadTail DEF TypeOK, TrackedInstruction
    <3>2. \A r \in RowsOf(<<Head(todo)>>, seen + 1) : r.tbl \in Analytics
        BY <3>1, RowsOfType
    <3> QED
        BY <3>1, <3>2, OwnRows
  <2> HIDE DEF rows
  <2>3. EventRows' = EventRows
      BY <2>1, <2>2, AcceptDomain DEF EventRows, Analytics
  <2>4. \A r \in EventRows : Writes(r)' = Writes(r)
      BY <2>1, AcceptDomain DEF Writes, EventRows
  <2>5. Unwritten /\ ~Rewriting' /\ ~(pc' = "flush" /\ why' = "batch") /\ (Mishap <=> Mishap')
      BY <2>1 DEF Unwritten, Rewriting, Mishap
  <2> QED
      BY <2>1, <2>3, <2>4, <2>5 DEF EventInv
<1>7. CASE UntrackedInstruction
    BY <1>7, EventsIdle DEF UntrackedInstruction, volatile, faults,
       Unwritten, Rewriting, TypeOK
<1>8. CASE Tick
    BY <1>8, EventsIdle DEF Tick, volatile, faults, Unwritten, Rewriting, TypeOK
<1>9. CASE EventsInserted
  <2>1. /\ pc = "events" /\ why \in {"batch", "final"} /\ Append2DB(batch)
        /\ orphan' = orphan /\ batch' = batch /\ pc' = "flush" /\ why' = why
        /\ fails' = fails /\ cancels' = cancels
      BY <1>9 DEF EventsInserted, TakeBuffers, faults, TypeOK, Places
  <2>2. EventRows' = EventRows
      BY <2>1, AppendKeepsDomain DEF EventRows
  <2>3. \A r \in EventRows :
           Writes(r)' = IF r \in batch THEN Writes(r) + 1 ELSE Writes(r)
      BY <2>1 DEF EventRows, Writes, Append2DB, TypeOK
  <2>4. ~Unwritten' /\ ~Rewriting' /\ (Mishap <=> Mishap')
      BY <2>1 DEF Unwritten, Rewriting, Mishap
  <2>5. \A r \in EventRows : Writes(r) \in Nat
      BY DEF EventRows, Writes, TypeOK
  <2>6. CASE why = "batch"
      BY <2>1, <2>2, <2>3, <2>4, <2>5, <2>6 DEF EventInv, Unwritten
  <2>7. CASE why = "final"
      BY <2>1, <2>2, <2>3, <2>4, <2>5, <2>7 DEF EventInv, Rewriting
  <2> QED
      BY <2>1, <2>6, <2>7
<1>10. ASSUME NEW stored \in BOOLEAN, EventsInsertFails(stored)
       PROVE  EventInv'
  <2> DEFINE rows == IF stored THEN batch ELSE {}
  <2>1. /\ pc = "events" /\ Append2DB(rows) /\ orphan' = orphan
        /\ fails' = fails + 1 /\ cancels' = cancels
        /\ \/ batch' = {}
           \/ why = "batch" /\ batch' = batch /\ pc' = "drain"
      BY <1>10 DEF EventsInsertFails, Exit, ToFinally, TypeOK, Places
  <2>2. rows \subseteq batch
      OBVIOUS
  <2> HIDE DEF rows
  <2>3. EventRows' = EventRows
      BY <2>1, AppendKeepsDomain DEF EventRows
  <2>4. \A r \in EventRows :
           /\ Writes(r) \in Nat
           /\ Writes(r)' = IF r \in rows THEN Writes(r) + 1 ELSE Writes(r)
      BY <2>1 DEF EventRows, Writes, Append2DB, TypeOK
  <2>5. Mishap'
      BY <2>1 DEF Mishap, TypeOK
  <2>6. \A r \in batch : Writes(r) <= 1 /\ (why = "batch" => Writes(r) = 0)
      BY <2>1, <2>4 DEF EventInv, Unwritten, Rewriting, Places, TypeOK
  <2>7. \A r \in EventRows : Writes(r)' <= 2
      BY <2>2, <2>4, <2>6 DEF EventInv
  <2>8. batch' # {} => \A r \in batch' : Writes(r)' <= 1
      BY <2>1, <2>2, <2>4, <2>6
  <2>9. batch' # {} => pc' = "drain"
      BY <2>1
  <2> QED
      BY <2>1, <2>3, <2>5, <2>7, <2>8, <2>9 DEF EventInv, Unwritten, Rewriting
<1>11. ASSUME NEW t \in Analytics, TableInserted(t)
       PROVE  EventInv'
  <2>1. \A r \in local[t] : r.tbl # "shredstream_events"
      BY DEF Places, Analytics
  <2>2. EventRows' = EventRows /\ \A r \in EventRows : Writes(r)' = Writes(r)
      BY <1>11, <2>1, EventsUntouched DEF TableInserted
  <2> QED
      BY <1>11, <2>2 DEF TableInserted, EventInv, Unwritten, Rewriting, Mishap, control, faults
<1>12. ASSUME NEW t \in Analytics, NEW stored \in BOOLEAN, TableInsertFails(t, stored)
       PROVE  EventInv'
  <2> DEFINE rows == IF stored THEN local[t] ELSE {}
  <2>1. /\ pc = "flush" /\ Append2DB(rows) /\ orphan' = orphan
        /\ fails' = fails + 1 /\ cancels' = cancels
        /\ \/ batch' = {}
           \/ why # "final" /\ batch' = batch /\ pc' = "drain"
      BY <1>12 DEF TableInsertFails, Exit, ToFinally
  <2>2. \A r \in rows : r.tbl # "shredstream_events"
      BY DEF Places, Analytics
  <2> HIDE DEF rows
  <2>3. EventRows' = EventRows /\ \A r \in EventRows : Writes(r)' = Writes(r)
      BY <2>1, <2>2, EventsUntouched
  <2>4. Mishap'
      BY <2>1 DEF Mishap, TypeOK
  <2>5. why # "final" => \A r \in batch : Writes(r) <= 1
      BY <2>1 DEF EventInv, Unwritten, TypeOK
  <2>6. batch' # {} => /\ pc' = "drain"
                       /\ \A r \in batch' : Writes(r)' <= 1
      BY <2>1, <2>3, <2>5
  <2> QED
      BY <2>1, <2>3, <2>4, <2>6 DEF EventInv, Unwritten, Rewriting
<1>13. CASE FlushDone
  <2>1. CASE Exit
      BY <1>13, <2>1, EventsIdle DEF FlushDone, Cleared, Exit, faults, TypeOK
  <2>2. CASE ~Exit
      BY <1>13, <2>2, EventsIdle DEF FlushDone, Cleared, faults, Unwritten, Rewriting, TypeOK
  <2> QED
      BY <2>1, <2>2
<1>14. CASE Drain
    BY <1>14, EventsIdle DEF Drain, TakeBuffers, faults, Unwritten, Rewriting, TypeOK
<1>15. CASE Cancel
  <2>1. /\ copies' = copies /\ orphan' = InFlight /\ fails' = fails
        /\ cancels' = cancels + 1 /\ orphan = {}
        /\ \/ batch' = {}
           \/ ~(pc \in {"events", "flush"} /\ why = "final") /\ batch' = batch /\ pc' = "drain"
      BY <1>15 DEF Cancel, Exit, ToFinally, Places, AwaitingPayload
  <2>2. EventRows' = EventRows /\ Mishap' /\ cancels' > 0
      BY <2>1 DEF EventRows, Mishap, TypeOK
  <2>3. \A r \in EventRows : /\ Writes(r) = copies[r] /\ Writes(r) \in Nat
                            /\ Writes(r)' = IF r \in InFlight THEN Writes(r) + 1 ELSE Writes(r)
      BY <2>1 DEF EventRows, Writes, TypeOK
  <2>4. \A r \in EventRows : r \in InFlight => r \in batch /\ pc = "events"
      BY InFlightPlace DEF EventRows, Places, Analytics
  <2>5. \A r \in batch : pc = "events" => Writes(r) <= 1 /\ (why = "batch" => Writes(r) = 0)
      BY <2>3 DEF EventInv, Unwritten, Rewriting, Places, TypeOK
  <2>6. \A r \in EventRows : Writes(r)' <= 2
      BY <2>3, <2>4, <2>5 DEF EventInv
  <2>7. batch' # {} => pc' = "drain" /\ \A r \in batch' : Writes(r)' <= 1
    <3> SUFFICES ASSUME batch' = batch, ~(pc \in {"events", "flush"} /\ why = "final"),
                        pc' = "drain", NEW r \in batch
                 PROVE  Writes(r)' <= 1
        BY <2>1
    <3>1. CASE pc = "events"
        BY <3>1, <2>3, <2>5 DEF Places, TypeOK
    <3>2. CASE pc # "events"
      <4>1. Writes(r)' = Writes(r)
          BY <3>2, <2>3, <2>4
      <4>2. Unwritten \/ Rewriting \/ (pc = "flush" /\ why = "batch") \/ pc = "down"
          BY <3>2 DEF Unwritten, Rewriting, TypeOK, PCs
      <4> QED
          BY <4>1, <4>2, <2>3 DEF EventInv, Places
    <3> QED
        BY <3>1, <3>2
  <2> QED
      BY <2>2, <2>6, <2>7 DEF EventInv, Unwritten, Rewriting
<1>16. ASSUME NEW stored \in BOOLEAN, OrphanEnds(stored)
       PROVE  EventInv'
  <2> DEFINE rows == IF stored THEN orphan ELSE {}
  <2>1. /\ Append2DB(rows) /\ orphan' = {} /\ orphan # {} /\ batch' = batch
        /\ fails' \in Nat /\ fails' >= fails /\ cancels' = cancels /\ pc' = pc /\ why' = why
      BY <1>16 DEF OrphanEnds, volatile, control, TypeOK
  <2>2. rows \subseteq orphan
      OBVIOUS
  <2> HIDE DEF rows
  <2>3. EventRows' = EventRows
      BY <2>1, AppendKeepsDomain DEF EventRows
  <2>4. \A r \in EventRows : Writes(r) \in Nat /\ Writes(r)' \in Nat /\ Writes(r)' <= Writes(r)
      BY <2>1, <2>2 DEF EventRows, Writes, Append2DB, TypeOK
  <2>5. Mishap /\ Mishap'
      BY <2>1 DEF Mishap, EventInv, TypeOK
  <2> QED
      BY <2>1, <2>3, <2>4, <2>5 DEF EventInv, Unwritten, Rewriting
<1>17. ASSUME NEW stored \in BOOLEAN, Crash(stored)
       PROVE  EventInv'
  <2> DEFINE rows == IF stored THEN InFlight ELSE {}
  <2>1. /\ Append2DB(rows) /\ orphan' = orphan /\ batch' = {}
        /\ fails' = fails /\ cancels' = cancels
      BY <1>17 DEF Crash, Exit
  <2>2. rows \subseteq InFlight
      OBVIOUS
  <2> HIDE DEF rows
  <2>3. EventRows' = EventRows /\ (Mishap <=> Mishap')
      BY <2>1, AppendKeepsDomain DEF EventRows, Mishap
  <2>4. \A r \in EventRows :
           /\ Writes(r) \in Nat
           /\ Writes(r)' = IF r \in rows THEN Writes(r) + 1 ELSE Writes(r)
      BY <2>1 DEF EventRows, Writes, Append2DB, TypeOK
  <2>5. \A r \in EventRows : r \in rows => r \in batch /\ pc = "events"
      BY <2>2, InFlightPlace DEF EventRows, Places, Analytics
  <2>6. \A r \in EventRows : r \in rows =>
           Writes(r) <= 1 /\ (Writes(r) = 1 => Mishap)
      BY <2>4, <2>5 DEF EventInv, Unwritten, Rewriting, Places, TypeOK
  <2>7. \A r \in EventRows : Writes(r)' <= 2 /\ (Writes(r)' = 2 => Mishap)
      BY <2>4, <2>6 DEF EventInv
  <2> QED
      BY <2>1, <2>3, <2>7 DEF EventInv
<1>18. CASE UNCHANGED vars
    BY <1>18, EventsIdle DEF vars, control, volatile, faults, Unwritten, Rewriting, TypeOK
<1> QED
    BY <1>1, <1>2, <1>3, <1>4, <1>5, <1>6, <1>7, <1>8, <1>9, <1>10, <1>11,
       <1>12, <1>13, <1>14, <1>15, <1>16, <1>17, <1>18
    DEF Next, Arrivals, Instructions, EventsInsert, AnalyticsInsert, OrphanInsert

LEMMA EventInvImplies == TypeOK /\ EventInv => EventCopies
    BY DEF EventInv, EventCopies, Writes, Mishap, EventRows, TypeOK

\* No raw event is written more than twice, nor twice without a failed or
\* cancelled insert.
THEOREM EventsWrittenAtMostTwice == Spec => []EventCopies
<1>1. TypeOK /\ Places /\ TypeOK' /\ EventInv /\ [Next]_vars => EventInv'
    BY EventNext
<1> QED
    BY <1>1, EventInit, EventInvImplies, RowsInvariant, PTL DEF Spec

-----------------------------------------------------------------------------
(***************************************************************************)
(* The size of the batch.  A full batch leaves the stream loop at once, so *)
(* every payload finds room in it: also after a flush on the hit path,     *)
(* which returns to the loop without clearing the batch.                   *)
(***************************************************************************)
Filling == pc = "loop" \/ (pc = "flush" /\ why = "hits")

BatchInv ==
    /\ IsFiniteSet(batch)
    /\ Cardinality(batch) <= BatchSize
    /\ Filling => Cardinality(batch) < BatchSize

LEMMA EmptyBatch == batch = {} => BatchInv
    BY IngestAssumption, FS_EmptySet DEF BatchInv

LEMMA EmptiedBatch == batch' = {} => BatchInv'
    BY IngestAssumption, FS_EmptySet DEF BatchInv

\* A step that leaves the batch alone, and is back in the loop only from there.
LEMMA SameBatch ==
    BatchInv /\ batch' = batch /\ (Filling' => Filling) => BatchInv'
    BY DEF BatchInv

LEMMA BatchNext == TypeOK /\ Places /\ BatchInv /\ [Next]_vars => BatchInv'
<1> SUFFICES ASSUME TypeOK, Places, BatchInv, [Next]_vars
             PROVE  BatchInv'
    OBVIOUS
<1>1. ASSUME NEW items \in LogPayloads, LogPayload(items)
      PROVE  BatchInv'
  <2>1. /\ batch' = batch \cup {Event(seen + 1)} /\ Filling
        /\ \/ pc' = "events"
           \/ ~(Cardinality(batch') >= BatchSize)
      BY <1>1 DEF LogPayload, MustFlush, AwaitingPayload, Filling
  <2> DEFINE filled == batch \cup {Event(seen + 1)}
  <2>2. IsFiniteSet(batch') /\ Cardinality(batch') <= Cardinality(batch) + 1
    <3>1. IsFiniteSet(batch) /\ Cardinality(batch) \in Nat
        BY FS_CardinalityType DEF BatchInv
    <3>2. /\ IsFiniteSet(filled)
          /\ \/ Cardinality(filled) = Cardinality(batch)
             \/ Cardinality(filled) = Cardinality(batch) + 1
        BY <3>1, FS_AddElement
    <3>3. Cardinality(filled) <= Cardinality(batch) + 1
        BY <3>1, <3>2
    <3> QED
        BY <2>1, <3>2, <3>3
  <2>3. CASE pc' = "events"
    <3>1. Cardinality(batch') \in Nat /\ Cardinality(batch) \in Nat
        BY <2>2, FS_CardinalityType DEF BatchInv
    <3> QED
        BY <2>1, <2>2, <2>3, <3>1, IngestAssumption DEF BatchInv, Filling
  <2>4. CASE ~(Cardinality(batch') >= BatchSize)
    <3>1. Cardinality(batch') \in Nat
        BY <2>2, FS_CardinalityType
    <3> QED
        BY <2>2, <2>4, <3>1, IngestAssumption DEF BatchInv
  <2> QED
      BY <2>1, <2>3, <2>4
<1>2. CASE FlushDone
  <2>1. batch' = {} \/ (why = "hits" /\ batch' = batch)
      BY <1>2 DEF FlushDone, Cleared, Exit, TypeOK
  <2> QED
      BY <1>2, <2>1, EmptiedBatch, SameBatch DEF FlushDone, Cleared, Filling
<1>3. CASE \/ \E queryOk \in BOOLEAN : Boot(queryOk)
           \/ \E stored \in BOOLEAN : Crash(stored)
  <2>1. batch' = {}
      BY <1>3 DEF Boot, volatile, Places, Crash, Exit
  <2> QED
      BY <2>1, EmptiedBatch
<1>4. CASE UnmatchedPayload \/ (\E tx \in Transactions : EntriesPayload(tx)) \/ Disconnect
  <2>1. batch' = batch /\ Filling
      BY <1>4 DEF UnmatchedPayload, EntriesPayload, Disconnect, AwaitingPayload,
         ToFinally, volatile, Filling
  <2> QED
      BY <2>1, SameBatch
<1>5. CASE Instructions \/ Tick
  <2>1. batch' = batch /\ (Filling' => Filling)
      BY <1>5 DEF Instructions, TrackedInstruction, UntrackedInstruction, Tick,
         volatile, Filling
  <2> QED
      BY <2>1, SameBatch
<1>6. CASE EventsInsert
  <2>1. \/ batch' = {}
        \/ batch' = batch /\ (pc' = "drain" \/ (pc' = "flush" /\ why' # "hits"))
      BY <1>6 DEF EventsInsert, EventsInserted, EventsInsertFails, TakeBuffers, Exit,
         ToFinally, Places
  <2> QED
      BY <2>1, EmptiedBatch, SameBatch DEF Filling
<1>7. CASE AnalyticsInsert
  <2>1. batch' = {} \/ (batch' = batch /\ (Filling' => Filling))
      BY <1>7 DEF AnalyticsInsert, TableInserted, TableInsertFails, Exit, ToFinally,
         control, Filling
  <2> QED
      BY <2>1, EmptiedBatch, SameBatch
<1>8. CASE Drain \/ Cancel \/ OrphanInsert
  <2>1. batch' = {} \/ (batch' = batch /\ (Filling' => Filling))
      BY <1>8 DEF Drain, TakeBuffers, Cancel, OrphanInsert, OrphanEnds, Exit, ToFinally,
         control, volatile, Filling
  <2> QED
      BY <2>1, EmptiedBatch, SameBatch
<1>9. CASE UNCHANGED vars
    BY <1>9, SameBatch DEF vars, control, volatile, Filling
<1> QED
    BY <1>1, <1>2, <1>3, <1>4, <1>5, <1>6, <1>7, <1>8, <1>9 DEF Next, Arrivals

\* The batch never exceeds BATCH_SIZE.
THEOREM BatchNeverOverflows == Spec => []BatchBounded
<1>1. Init => BatchInv
    BY EmptyBatch DEF Init
<1>2. TypeOK /\ Places /\ BatchInv /\ [Next]_vars => BatchInv'
    BY BatchNext
<1>3. BatchInv => BatchBounded
    BY DEF BatchInv, BatchBounded
<1> QED
    BY <1>1, <1>2, <1>3, RowsInvariant, PTL DEF Spec
-----------------------------------------------------------------------------
\* run() is in its finally block.
ShuttingDown == pc = "drain" \/ (pc \in {"events", "flush"} /\ why = "final")

\* One step of the finally block: the profiler's await is interrupted once or
\* over, the batch is written, one more list of flush() is, or the process ends.
ShutdownStep ==
    \/ UNCHANGED <<pc, why, batch, local, interrupted>>
    \/ pc = "drain" /\ pc' = "drain" /\ ~interrupted /\ interrupted' /\ batch' = batch
    \/ pc = "drain" /\ pc' \in {"events", "flush"} /\ why' = "final" /\ batch' = batch
    \/ pc = "events" /\ pc' = "flush" /\ why' = "final" /\ batch' = batch
    \/ /\ pc = "flush" /\ pc' = "flush" /\ why' = "final" /\ batch' = batch
       /\ \E t \in Analytics : local[t] # {} /\ local' = [local EXCEPT ![t] = {}]
    \/ pc' = "down"

\* A shutdown never turns back: whatever fails, is cancelled or still arrives,
\* each step of the finally block but the clock's and the abandoned thread's
\* brings it nearer to its end, and the batch is written once at most.
THEOREM ShutdownMovesOn == Spec => [][ShuttingDown => ShutdownStep]_vars
<1>1. TypeOK /\ [Next]_vars => [ShuttingDown => ShutdownStep]_vars
  <2> SUFFICES ASSUME TypeOK, Next, ShuttingDown PROVE ShutdownStep
      OBVIOUS
  <2> USE DEF control, volatile, faults
  <2>1. ASSUME NEW queryOk \in BOOLEAN, Boot(queryOk) PROVE ShutdownStep
      BY <2>1 DEF Boot, ShuttingDown
  <2>2. ASSUME Arrivals PROVE ShutdownStep
      BY <2>2 DEF Arrivals, LogPayload, UnmatchedPayload, EntriesPayload, Disconnect, AwaitingPayload,
                  ShuttingDown
  <2>3. ASSUME Instructions PROVE ShutdownStep
      BY <2>3 DEF Instructions, TrackedInstruction, UntrackedInstruction, ShuttingDown
  <2>4. ASSUME Tick PROVE ShutdownStep
      BY <2>4 DEF Tick, ShutdownStep
  <2>5. ASSUME EventsInsert PROVE ShutdownStep
      BY <2>5 DEF EventsInsert, EventsInserted, EventsInsertFails, TakeBuffers, Exit, ShuttingDown,
                  ShutdownStep
  <2>6. ASSUME AnalyticsInsert PROVE ShutdownStep
      BY <2>6 DEF AnalyticsInsert, TableInserted, TableInsertFails, IsCurrent, Exit, ShuttingDown,
                  ShutdownStep
  <2>7. ASSUME FlushDone PROVE ShutdownStep
      BY <2>7 DEF FlushDone, Exit, ShuttingDown, ShutdownStep
  <2>8. ASSUME Drain PROVE ShutdownStep
      BY <2>8 DEF Drain, TakeBuffers, ShutdownStep
  <2>9. ASSUME Cancel PROVE ShutdownStep
      BY <2>9 DEF Cancel, AwaitingPayload, ToFinally, Exit, TypeOK, ShuttingDown, ShutdownStep
  <2>10. ASSUME OrphanInsert PROVE ShutdownStep
      BY <2>10 DEF OrphanInsert, OrphanEnds, ShutdownStep
  <2>11. ASSUME NEW stored \in BOOLEAN, Crash(stored) PROVE ShutdownStep
      BY <2>11 DEF Crash, Exit, ShutdownStep
  <2> QED
      BY <2>1, <2>2, <2>3, <2>4, <2>5, <2>6, <2>7, <2>8, <2>9, <2>10, <2>11 DEF Next
<1> QED
    BY <1>1, TypeCorrect, PTL DEF Spec
=============================================================================
