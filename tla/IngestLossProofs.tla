-------------------------- MODULE IngestLossProofs --------------------------
(***************************************************************************)
(* What ShredstreamIngest loses, in which order it writes and what its     *)
(* registry knows, for every set of pools and payloads, every batch size   *)
(* and every bound on payloads and faults.                                 *)
(*                                                                         *)
(* The three invariants rest on where rows can be (Places) and on the two  *)
(* kinds of steps an analytics row can see (Accepts, Settles).             *)
(***************************************************************************)
EXTENDS ShredstreamIngestProofs

\* The rows of a step that accepts rows belong to a new call, numbered after
\* all others.
LEMMA NewRowsAreLater ==
    ASSUME TypeOK, [Next]_vars, NEW r \in DOMAIN copies', r \notin DOMAIN copies
    PROVE  r.n = seen + 1
<1> USE IngestAssumption
<1>1. ASSUME NEW items \in LogPayloads, LogPayload(items)
      PROVE  r.n = seen + 1
  <2>1. seen + 1 \in Nat /\ items \in Seq(Item(LogKinds))
      BY DEF TypeOK
  <2>2. r \in RowsOf(items, seen + 1) \cup {Event(seen + 1)}
    <3>1. Accept(RowsOf(items, seen + 1) \cup {Event(seen + 1)})
        BY <1>1 DEF LogPayload
    <3> QED
        BY <3>1, AcceptDomain
  <2> QED
      BY <2>1, <2>2, RowsOfType, OwnRows
<1>2. CASE TrackedInstruction
  <2>1. seen + 1 \in Nat /\ <<Head(todo)>> \in Seq(Item(InstructionKinds))
      BY <1>2, HeadTail DEF TypeOK, TrackedInstruction
  <2>2. r \in RowsOf(<<Head(todo)>>, seen + 1) \cup {Hit(seen + 1)}
    <3>1. Accept(RowsOf(<<Head(todo)>>, seen + 1) \cup {Hit(seen + 1)})
        BY <1>2 DEF TrackedInstruction
    <3> QED
        BY <3>1, AcceptDomain
  <2> QED
      BY <2>1, <2>2, RowsOfType, OwnRows
<1>3. CASE DOMAIN copies' = DOMAIN copies
    BY <1>3
<1>4. ASSUME NEW queryOk \in BOOLEAN, Boot(queryOk)
      PROVE  DOMAIN copies' = DOMAIN copies
    BY <1>4 DEF Boot
<1>5. UnmatchedPayload \/ UntrackedInstruction \/ Tick \/ FlushDone \/ Drain \/ Disconnect \/ Cancel
         \/ UNCHANGED vars => DOMAIN copies' = DOMAIN copies
    BY DEF UnmatchedPayload, UntrackedInstruction, Tick, FlushDone, Drain, Disconnect, Cancel, vars
<1>6. ASSUME NEW tx \in Transactions, EntriesPayload(tx)
      PROVE  DOMAIN copies' = DOMAIN copies
    BY <1>6 DEF EntriesPayload
<1>7. EventsInserted => DOMAIN copies' = DOMAIN copies
    BY AppendKeepsDomain DEF EventsInserted
<1>8. ASSUME NEW stored \in BOOLEAN, EventsInsertFails(stored)
      PROVE  DOMAIN copies' = DOMAIN copies
    BY <1>8, AppendKeepsDomain DEF EventsInsertFails
<1>9. ASSUME NEW t \in Analytics, TableInserted(t)
      PROVE  DOMAIN copies' = DOMAIN copies
    BY <1>9, AppendKeepsDomain DEF TableInserted
<1>10. ASSUME NEW t \in Analytics, NEW stored \in BOOLEAN, TableInsertFails(t, stored)
       PROVE  DOMAIN copies' = DOMAIN copies
    BY <1>10, AppendKeepsDomain DEF TableInsertFails
<1>11. ASSUME NEW stored \in BOOLEAN, OrphanEnds(stored)
       PROVE  DOMAIN copies' = DOMAIN copies
    BY <1>11, AppendKeepsDomain DEF OrphanEnds
<1>12. ASSUME NEW stored \in BOOLEAN, Crash(stored)
       PROVE  DOMAIN copies' = DOMAIN copies
    BY <1>12, AppendKeepsDomain DEF Crash
<1> QED
    BY <1>1, <1>2, <1>3, <1>4, <1>5, <1>6, <1>7, <1>8, <1>9, <1>10, <1>11, <1>12
    DEF Next, Arrivals, Instructions, EventsInsert, AnalyticsInsert, OrphanInsert

-----------------------------------------------------------------------------
(***************************************************************************)
(* The flush as a whole.  While it runs nothing is buffered; an interrupted *)
(* process is on its way out and buffers nothing either; and when an       *)
(* abandoned thread writes analytics rows, all of one table, the process   *)
(* holds no others: flush() had taken all it had and lost it.              *)
(***************************************************************************)
FlushInv ==
    /\ pc = "flush" => buf = Nothing
    /\ interrupted => pc = "drain" \/ (pc \in {"events", "flush"} /\ why = "final")
    /\ \A r, q \in orphan : r.tbl = q.tbl
    /\ (\E r \in orphan : r.tbl \in Analytics) => buf = Nothing /\ local = Nothing

LEMMA FlushInvInit == Init => FlushInv
    BY DEF Init, FlushInv

\* A step that leaves orphan alone, buffers nothing where nothing may be
\* buffered and keeps an interrupted process on its way.
LEMMA FlushInvKept ==
    ASSUME FlushInv, orphan' = orphan \/ orphan' = {},
           pc' = "flush" => buf' = Nothing,
           interrupted' => pc' = "drain" \/ (pc' \in {"events", "flush"} /\ why' = "final"),
           buf = Nothing /\ local = Nothing /\ orphan # {} => buf' = Nothing /\ local' = Nothing
    PROVE  FlushInv'
    BY DEF FlushInv

LEMMA FlushInvExit ==
    ASSUME FlushInv, Exit, orphan' = orphan
    PROVE  FlushInv'
    BY FlushInvKept DEF Exit

LEMMA FlushInvNext == TypeOK /\ Places /\ FlushInv /\ [Next]_vars => FlushInv'
<1> SUFFICES ASSUME TypeOK, Places, FlushInv, [Next]_vars
             PROVE  FlushInv'
    OBVIOUS
<1>0. pc = "loop" => ~interrupted /\ orphan = {} /\ local = Nothing
    BY DEF FlushInv, Places
<1>1. ASSUME NEW queryOk \in BOOLEAN, Boot(queryOk)
      PROVE  FlushInv'
    BY <1>1 DEF Boot, volatile, FlushInv
<1>2. ASSUME NEW items \in LogPayloads, LogPayload(items)
      PROVE  FlushInv'
    BY <1>2, <1>0 DEF LogPayload, AwaitingPayload, FlushInv
<1>3. CASE UnmatchedPayload
    BY <1>3, <1>0 DEF UnmatchedPayload, AwaitingPayload, FlushInv
<1>4. ASSUME NEW tx \in Transactions, EntriesPayload(tx)
      PROVE  FlushInv'
    BY <1>4, <1>0 DEF EntriesPayload, AwaitingPayload, FlushInv
<1>5. CASE Disconnect
    BY <1>5, <1>0 DEF Disconnect, AwaitingPayload, ToFinally, FlushInv
<1>6. CASE TrackedInstruction
    BY <1>6, <1>0 DEF TrackedInstruction, FlushInv
<1>7. CASE UntrackedInstruction
    BY <1>7, <1>0 DEF UntrackedInstruction, FlushInv
<1>8. CASE Tick
    BY <1>8, FlushInvKept DEF Tick, volatile, FlushInv
<1>9. CASE EventsInserted
    BY <1>9, FlushInvKept DEF EventsInserted, TakeBuffers, FlushInv
<1>10. ASSUME NEW stored \in BOOLEAN, EventsInsertFails(stored)
       PROVE  FlushInv'
  <2>1. CASE Exit
      BY <1>10, <2>1, FlushInvExit DEF EventsInsertFails
  <2>2. CASE ToFinally /\ UNCHANGED interrupted
      BY <1>10, <2>2, FlushInvKept DEF EventsInsertFails, ToFinally
  <2> QED
      BY <1>10, <2>1, <2>2 DEF EventsInsertFails
<1>11. ASSUME NEW t \in Analytics, TableInserted(t)
       PROVE  FlushInv'
  <2>1. local = Nothing => local' = Nothing
      BY <1>11, NothingIsEmpty DEF TableInserted, IsCurrent
  <2> QED
      BY <1>11, <2>1, FlushInvKept DEF TableInserted, control, FlushInv
<1>12. ASSUME NEW t \in Analytics, NEW stored \in BOOLEAN, TableInsertFails(t, stored)
       PROVE  FlushInv'
  <2>1. CASE Exit
      BY <1>12, <2>1, FlushInvExit DEF TableInsertFails
  <2>2. CASE ToFinally /\ UNCHANGED interrupted
      BY <1>12, <2>2, FlushInvKept DEF TableInsertFails, ToFinally
  <2> QED
      BY <1>12, <2>1, <2>2 DEF TableInsertFails
<1>13. CASE FlushDone
  <2>1. CASE Exit
      BY <1>13, <2>1, FlushInvExit DEF FlushDone
  <2>2. CASE ~Exit
      BY <1>13, <2>2, FlushInvKept DEF FlushDone, FlushInv
  <2> QED
      BY <2>1, <2>2
<1>14. CASE Drain
    BY <1>14, FlushInvKept DEF Drain, TakeBuffers, FlushInv
<1>15. CASE Cancel
  <2>1. \A r, q \in InFlight : r.tbl = q.tbl
    <3>1. CASE pc = "events"
        BY <3>1 DEF InFlight, Places
    <3>2. CASE pc = "flush"
      <4>1. \A t, u \in Analytics : IsCurrent(t) /\ IsCurrent(u) => t = u
          BY DEF IsCurrent, Earlier, Analytics
      <4> QED
          BY <3>2, <4>1 DEF InFlight, Places
    <3> QED
        BY <3>1, <3>2 DEF InFlight
  <2>2. \A r \in InFlight : r.tbl \in Analytics => pc = "flush"
      BY InFlightPlace DEF Places, Analytics
  <2>3. pc = "flush" => buf' = Nothing /\ local' = Nothing
      BY <1>15 DEF Cancel, Exit, ToFinally, FlushInv
  <2>4. pc' # "flush" /\ (interrupted' => pc' = "drain")
      BY <1>15 DEF Cancel, Exit, ToFinally
  <2>5. orphan' = InFlight
      BY <1>15 DEF Cancel
  <2> HIDE DEF InFlight
  <2> QED
      BY <2>1, <2>2, <2>3, <2>4, <2>5 DEF FlushInv
<1>16. ASSUME NEW stored \in BOOLEAN, OrphanEnds(stored)
       PROVE  FlushInv'
    BY <1>16, FlushInvKept DEF OrphanEnds, control, volatile, FlushInv
<1>17. ASSUME NEW stored \in BOOLEAN, Crash(stored)
       PROVE  FlushInv'
    BY <1>17, FlushInvExit DEF Crash
<1>18. CASE UNCHANGED vars
    BY <1>18 DEF vars, control, volatile, FlushInv
<1> QED
    BY <1>1, <1>2, <1>3, <1>4, <1>5, <1>6, <1>7, <1>8, <1>9, <1>10, <1>11,
       <1>12, <1>13, <1>14, <1>15, <1>16, <1>17, <1>18
    DEF Next, Arrivals, Instructions, EventsInsert, AnalyticsInsert, OrphanInsert

IngestInv == TypeOK /\ Places /\ AnalyticsOnce /\ FlushInv

LEMMA IngestInvariant == Spec => []IngestInv
<1>1. Init => IngestInv
    BY TypeInit, PlacesInit, OnceInit, FlushInvInit DEF IngestInv
<1>2. IngestInv /\ [Next]_vars => IngestInv'
    BY TypeNext, PlacesNext, StepKinds, OnceNext, FlushInvNext DEF IngestInv
<1> QED
    BY <1>1, <1>2, PTL DEF Spec

-----------------------------------------------------------------------------
(***************************************************************************)
(* Order.  A create becomes visible only when no swap is held any more,    *)
(* neither buffered nor taken nor on an abandoned thread.                  *)
(***************************************************************************)
\* Whoever has a create in its current list has no swaps left.
LEMMA CurrentCreates ==
    ASSUME IsCurrent("pool_creates")
    PROVE  local["swaps"] = {}
    BY DEF IsCurrent, Earlier

\* The places of a swap.
LEMMA SwapPlaces ==
    ASSUME Places, NEW s, s.tbl = "swaps"
    PROVE  s \in Held <=> s \in buf["swaps"] \/ s \in local["swaps"] \/ s \in orphan
    BY DEF Held, Buffered, Places, Analytics

LEMMA SwapPlacesNext ==
    ASSUME Places', NEW s, s.tbl = "swaps"
    PROVE  s \in Held' <=> s \in buf'["swaps"] \/ s \in local'["swaps"] \/ s \in orphan'
    BY DEF Held, Buffered, Places, Analytics

\* Writing the current list when it holds a create leaves no swap anywhere.
LEMMA CreatesLast ==
    ASSUME TypeOK, Places, FlushInv, pc = "flush", NEW t \in Analytics, IsCurrent(t),
           NEW c \in local[t], c.tbl = "pool_creates"
    PROVE  buf["swaps"] = {} /\ local["swaps"] = {} /\ \A r \in orphan : r.tbl \notin Analytics
<1>1. t = "pool_creates"
    BY DEF Places
<1>2. local["swaps"] = {} /\ buf["swaps"] = {}
    BY <1>1, CurrentCreates, NothingIsEmpty DEF FlushInv, Analytics
<1>3. ~ \E r \in orphan : r.tbl \in Analytics
    BY NothingIsEmpty DEF FlushInv
<1> QED
    BY <1>2, <1>3

\* The step that writes a create.
LEMMA CreateWritten ==
    ASSUME IngestInv, Places', [Next]_vars, NEW c \in DOMAIN copies,
           c.tbl = "pool_creates", copies'[c] # copies[c],
           NEW s, s.tbl = "swaps"
    PROVE  s \notin Held'
<1> USE IngestAssumption
<1> USE DEF IngestInv
<1> SUFFICES s \notin buf'["swaps"] /\ s \notin local'["swaps"] /\ s \notin orphan'
    BY SwapPlacesNext
<1>1. ASSUME NEW t \in Analytics, pc = "flush", IsCurrent(t), orphan' = orphan,
             \A r \in DOMAIN copies : copies'[r] # copies[r] => r \in local[t],
             \A u \in Analytics : buf'[u] \subseteq buf[u] /\ local'[u] \subseteq local[u]
      PROVE  s \notin buf'["swaps"] /\ s \notin local'["swaps"] /\ s \notin orphan'
    BY <1>1, CreatesLast DEF Analytics
<1>2. ASSUME NEW items \in LogPayloads, LogPayload(items)
      PROVE  FALSE
    BY <1>2, AcceptDomain DEF LogPayload
<1>3. CASE TrackedInstruction
    BY <1>3, AcceptDomain DEF TrackedInstruction
<1>4. CASE EventsInserted
    BY <1>4 DEF EventsInserted, Append2DB, Places
<1>5. ASSUME NEW stored \in BOOLEAN, EventsInsertFails(stored)
      PROVE  FALSE
  <2>1. \A r \in (IF stored THEN batch ELSE {}) : r.tbl = "shredstream_events"
      BY DEF Places
  <2> QED
      BY <1>5, <2>1 DEF EventsInsertFails, Append2DB
<1>6. ASSUME NEW t \in Analytics, TableInserted(t)
      PROVE  s \notin buf'["swaps"] /\ s \notin local'["swaps"] /\ s \notin orphan'
  <2>1. \A r \in DOMAIN copies : copies'[r] # copies[r] => r \in local[t]
      BY <1>6 DEF TableInserted, Append2DB
  <2>2. \A u \in Analytics : buf'[u] \subseteq buf[u] /\ local'[u] \subseteq local[u]
      BY <1>6 DEF TableInserted, TypeOK
  <2> QED
      BY <1>1, <1>6, <2>1, <2>2 DEF TableInserted
<1>7. ASSUME NEW t \in Analytics, NEW stored \in BOOLEAN, TableInsertFails(t, stored)
      PROVE  s \notin buf'["swaps"] /\ s \notin local'["swaps"] /\ s \notin orphan'
  <2>1. \A r \in DOMAIN copies : copies'[r] # copies[r] => r \in local[t]
      BY <1>7 DEF TableInsertFails, Append2DB
  <2>2. \A u \in Analytics : buf'[u] \subseteq buf[u] /\ local'[u] \subseteq local[u]
      BY <1>7, NothingIsEmpty DEF TableInsertFails, Exit, ToFinally
  <2> QED
      BY <1>1, <1>7, <2>1, <2>2 DEF TableInsertFails
<1>8. ASSUME NEW stored \in BOOLEAN, OrphanEnds(stored)
      PROVE  s \notin buf'["swaps"] /\ s \notin local'["swaps"] /\ s \notin orphan'
  <2>1. c \in orphan
      BY <1>8 DEF OrphanEnds, Append2DB
  <2>2. buf = Nothing /\ local = Nothing
      BY <2>1 DEF FlushInv, Analytics
  <2> QED
      BY <1>8, <2>2, NothingIsEmpty DEF OrphanEnds, volatile, Analytics
<1>9. ASSUME NEW stored \in BOOLEAN, Crash(stored)
      PROVE  s \notin buf'["swaps"] /\ s \notin local'["swaps"] /\ s \notin orphan'
  <2>1. c \in InFlight
      BY <1>9 DEF Crash, Append2DB
  <2>2. pc = "flush" /\ \E t \in Analytics : c \in local[t]
      BY <2>1, InFlightPlace DEF Places
  <2>3. ~ \E r \in orphan : r.tbl \in Analytics
      BY <2>2, NothingIsEmpty DEF FlushInv
  <2>4. orphan' = orphan /\ buf' = Nothing /\ local' = Nothing
      BY <1>9 DEF Crash, Exit
  <2> QED
      BY <2>3, <2>4, NothingIsEmpty DEF Analytics
<1>10. copies' # copies
    OBVIOUS
<1>11. /\ ~UnmatchedPayload /\ ~Disconnect /\ ~UntrackedInstruction /\ ~Tick
       /\ ~FlushDone /\ ~Drain /\ ~Cancel /\ ~UNCHANGED vars
    BY <1>10 DEF UnmatchedPayload, Disconnect, UntrackedInstruction, Tick, FlushDone, Drain, Cancel, vars
<1>12. /\ \A queryOk \in BOOLEAN : ~Boot(queryOk)
       /\ \A tx \in Transactions : ~EntriesPayload(tx)
    BY <1>10 DEF Boot, EntriesPayload
<1> QED
    BY <1>2, <1>3, <1>4, <1>5, <1>6, <1>7, <1>8, <1>9, <1>11, <1>12
    DEF Next, Arrivals, Instructions, EventsInsert, AnalyticsInsert, OrphanInsert

\* The order of visibility is kept by every step.
LEMMA OrderNext ==
    IngestInv /\ IngestInv' /\ CreatesFollowSwaps /\ [Next]_vars => CreatesFollowSwaps'
<1> SUFFICES ASSUME IngestInv, IngestInv', CreatesFollowSwaps, [Next]_vars,
                    NEW s \in AnalyticsRows', NEW c \in AnalyticsRows',
                    s.tbl = "swaps", c.tbl = "pool_creates", copies'[c] > 0, Before(s, c),
                    s \in Held'
             PROVE  FALSE
    BY DEF CreatesFollowSwaps, Before
<1> USE DEF IngestInv
<1>1. Accepts \/ Settles
    BY StepKinds
<1>2. DOMAIN copies \subseteq DOMAIN copies' /\ \A r \in DOMAIN copies' \ DOMAIN copies : copies'[r] = 0
    BY <1>1 DEF Accepts, Settles
<1>3. c \in DOMAIN copies
    BY <1>2 DEF AnalyticsRows
<1>4. copies'[c] = copies[c]
    BY <1>3, CreateWritten
<1>5. CASE s \in DOMAIN copies
  <2>1. s \in AnalyticsRows /\ c \in AnalyticsRows
      BY <1>3, <1>5 DEF AnalyticsRows
  <2>2. s \in Held
      BY <1>1, <2>1 DEF Accepts, Settles
  <2> QED
      BY <1>4, <2>1, <2>2 DEF CreatesFollowSwaps
<1>6. CASE s \notin DOMAIN copies
  <2>1. s \in DOMAIN copies'
      BY DEF AnalyticsRows
  <2>2. s.n = seen + 1
      BY <1>6, <2>1, NewRowsAreLater
  <2>3. c.n <= seen /\ c.n \in Nat /\ seen \in Nat
      BY <1>3 DEF Places, TypeOK, Row
  <2> QED
      BY <2>2, <2>3 DEF Before
<1> QED
    BY <1>5, <1>6

\* A create is visible only after the swaps buffered before it, whatever fails
\* and whoever writes them.
THEOREM CreatesAreLast == Spec => []CreatesFollowSwaps
<1>1. Init => CreatesFollowSwaps
    BY DEF Init, CreatesFollowSwaps, AnalyticsRows
<1> QED
    BY <1>1, OrderNext, IngestInvariant, PTL DEF Spec

-----------------------------------------------------------------------------
(***************************************************************************)
(* The registry.  A pool it knows has a create among the rows; a create    *)
(* that is stored or held is known, unless the bootstrap failed.           *)
(***************************************************************************)
WellFormed(items) ==
    \A k \in 1 .. Len(items) :
        items[k].kind \in {"swap", "mintless_create"} => items[k].pool = NoPool

IsCreateOf(c, p) == c.tbl = "pool_creates" /\ c.pool = p

RegistryInv ==
    /\ WellFormed(todo)
    /\ \A p \in registry : \E c \in DOMAIN copies : IsCreateOf(c, p)
    /\ pc # "down" /\ ~blind =>
          \A c \in DOMAIN copies :
              c.tbl = "pool_creates" /\ c.pool \in Pools /\ (copies[c] > 0 \/ c \in Held) =>
                  c.pool \in registry

\* The creates of a payload and what Register makes of them.
LEMMA CreatesOfPayload ==
    ASSUME NEW items \in Seq(Item(LogKinds)) \cup Seq(Item(InstructionKinds)), WellFormed(items),
           NEW n \in Nat, Register(items)
    PROVE  /\ registry \subseteq registry'
           /\ \A r \in RowsOf(items, n) : r.tbl = "pool_creates" /\ r.pool \in Pools => r.pool \in registry'
           /\ \A p \in registry' \ registry : \E c \in RowsOf(items, n) : IsCreateOf(c, p)
<1>1. registry' = registry \cup (CreatedBefore(items, Len(items) + 1) \cap Pools)
    BY DEF Register
<1>2. Len(items) \in Nat
    OBVIOUS
<1>3. ASSUME NEW r \in RowsOf(items, n), r.tbl = "pool_creates", r.pool \in Pools
      PROVE  r.pool \in registry'
  <2>1. PICK k \in Recorded(items) :
            r = [tbl |-> TableOf[items[k].kind], n |-> n, k |-> k, pool |-> items[k].pool]
      BY DEF RowsOf
  <2>2. k \in 1 .. Len(items) /\ items[k].kind \in {"create", "mintless_create"}
      BY <1>3, <2>1 DEF Recorded, TableOf
  <2>3. items[k].kind = "create"
      BY <1>3, <2>1, <2>2, ItemsAssumption DEF WellFormed
  <2>4. items[k].pool \in CreatedBefore(items, Len(items) + 1)
      BY <1>2, <2>2, <2>3 DEF CreatedBefore
  <2> QED
      BY <1>1, <1>3, <2>1, <2>4
<1>4. ASSUME NEW p \in registry', p \notin registry
      PROVE  \E c \in RowsOf(items, n) : IsCreateOf(c, p)
  <2>1. PICK j \in 1 .. Len(items) : items[j].kind = "create" /\ items[j].pool = p
      BY <1>1, <1>2, <1>4 DEF CreatedBefore
  <2>2. j \in Recorded(items)
      BY <2>1 DEF Recorded, TableOf
  <2>3. [tbl |-> TableOf[items[j].kind], n |-> n, k |-> j, pool |-> items[j].pool] \in RowsOf(items, n)
      BY <2>2 DEF RowsOf
  <2> QED
      BY <2>1, <2>3 DEF IsCreateOf, TableOf
<1> QED
    BY <1>1, <1>3, <1>4

\* A swap with a pool was resolved: its pool was registered before, or by an
\* earlier create of the same payload.
LEMMA SwapsOfPayload ==
    ASSUME NEW items \in Seq(Item(LogKinds)) \cup Seq(Item(InstructionKinds)), WellFormed(items),
           NEW n \in Nat, NEW s \in RowsOf(items, n), s.tbl = "swaps", s.pool \in Pools
    PROVE  s.pool \in registry \/ \E c \in RowsOf(items, n) : IsCreateOf(c, s.pool) /\ Before(c, s)
<1>1. PICK k \in Recorded(items) :
          s = [tbl |-> TableOf[items[k].kind], n |-> n, k |-> k, pool |-> items[k].pool]
    BY DEF RowsOf
<1>2. k \in 1 .. Len(items) /\ items[k].kind \in {"swap", "pool_swap"}
    BY <1>1 DEF Recorded, TableOf
<1>3. items[k].kind = "pool_swap"
    BY <1>1, <1>2, ItemsAssumption DEF WellFormed
<1>4. CASE items[k].pool \in registry
    BY <1>1, <1>4
<1>5. CASE items[k].pool \in CreatedBefore(items, k)
  <2>1. PICK j \in 1 .. k - 1 : items[j].kind = "create" /\ items[j].pool = items[k].pool
      BY <1>5 DEF CreatedBefore
  <2>2. j \in 1 .. Len(items) /\ j < k
      BY <1>2, <2>1
  <2>3. j \in Recorded(items)
      BY <2>1, <2>2 DEF Recorded, TableOf
  <2> DEFINE c == [tbl |-> TableOf[items[j].kind], n |-> n, k |-> j, pool |-> items[j].pool]
  <2>4. c \in RowsOf(items, n)
      BY <2>3 DEF RowsOf
  <2>5. IsCreateOf(c, s.pool) /\ Before(c, s)
      BY <1>1, <2>1, <2>2 DEF IsCreateOf, Before, TableOf
  <2> QED
      BY <2>4, <2>5
<1> QED
    BY <1>1, <1>3, <1>4, <1>5 DEF Recorded

\* What holds of the registry and of the resolved swaps.
PoolsInv == RegistryInv /\ ResolvedSwapHasCreate

\* A step that makes no rows and tells the registry nothing.
LEMMA PoolsIdle ==
    ASSUME IngestInv, PoolsInv, Accepts \/ Settles, DOMAIN copies' = DOMAIN copies,
           WellFormed(todo'), registry' \subseteq registry,
           pc' # "down" /\ ~blind' => pc # "down" /\ ~blind /\ registry' = registry
    PROVE  PoolsInv'
<1> USE DEF IngestInv, PoolsInv
<1>1. ResolvedSwapHasCreate'
    BY DEF ResolvedSwapHasCreate, AnalyticsRows, Before
<1>2. ASSUME NEW c \in DOMAIN copies', c.tbl = "pool_creates", copies'[c] > 0 \/ c \in Held'
      PROVE  copies[c] > 0 \/ c \in Held
  <2>1. c \in AnalyticsRows
      BY <1>2 DEF AnalyticsRows, Analytics
  <2> QED
      BY <1>2, <2>1 DEF Accepts, Settles
<1>3. RegistryInv'
    BY <1>2 DEF RegistryInv, IsCreateOf
<1> QED
    BY <1>1, <1>3

\* A step that makes the rows of a payload, and possibly one other row.
LEMMA PoolsPayload ==
    ASSUME IngestInv, PoolsInv, Accepts \/ Settles,
           NEW items \in Seq(Item(LogKinds)) \cup Seq(Item(InstructionKinds)), WellFormed(items),
           NEW other, other.tbl \notin {"swaps", "pool_creates"},
           Accept(RowsOf(items, seen + 1) \cup {other}), Register(items), WellFormed(todo'),
           pc # "down", blind' = blind
    PROVE  PoolsInv'
<1> USE DEF IngestInv, PoolsInv
<1> DEFINE rows == RowsOf(items, seen + 1)
<1>1. seen + 1 \in Nat
    BY DEF TypeOK
<1>2. DOMAIN copies' = DOMAIN copies \cup (rows \cup {other})
    BY AcceptDomain
<1>3. /\ registry \subseteq registry'
      /\ \A r \in rows : r.tbl = "pool_creates" /\ r.pool \in Pools => r.pool \in registry'
      /\ \A p \in registry' \ registry : \E c \in rows : IsCreateOf(c, p)
    BY <1>1, CreatesOfPayload
<1>4. \A r \in rows : r.n = seen + 1 /\ r.tbl \in Analytics
    BY <1>1, RowsOfType
<1>5. \A s \in rows : s.tbl = "swaps" /\ s.pool \in Pools =>
          s.pool \in registry \/ \E c \in rows : IsCreateOf(c, s.pool) /\ Before(c, s)
    BY <1>1, SwapsOfPayload
<1> HIDE DEF rows
<1>6. RegistryInv'
  <2>1. \A p \in registry' : \E c \in DOMAIN copies' : IsCreateOf(c, p)
      BY <1>2, <1>3 DEF RegistryInv
  <2>2. ASSUME NEW c \in DOMAIN copies', c.tbl = "pool_creates", c.pool \in Pools,
               copies'[c] > 0 \/ c \in Held', ~blind'
        PROVE  c.pool \in registry'
    <3>1. CASE c \in DOMAIN copies
      <4>1. c \in AnalyticsRows
          BY <2>2, <3>1 DEF AnalyticsRows, Analytics
      <4>2. copies[c] > 0 \/ c \in Held
          BY <2>2, <3>1, <4>1 DEF Accepts, Settles
      <4> QED
          BY <1>3, <2>2, <3>1, <4>2 DEF RegistryInv
    <3>2. CASE c \notin DOMAIN copies
        BY <1>2, <1>3, <2>2, <3>2
    <3> QED
        BY <3>1, <3>2
  <2> QED
      BY <2>1, <2>2 DEF RegistryInv, IsCreateOf
<1>7. ASSUME NEW s \in DOMAIN copies', s.tbl = "swaps", s.pool \in Pools
      PROVE  \E c \in DOMAIN copies' : IsCreateOf(c, s.pool) /\ Before(c, s)
  <2>1. CASE s \in DOMAIN copies
    <3>1. \E c \in AnalyticsRows : IsCreateOf(c, s.pool) /\ Before(c, s)
        BY <1>7, <2>1 DEF ResolvedSwapHasCreate, AnalyticsRows, IsCreateOf, Analytics
    <3> QED
        BY <1>2, <3>1 DEF AnalyticsRows
  <2>2. CASE s \in rows /\ s.pool \in registry
    <3>1. PICK c \in DOMAIN copies : IsCreateOf(c, s.pool)
        BY <2>2 DEF RegistryInv
    <3>2. c.n <= seen /\ c.n \in Nat /\ seen \in Nat
        BY DEF Places, TypeOK, Row
    <3>3. Before(c, s)
        BY <1>4, <2>2, <3>2 DEF Before
    <3> QED
        BY <1>2, <3>1, <3>3
  <2>3. CASE s \in rows /\ s.pool \notin registry
      BY <1>2, <1>5, <1>7, <2>3
  <2> QED
      BY <1>2, <1>7, <2>1, <2>2, <2>3
<1>8. ResolvedSwapHasCreate'
    BY <1>7 DEF ResolvedSwapHasCreate, AnalyticsRows, IsCreateOf, Before, Analytics
<1> QED
    BY <1>6, <1>8

LEMMA PoolsInit == Init => PoolsInv
    BY DEF Init, PoolsInv, RegistryInv, WellFormed, ResolvedSwapHasCreate, AnalyticsRows

\* The process ends: the registry with it.
LEMMA PoolsExit ==
    ASSUME IngestInv, PoolsInv, Accepts \/ Settles, DOMAIN copies' = DOMAIN copies, Exit
    PROVE  PoolsInv'
<1>1. WellFormed(todo') /\ registry' \subseteq registry /\ pc' = "down"
    BY DEF Exit, WellFormed
<1> QED
    BY <1>1, PoolsIdle

LEMMA PoolsFinally ==
    ASSUME IngestInv, PoolsInv, Accepts \/ Settles, DOMAIN copies' = DOMAIN copies, ToFinally, pc # "down"
    PROVE  PoolsInv'
<1>1. WellFormed(todo') /\ registry' = registry /\ blind' = blind
    BY DEF ToFinally, WellFormed
<1> QED
    BY <1>1, PoolsIdle

\* What is left of a transaction is as well formed as it was.
LEMMA TailWellFormed ==
    ASSUME TypeOK, WellFormed(todo), todo # <<>>
    PROVE  WellFormed(Tail(todo)) /\ WellFormed(<<Head(todo)>>)
<1>1. todo \in Seq(Item(InstructionKinds))
    BY DEF TypeOK
<1>2. Len(Tail(todo)) = Len(todo) - 1 /\ \A k \in 1 .. Len(todo) - 1 : Tail(todo)[k] = todo[k + 1]
    BY <1>1
<1>3. Head(todo) = todo[1] /\ 1 \in 1 .. Len(todo) /\ Len(todo) \in Nat
    BY <1>1
<1>4. \A k \in 1 .. Len(todo) - 1 : k + 1 \in 1 .. Len(todo)
    BY <1>3
<1> QED
    BY <1>2, <1>3, <1>4 DEF WellFormed

LEMMA PoolsNext == IngestInv /\ IngestInv' /\ PoolsInv /\ [Next]_vars => PoolsInv'
<1> SUFFICES ASSUME IngestInv, IngestInv', PoolsInv, [Next]_vars
             PROVE  PoolsInv'
    OBVIOUS
<1> USE IngestAssumption, ItemsAssumption
<1>0. Accepts \/ Settles
    BY StepKinds DEF IngestInv
<1>00. TypeOK /\ Places /\ WellFormed(todo)
    BY DEF IngestInv, PoolsInv, RegistryInv
<1>1. ASSUME NEW queryOk \in BOOLEAN, Boot(queryOk)
      PROVE  PoolsInv'
  <2>1. /\ DOMAIN copies' = DOMAIN copies /\ copies' = copies /\ todo' = todo
        /\ registry' = IF queryOk THEN StoredPools ELSE {}
        /\ blind' = ~queryOk /\ Held' = {}
    <3>1. batch' = {} /\ orphan' = {} /\ buf' = Nothing /\ local' = Nothing
        BY <1>1, <1>00 DEF Boot, volatile, Places
    <3> QED
        BY <1>1, <3>1, NothingIsEmpty DEF Boot, Held, Buffered
  <2>2. ResolvedSwapHasCreate'
      BY <2>1 DEF PoolsInv, ResolvedSwapHasCreate, AnalyticsRows, Before
  <2>3. \A p \in registry' : \E c \in DOMAIN copies : IsCreateOf(c, p)
      BY <2>1 DEF StoredPools, IsCreateOf
  <2>4. \A c \in DOMAIN copies : ~blind' /\ c.tbl = "pool_creates" /\ c.pool \in Pools /\ copies[c] > 0
            => c.pool \in registry'
      BY <2>1 DEF StoredPools
  <2>5. RegistryInv'
      BY <1>00, <2>1, <2>3, <2>4 DEF RegistryInv, IsCreateOf
  <2> QED
      BY <2>2, <2>5 DEF PoolsInv
<1>2. ASSUME NEW items \in LogPayloads, LogPayload(items)
      PROVE  PoolsInv'
  <2>1. items \in Seq(Item(LogKinds)) /\ WellFormed(items)
      BY DEF WellFormed
  <2>2. Event(seen + 1).tbl \notin {"swaps", "pool_creates"}
      BY DEF Event
  <2>3. /\ Accept(RowsOf(items, seen + 1) \cup {Event(seen + 1)}) /\ Register(items)
        /\ todo' = todo /\ blind' = blind /\ pc # "down"
      BY <1>2 DEF LogPayload, AwaitingPayload
  <2> QED
      BY <1>0, <1>00, <2>1, <2>2, <2>3, PoolsPayload
<1>3. CASE UnmatchedPayload
    BY <1>0, <1>00, <1>3, PoolsIdle DEF UnmatchedPayload, AwaitingPayload
<1>4. ASSUME NEW tx \in Transactions, EntriesPayload(tx)
      PROVE  PoolsInv'
  <2>1. WellFormed(tx)
      BY DEF WellFormed
  <2> QED
      BY <1>0, <1>4, <2>1, PoolsIdle DEF EntriesPayload, AwaitingPayload
<1>5. CASE Disconnect
    BY <1>0, <1>5, PoolsFinally DEF Disconnect, AwaitingPayload
<1>6. CASE TrackedInstruction
  <2>1. <<Head(todo)>> \in Seq(Item(InstructionKinds)) /\ WellFormed(<<Head(todo)>>) /\ WellFormed(Tail(todo))
      BY <1>00, <1>6, HeadTail, TailWellFormed DEF TrackedInstruction
  <2>2. Hit(seen + 1).tbl \notin {"swaps", "pool_creates"}
      BY DEF Hit
  <2>3. /\ Accept(RowsOf(<<Head(todo)>>, seen + 1) \cup {Hit(seen + 1)}) /\ Register(<<Head(todo)>>)
        /\ todo' = Tail(todo) /\ blind' = blind /\ pc # "down"
      BY <1>6 DEF TrackedInstruction
  <2> QED
      BY <1>0, <2>1, <2>2, <2>3, PoolsPayload
<1>7. CASE UntrackedInstruction
  <2>1. WellFormed(Tail(todo))
      BY <1>00, <1>7, TailWellFormed DEF UntrackedInstruction
  <2> QED
      BY <1>0, <1>7, <2>1, PoolsIdle DEF UntrackedInstruction
<1>8. CASE Tick
    BY <1>0, <1>00, <1>8, PoolsIdle DEF Tick
<1>9. CASE EventsInserted
    BY <1>0, <1>00, <1>9, PoolsIdle, AppendKeepsDomain DEF EventsInserted
<1>10. ASSUME NEW stored \in BOOLEAN, EventsInsertFails(stored)
       PROVE  PoolsInv'
    BY <1>0, <1>10, PoolsExit, PoolsFinally, AppendKeepsDomain DEF EventsInsertFails
<1>11. ASSUME NEW t \in Analytics, TableInserted(t)
       PROVE  PoolsInv'
    BY <1>0, <1>00, <1>11, PoolsIdle, AppendKeepsDomain DEF TableInserted, control
<1>12. ASSUME NEW t \in Analytics, NEW stored \in BOOLEAN, TableInsertFails(t, stored)
       PROVE  PoolsInv'
    BY <1>0, <1>12, PoolsExit, PoolsFinally, AppendKeepsDomain DEF TableInsertFails
<1>13. CASE FlushDone
  <2>1. CASE Exit
      BY <1>0, <1>13, <2>1, PoolsExit DEF FlushDone
  <2>2. CASE ~Exit
      BY <1>0, <1>00, <1>13, <2>2, PoolsIdle DEF FlushDone
  <2> QED
      BY <2>1, <2>2
<1>14. CASE Drain
    BY <1>0, <1>00, <1>14, PoolsIdle DEF Drain
<1>15. CASE Cancel
    BY <1>0, <1>15, PoolsExit, PoolsFinally DEF Cancel, AwaitingPayload
<1>16. ASSUME NEW stored \in BOOLEAN, OrphanEnds(stored)
       PROVE  PoolsInv'
    BY <1>0, <1>00, <1>16, PoolsIdle, AppendKeepsDomain DEF OrphanEnds, control
<1>17. ASSUME NEW stored \in BOOLEAN, Crash(stored)
       PROVE  PoolsInv'
    BY <1>0, <1>17, PoolsExit, AppendKeepsDomain DEF Crash
<1>18. CASE UNCHANGED vars
    BY <1>0, <1>00, <1>18, PoolsIdle DEF vars, control
<1> QED
    BY <1>1, <1>2, <1>3, <1>4, <1>5, <1>6, <1>7, <1>8, <1>9, <1>10, <1>11,
       <1>12, <1>13, <1>14, <1>15, <1>16, <1>17, <1>18
    DEF Next, Arrivals, Instructions, EventsInsert, AnalyticsInsert, OrphanInsert

LEMMA PoolsInvariant == Spec => [](IngestInv /\ PoolsInv)
    BY PoolsInit, PoolsNext, IngestInvariant, PTL DEF Spec

\* Every swap resolved through the registry has an earlier create of its pool.
THEOREM ResolvedSwapsHaveCreates == Spec => []ResolvedSwapHasCreate
    BY PoolsInvariant, PTL DEF PoolsInv

\* A running process whose bootstrap succeeded knows every stored create.
THEOREM RegistryKnows == Spec => []RegistryKnowsStored
<1>1. PoolsInv => RegistryKnowsStored
    BY DEF PoolsInv, RegistryInv, RegistryKnowsStored, StoredPools
<1> QED
    BY <1>1, PoolsInvariant, PTL

-----------------------------------------------------------------------------
(***************************************************************************)
(* Loss.  A raw event leaves the batch only when it is stored: flush()     *)
(* runs between its insert and the clearing of the batch.  An analytics    *)
(* row leaves the process unwritten only in a step of a fault.             *)
(***************************************************************************)
Faults == fails + cancels + crashes > 0

EventsKept ==
    /\ \A r \in EventRows : copies[r] > 0 \/ r \in batch \/ crashes > 0 \/ spoiled
    /\ pc = "flush" /\ why # "hits" => \A r \in batch : copies[r] > 0

RowsKept == \A r \in AnalyticsRows : copies[r] > 0 \/ r \in Held \/ Faults

LossInv == EventsKept /\ RowsKept

LEMMA LossInit == Init => LossInv
    BY DEF Init, LossInv, EventsKept, RowsKept, EventRows, AnalyticsRows

\* Appending never lowers a number of copies.
LEMMA AppendAdds ==
    ASSUME TypeOK, NEW rows, Append2DB(rows)
    PROVE  /\ DOMAIN copies' = DOMAIN copies
           /\ \A r \in DOMAIN copies : copies[r] > 0 \/ r \in rows => copies'[r] > 0
    BY DEF TypeOK, Append2DB

\* A step that makes no raw event, clears no batch and starts no flush of it.
LEMMA EventsKeptIdle ==
    ASSUME EventsKept, EventRows' = EventRows, batch' = batch, crashes' = crashes, spoiled' = spoiled,
           \A r \in EventRows : copies[r] > 0 => copies'[r] > 0,
           pc' = "flush" /\ why' # "hits" =>
              batch = {} \/ (pc = "flush" /\ why # "hits" /\ batch \subseteq EventRows)
    PROVE  EventsKept'
    BY DEF EventsKept

LEMMA EventsKeptNext == IngestInv /\ IngestInv' /\ EventsKept /\ [Next]_vars => EventsKept'
<1> SUFFICES ASSUME IngestInv, IngestInv', EventsKept, [Next]_vars
             PROVE  EventsKept'
    OBVIOUS
<1>0. TypeOK /\ TypeOK' /\ Places /\ batch \subseteq EventRows
    BY BatchEvents DEF IngestInv
<1>1. ASSUME NEW queryOk \in BOOLEAN, Boot(queryOk)
      PROVE  EventsKept'
    BY <1>1, EventsKeptIdle DEF Boot, volatile, EventRows
<1>2. ASSUME NEW items \in LogPayloads, LogPayload(items)
      PROVE  EventsKept'
  <2>1. items \in Seq(Item(LogKinds)) /\ seen + 1 \in Nat
      BY <1>0, IngestAssumption DEF TypeOK
  <2>2. \A r \in RowsOf(items, seen + 1) : r.tbl \in Analytics
      BY <2>1, RowsOfType
  <2>3. /\ Accept(RowsOf(items, seen + 1) \cup {Event(seen + 1)}) /\ batch' = batch \cup {Event(seen + 1)}
        /\ pc' # "flush" /\ crashes' = crashes /\ spoiled' = spoiled
      BY <1>2 DEF LogPayload, AwaitingPayload, faults
  <2>4. \A r \in EventRows' : r \in EventRows \/ r = Event(seen + 1)
    <3>1. DOMAIN copies' = DOMAIN copies \cup (RowsOf(items, seen + 1) \cup {Event(seen + 1)})
        BY <2>3, AcceptDomain
    <3>2. "shredstream_events" \notin Analytics
        BY DEF Analytics
    <3> QED
        BY <2>2, <3>1, <3>2 DEF EventRows
  <2>5. \A r \in EventRows : copies'[r] = copies[r]
      BY <2>3, AcceptDomain DEF EventRows
  <2> QED
      BY <2>3, <2>4, <2>5 DEF EventsKept
<1>3. CASE UnmatchedPayload
    BY <1>3, EventsKeptIdle DEF UnmatchedPayload, volatile, faults, EventRows
<1>4. ASSUME NEW tx \in Transactions, EntriesPayload(tx)
      PROVE  EventsKept'
    BY <1>4, EventsKeptIdle DEF EntriesPayload, AwaitingPayload, volatile, faults, EventRows
<1>5. CASE Disconnect
    BY <1>5, EventsKeptIdle DEF Disconnect, ToFinally, faults, EventRows
<1>6. CASE TrackedInstruction
  <2>1. <<Head(todo)>> \in Seq(Item(InstructionKinds)) /\ seen + 1 \in Nat
      BY <1>0, <1>6, HeadTail DEF TrackedInstruction, TypeOK
  <2>2. \A r \in RowsOf(<<Head(todo)>>, seen + 1) \cup {Hit(seen + 1)} : r.tbl \in Analytics
      BY <2>1, RowsOfType, OwnRows
  <2>3. /\ Accept(RowsOf(<<Head(todo)>>, seen + 1) \cup {Hit(seen + 1)}) /\ batch' = batch
        /\ ~(pc' = "flush" /\ why' # "hits") /\ crashes' = crashes /\ spoiled' = spoiled
      BY <1>6 DEF TrackedInstruction, faults
  <2>4. EventRows' = EventRows /\ \A r \in EventRows : copies'[r] = copies[r]
      BY <2>2, <2>3, AcceptDomain DEF EventRows, Analytics
  <2> QED
      BY <2>3, <2>4, EventsKeptIdle
<1>7. CASE UntrackedInstruction
    BY <1>7, EventsKeptIdle DEF UntrackedInstruction, volatile, faults, EventRows
<1>8. CASE Tick
    BY <1>0, <1>8, EventsKeptIdle DEF Tick, volatile, faults, EventRows
<1>9. CASE EventsInserted
    BY <1>0, <1>9, AppendAdds DEF EventsInserted, TakeBuffers, faults, EventsKept, EventRows
<1>10. ASSUME NEW stored \in BOOLEAN, EventsInsertFails(stored)
       PROVE  EventsKept'
  <2>1. Append2DB(IF stored THEN batch ELSE {}) /\ crashes' = crashes /\ pc' # "flush"
      BY <1>10 DEF EventsInsertFails, Exit, ToFinally
  <2>2. spoiled' \/ (batch' = batch /\ spoiled' = spoiled)
      BY <1>10 DEF EventsInsertFails, ToFinally
  <2>3. EventRows' = EventRows /\ \A r \in EventRows : copies[r] > 0 => copies'[r] > 0
      BY <1>0, <2>1, AppendAdds DEF EventRows
  <2> QED
      BY <2>1, <2>2, <2>3 DEF EventsKept
<1>11. ASSUME NEW t \in Analytics, TableInserted(t)
       PROVE  EventsKept'
  <2>1. EventRows' = EventRows /\ \A r \in EventRows : copies[r] > 0 => copies'[r] > 0
      BY <1>0, <1>11, AppendAdds DEF TableInserted, EventRows
  <2> QED
      BY <1>0, <1>11, <2>1, EventsKeptIdle DEF TableInserted, control, faults
<1>12. ASSUME NEW t \in Analytics, NEW stored \in BOOLEAN, TableInsertFails(t, stored)
       PROVE  EventsKept'
  <2>1. EventRows' = EventRows /\ \A r \in EventRows : copies[r] > 0 => copies'[r] > 0
      BY <1>0, <1>12, AppendAdds DEF TableInsertFails, EventRows
  <2>2. pc = "flush" /\ pc' # "flush" /\ crashes' = crashes /\ spoiled' = spoiled
      BY <1>12 DEF TableInsertFails, Exit, ToFinally
  <2>3. CASE why = "final"
      BY <1>0, <2>1, <2>2, <2>3 DEF EventsKept
  <2>4. CASE why # "final"
      BY <1>12, <2>1, <2>2, <2>4 DEF TableInsertFails, ToFinally, EventsKept
  <2> QED
      BY <2>3, <2>4
<1>13. CASE FlushDone
  <2>1. EventRows' = EventRows /\ copies' = copies /\ crashes' = crashes /\ spoiled' = spoiled /\ pc' # "flush"
      BY <1>13 DEF FlushDone, Exit, faults, EventRows
  <2>2. CASE why = "hits"
      BY <1>13, <2>1, <2>2 DEF FlushDone, Cleared, EventsKept
  <2>3. CASE why # "hits"
      BY <1>0, <1>13, <2>1, <2>3 DEF FlushDone, EventsKept
  <2> QED
      BY <2>2, <2>3
<1>14. CASE Drain
    BY <1>14, EventsKeptIdle DEF Drain, TakeBuffers, faults, EventRows
<1>15. CASE Cancel
  <2>1. /\ EventRows' = EventRows /\ copies' = copies /\ crashes' = crashes /\ pc' # "flush"
        /\ spoiled' = (spoiled \/ (pc = "events" /\ why = "final"))
      BY <1>15 DEF Cancel, Exit, ToFinally, EventRows
  <2>2. CASE pc \in {"events", "flush"} /\ why = "final"
    <3>1. CASE pc = "events"
        BY <2>1, <2>2, <3>1 DEF EventsKept
    <3>2. CASE pc = "flush"
        BY <1>0, <2>1, <2>2, <3>2 DEF EventsKept
    <3> QED
        BY <2>2, <3>1, <3>2
  <2>3. CASE ~(pc \in {"events", "flush"} /\ why = "final")
    <3>1. batch' = batch
        BY <1>15, <2>3 DEF Cancel, ToFinally
    <3> QED
        BY <2>1, <3>1 DEF EventsKept
  <2> QED
      BY <2>2, <2>3
<1>16. ASSUME NEW stored \in BOOLEAN, OrphanEnds(stored)
       PROVE  EventsKept'
  <2>1. EventRows' = EventRows /\ \A r \in EventRows : copies[r] > 0 => copies'[r] > 0
      BY <1>0, <1>16, AppendAdds DEF OrphanEnds, EventRows
  <2> QED
      BY <1>0, <1>16, <2>1, EventsKeptIdle DEF OrphanEnds, control, volatile
<1>17. ASSUME NEW stored \in BOOLEAN, Crash(stored)
       PROVE  EventsKept'
  <2>1. crashes' > 0 /\ batch' = {}
      BY <1>0, <1>17 DEF Crash, Exit, TypeOK
  <2> QED
      BY <2>1 DEF EventsKept
<1>18. CASE UNCHANGED vars
    BY <1>0, <1>18, EventsKeptIdle DEF vars, control, volatile, faults, EventRows
<1> QED
    BY <1>1, <1>2, <1>3, <1>4, <1>5, <1>6, <1>7, <1>8, <1>9, <1>10, <1>11,
       <1>12, <1>13, <1>14, <1>15, <1>16, <1>17, <1>18
    DEF Next, Arrivals, Instructions, EventsInsert, AnalyticsInsert, OrphanInsert

\* A step after which every analytics row is as visible as before, or that
\* counts a fault.
LEMMA RowsKeptStep ==
    ASSUME IngestInv, IngestInv', RowsKept, Accepts \/ Settles,
           fails' >= fails, cancels' >= cancels, crashes' >= crashes,
           Faults' \/ \A r \in AnalyticsRows : r \in Held => r \in Held' \/ copies'[r] > 0
    PROVE  RowsKept'
<1>1. Faults => Faults'
    BY DEF IngestInv, TypeOK, Faults
<1>2. \A r \in AnalyticsRows : copies[r] > 0 => copies'[r] > 0
  <2>1. \A r \in AnalyticsRows : copies[r] \in Nat
      BY DEF AnalyticsRows, IngestInv, TypeOK
  <2>2. \A r \in AnalyticsRows : copies'[r] = copies[r] \/ copies'[r] = copies[r] + 1
      BY DEF Accepts, Settles, AnalyticsRows
  <2> QED
      BY <2>1, <2>2
<1>3. \A r \in AnalyticsRows' : r \in AnalyticsRows \/ r \in Held'
    BY DEF Accepts, Settles, AnalyticsRows
<1> QED
    BY <1>1, <1>2, <1>3 DEF RowsKept

LEMMA RowsKeptNext == IngestInv /\ IngestInv' /\ RowsKept /\ [Next]_vars => RowsKept'
<1> SUFFICES ASSUME IngestInv, IngestInv', RowsKept, [Next]_vars
             PROVE  RowsKept'
    OBVIOUS
<1>0. TypeOK /\ Places /\ Places' /\ HeldApart /\ HeldApart' /\ FlushInv /\ (Accepts \/ Settles)
    BY StepKinds, HeldPlaces, HeldPlacesNext DEF IngestInv
<1>00. fails \in Nat /\ cancels \in Nat /\ crashes \in Nat
    BY DEF IngestInv, TypeOK
<1>1. ASSUME fails' = fails, cancels' = cancels, crashes' = crashes,
             \A r \in AnalyticsRows : r \in Held => r \in Held' \/ copies'[r] > 0
      PROVE  RowsKept'
    BY <1>0, <1>00, <1>1, RowsKeptStep
<1>2. ASSUME fails' >= fails, cancels' >= cancels, crashes' >= crashes,
             fails' \in Nat, cancels' \in Nat, crashes' \in Nat, Faults'
      PROVE  RowsKept'
    BY <1>0, <1>2, RowsKeptStep
<1>3. ASSUME Accepts, fails' = fails, cancels' = cancels, crashes' = crashes
      PROVE  RowsKept'
    BY <1>1, <1>3 DEF Accepts
<1>4. ASSUME orphan' = orphan, fails' = fails, cancels' = cancels, crashes' = crashes,
             \A t \in Analytics : buf[t] \cup local[t] \subseteq buf'[t] \cup local'[t]
      PROVE  RowsKept'
    BY <1>0, <1>1, <1>4 DEF HeldApart, AnalyticsRows
<1>5. ASSUME NEW queryOk \in BOOLEAN, Boot(queryOk)
      PROVE  RowsKept'
  <2>1. CASE queryOk
      BY <1>4, <1>5, <2>1 DEF Boot, volatile
  <2>2. CASE ~queryOk
      BY <1>2, <1>5, <1>00, <2>2 DEF Boot, Faults
  <2> QED
      BY <2>1, <2>2
<1>6. ASSUME NEW items \in LogPayloads, LogPayload(items)
      PROVE  RowsKept'
  <2>1. \A t \in Analytics : buf[t] \cup local[t] \subseteq buf'[t] \cup local'[t]
      BY <1>6, BufferedWithRows DEF LogPayload
  <2> QED
      BY <1>4, <1>6, <2>1 DEF LogPayload, faults
<1>7. CASE UnmatchedPayload
    BY <1>4, <1>7 DEF UnmatchedPayload, volatile, faults
<1>8. ASSUME NEW tx \in Transactions, EntriesPayload(tx)
      PROVE  RowsKept'
    BY <1>4, <1>8 DEF EntriesPayload, volatile, faults
<1>9. CASE Disconnect
  <2>1. local = Nothing
      BY <1>0, <1>9 DEF Disconnect, AwaitingPayload, Places
  <2> QED
      BY <1>4, <1>9, <2>1, NothingIsEmpty DEF Disconnect, ToFinally, faults
<1>10. CASE TrackedInstruction
  <2>1. local = Nothing
      BY <1>0, <1>10 DEF TrackedInstruction, Places
  <2>2. \A t \in Analytics : buf[t] \cup local[t] \subseteq buf'[t] \cup local'[t]
      BY <1>10, <2>1, BufferedWithRows, NothingIsEmpty DEF TrackedInstruction
  <2> QED
      BY <1>4, <1>10, <2>2 DEF TrackedInstruction, faults
<1>11. CASE UntrackedInstruction
    BY <1>4, <1>11 DEF UntrackedInstruction, volatile, faults
<1>12. CASE Tick
    BY <1>4, <1>12 DEF Tick, volatile, faults
<1>13. CASE EventsInserted
  <2>1. local = Nothing
      BY <1>0, <1>13 DEF EventsInserted, Places
  <2> QED
      BY <1>4, <1>13, <2>1, NothingIsEmpty DEF EventsInserted, TakeBuffers, faults
<1>14. ASSUME NEW stored \in BOOLEAN, EventsInsertFails(stored)
       PROVE  RowsKept'
    BY <1>2, <1>00, <1>14 DEF EventsInsertFails, Faults
<1>15. ASSUME NEW t \in Analytics, TableInserted(t)
       PROVE  RowsKept'
  <2>1. \A r \in DOMAIN copies : r \in local[t] => copies'[r] > 0
      BY <1>0, <1>15, AppendAdds DEF TableInserted
  <2>2. \A u \in Analytics : u # t => local'[u] = local[u]
      BY <1>0, <1>15 DEF TableInserted, TypeOK
  <2>3. buf' = buf /\ orphan' = orphan
      BY <1>15 DEF TableInserted
  <2>4. \A r \in AnalyticsRows : r \in Held => r \in Held' \/ copies'[r] > 0
      BY <1>0, <2>1, <2>2, <2>3 DEF HeldApart, AnalyticsRows
  <2> QED
      BY <1>1, <1>15, <2>4 DEF TableInserted, faults
<1>16. ASSUME NEW t \in Analytics, NEW stored \in BOOLEAN, TableInsertFails(t, stored)
       PROVE  RowsKept'
    BY <1>2, <1>00, <1>16 DEF TableInsertFails, Faults
<1>17. CASE FlushDone
  <2>1. \A t \in Analytics : buf[t] \cup local[t] = {}
      BY <1>0, <1>17, NothingIsEmpty DEF FlushDone, FlushOver, FlushInv
  <2> QED
      BY <1>4, <1>17, <2>1 DEF FlushDone, faults
<1>18. CASE Drain
  <2>1. local = Nothing
      BY <1>0, <1>18 DEF Drain, Places
  <2> QED
      BY <1>4, <1>18, <2>1, NothingIsEmpty DEF Drain, TakeBuffers, faults
<1>19. CASE Cancel
    BY <1>2, <1>00, <1>19 DEF Cancel, Faults
<1>20. ASSUME NEW stored \in BOOLEAN, OrphanEnds(stored)
       PROVE  RowsKept'
  <2>1. CASE stored
    <3>1. \A r \in DOMAIN copies : r \in orphan => copies'[r] > 0
        BY <1>0, <1>20, <2>1, AppendAdds DEF OrphanEnds
    <3>2. buf' = buf /\ local' = local
        BY <1>20 DEF OrphanEnds, volatile
    <3>3. \A r \in AnalyticsRows : r \in Held => r \in Held' \/ copies'[r] > 0
        BY <1>0, <3>1, <3>2 DEF HeldApart, AnalyticsRows
    <3> QED
        BY <1>1, <1>20, <2>1, <3>3 DEF OrphanEnds
  <2>2. CASE ~stored
      BY <1>2, <1>00, <1>20, <2>2 DEF OrphanEnds, Faults
  <2> QED
      BY <2>1, <2>2
<1>21. ASSUME NEW stored \in BOOLEAN, Crash(stored)
       PROVE  RowsKept'
    BY <1>2, <1>00, <1>21 DEF Crash, Faults
<1>22. CASE UNCHANGED vars
    BY <1>4, <1>22 DEF vars, volatile, faults
<1> QED
    BY <1>5, <1>6, <1>7, <1>8, <1>9, <1>10, <1>11, <1>12, <1>13, <1>14, <1>15,
       <1>16, <1>17, <1>18, <1>19, <1>20, <1>21, <1>22
    DEF Next, Arrivals, Instructions, EventsInsert, AnalyticsInsert, OrphanInsert

\* No row disappears without a cause, and a raw event only in a crash or with
\* the insert of the finally block.
THEOREM NothingLostSilently == Spec => []NoSilentLoss
<1>1. IngestInv /\ IngestInv' /\ LossInv /\ [Next]_vars => LossInv'
    BY EventsKeptNext, RowsKeptNext DEF LossInv
<1>2. IngestInv /\ LossInv => NoSilentLoss
  <2> SUFFICES ASSUME IngestInv, LossInv, NEW r \in DOMAIN copies, copies[r] = 0, r \notin Held
               PROVE  IF r.tbl = "shredstream_events"
                      THEN crashes > 0 \/ spoiled
                      ELSE fails + cancels + crashes > 0
      BY DEF NoSilentLoss
  <2>1. CASE r.tbl = "shredstream_events"
      BY <2>1 DEF LossInv, EventsKept, EventRows, Held
  <2>2. CASE r.tbl # "shredstream_events"
    <3>1. r \in AnalyticsRows
        BY <2>2 DEF IngestInv, TypeOK, Row, Tables, AnalyticsRows
    <3> QED
        BY <2>2, <3>1 DEF LossInv, RowsKept, Faults
  <2> QED
      BY <2>1, <2>2
<1> QED
    BY <1>1, <1>2, LossInit, IngestInvariant, PTL DEF Spec
=============================================================================
