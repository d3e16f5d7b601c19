------------------------- MODULE ShredstreamIngest -------------------------
(***************************************************************************)
(* The ingest coroutine, run() of src/app/main.py, with the two sinks it   *)
(* writes to, the pool registry it feeds and the gRPC stream it reads.     *)
(*                                                                         *)
(* The coroutine is sequential.  It gives up control only where it awaits: *)
(* the next payload, one insert of a batch or of an analytics table (each  *)
(* in a worker thread), and the profiler task while it shuts down.  Between*)
(* two awaits it runs atomically.  An insert can fail with or without its  *)
(* rows having reached ClickHouse, a SIGINT cancels the coroutine at an    *)
(* await (the worker thread goes on), and the process can be killed        *)
(* anywhere and started again.                                             *)
(***************************************************************************)
EXTENDS Naturals, Sequences, FiniteSets

CONSTANTS
    Pools,         \* pool addresses
    NoPool,        \* an item without a resolvable pool
    LogPayloads,   \* payloads with logs: sequences of items, one per log chunk
    Transactions,  \* decoded "entries" payloads: sequences of instructions
    BatchSize,     \* max(1, settings.batch_size)
    MaxPayloads,   \* bound: process_payload calls that buffer something
    MaxFails,      \* bound: inserts that fail
    MaxCancels,    \* bound: SIGINTs
    MaxCrashes     \* bound: kills of the process

\* What the parsers make of a log chunk or of an instruction.
\*   swap             a swap whose event or accounts name the mint
\*   pool_swap        a swap resolved through the pool registry
\*   create           a create with pool, mint and quote mint
\*   mintless_create  a create with mint = "" (Raydium LaunchLab)
\*   bad              a parser raised: a parse failure.  The parsers of the
\*                    repository answer malformed data with None instead, so
\*                    that no run has one
\*   other            nothing to record, or a swap with an empty mint
\*   untracked        an instruction of a program that is not tracked
LogKinds == {"swap", "pool_swap", "create", "mintless_create", "bad", "other"}
InstructionKinds == {"swap", "pool_swap", "create", "other", "untracked"}

Item(kinds) == [kind : kinds, pool : Pools \cup {NoPool}]

ASSUME IngestAssumption ==
    /\ BatchSize \in Nat \ {0}
    /\ MaxPayloads \in Nat
    /\ MaxFails \in Nat
    /\ MaxCancels \in Nat
    /\ MaxCrashes \in Nat
    /\ LogPayloads \subseteq Seq(Item(LogKinds))
    /\ Transactions \subseteq Seq(Item(InstructionKinds))

\* An item has a pool only if the registry is asked for it or told of it.
ASSUME ItemsAssumption ==
    /\ NoPool \notin Pools
    /\ \A items \in LogPayloads \cup Transactions : \A k \in 1 .. Len(items) :
          items[k].kind \in {"swap", "mintless_create"} => items[k].pool = NoPool

Analytics == {"swaps", "pool_creates", "instruction_hits", "parse_failures"}
Tables == Analytics \cup {"shredstream_events"}

\* A row is identified by the process_payload call that made it and its place.
Row == [tbl : Tables, n : Nat, k : Nat, pool : Pools \cup {NoPool}]

Nothing == [t \in Analytics |-> {}]

VARIABLES
    pc,        \* where the coroutine is: see PCs
    why,       \* who flushes: the batch path, the hit path or the shutdown
    todo,      \* instructions of the current transaction still to process
    batch,     \* raw events not yet cleared
    buf,       \* the four buffers of the AnalyticsSink
    local,     \* the lists flush() took from the buffers and has not written
    interrupted, \* this process has had its SIGINT; the next one kills it
    orphan,    \* rows a worker thread still writes for a cancelled await
    due,       \* loop.time() >= next_flush
    registry,  \* pools the PoolRegistry knows
    blind,     \* the bootstrap query of this process failed
    link,      \* the gRPC stream: "open" or "broken"
    copies,    \* rows ever buffered, with the copies ClickHouse holds of each
    seen,      \* process_payload calls that buffered something
    fails, cancels, crashes, \* faults so far
    spoiled    \* the shutdown's own insert of the batch failed

control == <<pc, why, todo, due, link>>
volatile == <<batch, buf, local>>
faults == <<fails, cancels, crashes, spoiled>>
vars == <<control, volatile, interrupted, orphan, registry, blind, copies, seen,
          faults>>

\*  down    not running          loop   awaiting a payload, or inside todo
\*  events  awaiting insert_batch    flush  awaiting an analytics insert
\*  drain   in finally, awaiting the cancelled profiler task
PCs == {"down", "loop", "events", "flush", "drain"}

-----------------------------------------------------------------------------
(* Rows and buffers *)

TableOf == [swap |-> "swaps", pool_swap |-> "swaps",
            create |-> "pool_creates", mintless_create |-> "pool_creates",
            bad |-> "parse_failures"]

CreatedBefore(items, k) ==
    {items[j].pool : j \in {i \in 1 .. k - 1 : items[i].kind = "create"}}

\* Mutant: the swap is recorded although its pool is unknown.
RecordedUnresolved(items) ==
    {k \in 1 .. Len(items) : items[k].kind \in DOMAIN TableOf}

\* The items that leave a row: a pool swap only if its pool is known by then.
Recorded(items) ==
    {k \in 1 .. Len(items) :
        /\ items[k].kind \in DOMAIN TableOf
        /\ items[k].kind = "pool_swap" =>
              items[k].pool \in registry \cup CreatedBefore(items, k)}

RowsOf(items, n) ==
    {[tbl |-> TableOf[items[k].kind], n |-> n, k |-> k, pool |-> items[k].pool] :
        k \in Recorded(items)}

Event(n) == [tbl |-> "shredstream_events", n |-> n, k |-> 0, pool |-> NoPool]
Hit(n) == [tbl |-> "instruction_hits", n |-> n, k |-> 0, pool |-> NoPool]

\* Mutant: a parsed create is not reported to the registry.
RegisterNothing(items) == registry' = registry

\* pool_registry.update: entries with an empty field are ignored.
Register(items) ==
    registry' = registry \cup (CreatedBefore(items, Len(items) + 1) \cap Pools)

\* The buffers after buffer_swap, buffer_create, buffer_instruction_hit and
\* buffer_parse_failure of these rows.
BufferedWith(rows) ==
    [t \in Analytics |-> buf[t] \cup {r \in rows : r.tbl = t}]

\* Bookkeeping: the rows now exist, and ClickHouse has none of them.
Accept(rows) ==
    copies' = [r \in DOMAIN copies \cup rows |->
                  IF r \in DOMAIN copies THEN copies[r] ELSE 0]

\* ClickHouse appends the rows of one INSERT.
Append2DB(rows) ==
    copies' = [r \in DOMAIN copies |->
                  IF r \in rows THEN copies[r] + 1 ELSE copies[r]]

\* Mutant: the creates go first.
EarlierCreatesFirst == [swaps |-> {"pool_creates"},
                        pool_creates |-> {},
                        instruction_hits |-> {"swaps", "pool_creates"},
                        parse_failures |-> {"swaps", "pool_creates", "instruction_hits"}]

\* flush() writes its four lists in this order and skips the empty ones.
Earlier == [swaps |-> {},
            pool_creates |-> {"swaps"},
            instruction_hits |-> {"swaps", "pool_creates"},
            parse_failures |-> {"swaps", "pool_creates", "instruction_hits"}]

IsCurrent(t) == local[t] # {} /\ \A u \in Earlier[t] : local[u] = {}

FlushOver == \A t \in Analytics : local[t] = {}

\* The rows of the insert being awaited.
InFlight ==
    IF pc = "events" THEN batch
    ELSE IF pc = "flush" THEN UNION {local[t] : t \in {u \in Analytics : IsCurrent(u)}}
    ELSE {}

Buffered == UNION {buf[t] \cup local[t] : t \in Analytics}
Held == batch \cup Buffered \cup orphan

-----------------------------------------------------------------------------
(* Initial state: an empty database and no process *)

Init ==
    /\ pc = "down"
    /\ why = "batch"
    /\ todo = <<>>
    /\ batch = {}
    /\ buf = Nothing
    /\ local = Nothing
    /\ interrupted = FALSE
    /\ orphan = {}
    /\ due = FALSE
    /\ registry = {}
    /\ blind = FALSE
    /\ link = "open"
    /\ copies = [r \in {} |-> 0]
    /\ seen = 0
    /\ fails = 0
    /\ cancels = 0
    /\ crashes = 0
    /\ spoiled = FALSE

\* The process ends: everything it held in memory is gone.
Exit ==
    /\ pc' = "down"
    /\ why' = "batch"
    /\ todo' = <<>>
    /\ batch' = {}
    /\ buf' = Nothing
    /\ local' = Nothing
    /\ due' = FALSE
    /\ registry' = {}
    /\ blind' = FALSE
    /\ interrupted' = FALSE

\* An exception leaves the stream loop for its finally block: what flush() had
\* taken is lost, the batch and the buffers are not.
ToFinally ==
    /\ pc' = "drain"
    /\ todo' = <<>>
    /\ local' = Nothing
    /\ UNCHANGED <<why, batch, buf, due, registry, blind>>

-----------------------------------------------------------------------------
(* Startup, lines 31-123 of main.py, up to the first payload *)

\* Mutant: the bootstrap query lacks its filter on empty fields.
StoredPoolsUnfiltered ==
    {r.pool : r \in {c \in DOMAIN copies :
                        c.tbl = "pool_creates" /\ copies[c] > 0}}

\* load_pool_mint_map: the pools of the stored creates, without empty fields.
StoredPools ==
    {r.pool : r \in {c \in DOMAIN copies :
                        c.tbl = "pool_creates" /\ copies[c] > 0}} \cap Pools

Boot(queryOk) ==
    /\ pc = "down"
    /\ orphan = {}
    /\ ~queryOk => fails < MaxFails
    /\ pc' = "loop"
    /\ link' = "open"
    /\ due' = FALSE
    /\ registry' = IF queryOk THEN StoredPools ELSE {}
    /\ blind' = ~queryOk
    /\ interrupted' = FALSE
    /\ fails' = IF queryOk THEN fails ELSE fails + 1
    /\ UNCHANGED <<why, todo, volatile, orphan, copies, seen,
                   cancels, crashes, spoiled>>

-----------------------------------------------------------------------------
(* The stream loop and process_payload *)

AwaitingPayload == pc = "loop" /\ todo = <<>>

\* Mutant: one event too late.
MustFlushLate(events) == Cardinality(events) > BatchSize \/ due

\* len(batch) >= batch_size or loop.time() >= next_flush
MustFlush(events) == Cardinality(events) >= BatchSize \/ due

\* A payload of a tracked program, with its logs.
LogPayload(items) ==
    LET n == seen + 1
        rows == RowsOf(items, n)
    IN  /\ AwaitingPayload
        /\ seen < MaxPayloads
        /\ seen' = n
        /\ buf' = BufferedWith(rows)
        /\ Register(items)
        /\ batch' = batch \cup {Event(n)}
        /\ Accept(rows \cup {Event(n)})
        /\ IF MustFlush(batch')
           THEN pc' = "events" /\ why' = "batch"
           ELSE UNCHANGED <<pc, why>>
        /\ UNCHANGED <<todo, due, link, local, interrupted, orphan, blind, faults>>

\* Mutant: the due timer is served by the analytics sink alone.
UnmatchedPayloadSinkOnly ==
    /\ AwaitingPayload
    /\ batch # {} /\ due
    /\ why' = "hits"
    /\ pc' = "flush"
    /\ local' = buf
    /\ buf' = Nothing
    /\ UNCHANGED <<todo, due, link, batch, interrupted, orphan, registry, blind,
                   copies, seen, faults>>

\* A payload of no tracked program only gives the timer a chance.
UnmatchedPayload ==
    /\ AwaitingPayload
    /\ batch # {} /\ due
    /\ pc' = "events"
    /\ why' = "batch"
    /\ UNCHANGED <<todo, due, link, volatile, interrupted, orphan, registry, blind,
                   copies, seen, faults>>

\* A payload of ledger entries, decoded into instructions.
EntriesPayload(tx) ==
    /\ AwaitingPayload
    /\ seen + Len(tx) <= MaxPayloads
    /\ todo' = tx
    /\ UNCHANGED <<pc, why, due, link, volatile, interrupted, orphan, registry,
                   blind, copies, seen, faults>>

\* One tracked instruction: its swap or create, then its hit.  A due timer is
\* served by the analytics sink alone; the batch keeps waiting.
TrackedInstruction ==
    LET n == seen + 1
        rows == RowsOf(<<Head(todo)>>, n) \cup {Hit(n)}
    IN  /\ pc = "loop" /\ todo # <<>>
        /\ Head(todo).kind # "untracked"
        /\ seen' = n
        /\ todo' = Tail(todo)
        /\ Register(<<Head(todo)>>)
        /\ Accept(rows)
        /\ IF due
           THEN /\ pc' = "flush"
                /\ why' = "hits"
                /\ local' = BufferedWith(rows)
                /\ buf' = Nothing
           ELSE /\ buf' = BufferedWith(rows)
                /\ UNCHANGED <<pc, why, local>>
        /\ UNCHANGED <<due, link, batch, interrupted, orphan, blind, faults>>

UntrackedInstruction ==
    /\ pc = "loop" /\ todo # <<>>
    /\ Head(todo).kind = "untracked"
    /\ todo' = Tail(todo)
    /\ IF batch # {} /\ due
       THEN pc' = "events" /\ why' = "batch"
       ELSE UNCHANGED <<pc, why>>
    /\ UNCHANGED <<due, link, volatile, interrupted, orphan, registry, blind,
                   copies, seen, faults>>

\* The flush interval elapses.
Tick ==
    /\ pc # "down" /\ ~due
    /\ due' = TRUE
    /\ UNCHANGED <<pc, why, todo, link, volatile, interrupted, orphan, registry, blind,
                   copies, seen, faults>>

\* The stream ends or raises: stream() is a generator its @retry never sees
\* again, so the exception (or the end) leaves the loop for its finally.
Disconnect ==
    /\ AwaitingPayload
    /\ ToFinally
    /\ link' = "broken"
    /\ UNCHANGED <<interrupted, orphan, copies, seen, faults>>

-----------------------------------------------------------------------------
(* Flushing: insert_batch, then flush() of the analytics sink *)

\* Mutant: the buffers are not cleared.
TakeBuffersKept ==
    /\ pc' = "flush"
    /\ local' = buf
    /\ buf' = buf

\* flush() first takes all four buffers.
TakeBuffers ==
    /\ pc' = "flush"
    /\ local' = buf
    /\ buf' = Nothing

EventsInserted ==
    /\ pc = "events"
    /\ Append2DB(batch)
    /\ TakeBuffers
    /\ UNCHANGED <<why, todo, due, link, batch, interrupted, orphan, registry,
                   blind, seen, faults>>

\* The insert raises, its rows stored or not.  In the loop the shutdown
\* follows; in the shutdown the exception ends it, analytics unwritten.
EventsInsertFails(stored) ==
    /\ pc = "events"
    /\ fails < MaxFails
    /\ fails' = fails + 1
    /\ Append2DB(IF stored THEN batch ELSE {})
    /\ IF why = "final"
       THEN Exit /\ spoiled' = TRUE
       ELSE ToFinally /\ UNCHANGED <<interrupted, spoiled>>
    /\ UNCHANGED <<link, orphan, seen, cancels, crashes>>

TableInserted(t) ==
    /\ pc = "flush" /\ IsCurrent(t)
    /\ Append2DB(local[t])
    /\ local' = [local EXCEPT ![t] = {}]
    /\ UNCHANGED <<control, batch, buf, interrupted, orphan, registry, blind,
                   seen, faults>>

\* The lists flush() had taken die with it, whatever they still held.
TableInsertFails(t, stored) ==
    /\ pc = "flush" /\ IsCurrent(t)
    /\ fails < MaxFails
    /\ fails' = fails + 1
    /\ Append2DB(IF stored THEN local[t] ELSE {})
    /\ IF why = "final"
       THEN Exit
       ELSE ToFinally /\ UNCHANGED interrupted
    /\ UNCHANGED <<link, orphan, seen, cancels, crashes, spoiled>>

\* Mutants: the batch is never cleared; it is cleared on the hit path too.
ClearedNever == batch
ClearedAlways == {}

\* Only the batch path clears the batch.
Cleared == IF why = "batch" THEN {} ELSE batch

\* flush() returns to its caller.
FlushDone ==
    /\ pc = "flush" /\ FlushOver
    /\ IF why = "final"
       THEN Exit
       ELSE /\ pc' = "loop"
            /\ due' = FALSE
            /\ batch' = Cleared
            /\ UNCHANGED <<why, todo, buf, local, registry, blind, interrupted>>
    /\ UNCHANGED <<link, orphan, copies, seen, faults>>

-----------------------------------------------------------------------------
(* Shutdown, cancellation, crash *)

\* Mutant: nothing to write, nothing done.
DrainStuck ==
    /\ pc = "drain" /\ batch # {}
    /\ why' = "final"
    /\ pc' = "events"
    /\ UNCHANGED <<todo, due, link, volatile, interrupted, orphan, registry, blind,
                   copies, seen, faults>>

\* finally: the profiler task is gone; write the batch, then the analytics.
Drain ==
    /\ pc = "drain"
    /\ why' = "final"
    /\ IF batch # {}
       THEN pc' = "events" /\ UNCHANGED <<local, buf>>
       ELSE TakeBuffers
    /\ UNCHANGED <<todo, due, link, batch, interrupted, orphan, registry, blind,
                   copies, seen, faults>>

\* SIGINT: CancelledError is raised at the await.  A worker thread that was
\* inserting goes on alone.  The await of the profiler task swallows it.
Cancel ==
    /\ AwaitingPayload \/ pc = "drain" \/ (pc \in {"events", "flush"} /\ InFlight # {})
    /\ ~interrupted /\ cancels < MaxCancels
    /\ cancels' = cancels + 1
    /\ orphan' = InFlight
    /\ IF pc \in {"events", "flush"} /\ why = "final"
       THEN Exit
       ELSE ToFinally /\ interrupted' = TRUE
    /\ spoiled' = (spoiled \/ (pc = "events" /\ why = "final"))
    /\ UNCHANGED <<link, copies, seen, fails, crashes>>

\* The abandoned insert ends, its rows stored or not.
OrphanEnds(stored) ==
    /\ orphan # {}
    /\ orphan' = {}
    /\ ~stored => fails < MaxFails
    /\ fails' = IF stored THEN fails ELSE fails + 1
    /\ Append2DB(IF stored THEN orphan ELSE {})
    /\ UNCHANGED <<control, volatile, interrupted, registry, blind, seen, cancels,
                   crashes, spoiled>>

\* The process is killed; the insert under way reached ClickHouse or not.
Crash(stored) ==
    /\ pc # "down"
    /\ crashes < MaxCrashes
    /\ crashes' = crashes + 1
    /\ Append2DB(IF stored THEN InFlight ELSE {})
    /\ Exit
    /\ UNCHANGED <<link, orphan, seen, fails, cancels, spoiled>>

-----------------------------------------------------------------------------
(* The specification *)

Arrivals ==
    \/ \E items \in LogPayloads : LogPayload(items)
    \/ UnmatchedPayload
    \/ \E tx \in Transactions : EntriesPayload(tx)
    \/ Disconnect

Instructions == TrackedInstruction \/ UntrackedInstruction

EventsInsert ==
    \/ EventsInserted
    \/ \E stored \in BOOLEAN : EventsInsertFails(stored)

AnalyticsInsert ==
    \E t \in Analytics :
        \/ TableInserted(t)
        \/ \E stored \in BOOLEAN : TableInsertFails(t, stored)

OrphanInsert == \E stored \in BOOLEAN : OrphanEnds(stored)

Next ==
    \/ \E queryOk \in BOOLEAN : Boot(queryOk)
    \/ Arrivals
    \/ Instructions
    \/ Tick
    \/ EventsInsert
    \/ AnalyticsInsert
    \/ FlushDone
    \/ Drain
    \/ Cancel
    \/ OrphanInsert
    \/ \E stored \in BOOLEAN : Crash(stored)

Spec == Init /\ [][Next]_vars

\* The event loop runs what is ready, every insert ends (the client's socket
\* timeout) and the clock advances.
Fairness ==
    /\ WF_vars(Instructions)
    /\ WF_vars(EventsInsert)
    /\ WF_vars(AnalyticsInsert)
    /\ WF_vars(FlushDone)
    /\ WF_vars(Drain)
    /\ WF_vars(OrphanInsert)
    /\ WF_vars(Tick)

\* Payloads of programs nobody tracks never stop coming.
FairSpec == Spec /\ Fairness /\ WF_vars(UnmatchedPayload)

-----------------------------------------------------------------------------
(* Correctness *)

TypeOK ==
    /\ pc \in PCs
    /\ why \in {"batch", "hits", "final"}
    /\ todo \in Seq(Item(InstructionKinds))
    /\ batch \in SUBSET Row
    /\ buf \in [Analytics -> SUBSET Row]
    /\ local \in [Analytics -> SUBSET Row]
    /\ interrupted \in BOOLEAN
    /\ orphan \in SUBSET Row
    /\ due \in BOOLEAN
    /\ registry \in SUBSET Pools
    /\ blind \in BOOLEAN
    /\ link \in {"open", "broken"}
    /\ DOMAIN copies \subseteq Row
    /\ copies \in [DOMAIN copies -> Nat]
    /\ seen \in Nat
    /\ fails \in Nat
    /\ cancels \in Nat
    /\ crashes \in Nat
    /\ spoiled \in BOOLEAN

EventRows == {r \in DOMAIN copies : r.tbl = "shredstream_events"}
AnalyticsRows == {r \in DOMAIN copies : r.tbl \in Analytics}

\* The batch never outgrows BATCH_SIZE, whichever of its flushes fail or are
\* skipped by the instruction path, which never flushes it.
BatchBounded == Cardinality(batch) <= BatchSize

\* A raw event is written at most twice, and a second time only when an insert
\* failed or was cancelled: the finally block writes again the batch that the
\* interrupted flush had not cleared.
EventCopies ==
    \A r \in EventRows :
        /\ copies[r] <= 2
        /\ copies[r] = 2 => fails + cancels > 0

\* No row disappears without a cause.  Without a fault everything buffered is
\* held or stored; and a raw event is lost only by a crash or when the insert
\* of the finally block itself does not succeed: a flush that fails or is
\* cancelled in the loop never loses one.
NoSilentLoss ==
    \A r \in DOMAIN copies :
        copies[r] = 0 /\ r \notin Held =>
            IF r.tbl = "shredstream_events"
            THEN crashes > 0 \/ spoiled
            ELSE fails + cancels + crashes > 0

Before(r, s) == r.n < s.n \/ (r.n = s.n /\ r.k < s.k)

\* flush() writes the swaps first.  Whoever sees a create (the profiler starts
\* from pool_creates) can already see every swap buffered before it that will
\* ever be stored: none of them is still held by the process.
CreatesFollowSwaps ==
    \A s, c \in AnalyticsRows :
        /\ s.tbl = "swaps" /\ c.tbl = "pool_creates"
        /\ copies[c] > 0
        /\ Before(s, c)
        => s \notin Held

\* A swap that was resolved through the registry has a create of its pool
\* buffered before it, in this process or in one whose row was loaded.
ResolvedSwapHasCreate ==
    \A s \in AnalyticsRows :
        s.tbl = "swaps" /\ s.pool \in Pools =>
            \E c \in AnalyticsRows :
                c.tbl = "pool_creates" /\ c.pool = s.pool /\ Before(c, s)

\* Every stored create is known to the running process, over restarts, unless
\* its bootstrap query failed (which run() ignores).
RegistryKnowsStored ==
    pc # "down" /\ ~blind => StoredPools \subseteq registry

\* Every analytics row is written once or dropped, and never comes back.
Delivery == INSTANCE RowDelivery WITH
    waiting <- Held \cap AnalyticsRows,
    copies <- [r \in AnalyticsRows |-> copies[r]]

DeliversRows == Delivery!Spec

\* A shutdown ends, whatever fails in it.
ShutdownEnds == pc = "drain" ~> pc = "down"

\* Once tracked traffic stops, unmatched payloads alone get a batch written:
\* nothing stays in it for ever.
BatchFlushed == batch # {} ~> batch = {}

\* README.md, line 7: "Real-time shredstream ingestion with auto-reconnect".
AutoReconnect == link = "broken" ~> link = "open"
=============================================================================
