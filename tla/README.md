# Verification of the Solana mint intelligence bot

TLA+ models of the bot under `src/`, checked with TLC on small instances, and
theorems about them checked with TLAPS for every value of the constants.
Paths below are relative to `src/src/app/` unless they start with `src/`.

## 1. The system

One Python process, one asyncio event loop, worker threads for blocking calls.

| Part | State | Operations | Talks to |
|---|---|---|---|
| `main.py` `run()` | `batch`, `next_flush`, counters | startup, `process_payload` (log path, instruction path), the stream loop, the `finally` block | everything below |
| `shredstream_client.py` | the gRPC channel | `stream()`, an async generator under tenacity's `@retry` | `run()` iterates it |
| `entry_decoder.py`, `src/tools/entry_decoder` | none | one subprocess per "entries" payload, with a timeout | `run()` |
| `program_filter.py`, `idl_registry.py`, `validation.py` | the loaded IDLs | find the tracked program of a payload, decode its discriminator | `run()` |
| `event_parsers/`, `instruction_parsers/` | their discriminators | bytes to `ParsedSwap` or `ParsedCreate` | read and update the pool registry |
| `pool_registry.py` | pool -> mints | `update`, `get`, bootstrap from `pool_creates` | parsers, `run()` |
| `analytics_sink.py` | four buffers | `buffer_*`, `flush` | its own ClickHouse client |
| `clickhouse_sink.py` | none | `insert_batch` | its own ClickHouse client |
| `profiler.py` | a ClickHouse client | every cycle: pending mints, measure each, write its profile, create a scoring task | shares its client with the scorer |
| `claude_scorer.py` | a lock per mint, a lock for the client | `score_and_store`, any number of tasks at once | Claude's API, the client, notifications |
| `notifications.py`, `dexscreener.py` | none | broadcast, market snapshot | HTTP |
| ClickHouse | the tables | inserts, queries, `INSERT ... WHERE NOT EXISTS` | external |

Where it is hard:

* **Failure between two awaits.** A flush is up to five inserts, one await
  each. Any of them can raise with its rows stored or not, and what has been
  taken from a buffer, cleared from the batch or not yet written differs at
  every one.
* **Cancellation.** A SIGINT cancels the await of a worker thread, not the
  thread. The `finally` block then writes while the abandoned insert runs.
* **Restarts.** The registry is rebuilt from what reached `pool_creates`; the
  dedup window lives in `mint_scores` and may meet another `CLAUDE_MODEL`.
* **Sharing.** The profiler hands its client to tasks that lock it among
  themselves; the profiler does not take that lock. clickhouse_connect refuses
  a query on a session that has one in progress.
* **Check, then act.** A profile and a score are each checked for, then
  inserted under `NOT EXISTS`, then verified, by different queries.

What makes each part correct: the ingest never loses a row without a fault
that explains it and never writes one twice without one; the registry knows
every stored pool; creates become visible after the swaps that precede them;
the profiler gives every mint a profile and hands it over; the scorer stores
one score per mint and model in a window, stands back only for a score that is
there, alerts once, and never without a row.
A row of `swaps` says of a trade what happened, whichever log or instruction it
was read from and whatever the registry went through; a profile says of the
rows what its columns are called; an alert appears whole or as a prefix.
`PROJECT.json` lists these hazards one by one at their lines.

## 2. The modules

```
RowDelivery          abstract: what the analytics sink promises of a row
ShredstreamIngest    run(), both sinks, registry, stream     -> RowDelivery
  ShredstreamIngestProofs, IngestLossProofs, MCShredstreamIngest
ScoreWindow          abstract: what mint_scores promises
ClickHouseSession    the client shared by profiler and scorer (external)
  MintScorer         score_and_store                          -> ScoreWindow
    MintScorerProofs, AlertDedupProofs, MCMintScorer
  MintProfiler       run_forever and _profile_one
  ScoringPipeline    MintScorer and MintProfiler over one session
    PipelineProofs, MCScoringPipeline
PrefixDelivery       abstract: a message shown in parts
  AlertBroadcast     send_broadcast_message                   -> PrefixDelivery
MessageSplit         _split_discord_chunks
  NotificationsProofs, MCNotifications   both of notifications.py
ParserStartup        settings, IDL files, validation, parsers registered
  MCParserStartup
IdlLayouts           the bodies of events and instructions
  EventDecoding      BorshReader and what every parser reads with it
    DecodingProofs
EntryDecoding        the accounts of an instruction, from binary to row
SwapResolution       the rows of swaps, the registry, its bootstrap
  MCSwapResolution
ProfileMetrics       the eight queries of a profile, what is derived from them
  RowsProofs         of ParserStartup, EntryDecoding, SwapResolution and
                     ProfileMetrics
  MCRows             the five of the way from the settings to a profile
```

Two MC modules hold several modules that share no variable, `MCNotifications`
and `MCRows`. Their variable `part` says in the initial state which of them a
behaviour is about; the others stand still in it. Nothing is composed by this,
and no property speaks of two parts.

### ShredstreamIngest

The coroutine is sequential, so its place is one variable `pc`: awaiting a
payload (`loop`, with `todo` the instructions of a decoded payload still to
process), awaiting `insert_batch` (`events`), awaiting an insert of
`AnalyticsSink.flush` (`flush`), in the `finally` block awaiting the profiler
(`drain`), or not running. `why` says which of the three call sites of a flush
it is, because only one of them clears the batch (`Cleared`). One action is
everything between two awaits: `LogPayload` parses, buffers, registers, appends
to the batch and decides whether to flush. `local` holds the four lists that
`flush()` takes before it writes; they are lost with the exception of any
insert. `orphan` holds the rows a cancelled await's thread still writes.
`due` abstracts `loop.time() >= next_flush`. A row is the number of the
`process_payload` call that made it and its place in it; `copies` counts its
copies in ClickHouse and is what the properties speak of.

Faults: an insert raises with its rows stored or not, the bootstrap query
fails, a SIGINT (asyncio cancels the main task the first time and raises
`KeyboardInterrupt` the second, which is a kill), a kill at any point, a
restart that waits for the executor's threads.

Payload contents are abstracted to the kind of result a parser gives:
with its own mint (`swap`), resolved through the registry (`pool_swap`), with
or without the fields the registry wants (`create`, `mintless_create`).
The kind `bad`, a parser that raises, is in the module because
`parse_with_diagnostics` provides for it, and in no run, because no parser of
the repository raises: each catches what `BorshReader` raises and the rest is
guarded arithmetic. The table `parse_failures` therefore stays empty.

Left out: exceptions of `process_payload` itself other than an insert's (the
effect of one is that of `Disconnect`, the loop left for its `finally`), an
unavailable or failing decoder (its payload is no step), DDL, logging, counters.

### ClickHouseSession, MintScorer

`using` is who has a query in progress, `clashed` those whose query was refused
because another was in progress. A query is two steps, sent (`Begins`) and
answered (`Returns`, `Raises`): the worker thread runs in between. A scoring
task is a record whose `pc` is the query or await it is at; `pumped`/`dead` are
the two queries of `_fetch_examples` and `insert`/`verify` those of
`_store_score_if_absent`, which keep the lock between them. The `NOT EXISTS` of
an insert is evaluated when it is sent (`absent`), its row appears when it is
answered, so that a race would show. `expired` moves the dedup window over the
rows from the oldest. A restart kills the running tasks, may carry out or drop
an insert in progress, and may change the model. `blind` is bookkeeping: the
task's dedup query failed, which the code treats as "no alert yet".
Claude's answer is reduced to what `_is_good_opportunity` and the threshold make
of it. `Alert` covers the snapshot and the broadcast: the channels' errors are
swallowed, an unreadable snapshot raises before them.

### MintProfiler, ScoringPipeline

The profiler task is sequential too: `stage` is the query it is at. Everything
after the last measurement (`creator_profiles` read, insert, creator update,
`create_task`) has no await and is one action, `WriteProfile`, composed with the
scorer's `Spawn` in `HandOver`. These calls are made from the event loop and
meet whatever scoring query is in progress: each may be refused, and so may the
scorer's query if it was only just sent (`DisturbsScorer`). `ready` and `late`
are the rows of `pool_creates` inside and past the profiler's window. `whole`
records whether a metric was lost to a failed query. Assumed: the scorer is
configured (with no API key nothing is handed over).

### MessageSplit, AlertBroadcast

`MessageSplit` is the loop of `_split_discord_chunks`, one `Cut` per turn. A
character is a break, a blank or ink; ink carries its position
(`SplitAssumption`), so `InkSurvives` can say that the chunks and what remains
(`Pieces`) hold the ink of the message, each piece once and in its order. `rfind` is the set `Breaks`, which starts at
1 because the code takes index 0 for "not found".

`AlertBroadcast` is everything from `gather` to the last post. `broadcast` is
the coroutine of a message, `post` the thread of each channel, with the two
places where it spends time: `posting`, in `urlopen`, and `pausing`, in the
`time.sleep` after a 429. Both hold one of the `Threads` of the loop's default
pool, which is the pool of every query and insert as well. `attempt` is the
loop variable of `_post_discord_payload`, set back for each chunk; `shown` is
what readers see. A request without an answer may have appeared (`landed`).
`Cancel` is the end of `asyncio.run`: it drops what no thread has taken and
cannot stop a thread.

### ParserStartup, EventDecoding, IdlLayouts, EntryDecoding

`ParserStartup` reads the files in the order of their names (`LoadFile`), gives
each its id (the file's address, else the map's), validates, and registers
(`RegisterParsers`). A program id stands for itself by the program that has it.
What a file offers is reduced to what `_get_event_disc` and `_program_label`
ask: its events, whether they carry a discriminator, and what the label says.

`IdlLayouts` are the bodies as the IDL files lay them out, `EventDecoding` the
reads of every parser function, in its order, `-` for a value it drops. `Consume`
is `_consume`: enough bytes, or `ValueError` and `None`. A field is the place
and width it was read from, so a wrong layout shows as a field that is somewhere
else in the IDL's. `Jump` is Meteora's create, whose last fields are found from
the end since the fees before them have no fixed width. A body goes to any
parser that knows its name, because a discriminator is a hash of the name alone.

`EntryDecoding` follows the accounts of one instruction: `Decode` is the binary,
with `lookup:` texts for accounts of lookup tables; `Clean` the wrapper, which
empties a list that is not all text; `Parse` the parser, which picks positions.

### SwapResolution, ProfileMetrics

`SwapResolution` says what a row tells of a trade. Amounts are abstracted to the
token they are measured in, prices to the pair divided, so that a swapped field
or an inverse shows. Pools exist; their creates and trades are seen in any order
and number, from logs or instructions. `Update` and `Bootstrapped` are the
registry's two ways to learn a pair; a `Restart` forgets what was not stored.
`WhirlpoolAsRead` says whether Whirlpool's create can be read at all: with the
IDL's layout it cannot (section 5), and then its pools never get rows. The runs
take TRUE, where rows exist.

`ProfileMetrics` is one `_profile_one`: `Ask` is one of the eight awaited
queries in order, `Land` a swap stored between two of them, also one whose
`ingested_at` lies back. A failed query answers `Nothing`. A count stands for
every column that grows with the rows of a window.

## 3. The runs

| Run | Asks | Distinct states |
|---|---|---|
| `ingest_faults` | what failures, a SIGINT and a kill can lose, double or reorder | 793 000 |
| `ingest_progress` | does a shutdown end, does a batch get written | 38 000 |
| `auto_reconnect` | is a broken stream opened again (no) | |
| `scorer_dedup` | one score and one alert per window, none lost silently, nobody stands back for nothing | 614 000 |
| `scorer_progress` | does every scoring task end | 95 000 |
| `pipeline` | when is a mint scored twice | 123 000 |
| `pipeline_progress` | is every mint profiled and handed over; how a task may leave it unscored | 660 000 |
| `single_session` | do two queries ever meet on the client (yes) | |
| `notifications` | what is lost, torn, repeated or stuck on the way to readers | 76 000 |
| `rows` | from settings to a profile: is every field what its name says | 842 000 |
| `multi_program` | do several programs get a parser as shipped (no) | |
| `exact_out` | are amounts of exact-output swaps in their units (no) | |

Bounds and why they are enough:

* `ingest_faults`: a batch of 2 and 3 calls, so that a batch fills, fills
  again after a failed flush, and is caught part full; 2 failing inserts, one
  SIGINT and one kill, so that a fault meets the recovery from another (a
  failing insert in the `finally` block of a cancelled flush, a restart on what
  these left). One pool is enough: pools meet only in the registry, by name.
* `ingest_progress`: 4 calls, no kill; `seen` bounds the tracked traffic, which
  therefore ends, and unmatched payloads go on.
* `scorer_dedup`: 3 tasks on one mint, so that two may queue behind one; two
  models, one restart, one failing query: each exception the properties name
  needs one of these. Mints share only the client; `scorer_progress` has two.
  Tasks are symmetric.
* `pipeline`: one mint with two rows, as a create seen in logs and in
  instructions leaves; two measuring queries stand for eight, since they only
  differ in their values; one failure and one kill.
* `pipeline_progress`: two mints and a `LIMIT` of 1, refusals and one query of
  any kind that fails of itself, so that a mint can be put off more than once
  while the other competes for the next cycle; no kill. More failures would only
  repeat this: each costs a mint one cycle. Verdicts are low, because the alert
  that follows a good one holds no lock and asks no query, and `ProfilesScored`
  does not tell rows apart.
* `notifications`: every text of breaks, blanks and ink up to 8 characters with
  `MaxLen` 3, so that three cuts happen, at a break, without one, before a run
  of breaks and at the end of the text. A long alert of 3 chunks and a short
  one, on two channels and two threads: the threads are fewer than the posts,
  so posts queue behind sleeping ones. 3 attempts as in the code.
* `rows`: all settings over right, exchanged and missing ids, 4 maps, broken
  and nameless files; every body of `IdlLayouts` with strings of 0, 5 and 300
  characters (shorter and longer than a key), cut by a byte, a key and more
  than the fees, and extended by a byte, a word and a key; up to two accounts
  from lookup tables and lists cut by 1 and 5; a pool of each program and one of
  Meteora with SOL as token A (pools meet nowhere but in the registry, by name);
  two swaps and two failing queries in a profile. Two swaps are enough to
  disagree with each other in time and in price, which is all the metrics
  compare.
* `multi_program`, `exact_out`: `.env.example` with and without validation; one
  Meteora pool.
* `MaxPayloads`, `MaxFails`, `MaxCancels`, `MaxCrashes`, `MaxRestarts`,
  `MaxSwaps`, `MaxFailures`, `MaxLookups` are bounds of the environment; they
  appear in guards and initial states only. `scorer_*` and the pipeline runs
  switch deadlock checking off, because all tasks may be done and the profiler
  out of new tasks; so do the last four, whose parts end: a text is cut, a body
  read, a process started, a profile written, every alert sent.

Fairness:

* ingest: weak fairness of what the event loop runs when ready, of every insert
  (the client's timeouts end it, one way or the other) and of the clock.
  `UnmatchedPayload` is weakly fair too: `BatchFlushed` is about a stream whose
  tracked traffic has stopped and whose other traffic has not. Nothing is asked
  of cancellation, kills or the start of a new process.
* scorer: calls end by their timeouts; `asyncio.Lock` serves its waiters in
  turn, hence strong fairness of `LockMint` and of a task's next query.
* pipeline: weak fairness of the profiler and of the end of a query in
  progress. Nothing is asked of Claude's API or of the locks.
* notifications: `urlopen` has a timeout, a sleep ends, a free thread takes the
  next post, the event loop runs what is ready. Nothing makes an alert arise and
  nothing is asked of an answer's kind: `BroadcastEnds` holds although a service
  may refuse for ever.

What the violation runs show:

* `AutoReconnect`: `src/README.md` line 7 promises "auto-reconnect".
  `@retry` wraps an async generator function, whose call returns at once; an
  error while `run()` iterates it is outside the decorator. A disconnect ends
  the process, orderly.
* `NoConcurrentUseError`: the comments at `profiler.py` line 288 and
  `claude_scorer.py` line 209 say that queries of a session must not overlap.
  The scorer's lock orders the scorer's queries and the profiler's await orders
  the profiler's; the two sets overlap from the first hand-over on.
  `ProfilesScored` shows the limit of the damage. An overlap never loses a stored
  profile's hand-over, and a refused dedup query never makes a task stand back.
  But it can lose metrics, and when it meets the queries for the examples, the
  insert or its verification the task ends and the mint can stay without a
  score: it has a profile and is never pending again.
* `SeveralProgramsParsed`: `src/README.md` line 8 promises "Multi-program parsing
  with IDL-based discriminators". Every parser of `build_parser_registry` needs
  the discriminators of its events. `MeteoraDAMMv2.json` and `whirlpool.json`
  have none; LaunchLab and CPMM are looked for by the words `launchlab` and
  `cpmm` in the label, and the labels of the shipped files are
  `raydium_launchpad` and `raydium_cp_swap`. With `.env.example` Pump.fun's
  event parser is registered alone. (With `VALIDATE_IDLS_ON_STARTUP=true` the
  same settings are refused, as PumpSwap's id has no IDL.)
* `AmountsInTheirUnits`: `event_parsers/base.py` line 23 says of `amount_in`
  "raw u64, units of input token". `meteora_damm_v2.py` line 139 takes `amount0`
  for it in every swap mode, and the IDL says of `amount0` that with an exact
  output it is the amount out.

What the passing properties of `rows` leave open on purpose, each named in the
property: a LaunchLab TradeEvent 30 bytes longer than today's would pass for one
of Pump.fun (`ForeignNeverRow`); Meteora's create is only right when the body
has the length of its layout (`AlignedOrNone`).

## 4. The proofs

For any batch size, payloads, pools and numbers of faults
(`ShredstreamIngestProofs`, from `IngestAssumption`):

* `TypeCorrect`.
* `IngestDeliversRows`: `ShredstreamIngest` implements `RowDelivery` under the
  mapping of `Delivery`. Its inductive invariant (`RowsInvariant`) is `TypeOK`
  with two facts. `Places`: the buffers, `local` and `orphan` hold disjoint sets
  of accepted rows, each of its buffer's table, and their numbers are at most
  `seen`, so a row accepted next is a new one. `AnalyticsOnce`: an analytics row
  has at most one copy, and none while any of those places holds it. What a
  step inserts is therefore written nowhere yet and will not be inserted again
  from another place; the refinement alone does not say it.
* `EventsWrittenAtMostTwice`: a batch event's copies are bounded by how often it
  can be in an insert again: once while it is in the batch and no fault has
  occurred, once more through `finally` or the abandoned thread.
* `BatchNeverOverflows`: in `loop` the batch is below `BatchSize`; it may reach
  it only on the way to a flush or to `finally`.
* `ShutdownMovesOn`: once `run()` is in `finally`, each of its steps is one of
  `ShutdownStep`, and those lead one way: the profiler's await, the batch, the
  lists one by one, the end. A cancelled or failed one never leads back to the
  loop or to a second insert of the batch. This is the part of `ShutdownEnds`
  that needs no fairness.

For any tasks, mints, models, failures and restarts (`MintScorerProofs`, from
`ScorerAssumption` and `SessionAssumption`):

* `ScorerTypeCorrect`.
* `ScorerIsSerial`: `[]Serial`. Whoever has a query in progress, or is between
  the two of one section, holds the client's lock, so nothing is refused. It is
  inductive with the types.
* `ScorerDedupsScores`: `MintScorer` implements `ScoreWindow`. The insert
  decides when it is sent and writes when it is answered; `AbsentHolds` says the
  decision is still right at that time. It is inductive with `Serial`: no other
  task can write meanwhile, and the passing of time only shrinks the window.
* `AlertsHaveScores`: from `RowsMatch` (a row keeps its task's verdict, since a
  task that wrote is past Claude's answer) and `AlertsMatch`.
* `LocksAreLeft`: `[]LockInv`. A task holds its mint's lock exactly while it is
  at one of the queries under it, and the client's lock exactly while a query of
  its own is in progress or between the two of one section; an early exit, an
  exception or a restart leaves neither. It is inductive by `LockMoves`; a step
  of a task is one of six kinds (`RunKinds`), each of which says what becomes of
  `pc`, `using` and the two locks.
* `TasksNeverDeadlock`: when a task waits for a lock, some task waits for none.
  Whoever has the client's lock has a query to finish; if nobody has it, whoever
  has the mint's lock is at a query it can start.
* `TasksMoveOn`: `Age`, of the stage a task has reached, its attempts at Claude's
  API and whether its query is in progress, rises in every step of the task,
  falls in none of another and is at most `20 + RetryAttempts`. With
  `TasksNeverDeadlock` this is the part of `TasksEnd` that needs no fairness.

For the same ingest (`IngestLossProofs`, which builds on the invariant above and
on `ItemsAssumption`, that a swap with its own mint names no registered pool):

* `CreatesAreLast`: from `FlushInv`, the flush as a whole. While it runs nothing
  is buffered; an abandoned thread's analytics rows are of one table and the
  process holds no others, because `flush()` had taken all it had.
* `ResolvedSwapsHaveCreates` and `RegistryKnows`, with `RegistryInv`: the
  registry holds only pools with an accepted create, and, when the bootstrap
  query succeeded, every pool whose create is stored or still held. Held ones
  count because they will be stored without another look at the registry.
* `NothingLostSilently`, with `LossInv`: a raw event is stored or in the batch
  until a kill or a failed last insert, an analytics row stored or held until a
  fault, and while a flush of analytics follows one of events, the events of the
  batch are stored already, which is what lets `Cleared` forget them.

For any tasks, mints, models, failures and restarts (`AlertDedupProofs`, on top
of `MintScorerProofs`):

* `AlertsOncePerWindow` and `GoodScoresAlert`, from `DedupInv`. What a task found
  with its "high" query still holds when it writes: it has its mint's lock, and
  whoever writes a row of the mint has that lock (`TaskInv`). From the insert on
  the finding belongs to the row, about the rows before it, which never change
  (`RowInv`); so it does not matter that the lock is gone when the alert is sent.
  Restarts are harmless to it: they end every task, and an insert that lands
  then is a row of a task that will not alert.
* `StandsBackRightly`, from `StandsInv`. Before a task wrote its row, a score of
  its mint that a query finds is another task's (`FoundIsAnothers`), and rows
  are only appended (`RowsStay`), so it is there when the task ends. The finding
  of the insert is carried from its start to the verification: until then the
  task either wrote its own row or found another's.

For any pools, programs and mints (`RowsProofs`, from `PoolsAssumption`): `SwapsTypeCorrect`, `PoolsHaveOneMint`,
`DirectionsTellTruth`, `PricesAreQuotePerBase`, `AmountsAreInTheirUnits`, all
from one invariant, `SwapsInvariant`. The registry holds a pool's true pair or
none, because every create is true or has no mint, and those without are refused
by `Update` and left out by `Bootstrapped`; rows made from a true pair are right
parser by parser.

For any mints, tasks, creates, failures and restarts (`PipelineProofs`, on top
of `AlertDedupProofs`, from `PipelineAssumption`, `ProfilerAssumption` and those
of the scorer), where the profiler uses the client without the scorer's lock and
queries are refused:

* `PipelineTypeCorrect`, of both components and the session.
* `SecondTaskUnchecked`, from `PipelineInv`. Only the profiler inserts profiles
  and it does one at a time, so what its check found still holds when it
  inserts; a mint that it measures although it has a profile is in `unchecked`.
  Every task's mint has a profile, which is why a second task needs a failed
  check.
* `ProfilesAreScored`, from `PipelineInv` and `ScorerInv`. A profile and its task
  are made in one step, so the one can be without the other only after a query
  that failed by itself, or a restart (`TaskMade`). How the task ends is the
  harder half (`EndsScored`): it has its own row, or stood back for another's,
  or gave up in one of the four ways `GivenUp` names. That a mint which is given
  up stays so is not an omission of the proof; it is what the code does.
* `PipelineDedupsScores`, `PipelineAlertsOnce`, `PipelineGoodScoresAlert`,
  `PipelineAlertsHaveScores`, `PipelineStandsBack`: what the scorer promises alone it also promises in
  the pipeline, where `Serial` is false (the run `single_session` and its
  finding). The proofs of the scorer are therefore laid out by the step, not by
  the specification: `ScorerMoves` is any step of the scorer's variables,
  whatever the session does to the query meanwhile, and `ScorerTypeMoves`,
  `AlertMoves`, `DedupMoves` and `AbsentMoves` say that it preserves the types
  and the invariants (`StandsMoves`, which is about queries in progress too, is
  laid out by `LockMoves`). `AbsentInv` replaces `AbsentHolds` of the proof with
  `Serial`: an insert that found no recent row is still right when it is
  answered because its task holds the lock of the mint, not that of the client.
  What the profiler can do to a task is to make its query fail, and a failed
  query is a step the scorer has anyway.
* `PipelineNeverDeadlocks` and `PipelineTasksMoveOn`: the profiler takes no lock,
  so the locks' discipline is the scorer's (`PipelineLockMoves`), and a refused
  query ages its task as an answered one does. They need that the profiler is
  none of the tasks (`PipelineAssumption`).

For any alerts, attempts and threads, and any texts and `MaxLen`
(`NotificationsProofs`, from `BroadcastAssumption` and `SplitAssumption`):

* `BroadcastTypeCorrect`, `SentWhole` and `ShowsPrefixes`, the refinement of
  `PrefixDelivery`. `Progress` ties the chunk being posted to the number of
  chunks shown.
* `PostsMoveOn`: a step of a Discord post that does not end it goes to a later
  chunk, to a later attempt at the same one, or out of a pause. Both numbers are
  bounded, so a service that answers 429 for ever delays an alert by a bounded
  number of requests.
* `CuttingMovesOn`: every turn of the cutting shortens what remains, from
  `CutTakes` and because a cut is never at 0.
* `ChunksAlwaysFit`, `InkAlwaysSurvives`, `LinesAlwaysWhole`, from `SplitInv`.
  What remains is always an end of the text, from `From` on (`RestOfText`), and
  it begins with a line break only when the text does (`NoBreakFirst`). A turn
  takes a piece off its front and drops what is not ink (`Taken`), so the chunks
  are ordered intervals of the text (`InkKept`, `InkInOrder`). `LinesKept` needs
  that no cut is within a line that fits (`CutTearsNoLine`): a cut elsewhere
  than at a break means that no break is within reach, but the break before the
  line would be, unless it were the first character. `RStripKeepsInk`,
  `LStripKeepsInk` and `SplitWithinReach` say what the three operators return;
  their `CHOOSE` has a value by `LeastNatural`.

For three more modules of the run `rows` (`RowsProofs` too, from
`StartupAssumption`, `EntryAssumption` and `MetricsAssumption`):

* `ParsersAreRight`, for any settings and files: no two IDL files have the
  discriminators or the name one parser asks for, and parsers are made only
  once all files are loaded (`StartupInv`).
* `RowsNameAccounts`, for any accounts cut off, looked up or unprinted: each
  step of the way leaves an account at its position or drops them all
  (`EntryInv`).
* `VolumesAreNested`, `PeaksAreHighest` and `MultipliersFromFirstTrade`, for any
  swaps, any times of the windows in their order, and any failed queries, from
  `MetricsInv`. An answer of the past is bounded by what the table holds now
  (`CountsInv`, `Covered`), and rows are only added: so the later query, of the
  wider window, finds at least as much. `TableInv` carries that a highest price
  exists. `PeaksAreHighest` is about the prices in the row that are those of
  trades: an initial price that the create gave is none, and may be above the
  peak.

For strings of any length, and bodies cut short or grown by any number of bytes
(`DecodingProofs`, from `DecodingAssumption`), the fifth module of `rows`:

* `RowsAligned`, `WholeBodiesParsed`, `NoForeignRow` and `DecodingTypeCorrect`,
  from `DecodingInv`. Where the fields of a body are is a sum over the fields
  before them: `PlacesFollow` shows, by a least counterexample, that the
  recursive function has a value and follows its definition, `PlacedAreLaid`
  that `Placed` gives every field its place and a width of its type. The bytes
  of a layout are not assumed to be anything; they are what `Bytes` says.
* A reader of its own program stands where its next field begins
  (`StandsInPlace`). This is inductive because the reads of each parser name
  and type the fields of the IDL one by one (the lemmas `...Takes`), so a read
  consumes the width of its field, strings included (`ReadsItsField`). After
  Meteora's jump it stands as far from the end as the trailing reads say, and
  only a body as long as its layout has its fields there (`TrailingRead`).
* Readers of what is not theirs read fixed widths only, so they stand at known
  offsets (`StrangeInv`, `PumpInv`): 242 bytes of Whirlpool's `PoolInitialized`
  against 212 in the IDL, 169 of Pump.fun's `TradeEvent` against the 139 of
  LaunchLab's. This is where the 30 bytes in the properties come from. The other
  way round nothing stops the reader but the registry: the address it read is
  that of no pool.

Only model-checked, since fairness means `ENABLED`, which the prover does not
know: the liveness properties `ShutdownEnds`, `BatchFlushed`, `TasksEnd`,
`EveryMintProfiled` and `BroadcastEnds`. What of three of them is a matter of
safety is proved: `ShutdownMovesOn`, `TasksMoveOn` and `PostsMoveOn` say that
nothing runs in circles, so that it remains for fairness only that an answer
comes and a thread is free. The invariants and action properties of the passing
runs are all proved.

## 5. Not modelled, and differences

Met while modelling, and not the subject of a run of their own:

* The parser's layout of Whirlpool's `PoolInitialized` (`whirlpool.py` line 135)
  is not the IDL's: another key first, 242 bytes against 212. Whole events are
  refused for their length, so no Whirlpool pool is registered and no `Traded`
  of one becomes a row.
* LaunchLab's create has an empty mint to be resolved later
  (`raydium_launchlab.py` line 188); nothing does, `Update` refuses it, and
  LaunchLab swaps are skipped. `LaunchLabRow` and `PumpSwapRow` are therefore
  never reached in the model either.
* Meteora's token A is taken for the mint; in a pool with SOL as token A the row
  is about SOL (`base.py` line 21 asks for the non-SOL token). The directions of
  such rows are consistent with it, which is what the model checks.
* Rows of Pump.fun from logs have no pool address (`pumpfun.py` line 117), so
  `OneMintPerPool` speaks of those from instructions.
* `unique_buyers` counts the signers of sales too (`profiler.py` line 57).
* The peak is "over the first 4 hours" (`profiler.py` line 13) but measured once,
  `PROFILE_DELAY_MINUTES` after the creation, and frozen. It is a peak of trades:
  a mint that is created with a price and only sold below it has a `price_peak`
  below its `initial_price`.
* A mint whose scoring task gives up (`GivenUp` in `ScoringPipeline`) is not
  scored later, as it is not pending again. A good score whose task is killed,
  cannot verify its insert or cannot read DexScreener is not alerted later;
  `NoLostAlert` names these ends and does not forbid them.
* An insert of a score or a profile that is given up, by an error or a kill, has
  landed by then or never does. That it lands later still, next to the insert of
  another task, is not modelled: ClickHouse has no unique keys, so the table
  would then have two rows.
* `initial_price` is SOL per token, the prices of swaps are in raw units; the
  multiplier divides one by the other (`profiler.py` lines 299 to 302). The model
  keeps prices unit-free, and `MultiplierFromFirstTrade` speaks only of profiles
  whose both prices come from swaps.
* An id that is configured twice keeps its last name in `find_tracked_program`
  and its first in `tracked_program_lookup`.

Not modelled: generated gRPC stubs (1 867 of the repository's lines of Python),
the decoding of entries by the Solana crates, DDL, the prompt and the text of
alerts, the choice of DexScreener's best pair, the search for a program id
through a payload's nested values, base64 and base58, logging, scripts, the
parsing of the environment.

## 6. Running

```
tlc -config ingest_faults.cfg MCShredstreamIngest
tlc -config scorer_dedup.cfg MCMintScorer
tlc -config pipeline.cfg MCScoringPipeline
tlc -config notifications.cfg MCNotifications
tlc -config rows.cfg MCRows
tlapm ShredstreamIngestProofs.tla
tlapm IngestLossProofs.tla
tlapm MintScorerProofs.tla
tlapm AlertDedupProofs.tla
tlapm PipelineProofs.tla
tlapm RowsProofs.tla
tlapm DecodingProofs.tla
tlapm NotificationsProofs.tla
```

An operator whose comment starts with "Mutant" is no part of the model. It is a
plausible wrong version of the definition after it, and each checked property
fails when one of them takes its place. `PROJECT.json` names the pairs, the
source lines of every definition, and the hazards with the properties that
cover them.
