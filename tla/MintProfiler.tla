---------------------------- MODULE MintProfiler ----------------------------
(***************************************************************************)
(* MintProfiler of src/app/profiler.py: the background task that looks for *)
(* mints without a profile, measures each by a series of queries, writes   *)
(* its row of mint_profiles and hands it to the scorer.                    *)
(*                                                                         *)
(* The task awaits each query in a worker thread.  What follows the last   *)
(* of them, from the creator's history to the hand-over, has no await: the *)
(* event loop runs it in one piece and calls the client itself.            *)
(***************************************************************************)
EXTENDS ClickHouseSession, Sequences, FiniteSets

CONSTANTS
    Creates,   \* rows of pool_creates with a mint
    MintOf,    \* the mint of each of them; rows may share one
    Profiler,  \* the profiler, as a user of the client
    Limit,     \* LIMIT of the query for pending mints
    Measures   \* queries that measure one mint (8)

ASSUME ProfilerAssumption ==
    /\ Limit \in Nat \ {0}
    /\ Measures \in Nat \ {0}

VARIABLES
    stage,      \* what the profiler task does: see Stages
    queue,      \* rows of this cycle still to profile
    measured,   \* measuring queries done for the row at the head
    whole,      \* none of them failed
    ready,      \* rows older than the delay and younger than the maximum age
    late,       \* rows that are too old
    profiles,   \* rows of mint_profiles
    unchecked   \* mints whose check for an existing profile failed

profiler == <<stage, queue, measured, whole, ready, late, profiles, unchecked>>

\*  pending, exists, measure  before or in that query
\*  write   the measures are complete   sleep  asyncio.sleep   dead  ended
Stages == {"pending", "exists", "measure", "write", "sleep", "dead"}

ProfilerInit ==
    /\ stage = "pending"
    /\ queue = <<>>
    /\ measured = 0
    /\ whole = TRUE
    /\ ready = {}
    /\ late = {}
    /\ profiles = <<>>
    /\ unchecked = {}

-----------------------------------------------------------------------------
(* Time *)

\* A row reaches PROFILE_DELAY_MINUTES, in the table by then.
Ripens(c) ==
    /\ c \in Creates \ (ready \cup late)
    /\ ready' = ready \cup {c}
    /\ UNCHANGED <<stage, queue, measured, whole, late, profiles, unchecked>>

\* It passes PROFILE_MAX_AGE_MINUTES.
Ages(c) ==
    /\ c \in ready
    /\ ready' = ready \ {c}
    /\ late' = late \cup {c}
    /\ UNCHANGED <<stage, queue, measured, whole, profiles, unchecked>>

-----------------------------------------------------------------------------
(* One cycle: _profile_pending_mints *)

Profiled == {profiles[i].mint : i \in DOMAIN profiles}

Pending == {c \in ready : MintOf[c] \notin Profiled}

\* At most Limit of the pending rows, in any order and one mint repeated.
Selections ==
    LET size == IF Cardinality(Pending) < Limit THEN Cardinality(Pending) ELSE Limit
    IN  {s \in [1 .. size -> Pending] : \A i, j \in 1 .. size : s[i] = s[j] => i = j}

ProfilerQuery ==
    /\ stage \in {"pending", "exists", "measure"}
    /\ Begins(Profiler)
    /\ UNCHANGED profiler

PendingMints(rows) ==
    /\ stage = "pending"
    /\ Returns(Profiler)
    /\ queue' = rows
    /\ stage' = IF rows = <<>> THEN "sleep" ELSE "exists"
    /\ UNCHANGED <<measured, whole, ready, late, profiles, unchecked>>

\* Mutant: the loop of run_forever does not survive its cycle's exception.
AfterCycleErrorDead == "dead"

\* run_forever logs the exception of a cycle and sleeps.
AfterCycleError == "sleep"

PendingMintsFail ==
    /\ stage = "pending"
    /\ Raises(Profiler)
    /\ stage' = AfterCycleError
    /\ UNCHANGED <<queue, measured, whole, ready, late, profiles, unchecked>>

Wakes ==
    /\ stage = "sleep"
    /\ stage' = "pending"
    /\ UNCHANGED <<queue, measured, whole, ready, late, profiles, unchecked>>

-----------------------------------------------------------------------------
(* One row: _profile_one *)

Mint == MintOf[Head(queue)]

\* The row is done with, or its exception was logged.
NextRow ==
    /\ queue' = Tail(queue)
    /\ stage' = IF Tail(queue) = <<>> THEN "sleep" ELSE "exists"
    /\ measured' = 0
    /\ whole' = TRUE

Measure ==
    /\ stage' = "measure"
    /\ UNCHANGED <<queue, measured, whole>>

\* Mutant: no row counts as profiled.
NeverProfiled(m) == FALSE

\* _has_existing_profile, and the NOT EXISTS of the insert.
HasExistingProfile(m) == m \in Profiled
NotExists(m) == m \notin Profiled

ExistingProfile ==
    /\ stage = "exists"
    /\ Returns(Profiler)
    /\ IF HasExistingProfile(Mint) THEN NextRow ELSE Measure
    /\ UNCHANGED <<ready, late, profiles, unchecked>>

\* A failed check counts as: no profile.
ExistingProfileFails ==
    /\ stage = "exists"
    /\ Raises(Profiler)
    /\ Measure
    /\ unchecked' = unchecked \cup {Mint}
    /\ UNCHANGED <<ready, late, profiles>>

Measured(complete) ==
    /\ stage = "measure"
    /\ measured' = measured + 1
    /\ whole' = (whole /\ complete)
    /\ stage' = IF measured' = Measures THEN "write" ELSE "measure"
    /\ UNCHANGED <<queue, ready, late, profiles, unchecked>>

MeasureReturns == Returns(Profiler) /\ Measured(TRUE)

\* q() answers a failed query with no rows: the metric stays empty.
MeasureFails == Raises(Profiler) /\ Measured(FALSE)

Profile(complete) == [mint |-> Mint, whole |-> complete]

InsertProfile(complete) ==
    profiles' = IF NotExists(Mint) THEN Append(profiles, Profile(complete)) ELSE profiles

\* The calls of the last section meet a query of the scorer that is under way:
\* some of them are refused, or one of the scorer's is that had just been sent
\* to its thread.
Undisturbed == using = {}

DisturbsScorer ==
    /\ clashed' \in {clashed \cup victims : victims \in SUBSET using}
    /\ UNCHANGED using

\* Mutant: a failed creator update skips the hand-over.
HandsOverUpdated(updated) == updated

\* The creator update's exception is swallowed.
HandsOver(updated) == TRUE

\* The row is written; the query of the creator's history and the update of
\* creator_profiles may be refused or fail, which nobody notices.
WriteProfile(history, updated) ==
    /\ stage = "write"
    /\ IF Undisturbed /\ ~(history /\ updated)
       THEN fails < MaxFails /\ fails' = fails + 1
       ELSE UNCHANGED fails
    /\ InsertProfile(whole /\ history)
    /\ DisturbsScorer
    /\ NextRow
    /\ UNCHANGED <<ready, late, unchecked>>

\* The insert is refused, or fails with its row stored or not.
WriteProfileFails(stored) ==
    /\ stage = "write"
    /\ \/ ~Undisturbed /\ ~stored /\ UNCHANGED fails
       \/ fails < MaxFails /\ fails' = fails + 1
    /\ IF stored THEN InsertProfile(whole) ELSE UNCHANGED profiles
    /\ DisturbsScorer
    /\ NextRow
    /\ UNCHANGED <<ready, late, unchecked>>

\* The process is killed, perhaps right after the insert, and started again.
ProfilerRestart(landed) ==
    /\ landed => stage = "write"
    /\ IF landed THEN InsertProfile(whole) ELSE UNCHANGED profiles
    /\ stage' = "pending"
    /\ queue' = <<>>
    /\ measured' = 0
    /\ whole' = TRUE
    /\ UNCHANGED <<ready, late, unchecked>>

-----------------------------------------------------------------------------
(* The steps that concern the profiler alone *)

Clock == (\E c \in Creates : Ripens(c) \/ Ages(c)) /\ UNCHANGED session

ProfilerQueries ==
    \/ ProfilerQuery
    \/ \E rows \in Selections : PendingMints(rows)
    \/ PendingMintsFail
    \/ ExistingProfile \/ ExistingProfileFails
    \/ MeasureReturns \/ MeasureFails

ProfilerStep ==
    \/ ProfilerQueries
    \/ \E stored \in BOOLEAN : WriteProfileFails(stored)
    \/ Wakes /\ UNCHANGED session
=============================================================================
