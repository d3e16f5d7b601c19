--------------------------- MODULE AlertBroadcast ---------------------------
(***************************************************************************)
(* send_broadcast_message of src/app/notifications.py: alerts of several   *)
(* scoring tasks on their way to Telegram and Discord.                     *)
(*                                                                         *)
(* A broadcast creates one task per configured channel; each runs its      *)
(* blocking posts on a thread of the event loop's default pool, which all  *)
(* to_thread calls share.  A Discord message is posted chunk by chunk, a   *)
(* post the service refuses with status 429 again after the pause it asks  *)
(* for.  Whatever else fails ends the channel's post, and send_*_message   *)
(* keeps the exception to itself.                                          *)
(*                                                                         *)
(* A failing request may have been carried out all the same: its answer,   *)
(* not the request, is what was lost.                                      *)
(***************************************************************************)
EXTENDS Naturals, Sequences, FiniteSets

CONSTANTS
    Messages,   \* the texts to broadcast
    Chunks,     \* [Messages -> number of Discord chunks]
    Attempts,   \* range(3) of _post_discord_payload
    Threads     \* max_workers of the default executor

ASSUME BroadcastAssumption ==
    /\ Chunks \in [Messages -> Nat \ {0}]
    /\ Attempts \in Nat \ {0}
    /\ Threads \in Nat \ {0}
    /\ IsFiniteSet(Messages)

Channels == {"telegram", "discord"}

Posts == Messages \X Channels

\*  none     not configured, or not created yet
\*  queued   waiting for a thread
\*  posting  a request is out    pausing  in time.sleep after a 429
\*  sent, failed   the ends that are logged
\*  dropped  cancelled before a thread took it
States == {"none", "queued", "posting", "pausing", "sent", "failed", "dropped"}

VARIABLES
    configured,  \* channels with credentials in the settings
    broadcast,   \* per message: idle, gathering, returned, cancelled
    post,        \* state of each post
    chunk,       \* per message: the Discord chunk being posted
    attempt,     \* per message: attempt of _post_discord_payload, from 0
    shown        \* per message: chunks that appeared in the Discord channel

broadcastVars == <<configured, broadcast, post, chunk, attempt, shown>>

Over == {"none", "sent", "failed", "dropped"}

OnThread(p) == post[p] \in {"posting", "pausing"}

BroadcastInit ==
    /\ configured \in SUBSET Channels
    /\ broadcast = [m \in Messages |-> "idle"]
    /\ post = [p \in Posts |-> "none"]
    /\ chunk = [m \in Messages |-> 1]
    /\ attempt = [m \in Messages |-> 0]
    /\ shown = [m \in Messages |-> <<>>]

\* One task for each configured channel; both are gathered.
Broadcast(m) ==
    /\ broadcast[m] = "idle"
    /\ broadcast' = [broadcast EXCEPT ![m] = "gathering"]
    /\ post' = [p \in Posts |-> IF p[1] = m /\ p[2] \in configured THEN "queued" ELSE post[p]]
    /\ UNCHANGED <<configured, chunk, attempt, shown>>

\* The pool takes posts in the order they came; any order is allowed here.
TakeThread(p) ==
    /\ post[p] = "queued"
    /\ Cardinality({q \in Posts : OnThread(q)}) < Threads
    /\ post' = [post EXCEPT ![p] = "posting"]
    /\ UNCHANGED <<configured, broadcast, chunk, attempt, shown>>

\* _post_telegram_message: one request.
TelegramAnswers(m, ok) ==
    /\ post[<<m, "telegram">>] = "posting"
    /\ post' = [post EXCEPT ![<<m, "telegram">>] = IF ok THEN "sent" ELSE "failed"]
    /\ UNCHANGED <<configured, broadcast, chunk, attempt, shown>>

\* The chunk the request carries appears in the channel.
Appears(m) == shown' = [shown EXCEPT ![m] = Append(@, chunk[m])]

\* Mutant: enumerate counts from 0 and the last chunk is left out.
AcceptedShort(m) ==
    /\ post[<<m, "discord">>] = "posting"
    /\ Appears(m)
    /\ attempt' = [attempt EXCEPT ![m] = 0]
    /\ IF chunk[m] + 1 < Chunks[m]
       THEN chunk' = [chunk EXCEPT ![m] = @ + 1] /\ UNCHANGED post
       ELSE post' = [post EXCEPT ![<<m, "discord">>] = "sent"] /\ UNCHANGED chunk
    /\ UNCHANGED <<configured, broadcast>>

\* The chunk is posted; _post_discord_message goes on to the next one.
Accepted(m) ==
    /\ post[<<m, "discord">>] = "posting"
    /\ Appears(m)
    /\ attempt' = [attempt EXCEPT ![m] = 0]
    /\ IF chunk[m] < Chunks[m]
       THEN chunk' = [chunk EXCEPT ![m] = @ + 1] /\ UNCHANGED post
       ELSE post' = [post EXCEPT ![<<m, "discord">>] = "sent"] /\ UNCHANGED chunk
    /\ UNCHANGED <<configured, broadcast>>

\* Mutants: one attempt too many; every refusal is retried, however often; a
\* request without an answer is sent again.
LimitedOnceMore(m) ==
    /\ post[<<m, "discord">>] = "posting"
    /\ IF attempt[m] < Attempts
       THEN /\ attempt' = [attempt EXCEPT ![m] = @ + 1]
            /\ post' = [post EXCEPT ![<<m, "discord">>] = "pausing"]
       ELSE /\ post' = [post EXCEPT ![<<m, "discord">>] = "failed"]
            /\ UNCHANGED attempt
    /\ UNCHANGED <<configured, broadcast, chunk, shown>>
LimitedForever(m) ==
    /\ post[<<m, "discord">>] = "posting"
    /\ post' = [post EXCEPT ![<<m, "discord">>] = "pausing"]
    /\ UNCHANGED <<configured, broadcast, chunk, attempt, shown>>
UnansweredRetried(m, landed) ==
    /\ post[<<m, "discord">>] = "posting"
    /\ attempt[m] + 1 < Attempts
    /\ attempt' = [attempt EXCEPT ![m] = @ + 1]
    /\ IF landed THEN Appears(m) ELSE UNCHANGED shown
    /\ UNCHANGED <<configured, broadcast, post, chunk>>

\* Status 429: nothing was posted.  The last attempt raises.
Limited(m) ==
    /\ post[<<m, "discord">>] = "posting"
    /\ IF attempt[m] + 1 < Attempts
       THEN /\ attempt' = [attempt EXCEPT ![m] = @ + 1]
            /\ post' = [post EXCEPT ![<<m, "discord">>] = "pausing"]
       ELSE /\ post' = [post EXCEPT ![<<m, "discord">>] = "failed"]
            /\ UNCHANGED attempt
    /\ UNCHANGED <<configured, broadcast, chunk, shown>>

Resume(m) ==
    /\ post[<<m, "discord">>] = "pausing"
    /\ post' = [post EXCEPT ![<<m, "discord">>] = "posting"]
    /\ UNCHANGED <<configured, broadcast, chunk, attempt, shown>>

\* Any other status, no connection, or no answer within the timeout.
Unanswered(m, landed) ==
    /\ post[<<m, "discord">>] = "posting"
    /\ post' = [post EXCEPT ![<<m, "discord">>] = "failed"]
    /\ IF landed THEN Appears(m) ELSE UNCHANGED shown
    /\ UNCHANGED <<configured, broadcast, chunk, attempt>>

\* gather returns when all its tasks have; none of them raises.
Return(m) ==
    /\ broadcast[m] = "gathering"
    /\ \A c \in Channels : post[<<m, c>>] \in Over
    /\ broadcast' = [broadcast EXCEPT ![m] = "returned"]
    /\ UNCHANGED <<configured, post, chunk, attempt, shown>>

\* The end of asyncio.run cancels the broadcasting task and with it the
\* gathered ones.  A post no thread has taken yet is dropped, a thread that
\* posts already goes on: nothing interrupts it, and the interpreter waits.
Cancel(m) ==
    /\ broadcast[m] = "gathering"
    /\ broadcast' = [broadcast EXCEPT ![m] = "cancelled"]
    /\ post' = [p \in Posts |-> IF p[1] = m /\ post[p] = "queued" THEN "dropped" ELSE post[p]]
    /\ UNCHANGED <<configured, chunk, attempt, shown>>

DiscordAnswers(m) ==
    \/ Accepted(m)
    \/ Limited(m)
    \/ \E landed \in BOOLEAN : Unanswered(m, landed)

BroadcastNext ==
    \/ \E m \in Messages : Broadcast(m)
    \/ \E p \in Posts : TakeThread(p)
    \/ \E m \in Messages, ok \in BOOLEAN : TelegramAnswers(m, ok)
    \/ \E m \in Messages : DiscordAnswers(m)
    \/ \E m \in Messages : Resume(m)
    \/ \E m \in Messages : Return(m)
    \/ \E m \in Messages : Cancel(m)

\* urlopen has a timeout, a sleep ends, a free thread takes the next post and
\* the event loop runs what is ready; nothing makes an alert arise.
BroadcastFairness ==
    /\ WF_broadcastVars(\E p \in Posts : TakeThread(p))
    /\ \A m \in Messages :
        /\ WF_broadcastVars(\E ok \in BOOLEAN : TelegramAnswers(m, ok))
        /\ WF_broadcastVars(DiscordAnswers(m))
        /\ WF_broadcastVars(Resume(m))
        /\ WF_broadcastVars(Return(m))

BroadcastSpec == BroadcastInit /\ [][BroadcastNext]_broadcastVars /\ BroadcastFairness
-----------------------------------------------------------------------------
BroadcastTypeOK ==
    /\ configured \in SUBSET Channels
    /\ broadcast \in [Messages -> {"idle", "gathering", "returned", "cancelled"}]
    /\ post \in [Posts -> States]
    /\ chunk \in [Messages -> Nat]
    /\ attempt \in [Messages -> 0 .. Attempts - 1]
    /\ shown \in [Messages -> Seq(Nat)]

\* A retry, a pause and a lost answer never make the Discord channel show a
\* chunk twice, out of order or after a gap: what it shows of an alert is a
\* prefix of it.
Delivery == INSTANCE PrefixDelivery

ShowsPrefix == Delivery!Spec

\* "discord_message_sent" is logged only for an alert that is shown whole,
\* and an alert cut short is logged as failed or still under way.
SentMeansWhole ==
    \A m \in Messages :
        /\ post[<<m, "discord">>] = "sent" => Len(shown[m]) = Chunks[m]
        /\ shown[m] # <<>> /\ Len(shown[m]) < Chunks[m] =>
               post[<<m, "discord">>] \in {"posting", "pausing", "failed"}

\* A scoring task is not held forever by its alert: neither a rate limit, nor
\* a failing channel, nor a pool whose threads are all asleep keeps
\* send_broadcast_message from returning.
BroadcastEnds ==
    \A m \in Messages : broadcast[m] = "gathering" ~> broadcast[m] # "gathering"
=============================================================================
