--------------------------- MODULE MCNotifications ---------------------------
(***************************************************************************)
(* How a message is cut and how alerts are posted share no variable: one   *)
(* run checks both, each behaviour being one of the cutting while nothing  *)
(* is broadcast, or one of the broadcasts while nothing is cut.            *)
(***************************************************************************)
EXTENDS MessageSplit, AlertBroadcast

CONSTANTS long, short, LongestText

VARIABLE part

vars == <<splitVars, broadcastVars, part>>

\* A long alert and a short one.
MCChunks == [m \in Messages |-> IF m = long THEN 3 ELSE 1]

\* Every pattern of breaks, blanks and ink up to a length.
Named(shape) == [i \in DOMAIN shape |-> IF IsInk(shape[i]) THEN i ELSE shape[i]]

Patterns == {Named(shape) : shape \in UNION {[1 .. n -> {Break, Blank, 1}] : n \in 0 .. LongestText}}

MCInit ==
    /\ part \in {"split", "broadcast"}
    /\ SplitInit /\ (part # "split" => text = <<>>)
    /\ BroadcastInit /\ (part # "broadcast" => configured = {})

MCNext ==
    /\ UNCHANGED part
    /\ \/ part = "split" /\ SplitNext /\ UNCHANGED broadcastVars
       \/ part = "broadcast" /\ BroadcastNext /\ UNCHANGED splitVars

MCSpec == MCInit /\ [][MCNext]_vars /\ BroadcastFairness
=============================================================================
