---------------------------- MODULE RowDelivery ----------------------------
(***************************************************************************)
(* What the analytics sink promises about a row once it is buffered.       *)
(*                                                                         *)
(* A row waits in the process, and leaves that state once and for ever: it *)
(* is then in ClickHouse exactly once, or nowhere.  No failed, cancelled   *)
(* or half-executed flush ever brings a row back or writes a second copy.  *)
(***************************************************************************)
EXTENDS Naturals

VARIABLES
    waiting,  \* rows the process still holds, or is still writing
    copies    \* for every row ever buffered, its copies in ClickHouse

vars == <<waiting, copies>>

Init ==
    /\ waiting = {}
    /\ DOMAIN copies = {}

\* Rows nobody has seen before start to wait.
Accept ==
    /\ waiting \subseteq waiting'
    /\ (waiting' \ waiting) \cap DOMAIN copies = {}
    /\ DOMAIN copies' = DOMAIN copies \cup waiting'
    /\ \A r \in DOMAIN copies' :
          copies'[r] = IF r \in DOMAIN copies THEN copies[r] ELSE 0

\* Some rows stop waiting; each of them is written once or dropped.
Settle ==
    /\ waiting' \subseteq waiting
    /\ DOMAIN copies' = DOMAIN copies
    /\ \A r \in DOMAIN copies :
          \/ copies'[r] = copies[r]
          \/ r \in waiting \ waiting' /\ copies[r] = 0 /\ copies'[r] = 1

Next == Accept \/ Settle

Spec == Init /\ [][Next]_vars
=============================================================================
