---------------------------- MODULE ScoreWindow ----------------------------
(***************************************************************************)
(* What the scorer promises about the table mint_scores: rows are only     *)
(* added, and none while the window of the last                            *)
(* CLAUDE_ALERT_DEDUP_MINUTES holds a score of the same mint by the same   *)
(* model.                                                                  *)
(***************************************************************************)
EXTENDS Naturals, Sequences

VARIABLES
    scores,   \* the rows, oldest first
    expired   \* how many of them have left the window

vars == <<scores, expired>>

Init == scores = <<>> /\ expired = 0

Add(row) ==
    /\ \A i \in expired + 1 .. Len(scores) :
          <<scores[i].mint, scores[i].model>> # <<row.mint, row.model>>
    /\ scores' = Append(scores, row)
    /\ UNCHANGED expired

Expire ==
    /\ expired < Len(scores)
    /\ expired' = expired + 1
    /\ UNCHANGED scores

\* The row added is the last one of the new table.
Next ==
    \/ Len(scores') > Len(scores) /\ Add(scores'[Len(scores')])
    \/ Expire

Spec == Init /\ [][Next]_vars
=============================================================================
