------------------------- MODULE MCScoringPipeline -------------------------
(* Small instances of ScoringPipeline for TLC. *)
EXTENDS ScoringPipeline, TLC

CONSTANTS m1, m2, c1, c2

\* Two rows of pool_creates for one mint: its create was seen in the logs and
\* in the instructions.
MCMintOf == [c \in Creates |-> m1]

\* Two mints; with a LIMIT of one they wait for each other.
MCTwoMints == [c \in Creates |-> IF c = c1 THEN m1 ELSE m2]

Symmetry == Permutations(Tasks) \cup Permutations(Creates)
=============================================================================
