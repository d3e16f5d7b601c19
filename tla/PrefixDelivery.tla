--------------------------- MODULE PrefixDelivery ---------------------------
(***************************************************************************)
(* What a service that shows a message in parts may promise its readers:   *)
(* the parts appear in order, none twice and none after a gap.  The last   *)
(* ones may be missing.                                                    *)
(***************************************************************************)
EXTENDS Naturals, Sequences

CONSTANTS
    Messages,
    Chunks      \* [Messages -> number of parts]

VARIABLES
    shown       \* the numbers of the parts shown, in the order they appeared

Init == shown = [m \in Messages |-> <<>>]

Show(m) ==
    /\ Len(shown[m]) < Chunks[m]
    /\ shown' = [shown EXCEPT ![m] = Append(@, Len(@) + 1)]

Next == \E m \in Messages : Show(m)

Spec == Init /\ [][Next]_shown
=============================================================================
