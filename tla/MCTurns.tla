-------------------------------- MODULE MCTurns --------------------------------
(***************************************************************************)
(* The two lanes a message can come in by, checked in one run: a Cloud     *)
(* webhook turn and the turns of a WhatsApp Web group.  The rows of the    *)
(* lanes are different documents of the one ledger, so a behaviour runs    *)
(* one lane while the other stays in its initial state: their states add   *)
(* up instead of multiplying.                                              *)
(***************************************************************************)
EXTENDS MCCloudTurn, TabTurn

CONSTANTS r1, r2, row1, row2, x, y

VARIABLE lane   \* the lane of this behaviour

lanes == <<vars, tabVars, lane>>

\* Each row has a reply of its own.
MCRows == {row1, row2}
MCTexts == {x, y}
MCRepliesTo == [r \in MCRows |-> IF r = row1 THEN {x} ELSE {y}]

\* Runs of the cloud lane are interchangeable, and so are the rows of the tab
\* lane together with their replies.  One lane moves in a behaviour, so one
\* permutation serves both.
Swapped ==
    {p \in Permutations({r1, r2, row1, row2, x, y}) :
        <<p[r1], p[r2], p[row1], p[row2], p[x], p[y]>> \in
            {<<r1, r2, row1, row2, x, y>>, <<r2, r1, row2, row1, y, x>>}}

MCInit == lane \in {"cloud", "tab"} /\ Init /\ TabInit

MCNext ==
    /\ UNCHANGED lane
    /\ \/ lane = "cloud" /\ Next /\ UNCHANGED tabVars
       \/ lane = "tab" /\ TabNext /\ UNCHANGED vars

MCSpec == MCInit /\ [][MCNext]_lanes

\* Every variable of the two lanes keeps its type.
TypesOK == TypeOK /\ TabTypeOK
=============================================================================
