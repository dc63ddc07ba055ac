----------------------------- MODULE MCTurns_proofs -----------------------------
(***************************************************************************)
(* The two lanes side by side: a step of the composition is a step of one  *)
(* lane's module and leaves the other lane alone, so the invariants of the *)
(* lanes hold together.                                                    *)
(***************************************************************************)
EXTENDS MCTurns, CloudTurn_proofs, TabTurn_proofs

\* A step of the composition moves one lane as its module says and leaves the
\* other alone.
LEMMA OneLane == [MCNext]_lanes => [Next]_vars /\ [TabNext]_tabVars
  <1> SUFFICES ASSUME [MCNext]_lanes
               PROVE  [Next]_vars /\ [TabNext]_tabVars
    OBVIOUS
  <1>1. CASE lane = "cloud" /\ Next /\ UNCHANGED tabVars
    BY <1>1
  <1>2. CASE lane = "tab" /\ TabNext /\ UNCHANGED vars
    BY <1>2
  <1>3. CASE UNCHANGED lanes
    BY <1>3 DEF lanes
  <1> QED BY <1>1, <1>2, <1>3 DEF MCNext

\* So a behaviour of the composition is a behaviour of each lane's module, and
\* every theorem about a lane holds where both are checked.
THEOREM LanesCompose == MCSpec => Spec /\ TabSpec
  <1>1. MCInit => Init /\ TabInit
    BY DEF MCInit
  <1> QED BY <1>1, OneLane, PTL DEF MCSpec, Spec, TabSpec

\* Every variable of the cloud turns and of the tab's turns keeps its type
\* while the lanes run side by side.
THEOREM LanesTyped == MCSpec => []TypesOK
  <1>1. TypeOK /\ TabTypeOK => TypesOK
    BY DEF TypesOK
  <1> QED BY <1>1, LanesCompose, TypeCorrect, TabTypeCorrect, PTL
=============================================================================
