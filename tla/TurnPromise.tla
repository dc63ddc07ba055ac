------------------------------ MODULE TurnPromise ------------------------------
(***************************************************************************)
(* What the group buffer promises about the messages of a group, however   *)
(* often a turn is parked, fails and is put back: a message is taken up    *)
(* once; the messages of one author that wait are closed into a turn,      *)
(* which from then on neither grows nor shrinks nor opens again; a turn is *)
(* answered or dropped as a whole, and only a turn is answered.            *)
(***************************************************************************)
EXTENDS Naturals, Sequences

CONSTANTS Authors, Assistant

VARIABLES
    page,      \* the authors of the messages, oldest first
    waiting,   \* messages taken up, in no turn yet
    turns,     \* closed turns, each a set of messages
    answered,  \* messages of answered turns
    dropped    \* messages given up

vars == <<page, waiting, turns, answered, dropped>>

Taken == waiting \union (UNION turns) \union answered \union dropped

\* Messages of one author.
By(a, messages) == \A i \in messages : page[i] = a

Init == page = <<>> /\ waiting = {} /\ turns = {} /\ answered = {} /\ dropped = {}

Write(a) ==
    /\ page' = Append(page, a)
    /\ UNCHANGED <<waiting, turns, answered, dropped>>

Take(i) ==
    /\ page[i] \in Authors /\ i \notin Taken
    /\ waiting' = waiting \union {i}
    /\ UNCHANGED <<page, turns, answered, dropped>>

\* Messages that wait become turns, at most one of each author at once.
Close(who) ==
    /\ \E closed \in [who -> (SUBSET waiting) \ {{}}] :
          /\ \A a \in who : By(a, closed[a])
          /\ turns' = turns \union {closed[a] : a \in who}
          /\ waiting' = waiting \ (UNION {closed[a] : a \in who})
    /\ UNCHANGED <<page, answered, dropped>>

Answer(turn) ==
    /\ turns' = turns \ {turn}
    /\ answered' = answered \union turn
    /\ UNCHANGED <<page, waiting, dropped>>

\* With a turn, messages of its author that wait for its end may be lost.
Drop(turn, lost) ==
    /\ \E a \in Authors : By(a, turn \union lost)
    /\ turns' = turns \ {turn}
    /\ waiting' = waiting \ lost
    /\ dropped' = dropped \union turn \union lost
    /\ UNCHANGED <<page, answered>>

Next ==
    \/ \E a \in Authors \union {Assistant} : Write(a)
    \/ \E i \in DOMAIN page : Take(i)
    \/ \E who \in SUBSET Authors : Close(who)
    \/ \E turn \in turns : Answer(turn) \/ \E lost \in SUBSET waiting : Drop(turn, lost)

Spec == Init /\ [][Next]_vars
=============================================================================
