---------------------------- MODULE DeliveryPromise ----------------------------
(***************************************************************************)
(* What the inbound turn ledger promises about the reply to one customer   *)
(* message, whatever runs, restarts and recoveries it takes: nothing       *)
(* leaves before the reply is committed, a committed turn is never worked  *)
(* on again, and beyond the first message the customer gets another one    *)
(* only for a provider verdict that denied a message it had accepted.      *)
(***************************************************************************)
EXTENDS Naturals, Sequences

CONSTANT Replies

VARIABLES
    stage,       \* "working", "committed" or "done"
    misreported, \* denials, so far, of a message the provider had accepted
    outbox       \* the messages the provider accepted

vars == <<stage, misreported, outbox>>

Init == stage = "working" /\ misreported = 0 /\ outbox = <<>>

Commit ==
    /\ stage = "working"
    /\ stage' = "committed"
    /\ UNCHANGED <<misreported, outbox>>

Finish ==
    /\ stage # "done"
    /\ stage' = "done"
    /\ UNCHANGED <<misreported, outbox>>

Accept(text) ==
    /\ stage # "working"
    /\ Len(outbox) = misreported
    /\ outbox' = Append(outbox, text)
    /\ UNCHANGED <<stage, misreported>>

Misreport ==
    /\ stage # "working"
    /\ Len(outbox) = misreported + 1
    /\ misreported' = misreported + 1
    /\ UNCHANGED <<stage, outbox>>

Next ==
    \/ Commit
    \/ Finish
    \/ \E text \in Replies : Accept(text)
    \/ Misreport

Spec == Init /\ [][Next]_vars
=============================================================================
