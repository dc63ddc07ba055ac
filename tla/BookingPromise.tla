----------------------------- MODULE BookingPromise -----------------------------
(***************************************************************************)
(* What an availability request promises before anything is booked: the    *)
(* owner said yes to the request, the customer was told so, the customer   *)
(* said yes to that offer, in this order, and an item is given away once.  *)
(***************************************************************************)
CONSTANTS Requests, ItemOf

VARIABLES
    approved, \* requests the owner said yes to
    offered,  \* requests whose customer was told they are available
    accepted, \* requests whose customer said yes to the offer
    booked    \* requests that became a booking

vars == <<approved, offered, accepted, booked>>

Init == approved = {} /\ offered = {} /\ accepted = {} /\ booked = {}

Approve(r) ==
    /\ approved' = approved \union {r}
    /\ UNCHANGED <<offered, accepted, booked>>

Offer(r) ==
    /\ r \in approved
    /\ offered' = offered \union {r}
    /\ UNCHANGED <<approved, accepted, booked>>

Accept(r) ==
    /\ r \in offered
    /\ accepted' = accepted \union {r}
    /\ UNCHANGED <<approved, offered, booked>>

Book(r) ==
    /\ r \in accepted
    /\ \A s \in booked : ItemOf[s] # ItemOf[r]
    /\ booked' = booked \union {r}
    /\ UNCHANGED <<approved, offered, accepted>>

Next == \E r \in Requests : Approve(r) \/ Offer(r) \/ Accept(r) \/ Book(r)

Spec == Init /\ [][Next]_vars
=============================================================================
