--------------------------- MODULE AvailabilityBooking ---------------------------
(***************************************************************************)
(* From the owner's answer to the booking, for requests whose customer's   *)
(* phone number is known: tap handlers, the notice pollers of the hosted   *)
(* server and of the tab process, and the handlers of the customer's       *)
(* messages, all on the same documents.  A step is what an actor does      *)
(* between two awaits that matter here; the claim of a confirmation and    *)
(* the creation of a booking are transactions.  A process may stop and a   *)
(* database call may fail at any of them: a read that fails throws, a      *)
(* failed update is swallowed (updateAvailabilityRequestFields returns     *)
(* false and nobody looks), a failed transaction may have been committed.  *)
(* How a notice waits for the phone number is in AvailabilityNotice.       *)
(***************************************************************************)
EXTENDS AvailabilityRequest

CONSTANTS
    Items,      \* items in a date window
    ItemOf,     \* the one a request asks for
    CustomerOf, \* the customer who asks
    Taps,       \* owner button taps
    Pollers,    \* processes that poll for customer notices
    Server,     \* the one of them that also handles the webhooks
    MaxFaults   \* bound: process stops and database calls that fail

ASSUME ItemAssumption == ItemOf \in [Requests -> Items]
ASSUME FaultAssumption == MaxFaults \in Nat

VARIABLES
    req,      \* the availabilityRequests documents
    bookings, \* the bookings that came from them
    tap,      \* handlers of owner taps
    poll,     \* pollLocalAvailabilityContinuations, one per process
    turn,     \* handlers of customer messages
    faults,   \* stops and failed calls so far
    \* observation of the people, read by properties only
    said,     \* <<r, answer>>: answers of the owner that were stored
    told,     \* <<r, answer>>: notices customers received
    accepted, \* requests whose customer said yes to the offer
    cut       \* requests one of whose confirmations was cut off after its claim

vars == <<req, bookings, tap, poll, turn, faults, said, told, accepted, cut>>

NoTap == [at |-> "idle", request |-> None, answer |-> "approved"]
NoPoll == [at |-> "idle", request |-> None, status |-> "approved", rest |-> {}]
NoTurn == [at |-> "idle", request |-> None]

Init ==
    /\ req = [r \in Requests |-> NewDocument]
    /\ bookings = {}
    /\ tap = [t \in Taps |-> NoTap]
    /\ poll = [p \in Pollers |-> NoPoll]
    /\ turn = [m \in Messages |-> NoTurn]
    /\ faults = 0
    /\ said = {} /\ told = {} /\ accepted = {} /\ cut = {}

Update(r, d) == req' = [req EXCEPT ![r] = d]

Fault == faults < MaxFaults /\ faults' = faults + 1

\* Mutant: the overlap check asks the requests instead of the bookings.
BookedByLink(item) == \E r \in Requests : ItemOf[r] = item /\ req[r].linked # None

Booked(item) == \E b \in bookings : ItemOf[b.request] = item

\* findWaitingConfirmCloudAvailabilityRequestsByPhone without r itself.
Siblings(r) ==
    {s \in Requests \ {r} : CustomerOf[s] = CustomerOf[r] /\ CloudEligible(req[s])}

-----------------------------------------------------------------------------
\* createAvailabilityRequest: a turn whose customer already holds a live
\* offer for the same item reuses it and stores nothing.
Create(r) ==
    /\ req[r].status = "none"
    /\ \A s \in Requests :
          ItemOf[s] = ItemOf[r] /\ CustomerOf[s] = CustomerOf[r] => ~Reusable(req[s])
    /\ Update(r, Asked(req[r]))
    /\ UNCHANGED <<bookings, tap, poll, turn, faults, said, told, accepted, cut>>

\* updateAvailabilityDecision reads the status; a handler that reads
\* anything but pending ends (already processed, already decided).
TapRead(t, r, answer) ==
    /\ tap[t].at = "idle"
    /\ req[r].status = "pending"
    /\ tap' = [tap EXCEPT ![t] = [at |-> "read", request |-> r, answer |-> answer]]
    /\ UNCHANGED <<req, bookings, poll, turn, faults, said, told, accepted, cut>>

TapWrite(t) ==
    /\ tap[t].at = "read"
    /\ Update(tap[t].request, WithDecision(req[tap[t].request], tap[t].answer))
    /\ said' = said \union {<<tap[t].request, tap[t].answer>>}
    /\ tap' = [tap EXCEPT ![t].at = "done"]
    /\ UNCHANGED <<bookings, poll, turn, faults, told, accepted, cut>>

\* The update fails: the request stays pending.
TapLost(t) ==
    /\ tap[t].at = "read" /\ Fault
    /\ tap' = [tap EXCEPT ![t].at = "done"]
    /\ UNCHANGED <<req, bookings, poll, turn, said, told, accepted, cut>>

-----------------------------------------------------------------------------
PollFetch(p, r) ==
    /\ poll[p].at = "idle"
    /\ Decided(req[r]) /\ req[r].notice = "pending"
    /\ poll' = [poll EXCEPT ![p] = [NoPoll EXCEPT !.at = "fetched", !.request = r,
                                                  !.status = req[r].status]]
    /\ UNCHANGED <<req, bookings, tap, turn, faults, said, told, accepted, cut>>

Conflict(p) == poll[p].status = "approved" /\ Booked(ItemOf[poll[p].request])

\* The claim writes "processing" whatever the document says by now, and the
\* notice goes out from the fetched row.
NoticeAccepted(p) ==
    /\ poll[p].at = "fetched" /\ ~Conflict(p)
    /\ Update(poll[p].request, WithNotice(req[poll[p].request], "processing"))
    /\ told' = told \union {<<poll[p].request, poll[p].status>>}
    /\ poll' = [poll EXCEPT ![p].at = "accepted"]
    /\ UNCHANGED <<bookings, tap, turn, faults, said, accepted, cut>>

NoticeDropped(p) ==
    /\ poll[p].at = "fetched"
    /\ Update(poll[p].request, WithNotice(req[poll[p].request],
                                  IF Conflict(p) THEN "skipped" ELSE "failed"))
    /\ poll' = [poll EXCEPT ![p] = NoPoll]
    /\ UNCHANGED <<bookings, tap, turn, faults, said, told, accepted, cut>>

\* A read or the send throws after the claim, or the outcome is not stored:
\* the poller has no catch, and the row stays in "processing".
NoticeStranded(p) ==
    /\ poll[p].at = "fetched" /\ Fault
    /\ Update(poll[p].request, WithNotice(req[poll[p].request], "processing"))
    /\ poll' = [poll EXCEPT ![p] = NoPoll]
    /\ UNCHANGED <<bookings, tap, turn, said, told, accepted, cut>>

\* An offer that was sent supersedes the customer's others.
GoesOn(p) ==
    poll' = IF poll[p].status = "approved" /\ Siblings(poll[p].request) # {}
            THEN [poll EXCEPT ![p].at = "superseding",
                              ![p].rest = Siblings(poll[p].request)]
            ELSE [poll EXCEPT ![p] = NoPoll]

NoticePatched(p) ==
    /\ poll[p].at = "accepted"
    /\ Update(poll[p].request, WithAnswer(req[poll[p].request], poll[p].status))
    /\ GoesOn(p)
    /\ UNCHANGED <<bookings, tap, turn, faults, said, told, accepted, cut>>

\* confirmPatch is not stored; the "sent" that follows is, or is lost too.
PatchLost(p) ==
    /\ poll[p].at = "accepted" /\ Fault
    /\ \/ Update(poll[p].request, WithNotice(req[poll[p].request], "sent"))
       \/ UNCHANGED req
    /\ GoesOn(p)
    /\ UNCHANGED <<bookings, tap, turn, said, told, accepted, cut>>

Leaves(p, s) ==
    /\ poll[p].at = "superseding" /\ s \in poll[p].rest
    /\ poll' = IF poll[p].rest = {s}
               THEN [poll EXCEPT ![p] = NoPoll]
               ELSE [poll EXCEPT ![p].rest = @ \ {s}]
    /\ UNCHANGED <<bookings, tap, turn, said, told, accepted, cut>>

Supersede(p, s) ==
    /\ Leaves(p, s)
    /\ Update(s, Superseded(req[s], poll[p].request))
    /\ UNCHANGED faults

SupersedeLost(p, s) == Leaves(p, s) /\ Fault /\ UNCHANGED req

-----------------------------------------------------------------------------
InFlight(m) == turn[m].at \in {"claimed", "gated", "booked", "refused"}

\* handleAvailabilityCustomerCloudInbound chooses the request and reads it,
\* then the model is asked what the customer means: the executors run later.
Answer(m, r, answer) ==
    /\ turn[m].at = "idle"
    /\ CloudEligible(req[r])
    /\ turn' = [turn EXCEPT ![m] = [at |-> answer, request |-> r]]
    /\ accepted' = IF answer = "yes" THEN accepted \union {r} ELSE accepted
    /\ UNCHANGED <<req, bookings, tap, poll, faults, said, told, cut>>

ConfirmClaim(m) ==
    LET r == turn[m].request IN
    /\ turn[m].at = "yes"
    /\ IF Claimable(req[r])
       THEN Update(r, Claimed(req[r])) /\ turn' = [turn EXCEPT ![m].at = "claimed"]
       ELSE UNCHANGED req /\ turn' = [turn EXCEPT ![m].at = "done"]
    /\ UNCHANGED <<bookings, tap, poll, faults, said, told, accepted, cut>>

\* The transaction fails, having been committed or not: CLAIM_FAILED.
ClaimFails(m) ==
    LET r == turn[m].request IN
    /\ turn[m].at = "yes" /\ Fault
    /\ \/ UNCHANGED <<req, cut>>
       \/ Claimable(req[r]) /\ Update(r, Claimed(req[r])) /\ cut' = cut \union {r}
    /\ turn' = [turn EXCEPT ![m].at = "done"]
    /\ UNCHANGED <<bookings, tap, poll, said, told, accepted>>

\* The read after the claim, the read of the gate or the read before a decline
\* throws: the turn's failure is a retryable one, and a claim is not given back.
ReadThrows(m) ==
    /\ turn[m].at \in {"claimed", "no"} /\ Fault
    /\ cut' = IF turn[m].at = "claimed" THEN cut \union {turn[m].request} ELSE cut
    /\ turn' = [turn EXCEPT ![m].at = IF @ = "claimed" THEN "lost_yes" ELSE "lost_no"]
    /\ UNCHANGED <<req, bookings, tap, poll, said, told, accepted>>

ConfirmGate(m) ==
    /\ turn[m].at = "claimed"
    /\ turn' = [turn EXCEPT ![m].at =
                  IF GateOpen(req[turn[m].request]) THEN "gated" ELSE "refused"]
    /\ UNCHANGED <<req, bookings, tap, poll, faults, said, told, accepted, cut>>

\* createBooking: the message that already made a booking gets it back,
\* otherwise no blocking booking of the item may overlap the window.
Known(m) == \E b \in bookings : b.turn = m
Books(m) ==
    LET r == turn[m].request IN
    bookings' = bookings \union
        (IF ~Known(m) /\ ~Booked(ItemOf[r]) THEN {[request |-> r, turn |-> m]} ELSE {})

CreateBooking(m) ==
    LET r == turn[m].request IN
    /\ turn[m].at = "gated"
    /\ Books(m)
    /\ turn' = [turn EXCEPT ![m].at =
                  IF Known(m) \/ ~Booked(ItemOf[r]) THEN "booked" ELSE "refused"]
    /\ UNCHANGED <<req, tap, poll, faults, said, told, accepted, cut>>

\* An error of createBooking is a refusal, even when the transaction was committed.
BookingFails(m) ==
    /\ turn[m].at = "gated" /\ Fault
    /\ \/ UNCHANGED <<bookings, cut>>
       \/ Books(m) /\ cut' = cut \union {turn[m].request}
    /\ turn' = [turn EXCEPT ![m].at = "refused"]
    /\ UNCHANGED <<req, tap, poll, said, told, accepted>>

\* Mutant: the link is written only while the offer is still open.
ConfirmLinkIfWaiting(m) ==
    LET r == turn[m].request IN
    /\ turn[m].at = "booked"
    /\ IF req[r].confirm = "waiting_confirm" THEN Update(r, Linked(req[r], m))
                                             ELSE UNCHANGED req
    /\ turn' = [turn EXCEPT ![m].at = "done"]
    /\ UNCHANGED <<bookings, tap, poll, faults, said, told, accepted, cut>>

ConfirmLink(m) ==
    LET r == turn[m].request IN
    /\ turn[m].at = "booked"
    /\ Update(r, Linked(req[r], m))
    /\ turn' = [turn EXCEPT ![m].at = "done"]
    /\ UNCHANGED <<bookings, tap, poll, faults, said, told, accepted, cut>>

ConfirmRefused(m) ==
    LET r == turn[m].request IN
    /\ turn[m].at = "refused"
    /\ Update(r, Reopened(req[r]))
    /\ turn' = [turn EXCEPT ![m].at = "done"]
    /\ UNCHANGED <<bookings, tap, poll, faults, said, told, accepted, cut>>

\* executeAvailabilityCustomerDecline: a fresh read, then a plain update.
DeclineRead(m) ==
    /\ turn[m].at = "no"
    /\ turn' = [turn EXCEPT ![m].at =
                  IF Declinable(req[turn[m].request]) THEN "declining" ELSE "done"]
    /\ UNCHANGED <<req, bookings, tap, poll, faults, said, told, accepted, cut>>

DeclineWrite(m) ==
    LET r == turn[m].request IN
    /\ turn[m].at = "declining"
    /\ Update(r, Declined(req[r]))
    /\ turn' = [turn EXCEPT ![m].at = "done"]
    /\ UNCHANGED <<bookings, tap, poll, faults, said, told, accepted, cut>>

\* The write that ends the executor is lost, and the executor takes no notice;
\* after a booking the rest of the turn may still fail and be handled again.
WriteLost(m) ==
    LET at == turn[m].at IN
    /\ at \in {"booked", "refused", "declining"} /\ Fault
    /\ \/ turn' = [turn EXCEPT ![m].at = "done"]
       \/ at = "booked" /\ turn' = [turn EXCEPT ![m].at = "lost_yes"]
    /\ cut' = IF at = "declining" THEN cut ELSE cut \union {turn[m].request}
    /\ UNCHANGED <<req, bookings, tap, poll, said, told, accepted>>

\* The provider or the Cloud recovery brings a lost message back.  One that
\* confirmed a request is a duplicate; any other is handled anew.
Redeliver(m) ==
    /\ turn[m].at \in {"lost_yes", "lost_no"}
    /\ turn' = [turn EXCEPT ![m] = IF \E r \in Requests : req[r].linked = m
                                   THEN [@ EXCEPT !.at = "done"] ELSE NoTurn]
    /\ UNCHANGED <<req, bookings, tap, poll, faults, said, told, accepted, cut>>

\* Or, when the decision was frozen in the message's ledger row, the same
\* executor runs again on the same request, whatever became of the offer.
Resume(m) ==
    /\ turn[m].at \in {"lost_yes", "lost_no"}
    /\ \A r \in Requests : req[r].linked # m
    /\ turn' = [turn EXCEPT ![m].at = IF @ = "lost_yes" THEN "yes" ELSE "no"]
    /\ UNCHANGED <<req, bookings, tap, poll, faults, said, told, accepted, cut>>

\* The offer's 72 hours are over.
Expire(r) ==
    /\ req[r].confirm \notin {"none", "unavailable"} /\ ~req[r].expired
    /\ Update(r, Expired(req[r]))
    /\ UNCHANGED <<bookings, tap, poll, turn, faults, said, told, accepted, cut>>

Lost(at) ==
    CASE at \in {"idle", "done"} -> at
      [] at \in {"no", "declining", "lost_no"} -> "lost_no"
      [] OTHER -> "lost_yes"

\* Documents survive; what the actors of the process were about to do is lost.
ServerStop ==
    /\ Fault
    /\ tap' = [t \in Taps |-> IF tap[t].at = "read" THEN NoTap ELSE tap[t]]
    /\ poll' = [poll EXCEPT ![Server] = NoPoll]
    /\ turn' = [m \in Messages |-> [turn[m] EXCEPT !.at = Lost(@)]]
    /\ cut' = cut \union {turn[m].request : m \in {n \in Messages : InFlight(n)}}
    /\ UNCHANGED <<req, bookings, said, told, accepted>>

TabStop(p) ==
    /\ p # Server /\ poll[p].at # "idle" /\ Fault
    /\ poll' = [poll EXCEPT ![p] = NoPoll]
    /\ UNCHANGED <<req, bookings, tap, turn, said, told, accepted, cut>>

-----------------------------------------------------------------------------
Decide == \E t \in Taps :
    TapWrite(t) \/ TapLost(t) \/ \E r \in Requests, answer \in Answers : TapRead(t, r, answer)

PollStep(p) ==
    \/ \E r \in Requests : PollFetch(p, r)
    \/ NoticeAccepted(p) \/ NoticeDropped(p) \/ NoticeStranded(p)
    \/ NoticePatched(p) \/ PatchLost(p)
    \/ \E s \in Requests : Supersede(p, s) \/ SupersedeLost(p, s)
    \/ TabStop(p)

TurnStep(m) ==
    \/ \E r \in Requests, answer \in {"yes", "no"} : Answer(m, r, answer)
    \/ ConfirmClaim(m) \/ ConfirmGate(m) \/ CreateBooking(m) \/ ConfirmLink(m)
    \/ ConfirmRefused(m) \/ DeclineRead(m) \/ DeclineWrite(m)
    \/ ClaimFails(m) \/ ReadThrows(m) \/ BookingFails(m) \/ WriteLost(m)
    \/ Redeliver(m) \/ Resume(m)

Next ==
    \/ \E r \in Requests : Create(r) \/ Expire(r)
    \/ Decide
    \/ \E p \in Pollers : PollStep(p)
    \/ \E m \in Messages : TurnStep(m)
    \/ ServerStop

Spec == Init /\ [][Next]_vars

-----------------------------------------------------------------------------
\* Every variable keeps its type.
TypeOK ==
    /\ req \in [Requests -> Document]
    /\ bookings \subseteq [request : Requests, turn : Messages]
    /\ tap \in [Taps -> [at : {"idle", "read", "done"},
                         request : Requests \union {None}, answer : Answers]]
    /\ poll \in [Pollers -> [at : {"idle", "fetched", "accepted", "superseding"},
                             request : Requests \union {None}, status : Answers,
                             rest : SUBSET Requests]]
    /\ turn \in [Messages -> [at : {"idle", "yes", "no", "claimed", "gated", "booked",
                                    "refused", "declining", "done", "lost_yes",
                                    "lost_no"},
                              request : Requests \union {None}]]
    /\ faults \in 0..MaxFaults
    /\ said \subseteq Requests \X Answers /\ told \subseteq Requests \X Answers
    /\ accepted \subseteq Requests /\ cut \subseteq Requests

\* The message made a booking, and its turn was cut off before the link.
Estranged(m) == \E b \in bookings : b.turn = m /\ b.request \in cut

\* A booking that createBooking stored belongs to the request that asked for
\* it, unless the very confirmation that made it was cut off by a stop, an
\* exception or a lost write, or the request was given the booking of another
\* message so cut off: executeAvailabilityCustomerConfirmBooking links it in a
\* later write, with sends, taps, declines and late patches in between.
OrphanNeedsCut ==
    \A b \in bookings :
        \/ req[b.request].linked = b.turn
        \/ turn[b.turn].at = "booked"
        \/ b.request \in cut
        \/ Estranged(req[b.request].linked)

\* A confirmation claim is held by a running turn, unless a confirmation of the
\* same request was cut off: every other way out of the executor gives it back
\* or uses it up, so the customer can always answer again.  (After a cut
\* nothing gives it back.)
ClaimHasTurn ==
    \A r \in Requests : req[r].processing = "processing" =>
        r \in cut \/ \E m \in Messages : InFlight(m) /\ turn[m].request = r

\* A request keeps the booking it was linked to, although the late patch of a
\* notice (confirmPatch) reopens the claim of a document that was confirmed
\* meanwhile.  (A message handled anew after its turn was cut off may bring
\* the booking it made for another request.)
LinkStays ==
    [][\A r \in Requests : req[r].linked # None =>
          \/ req'[r].linked = req[r].linked
          \/ Estranged(req[r].linked) \/ Estranged(req'[r].linked)]_vars

Promise == INSTANCE BookingPromise WITH
    approved <- {r \in Requests : <<r, "approved">> \in said},
    offered <- {r \in Requests : <<r, "approved">> \in told},
    booked <- {b.request : b \in bookings}

\* Whatever the interleaving, the stops and the failed calls: a request becomes a
\* booking only after the owner's yes, the notice to the customer and the
\* customer's yes, in this order, and an item is booked once.
KeepsPromise == Promise!Spec

=============================================================================
