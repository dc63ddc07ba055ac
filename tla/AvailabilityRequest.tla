--------------------------- MODULE AvailabilityRequest ---------------------------
(***************************************************************************)
(* The availabilityRequests document: its fields, the predicates the code  *)
(* reads it through, and the patch each writer applies.  Only the claim of *)
(* a confirmation is a transaction; every other writer updates the         *)
(* document it has read some awaits before, so the modules that extend     *)
(* this one apply a patch in a step of its own.                            *)
(*                                                                         *)
(* Values no code path of the modelled writers can tell apart are one      *)
(* value: queued and sending; the two "unavailable" texts; a skip because  *)
(* of a booking conflict is "skipped", one for manual handling is "manual".*)
(***************************************************************************)
EXTENDS Naturals

CONSTANTS
    Requests,  \* availability requests
    Messages,  \* customer messages; a booking is named by the one that made it
    None

ASSUME NoneAssumption == None \notin Requests /\ None \notin Messages

Answers == {"approved", "rejected"}

Document ==
    [status : {"none", "pending"} \union Answers,
     notice : {"not_started", "pending", "processing", "sent", "failed",
               "skipped", "manual"},      \* approvalCustomerNotificationStatus
     confirm : {"none", "waiting_confirm", "unavailable", "confirmed",
                "declined", "superseded"}, \* customerConfirmationStatus
     by : Requests \union {None},         \* supersededByAvailabilityRequestId
     processing : {"idle", "processing", "done"}, \* customerConfirmProcessingStatus
     linked : Messages \union {None},     \* linkedBookingId
     expired : BOOLEAN]                   \* confirmExpiresAt has passed

NewDocument ==
    [status |-> "none", notice |-> "not_started", confirm |-> "none", by |-> None,
     processing |-> "idle", linked |-> None, expired |-> FALSE]

-----------------------------------------------------------------------------
Decided(d) == d.status \in Answers

\* The offer is open: a second question about the same item reuses it.
Reusable(d) ==
    /\ d.status = "approved" /\ d.confirm = "waiting_confirm"
    /\ d.linked = None /\ d.by = None /\ ~d.expired

CloudEligible(d) == Reusable(d) /\ d.notice = "sent" /\ d.processing = "idle"

\* claimAvailabilityRequestCustomerConfirmProcessing asks for less.
Claimable(d) == d.linked = None /\ d.processing = "idle" /\ ~d.expired

\* validateAvailabilityConfirmGate, before the booking is created.
GateOpen(d) ==
    /\ d.status = "approved" /\ d.notice = "sent" /\ d.confirm = "waiting_confirm"
    /\ d.linked = None /\ ~d.expired

Declinable(d) == Reusable(d)

-----------------------------------------------------------------------------
Asked(d) == [d EXCEPT !.status = "pending"]
WithDecision(d, answer) == [d EXCEPT !.status = answer, !.notice = "pending"]
WithNotice(d, notice) == [d EXCEPT !.notice = notice]

\* confirmPatch, built from the row the poller fetched: an offer reopens the
\* document for the customer's answer whatever was stored since.
WithOffer(d) ==
    [d EXCEPT !.notice = "sent", !.processing = "idle",
              !.confirm = "waiting_confirm", !.expired = FALSE]
WithRegret(d) ==
    [d EXCEPT !.notice = "sent", !.processing = "idle", !.confirm = "unavailable"]
WithAnswer(d, answer) == IF answer = "approved" THEN WithOffer(d) ELSE WithRegret(d)

Superseded(d, r) == [d EXCEPT !.confirm = "superseded", !.by = r]
Claimed(d) == [d EXCEPT !.processing = "processing"]
Linked(d, m) ==
    [d EXCEPT !.confirm = "confirmed", !.linked = m, !.processing = "done"]
\* Mutant: the failure patch forgets customerConfirmProcessingStatus.
ReopenedClaimed(d) == [d EXCEPT !.confirm = "waiting_confirm"]

\* Mutant: the failure patch starts the confirmation all over.
ReopenedAnew(d) ==
    [d EXCEPT !.processing = "idle", !.confirm = "waiting_confirm", !.linked = None]

Reopened(d) == [d EXCEPT !.processing = "idle", !.confirm = "waiting_confirm"]

\* Mutant: the customer's no is stored as the owner's answer.
DeclinedRequest(d) == [d EXCEPT !.status = "declined", !.processing = "done"]

Declined(d) == [d EXCEPT !.confirm = "declined", !.processing = "done"]
Expired(d) == [d EXCEPT !.expired = TRUE]
=============================================================================
