---------------------------- MODULE BookingApproval ----------------------------
(***************************************************************************)
(* A booking that waits for the owner's approval: the prompt to the owner  *)
(* (whatsappInboundBuffer.js) and the provider's report about it           *)
(* (bookingNotificationState.js), the owner's taps, handled in the webhook *)
(* outside the active-job lock (bookingApprovalService.js), and the poller *)
(* of the tab process that tells a customer of a WhatsApp group by a       *)
(* private reply (localApprovalContinuationPoller.js).  Only the poller's  *)
(* claim and the item's update are transactions.                           *)
(***************************************************************************)
EXTENDS Naturals

CONSTANTS
    Taps,       \* approvals and rejections the owner sends, or sends again
    MaxAsks,    \* bound: prompts to the owner
    MaxRetries, \* retries of a failed private reply (3 in the code)
    MaxFaults,  \* bound: calls that fail or whose answer is lost
    MaxHalts    \* bound: process stops

ASSUME ApprovalBounds ==
    /\ MaxAsks \in Nat /\ MaxRetries \in Nat
    /\ MaxFaults \in Nat /\ MaxHalts \in Nat

VARIABLES
    bkg,       \* the bookings document, with its bookingNotificationState
    itemTaken, \* the item's availability is false
    asker,     \* triggerBusinessBookingNotification
    asks,      \* prompts that reached the provider
    fate,      \* fate[n]: what the provider made of prompt n
    clerk,     \* clerk[t]: handleBookingApproval of tap t
    courier,   \* processPendingApproval
    faults, halts,
    \* observation, read by properties only
    dms,       \* private replies the customer received, at most
    unseen,    \* sends whose outcome the booking never recorded
    heard,     \* the decisions these messages told
    split      \* two taps were in hand at the same time

approvalVars == <<bkg, itemTaken, asker, asks, fate, clerk, courier, faults, halts,
                  dms, unseen, heard, split>>

Decisions == {"approved", "rejected"}

NoCourier == [at |-> "idle", says |-> "none"]

ApprovalInit ==
    /\ \E anchored \in BOOLEAN :
          bkg = [status |-> "pending_approval",
                 asked |-> FALSE,     \* the bookingNotificationState document exists
                 promptId |-> 0,      \* providerMessageId: the prompt it is of
                 notice |-> "none",   \* approvalCustomerNotificationStatus
                 retries |-> 0,       \* approvalCustomerNotificationRetryCount
                 terminal |-> FALSE,  \* approvalCustomerNotificationTerminalFailure
                 attempted |-> FALSE, \* dmSendAttempted
                 told |-> FALSE,      \* dmMessageSent
                 anchored |-> anchored] \* source identity and message are known
    /\ itemTaken = FALSE
    /\ asker = "idle" /\ asks = 0 /\ fate = [n \in 1..MaxAsks |-> "none"]
    /\ clerk = [t \in Taps |-> "waiting"]
    /\ courier = NoCourier
    /\ faults = 0 /\ halts = 0
    /\ dms = 0 /\ unseen = 0 /\ heard = {} /\ split = FALSE

Fault == faults < MaxFaults /\ faults' = faults + 1

-----------------------------------------------------------------------------
(* The owner is asked, again when the turn of the booking is run again.    *)

\* Mutant: the index of prompts sent is not asked.
MayAskAlways == asks < MaxAsks

MayAsk == asks < MaxAsks /\ ~bkg.asked

AskOwner ==
    /\ asker = "idle" /\ MayAsk
    /\ asker' = "sending"
    /\ UNCHANGED <<bkg, itemTaken, asks, fate, clerk, courier, faults, halts, dms,
                   unseen, heard, split>>

\* The index cannot be read, which counts as not asked yet.
AskOwnerUnread ==
    /\ asker = "idle" /\ asks < MaxAsks
    /\ Fault
    /\ asker' = "sending"
    /\ UNCHANGED <<bkg, itemTaken, asks, fate, clerk, courier, halts, dms, unseen, heard,
                   split>>

\* markBookingNotificationFailed writes the booking's own status.
NotificationFailed == bkg' = [bkg EXCEPT !.status = "notification_failed"]

\* The owner's phone is resolved before the index is read; a read that fails
\* counts as no phone.
OwnerUnknown ==
    /\ asker = "idle"
    /\ Fault
    /\ NotificationFailed
    /\ UNCHANGED <<itemTaken, asker, asks, fate, clerk, courier, halts, dms, unseen,
                   heard, split>>

PromptOut == asks < MaxAsks /\ asks' = asks + 1 /\ fate' = [fate EXCEPT ![asks + 1] = "flying"]

\* The buttons, or the text that replaces them.
AskAccepted ==
    /\ asker = "sending"
    /\ PromptOut
    /\ asker' = "accepted"
    /\ UNCHANGED <<bkg, itemTaken, clerk, courier, faults, halts, dms, unseen, heard,
                   split>>

\* Both fail, or the request throws, with the prompt out or not.
AskFailed ==
    /\ asker = "sending"
    /\ Fault
    /\ PromptOut \/ UNCHANGED <<asks, fate>>
    /\ asker' = "failed"
    /\ UNCHANGED <<bkg, itemTaken, clerk, courier, halts, dms, unseen, heard, split>>

AskRecorded ==
    /\ asker = "accepted"
    /\ bkg' = [bkg EXCEPT !.asked = TRUE, !.promptId = asks]
    /\ asker' = "idle"
    /\ UNCHANGED <<itemTaken, asks, fate, clerk, courier, faults, halts, dms, unseen,
                   heard, split>>

AskGivenUp ==
    /\ asker = "failed"
    /\ NotificationFailed
    /\ asker' = "idle"
    /\ UNCHANGED <<itemTaken, asks, fate, clerk, courier, faults, halts, dms, unseen,
                   heard, split>>

\* The index and the booking's own fields are updates of their own, and one
\* that fails is ignored.
AskUnrecorded ==
    /\ asker \in {"accepted", "failed"}
    /\ Fault
    /\ \/ UNCHANGED bkg
       \/ asker = "accepted" /\ bkg' = [bkg EXCEPT !.asked = TRUE]
       \/ asker = "accepted" /\ bkg' = [bkg EXCEPT !.promptId = asks]
    /\ asker' = "idle"
    /\ UNCHANGED <<itemTaken, asks, fate, clerk, courier, halts, dms, unseen, heard,
                   split>>

\* The provider delivers a prompt or reports it failed; the report finds the
\* booking by the id of the prompt recorded last.
PromptDelivered(n) ==
    /\ fate[n] = "flying"
    /\ fate' = [fate EXCEPT ![n] = "read"]
    /\ UNCHANGED <<bkg, itemTaken, asker, asks, clerk, courier, faults, halts, dms,
                   unseen, heard, split>>

PromptLost(n) ==
    /\ fate[n] = "flying"
    /\ fate' = [fate EXCEPT ![n] = "lost"]
    /\ IF bkg.promptId = n THEN NotificationFailed ELSE UNCHANGED bkg
    /\ UNCHANGED <<itemTaken, asker, asks, clerk, courier, faults, halts, dms, unseen,
                   heard, split>>

\* The report cannot look the booking up, or its update is dropped.
LossUnrecorded(n) ==
    /\ fate[n] = "flying"
    /\ Fault
    /\ fate' = [fate EXCEPT ![n] = "lost"]
    /\ UNCHANGED <<bkg, itemTaken, asker, asks, clerk, courier, halts, dms, unseen,
                   heard, split>>

Reported(n) == PromptDelivered(n) \/ PromptLost(n) \/ LossUnrecorded(n)

-----------------------------------------------------------------------------
(* The owner taps.                                                         *)

InHand == {"approved", "rejected"}     \* read, with the decision to write

\* Mutant: a decision may be changed.
UndecidedAlways == bkg.status \in {"pending_approval"} \union Decisions

Undecided == bkg.status = "pending_approval"

TapReceived(t) ==
    /\ clerk[t] = "waiting"
    /\ \E n \in 1..MaxAsks : fate[n] = "read"
    /\ \E decision \in Decisions :
          clerk' = [clerk EXCEPT ![t] = IF Undecided THEN decision ELSE "done"]
    /\ split' = (split \/ \E u \in Taps \ {t} : Undecided /\ clerk[u] \in InHand)
    /\ UNCHANGED <<bkg, itemTaken, asker, asks, fate, courier, faults, halts, dms,
                   unseen, heard>>

TapDecided(t) ==
    /\ clerk[t] \in InHand
    /\ bkg' = [bkg EXCEPT !.status = clerk[t]]
    /\ clerk' = [clerk EXCEPT ![t] = IF clerk[t] = "approved" THEN "marking" ELSE "closing"]
    /\ UNCHANGED <<itemTaken, asker, asks, fate, courier, faults, halts, dms, unseen,
                   heard, split>>

\* markItemUnavailableOnApproval, which reads the status again.
ItemMarked(t) ==
    /\ clerk[t] = "marking"
    /\ itemTaken' = (itemTaken \/ bkg.status = "approved")
    /\ clerk' = [clerk EXCEPT ![t] = "closing"]
    /\ UNCHANGED <<bkg, asker, asks, fate, courier, faults, halts, dms, unseen, heard,
                   split>>

\* The second update of the handler hands the booking to the poller.  Mutant:
\* only an approval is handed over.
TapClosedIfApproved(t) ==
    /\ clerk[t] = "closing"
    /\ bkg' = [bkg EXCEPT !.notice = IF bkg.status = "approved" THEN "pending" ELSE @]
    /\ clerk' = [clerk EXCEPT ![t] = "done"]
    /\ UNCHANGED <<itemTaken, asker, asks, fate, courier, faults, halts, dms, unseen,
                   heard, split>>

TapClosed(t) ==
    /\ clerk[t] = "closing"
    /\ bkg' = [bkg EXCEPT !.notice = "pending"]
    /\ clerk' = [clerk EXCEPT ![t] = "done"]
    /\ UNCHANGED <<itemTaken, asker, asks, fate, courier, faults, halts, dms, unseen,
                   heard, split>>

\* An update throws: the handler ends where it is.
TapFails(t) ==
    /\ clerk[t] \in InHand \union {"closing"}
    /\ Fault
    /\ clerk' = [clerk EXCEPT ![t] = IF clerk[t] = "closing" THEN "cut" ELSE "done"]
    /\ UNCHANGED <<bkg, itemTaken, asker, asks, fate, courier, halts, dms, unseen,
                   heard, split>>

\* completeExpiredBookingRef, once the booking's time has passed.
Completed ==
    /\ bkg.status = "approved"
    /\ bkg' = [bkg EXCEPT !.status = "completed"]
    /\ UNCHANGED <<itemTaken, asker, asks, fate, clerk, courier, faults, halts, dms,
                   unseen, heard, split>>

-----------------------------------------------------------------------------
(* The customer is told.  pollRunning and the queue keep the tab process to *)
(* one booking at a time, so only a stop leaves "processing" behind, which  *)
(* is taken over after two minutes.                                         *)

\* Mutant: retries are not counted against the maximum.
RetryableAlways == bkg.notice = "failed" /\ ~bkg.terminal

\* failedRetryDecision; the backoff is time.
Retryable == bkg.notice = "failed" /\ bkg.retries < MaxRetries /\ ~bkg.terminal

\* fetchPendingPlaywrightApprovals.  The message is built from the row it
\* fetched.
DmFetched ==
    /\ courier.at = "idle"
    /\ bkg.status \in Decisions
    /\ bkg.notice \in {"pending", "processing"} \/ Retryable
    /\ courier' = [at |-> "fetched", says |-> bkg.status]
    /\ UNCHANGED <<bkg, itemTaken, asker, asks, fate, clerk, faults, halts, dms, unseen,
                   heard, split>>

\* A row whose retries are used up is not fetched again.
RetriesExhausted ==
    /\ courier.at = "idle"
    /\ bkg.status \in Decisions
    /\ bkg.notice = "failed" /\ bkg.retries >= MaxRetries /\ ~bkg.terminal
    /\ bkg' = [bkg EXCEPT !.terminal = TRUE]
    /\ UNCHANGED <<itemTaken, asker, asks, fate, clerk, courier, faults, halts, dms,
                   unseen, heard, split>>

\* A booking without a source to reply to is failed without a claim.
NothingToReplyTo ==
    /\ courier.at = "fetched" /\ ~bkg.anchored
    /\ bkg' = [bkg EXCEPT !.notice = "failed", !.terminal = TRUE,
                          !.attempted = FALSE, !.told = FALSE]
    /\ courier' = NoCourier
    /\ UNCHANGED <<itemTaken, asker, asks, fate, clerk, faults, halts, dms, unseen,
                   heard, split>>

\* Mutant: the claim looks at the notice's status alone.
ClaimableByStatus ==
    /\ bkg.status \in Decisions
    /\ bkg.notice \in {"pending", "processing"} \/ Retryable

\* claimDecision: a message that was sent, or may have been, is not sent again.
Claimable ==
    /\ bkg.status \in Decisions
    /\ ~bkg.told /\ ~bkg.attempted
    /\ bkg.notice \in {"pending", "processing"} \/ Retryable

DmClaimed ==
    /\ courier.at = "fetched" /\ bkg.anchored
    /\ IF Claimable
       THEN /\ bkg' = [bkg EXCEPT !.notice = "processing",
                          !.retries = IF bkg.notice = "failed" THEN @ + 1 ELSE @,
                          !.terminal = @ /\ bkg.notice # "failed"]
            /\ courier' = [courier EXCEPT !.at = "claimed"]
       ELSE courier' = NoCourier /\ UNCHANGED bkg
    /\ UNCHANGED <<itemTaken, asker, asks, fate, clerk, faults, halts, dms, unseen,
                   heard, split>>

Delivered == dms' = dms + 1 /\ heard' = heard \union {courier.says}

DmVerified ==
    /\ courier.at = "claimed"
    /\ Delivered
    /\ courier' = [courier EXCEPT !.at = "sent"]
    /\ UNCHANGED <<bkg, itemTaken, asker, asks, fate, clerk, faults, halts, unseen,
                   split>>

\* The message was typed and sent, but does not show up as an outgoing bubble.
DmUnverified ==
    /\ courier.at = "claimed"
    /\ Delivered \/ UNCHANGED <<dms, heard>>
    /\ courier' = [courier EXCEPT !.at = "doubted"]
    /\ UNCHANGED <<bkg, itemTaken, asker, asks, fate, clerk, faults, halts, unseen,
                   split>>

\* The private chat could not be opened, or is another one.
DmNotSent ==
    /\ courier.at = "claimed"
    /\ \E at \in {"missed", "hopeless"} : courier' = [courier EXCEPT !.at = at]
    /\ UNCHANGED <<bkg, itemTaken, asker, asks, fate, clerk, faults, halts, dms, unseen,
                   heard, split>>

Outcomes == {"sent", "doubted", "missed", "hopeless"}

\* buildCustomerNotificationPatchFromReplyPrivateResult
DmRecorded ==
    /\ courier.at \in Outcomes
    /\ bkg' = [bkg EXCEPT !.notice = IF courier.at = "sent" THEN "sent" ELSE "failed",
                          !.terminal = courier.at \in {"doubted", "hopeless"},
                          !.attempted = courier.at \in {"sent", "doubted"},
                          !.told = courier.at = "sent"]
    /\ courier' = NoCourier
    /\ UNCHANGED <<itemTaken, asker, asks, fate, clerk, faults, halts, dms, unseen,
                   heard, split>>

Unrecorded == unseen' = unseen + IF courier.at \in {"sent", "doubted"} THEN 1 ELSE 0

\* The update throws: the catch block records a failure to try again, or
\* nothing when its own update throws as well.
DmRecordFails ==
    /\ courier.at \in Outcomes
    /\ Fault
    /\ \/ bkg' = [bkg EXCEPT !.notice = "failed", !.terminal = FALSE,
                             !.attempted = FALSE, !.told = FALSE]
       \/ UNCHANGED bkg
    /\ Unrecorded
    /\ courier' = NoCourier
    /\ UNCHANGED <<itemTaken, asker, asks, fate, clerk, halts, dms, heard, split>>

-----------------------------------------------------------------------------
ServerHalts ==
    /\ halts < MaxHalts /\ halts' = halts + 1
    /\ asker' = "idle"
    /\ clerk' = [t \in Taps |->
          CASE clerk[t] \in {"marking", "closing"} -> "cut"
            [] clerk[t] \in InHand                 -> "done"
            [] OTHER                               -> clerk[t]]
    /\ UNCHANGED <<bkg, itemTaken, asks, fate, courier, faults, dms, unseen, heard,
                   split>>

TabHalts ==
    /\ halts < MaxHalts /\ halts' = halts + 1
    /\ Unrecorded
    /\ courier' = NoCourier
    /\ UNCHANGED <<bkg, itemTaken, asker, asks, fate, clerk, faults, dms, heard, split>>

AskerStep ==
    \/ AskOwner \/ AskOwnerUnread \/ OwnerUnknown \/ AskAccepted \/ AskFailed
    \/ AskRecorded \/ AskUnrecorded \/ AskGivenUp

ClerkStep(t) == TapDecided(t) \/ ItemMarked(t) \/ TapClosed(t) \/ TapFails(t)

CourierStep ==
    \/ NothingToReplyTo \/ DmClaimed \/ DmVerified \/ DmUnverified \/ DmNotSent
    \/ DmRecorded \/ DmRecordFails

Couriering == DmFetched \/ RetriesExhausted \/ CourierStep

ApprovalNext ==
    \/ AskerStep
    \/ \E n \in 1..MaxAsks : Reported(n)
    \/ \E t \in Taps : TapReceived(t) \/ ClerkStep(t)
    \/ Completed
    \/ Couriering
    \/ ServerHalts \/ TabHalts

\* A handler between two awaits goes on, and the poller is an interval.
ApprovalFairness ==
    /\ \A t \in Taps : WF_approvalVars(ClerkStep(t))
    /\ WF_approvalVars(Couriering)

ApprovalSpec == ApprovalInit /\ [][ApprovalNext]_approvalVars /\ ApprovalFairness

-----------------------------------------------------------------------------
\* Every variable keeps its type.
ApprovalTypeOK ==
    /\ bkg \in [status : {"pending_approval", "completed", "notification_failed"}
                             \union Decisions,
                asked : BOOLEAN, promptId : 0..MaxAsks,
                notice : {"none", "pending", "processing", "failed", "sent"},
                retries : 0..MaxRetries, terminal : BOOLEAN, attempted : BOOLEAN,
                told : BOOLEAN, anchored : BOOLEAN]
    /\ itemTaken \in BOOLEAN
    /\ asker \in {"idle", "sending", "accepted", "failed"} /\ asks \in 0..MaxAsks
    /\ fate \in [1..MaxAsks -> {"none", "flying", "read", "lost"}]
    /\ clerk \in [Taps -> {"waiting", "marking", "closing", "done", "cut"} \union InHand]
    /\ courier \in [at : {"idle", "fetched", "claimed"} \union Outcomes,
                    says : {"none"} \union Decisions]
    /\ faults \in 0..MaxFaults /\ halts \in 0..MaxHalts
    /\ dms \in Nat /\ unseen \in Nat /\ heard \in SUBSET Decisions /\ split \in BOOLEAN

\* The customer gets one private reply more than there were sends whose
\* outcome the booking never recorded, also when a second tap reopens a notice
\* that was sent or given up as unverified.
OneDm == dms <= unseen + 1

\* What the customer was told, and the item taken off the market, stay what
\* the booking says, unless two taps were handled at the same time.
OneDecision ==
    \/ split
    \/ /\ \A decision \in heard :
             bkg.status \in {decision, "completed", "notification_failed"}
       /\ itemTaken => bkg.status # "rejected"

\* As long as no call fails and no process stops, a report that a prompt could
\* not be delivered never takes the owner's decision back.
DecisionStands ==
    \/ faults > 0 \/ halts > 0
    \/ bkg.status = "notification_failed" => \A t \in Taps : clerk[t] = "waiting"

\* A decision is reported to the customer, or given up for good, although the
\* tab process may stop, replies fail and updates get lost, unless the handler
\* was cut off between its two updates, two taps were handled at once or the
\* booking was completed first.
DecisionReported ==
    bkg.status \in Decisions ~>
        \/ bkg.notice = "sent" \/ bkg.terminal
        \/ split \/ \E t \in Taps : clerk[t] = "cut"
        \/ bkg.status \notin Decisions
=============================================================================
