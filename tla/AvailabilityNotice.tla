--------------------------- MODULE AvailabilityNotice ---------------------------
(***************************************************************************)
(* The messages around one availability request: the prompt with buttons   *)
(* to the owner, then the notice to the customer, which pollers of the     *)
(* hosted server and of the tab process send once the owner has decided,   *)
(* and which waits for the customer's phone number, looked up by the tab   *)
(* process in WhatsApp Web.  What the owner answers and what the customer  *)
(* makes of the notice is the module AvailabilityBooking.                  *)
(*                                                                         *)
(* All writers update the document without a transaction; an update that   *)
(* fails is logged and its caller goes on as if it had been written.       *)
(***************************************************************************)
EXTENDS Naturals

CONSTANTS
    Processes,   \* processes that run pollLocalAvailabilityContinuations
    WebServer,   \* the one that also runs the turn of the request
    Runs,        \* runs of that turn: the first and its replays
    MaxAttempts, \* MAX_AVAILABILITY_PHONE_EXTRACTION_ATTEMPTS
    MaxRefusals, \* bound: sends not confirmed, busy tabs, failed database calls
    MaxStops     \* bound: process stops

ASSUME AttemptAssumption == MaxAttempts \in Nat \ {0}
ASSUME NoticeBounds == MaxRefusals \in Nat /\ MaxStops \in Nat

VARIABLES
    avr,      \* the availabilityRequests document
    prompter, \* sendAvailabilityOwnerNotification, in each run of the turn
    teller,   \* sendAvailabilityCustomerNotification, one poller per process
    lookup,   \* extractAndPersistAvailabilityCustomerPhone
    refusals, stops,
    \* observation, read by properties only (prompts also by OwnerDecides)
    prompts,  \* prompts the owner received
    doubts,   \* prompts received of which the code saw only a failure, and
              \* prompts begun whose mark was lost
    crowded,  \* two runs have been prompting at the same time
    notices,  \* notices the customer received
    shared,   \* two pollers have had the row in hand at the same time
    cut       \* what a holder was cut off from: the "notice", the "phone"

noticeVars == <<avr, prompter, teller, lookup, refusals, stops, prompts, doubts,
                crowded, notices, shared, cut>>
promptTally == <<prompts, doubts, crowded>>

Settled == {"sent", "failed", "skipped", "manual"}

NoTeller == [at |-> "idle", phone |-> "pending"]

NoticeInit ==
    /\ \E phone \in {"pending", "resolved"}, trusted \in BOOLEAN :
          avr = [status |-> "pending",
                 owner |-> "not_started",  \* ownerNotificationStatus
                 notice |-> "not_started", \* approvalCustomerNotificationStatus
                 phone |-> phone,          \* phoneExtractionStatus
                 tries |-> 0,              \* phoneExtractionAttemptCount
                 trusted |-> trusted,      \* the source names the participant's id
                 missed |-> FALSE,         \* the lookup's error is one this id gets over
                 rescued |-> FALSE]        \* trustedIdentityRecoveryAttemptedAt
    /\ prompter = [r \in Runs |-> "idle"]
    /\ teller = [p \in Processes |-> NoTeller]
    /\ lookup = [at |-> "idle", rescue |-> FALSE]
    /\ refusals = 0 /\ stops = 0
    /\ prompts = 0 /\ doubts = 0 /\ crowded = FALSE
    /\ notices = 0 /\ shared = FALSE /\ cut = {}

Refusal == refusals < MaxRefusals /\ refusals' = refusals + 1

-----------------------------------------------------------------------------
(* The owner is asked, again by a replay of the turn.  The status is read, *)
(* the owner's phone awaited, and the marks are written unconditionally.   *)

\* Mutant: a prompt marked sent is sent again by a replay.
MayPromptAgain == avr.owner # "sending"

\* queued, sending and sent are skipped (queued and sending are written back
\* to back and read by nothing else).
MayPrompt == avr.owner \in {"not_started", "failed"}

PromptChecked(r) ==
    /\ prompter[r] = "idle" /\ MayPrompt
    /\ prompter' = [prompter EXCEPT ![r] = "checked"]
    /\ crowded' = (crowded \/ \E q \in Runs \ {r} : prompter[q] # "idle")
    /\ UNCHANGED <<avr, teller, lookup, refusals, stops, prompts, doubts, notices, shared,
                   cut>>

OwnerPhoneMissing(r) ==
    /\ prompter[r] = "checked"
    /\ Refusal
    /\ avr' = [avr EXCEPT !.owner = "failed"]
    /\ prompter' = [prompter EXCEPT ![r] = "idle"]
    /\ UNCHANGED <<teller, lookup, stops, promptTally, notices, shared, cut>>

PromptOwner(r) ==
    /\ prompter[r] = "checked"
    /\ avr' = [avr EXCEPT !.owner = "sending"]
    /\ prompter' = [prompter EXCEPT ![r] = "sending"]
    /\ UNCHANGED <<teller, lookup, refusals, stops, promptTally, notices, shared,
                   cut>>

\* The prompt is sent although neither mark was written.
PromptUnmarked(r) ==
    /\ prompter[r] = "checked"
    /\ Refusal
    /\ doubts' = doubts + 1
    /\ prompter' = [prompter EXCEPT ![r] = "sending"]
    /\ UNCHANGED <<avr, teller, lookup, stops, prompts, crowded, notices, shared, cut>>

PromptAccepted(r) ==
    /\ prompter[r] = "sending"
    /\ prompts' = prompts + 1
    /\ prompter' = [prompter EXCEPT ![r] = "sent"]
    /\ UNCHANGED <<avr, teller, lookup, refusals, stops, doubts, crowded, notices,
                   shared, cut>>

\* An exception or a reply without ok; the prompt may have gone out.
PromptRefused(r) ==
    /\ prompter[r] = "sending"
    /\ Refusal
    /\ \E out \in {0, 1} : prompts' = prompts + out /\ doubts' = doubts + out
    /\ prompter' = [prompter EXCEPT ![r] = "failed"]
    /\ UNCHANGED <<avr, teller, lookup, stops, crowded, notices, shared, cut>>

PromptMarked(r) ==
    /\ prompter[r] \in {"sent", "failed"}
    /\ avr' = [avr EXCEPT !.owner = prompter[r]]
    /\ prompter' = [prompter EXCEPT ![r] = "idle"]
    /\ UNCHANGED <<teller, lookup, refusals, stops, promptTally, notices, shared,
                   cut>>

\* The run no longer owns its execution (assertExecutionOwnership, between any
\* two steps), a read throws, or the last mark is lost: no status is written.
PromptAborted(r) ==
    /\ prompter[r] # "idle"
    /\ prompter' = [prompter EXCEPT ![r] = "idle"]
    /\ UNCHANGED <<avr, teller, lookup, refusals, stops, promptTally, notices, shared,
                   cut>>

\* updateAvailabilityDecision; two taps at once are in AvailabilityBooking.
OwnerDecides ==
    /\ avr.status = "pending" /\ prompts > 0
    /\ avr' = [avr EXCEPT !.status = "decided", !.notice = "pending"]
    /\ UNCHANGED <<prompter, teller, lookup, refusals, stops, promptTally, notices, shared,
                   cut>>

-----------------------------------------------------------------------------
(* The customer is told.  pollRunning keeps a process to one poll; between *)
(* processes only the status of the fetched row does.                      *)

NoticeFetched(p) ==
    /\ teller[p].at = "idle"
    /\ avr.status = "decided" /\ avr.notice = "pending"
    /\ teller' = [teller EXCEPT ![p] = [at |-> "fetched", phone |-> avr.phone]]
    /\ shared' = (shared \/ \E q \in Processes \ {p} : teller[q].at # "idle")
    /\ UNCHANGED <<avr, prompter, lookup, refusals, stops, promptTally, notices, cut>>

\* claimAvailabilityRequest tests the fetched row and writes unconditionally.
NoticeClaimed(p) ==
    /\ teller[p].at = "fetched"
    /\ avr' = [avr EXCEPT !.notice = "processing"]
    /\ teller' = [teller EXCEPT ![p].at = "claimed"]
    /\ UNCHANGED <<prompter, lookup, refusals, stops, promptTally, notices, shared, cut>>

\* The claim was not written: the row is left to the next poll.
NoticeUnclaimed(p) ==
    /\ teller[p].at = "fetched"
    /\ Refusal
    /\ teller' = [teller EXCEPT ![p] = NoTeller]
    /\ UNCHANGED <<avr, prompter, lookup, stops, promptTally, notices, shared, cut>>

\* The poll ends by an exception of a read or of the send, or its outcome is
\* not written: nothing takes the row out of "processing" again.
NoticeCut(p) ==
    /\ teller[p].at \in {"claimed", "accepted"}
    /\ Refusal
    /\ teller' = [teller EXCEPT ![p] = NoTeller]
    /\ cut' = cut \union {"notice"}
    /\ UNCHANGED <<avr, prompter, lookup, stops, promptTally, notices, shared>>

NoticeEnds(p, notice) ==
    /\ avr' = [avr EXCEPT !.notice = notice]
    /\ teller' = [teller EXCEPT ![p] = NoTeller]

\* Mutant: waiting for the phone number leaves the row claimed.
HeldForPhoneClaimed(phone) ==
    IF phone \in {"pending", "resolving"} THEN "processing" ELSE "manual"

\* A row without a phone number goes back to the queue while the number is
\* looked up, and to manual handling when it will not be found.
HeldForPhone(phone) ==
    IF phone \in {"pending", "resolving"} THEN "pending" ELSE "manual"

NoticeHeld(p) ==
    /\ teller[p].at = "claimed" /\ teller[p].phone # "resolved"
    /\ NoticeEnds(p, HeldForPhone(teller[p].phone))
    /\ UNCHANGED <<prompter, lookup, refusals, stops, promptTally, notices, shared, cut>>

\* A booking conflict, a message that cannot be built, a template that is
\* blocked.
NoticeDropped(p) ==
    /\ teller[p].at = "claimed"
    /\ Refusal
    /\ \E notice \in {"failed", "skipped", "manual"} : NoticeEnds(p, notice)
    /\ UNCHANGED <<prompter, lookup, stops, promptTally, notices, shared, cut>>

NoticeRefused(p) ==
    /\ teller[p].at = "claimed" /\ teller[p].phone = "resolved"
    /\ Refusal
    /\ \E out \in {0, 1} : notices' = notices + out
    /\ NoticeEnds(p, "failed")
    /\ UNCHANGED <<prompter, lookup, stops, promptTally, shared, cut>>

NoticeAccepted(p) ==
    /\ teller[p].at = "claimed" /\ teller[p].phone = "resolved"
    /\ notices' = notices + 1
    /\ teller' = [teller EXCEPT ![p].at = "accepted"]
    /\ UNCHANGED <<avr, prompter, lookup, refusals, stops, promptTally, shared, cut>>

\* Mutant: the outcome of the send is left to the delivery webhook.
NoticeStoredLater(p) ==
    /\ teller[p].at = "accepted"
    /\ NoticeEnds(p, "pending")
    /\ UNCHANGED <<prompter, lookup, refusals, stops, promptTally, notices, shared, cut>>

\* confirmPatch and markAvailabilityRequestCustomerNotificationSent, which
\* write the same status.
NoticeStored(p) ==
    /\ teller[p].at = "accepted"
    /\ NoticeEnds(p, "sent")
    /\ UNCHANGED <<prompter, lookup, refusals, stops, promptTally, notices, shared, cut>>

-----------------------------------------------------------------------------
(* The phone number is looked up in the tab process.                       *)

\* Mutant: the rescue is not limited to one.
RescuableAgain ==
    /\ avr.trusted /\ avr.phone \in {"failed", "ambiguous"}
    /\ avr.notice = "manual" /\ avr.missed

\* A participant's trusted id gives one more chance to a request that went
\* to manual handling for an error the id gets over.
Rescuable ==
    /\ avr.trusted /\ avr.phone \in {"failed", "ambiguous"}
    /\ avr.notice = "manual" /\ avr.missed /\ ~avr.rescued

MayLookUp ==
    \/ avr.phone = "pending" /\ avr.tries < MaxAttempts
    \/ Rescuable

LookupClaimed ==
    /\ lookup.at = "idle" /\ MayLookUp
    /\ avr' = [avr EXCEPT !.phone = "resolving", !.missed = FALSE, !.tries = @ + 1,
                          !.rescued = @ \/ Rescuable]
    /\ lookup' = [at |-> "looking", rescue |-> avr.trusted /\ avr.notice = "manual"]
    /\ UNCHANGED <<prompter, teller, refusals, stops, promptTally, notices, shared, cut>>

LookupEnds(doc) ==
    /\ lookup.at = "looking"
    /\ avr' = doc
    /\ lookup' = [at |-> "idle", rescue |-> FALSE]
    /\ UNCHANGED <<prompter, teller, stops, prompts, doubts, crowded, notices, shared, cut>>

\* A request in manual handling is handed back to the pollers.
Found ==
    [avr EXCEPT !.phone = "resolved", !.notice = IF lookup.rescue THEN "pending" ELSE @]

PhoneFound == LookupEnds(Found) /\ UNCHANGED refusals

\* Mutant: a busy tab ends the lookup without a word.
PhoneDeferredSilently == Refusal /\ LookupEnds(avr)

\* A busy tab does not count as an attempt.
PhoneDeferred ==
    /\ Refusal
    /\ LookupEnds([avr EXCEPT !.phone = "pending", !.tries = @ - 1])

\* The row or the contact panel was not found: another attempt while there
\* are any; the last of these errors is one a trusted id gets over or not.
PhoneMissed ==
    /\ \E missed \in BOOLEAN :
          LookupEnds(IF avr.tries < MaxAttempts
                     THEN [avr EXCEPT !.phone = "pending"]
                     ELSE [avr EXCEPT !.phone = "failed", !.missed = missed])
    /\ UNCHANGED refusals

PhoneUnknown ==
    /\ \E phone \in {"failed", "ambiguous"}, missed \in BOOLEAN :
          LookupEnds([avr EXCEPT !.phone = phone, !.missed = missed])
    /\ UNCHANGED refusals

\* The read after the claim throws, or the outcome is not written: the number
\* stays "resolving".
PhoneCut ==
    /\ lookup.at = "looking"
    /\ Refusal
    /\ lookup' = [at |-> "idle", rescue |-> FALSE]
    /\ cut' = cut \union {"phone"}
    /\ UNCHANGED <<avr, prompter, teller, stops, promptTally, notices, shared>>

-----------------------------------------------------------------------------
\* What a poller or the lookup had in hand is not taken up again.
Leaves(at, part) == IF at \in {"claimed", "accepted", "looking"} THEN {part} ELSE {}

NoticeServerStop ==
    /\ stops < MaxStops /\ stops' = stops + 1
    /\ prompter' = [r \in Runs |-> "idle"]
    /\ teller' = [teller EXCEPT ![WebServer] = NoTeller]
    /\ cut' = cut \union Leaves(teller[WebServer].at, "notice")
    /\ UNCHANGED <<avr, lookup, refusals, promptTally, notices, shared>>

NoticeTabStop ==
    /\ stops < MaxStops /\ stops' = stops + 1
    /\ lookup' = [at |-> "idle", rescue |-> FALSE]
    /\ teller' = [p \in Processes |-> IF p = WebServer THEN teller[p] ELSE NoTeller]
    /\ cut' = cut \union Leaves(lookup.at, "phone")
                  \union UNION {Leaves(teller[p].at, "notice") : p \in Processes \ {WebServer}}
    /\ UNCHANGED <<avr, prompter, refusals, promptTally, notices, shared>>

PromptStep(r) ==
    \/ PromptChecked(r) \/ OwnerPhoneMissing(r) \/ PromptOwner(r) \/ PromptUnmarked(r)
    \/ PromptAccepted(r) \/ PromptRefused(r) \/ PromptMarked(r) \/ PromptAborted(r)

TellerStep(p) ==
    \/ NoticeClaimed(p) \/ NoticeUnclaimed(p) \/ NoticeHeld(p) \/ NoticeDropped(p)
    \/ NoticeRefused(p) \/ NoticeAccepted(p) \/ NoticeStored(p) \/ NoticeCut(p)

LookupStep == PhoneFound \/ PhoneDeferred \/ PhoneMissed \/ PhoneUnknown \/ PhoneCut

Telling(p) == NoticeFetched(p) \/ TellerStep(p)
LookingUp == LookupClaimed \/ LookupStep

NoticeNext ==
    \/ \E r \in Runs : PromptStep(r)
    \/ OwnerDecides
    \/ \E p \in Processes : Telling(p)
    \/ LookingUp
    \/ NoticeServerStop \/ NoticeTabStop

\* The pollers are intervals, and a handler between two awaits goes on.
NoticeFairness ==
    /\ \A p \in Processes : WF_noticeVars(Telling(p))
    /\ WF_noticeVars(LookingUp)

NoticeSpec == NoticeInit /\ [][NoticeNext]_noticeVars /\ NoticeFairness

-----------------------------------------------------------------------------
\* Every variable keeps its type; a rescue may use one attempt more.
NoticeTypeOK ==
    /\ avr \in [status : {"pending", "decided"},
                owner : {"not_started", "sending", "sent", "failed"},
                notice : {"not_started", "pending", "processing"} \union Settled,
                phone : {"pending", "resolving", "resolved", "failed", "ambiguous"},
                tries : 0..(MaxAttempts + 1), trusted : BOOLEAN, missed : BOOLEAN,
                rescued : BOOLEAN]
    /\ prompter \in [Runs -> {"idle", "checked", "sending", "sent", "failed"}]
    /\ teller \in [Processes ->
          [at : {"idle", "fetched", "claimed", "accepted"},
           phone : {"pending", "resolving", "resolved", "failed", "ambiguous"}]]
    /\ lookup \in [at : {"idle", "looking"}, rescue : BOOLEAN]
    /\ refusals \in 0..MaxRefusals /\ stops \in 0..MaxStops
    /\ prompts \in Nat /\ doubts \in Nat /\ crowded \in BOOLEAN
    /\ notices \in Nat /\ shared \in BOOLEAN /\ cut \subseteq {"notice", "phone"}

\* However often the turn is replayed, and wherever a run is aborted or the
\* server stops, the owner gets one prompt more than those the provider took
\* while the code saw a failure and those whose mark was lost; unless two runs
\* were prompting at the same time: the status is read before an await and
\* written unconditionally after it.
PromptLicence == prompts <= doubts + 1 \/ crowded

\* The customer is told once, however often processes stop and calls fail,
\* unless two processes had the row in hand at the same time: then the claim,
\* which tests the fetched row, lets both send, and a late "waiting for phone"
\* puts a notice that was sent back into the queue.
ToldOnce == notices > 1 => shared

\* A row in "processing" is in the hands of a poller and a number being
\* looked up in those of the lookup, unless a holder was cut off from it, by a
\* stop, an exception or a lost write: no other interleaving of the pollers,
\* the lookup and the owner leaves them there, and nothing but their holder
\* takes them out of these states.
ClaimsHaveHolders ==
    /\ avr.notice = "processing" =>
          \/ \E p \in Processes : teller[p].at \in {"claimed", "accepted"}
          \/ "notice" \in cut
    /\ avr.phone = "resolving" => lookup.at = "looking" \/ "phone" \in cut

\* The one rescue met a busy tab: pending again, with every attempt used.
Stranded == avr.rescued /\ avr.phone = "pending" /\ avr.tries >= MaxAttempts

\* A decided request is settled: the customer is told, or the row is left to
\* manual handling, however long the lookup of the phone number takes, however
\* the pollers interleave with it, and whatever stops or fails before a claim;
\* unless a holder was cut off with the notice or the number in hand.
\* (Stranded: a late "waiting for phone" of another process can put a row back
\* into the queue that no lookup will take any more.)
DecidedIsSettled ==
    avr.status = "decided" ~> avr.notice \in Settled \/ cut # {} \/ Stranded
=============================================================================
