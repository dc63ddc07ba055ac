------------------------------ MODULE MissingInfo ------------------------------
(***************************************************************************)
(* One question of a customer that only the owner can answer               *)
(* (paMissingInfoRequestService.js, paMissingInfoOwnerNotifyService.js,    *)
(* paMissingInfoOwnerAnswerService.js): the owner is asked, answers or     *)
(* asks back, the customer explains, the owner is asked again, and the     *)
(* final answer goes to the customer.  Every step is a message's turn      *)
(* under the active-job lock, which a turn that takes longer than ten      *)
(* seconds loses to the next one; no update is a transaction, and one that *)
(* fails throws.                                                           *)
(***************************************************************************)
EXTENDS Naturals, FiniteSets

CONSTANTS
    Turns,        \* turns that can be in progress at once
    OwnerMsgs,    \* messages of the owner
    CustMsgs,     \* messages of the customer that explain the question
    MaxQuestions, \* bound: turns in which the customer asks
    MaxFailures,  \* bound: calls that fail or whose answer is lost
    MaxSteals,    \* bound: turns that lose the lock to another one
    MaxRestarts,  \* bound: restarts of the server
    NoMsg         \* null

ASSUME QuestionBounds ==
    /\ MaxQuestions \in Nat /\ MaxFailures \in Nat
    /\ MaxSteals \in Nat /\ MaxRestarts \in Nat
ASSUME MsgAssumption ==
    /\ NoMsg \notin OwnerMsgs \union CustMsgs
    /\ OwnerMsgs \intersect CustMsgs = {}

VARIABLES
    mi,       \* the paMissingInfoRequests document
    turn,     \* turn[t]: the handler of a message
    mail,     \* messages sent towards the owner; each has its number as id
    board,    \* those of them that reached the owner
    quoted,   \* quoted[o]: the message o replies to, 0 when it quotes none
    written,  \* messages the owner and the customer wrote
    inbox,    \* those of them that are to be handled
    questions, failures, steals, restarts,
    \* observation, read by properties only
    followups, \* final answers the customer received, at most
    dropped    \* a turn with the answer in hand was cut off from it

miVars == <<mi, turn, mail, board, quoted, written, inbox, questions, failures,
            steals, restarts, followups, dropped>>

PostAnswer == {"answered", "closed", "followup_failed"}
OpenForAnswer == {"open", "owner_notified"}
Open == OpenForAnswer \union {"awaiting", "failed"}

NoTurn == [at |-> "idle", msg |-> NoMsg, id |-> 0]

MiInit ==
    /\ mi = [status |-> "none",        \* none: there is no document yet
             notify |-> "not_started", \* ownerNotifyStatus
             wamid |-> 0,              \* ownerNotifyProviderMessageId
             answer |-> NoMsg,         \* ownerAnswerMessageId
             asked |-> NoMsg,          \* ownerClarificationMessageId
             unasked |-> FALSE,        \* ownerClarificationDeliveryError
             explained |-> NoMsg,      \* customerClarificationMessageId
             relay |-> "none",         \* ownerClarificationRelayStatus
             expired |-> FALSE]        \* expiresAt has passed
    /\ turn = [t \in Turns |-> NoTurn]
    /\ mail = 0 /\ board = {}
    /\ quoted = [o \in OwnerMsgs |-> 0] /\ written = {} /\ inbox = {}
    /\ questions = 0 /\ failures = 0 /\ steals = 0 /\ restarts = 0
    /\ followups = 0 /\ dropped = FALSE

Failure == failures < MaxFailures /\ failures' = failures + 1

Overlap == steals > 0

\* The answer is recorded, the turn that sends it has not stored its outcome.
HoldsAnswer(t) == turn[t].at \in {"composing", "followed", "unfollowed"}

\* The active-job lock: free, or taken from a turn that holds it too long.
Begins(t, at, msg) ==
    /\ turn[t].at = "idle"
    /\ IF \A u \in Turns : turn[u].at = "idle"
       THEN UNCHANGED steals
       ELSE steals < MaxSteals /\ steals' = steals + 1
    /\ turn' = [turn EXCEPT ![t] = [at |-> at, msg |-> msg, id |-> 0]]

Moves(t, at) == turn' = [turn EXCEPT ![t].at = at]
Ends(t) == turn' = [turn EXCEPT ![t] = NoTurn]

\* A message leaves for the owner and gets its id.
Mails(t, at) ==
    /\ mail' = mail + 1 /\ board' = board \union {mail + 1}
    /\ turn' = [turn EXCEPT ![t].at = at, ![t].id = mail + 1]

\* A send that is refused, or whose answer is lost after it reached the owner.
MailFails(t, at) ==
    /\ Failure
    /\ \/ mail' = mail + 1 /\ board' = board \union {mail + 1}
       \/ UNCHANGED <<mail, board>>
    /\ Moves(t, at)

-----------------------------------------------------------------------------
(* The customer asks.                                                      *)

\* createOrGetOpenPaMissingInfoRequest: an open request is used again, and one
\* whose owner is being asked, or was, is not sent again.
CustomerAsks(t) ==
    /\ questions < MaxQuestions /\ questions' = questions + 1
    /\ mi.status \in {"none"} \union Open /\ ~mi.expired
    /\ mi' = [mi EXCEPT !.status = IF @ = "none" THEN "open" ELSE @]
    /\ mi.notify \notin {"sending", "sent"}
    /\ Begins(t, "found", NoMsg)
    /\ UNCHANGED <<mail, board, quoted, written, inbox, failures, restarts, followups,
                   dropped>>

NoOwnerPhone(t) ==
    /\ turn[t].at = "found"
    /\ Failure
    /\ mi' = [mi EXCEPT !.status = "failed", !.notify = "failed"]
    /\ Ends(t)
    /\ UNCHANGED <<mail, board, quoted, written, inbox, questions, steals, restarts,
                   followups, dropped>>

NotifyStarted(t) ==
    /\ turn[t].at = "found"
    /\ mi' = [mi EXCEPT !.notify = "sending"]
    /\ Moves(t, "notifying")
    /\ UNCHANGED <<mail, board, quoted, written, inbox, questions, failures, steals,
                   restarts, followups, dropped>>

NotifySent(t) ==
    /\ turn[t].at = "notifying"
    /\ Mails(t, "notified")
    /\ UNCHANGED <<mi, quoted, written, inbox, questions, failures, steals, restarts,
                   followups, dropped>>

\* sendWhatsAppMessage answers ok: false and never throws; the handler takes
\* any answer for a success without an id.
NotifyRefused(t) ==
    /\ turn[t].at = "notifying"
    /\ MailFails(t, "notified")
    /\ UNCHANGED <<mi, quoted, written, inbox, questions, steals, restarts, followups,
                   dropped>>

\* Mutant: the id of the message to the owner is not stored.
NotifyStoredWithoutId(t) ==
    /\ turn[t].at = "notified"
    /\ mi' = [mi EXCEPT !.status = "owner_notified", !.notify = "sent"]
    /\ Ends(t)
    /\ UNCHANGED <<mail, board, quoted, written, inbox, questions, failures, steals,
                   restarts, followups, dropped>>

NotifyStored(t) ==
    /\ turn[t].at = "notified"
    /\ mi' = [mi EXCEPT !.status = "owner_notified", !.notify = "sent",
                        !.wamid = turn[t].id]
    /\ Ends(t)
    /\ UNCHANGED <<mail, board, quoted, written, inbox, questions, failures, steals,
                   restarts, followups, dropped>>

\* The update throws; a later question sends again.
NotifyStoreFails(t) ==
    /\ turn[t].at = "notified"
    /\ Failure
    /\ mi' = [mi EXCEPT !.notify = "failed"]
    /\ Ends(t)
    /\ UNCHANGED <<mail, board, quoted, written, inbox, questions, steals, restarts,
                   followups, dropped>>

-----------------------------------------------------------------------------
(* The owner replies.                                                      *)

OwnerWrites(o) ==
    /\ o \notin written /\ board # {}
    /\ \E n \in board \union {0} : quoted' = [quoted EXCEPT ![o] = n]
    /\ written' = written \union {o} /\ inbox' = inbox \union {o}
    /\ UNCHANGED <<mi, turn, mail, board, questions, failures, steals, restarts,
                   followups, dropped>>

\* The request a reply is about: the one whose last message it quotes, or, of
\* a reply without a quote, the only one that is notified.
Matches(o) ==
    IF quoted[o] # 0
    THEN mi.wamid = quoted[o]
    ELSE mi.status = "owner_notified" /\ mi.notify = "sent" /\ mi.wamid # 0 /\ ~mi.expired

\* What a reply is tested for before the model is asked what it is; one that
\* fails is answered by a hint to the owner, or not at all.
ReplyTaken(t, o) ==
    /\ o \in inbox /\ inbox' = inbox \ {o}
    /\ IF Matches(o) /\ mi.status \in OpenForAnswer /\ ~mi.expired
       THEN Begins(t, "classifying", o)
       ELSE UNCHANGED <<turn, steals>>
    /\ UNCHANGED <<mi, mail, board, quoted, written, questions, failures, restarts,
                   followups, dropped>>

\* The model's verdict, which a second run may not repeat.
Classified(t) ==
    /\ turn[t].at = "classifying"
    /\ Moves(t, "final") \/ Moves(t, "clarification") \/ Ends(t)
    /\ UNCHANGED <<mi, mail, board, quoted, written, inbox, questions, failures,
                   steals, restarts, followups, dropped>>

\* applyPaMissingInfoOwnerAnswer and ...OwnerClarification read the document
\* again and write it without a transaction.
MayApply == mi.status \in OpenForAnswer /\ ~mi.expired

AnswerRead(t) ==
    /\ turn[t].at = "final"
    /\ IF MayApply /\ mi.answer # turn[t].msg
       THEN Moves(t, "answering") ELSE Ends(t)
    /\ UNCHANGED <<mi, mail, board, quoted, written, inbox, questions, failures,
                   steals, restarts, followups, dropped>>

AnswerWritten(t) ==
    /\ turn[t].at = "answering"
    /\ mi' = [mi EXCEPT !.status = "answered", !.answer = turn[t].msg]
    /\ Moves(t, "composing")
    /\ UNCHANGED <<mail, board, quoted, written, inbox, questions, failures, steals,
                   restarts, followups, dropped>>

FollowupSent(t) ==
    /\ turn[t].at = "composing"
    /\ followups' = followups + 1
    /\ Moves(t, "followed")
    /\ UNCHANGED <<mi, mail, board, quoted, written, inbox, questions, failures,
                   steals, restarts, dropped>>

\* The model does not compose an answer, or the send fails, with the message
\* out or not.
FollowupFailed(t) ==
    /\ turn[t].at = "composing"
    /\ Failure
    /\ \E out \in {0, 1} : followups' = followups + out
    /\ Moves(t, "unfollowed")
    /\ UNCHANGED <<mi, mail, board, quoted, written, inbox, questions, steals,
                   restarts, dropped>>

\* Mutant: a follow-up that failed leaves the request as it is.
FollowupStoredIfSent(t) ==
    /\ turn[t].at \in {"followed", "unfollowed"}
    /\ mi' = [mi EXCEPT !.status = IF turn[t].at = "followed" THEN "closed" ELSE @]
    /\ Ends(t)
    /\ UNCHANGED <<mail, board, quoted, written, inbox, questions, failures, steals,
                   restarts, followups, dropped>>

\* Mutant: a follow-up that failed may be answered again.
FollowupStoredOpen(t) ==
    /\ turn[t].at \in {"followed", "unfollowed"}
    /\ mi' = [mi EXCEPT !.status =
                 IF turn[t].at = "followed" THEN "closed" ELSE "owner_notified"]
    /\ Ends(t)
    /\ UNCHANGED <<mail, board, quoted, written, inbox, questions, failures, steals,
                   restarts, followups, dropped>>

\* markPaMissingInfoCustomerFollowupSent and ...Failed, whatever the status is.
FollowupStored(t) ==
    /\ turn[t].at \in {"followed", "unfollowed"}
    /\ mi' = [mi EXCEPT !.status =
                 IF turn[t].at = "followed" THEN "closed" ELSE "followup_failed"]
    /\ Ends(t)
    /\ UNCHANGED <<mail, board, quoted, written, inbox, questions, failures, steals,
                   restarts, followups, dropped>>

\* The outcome of a sent follow-up is not written: the catch records a failure.
FollowupStoreFails(t) ==
    /\ turn[t].at = "followed"
    /\ Failure
    /\ Moves(t, "unfollowed")
    /\ UNCHANGED <<mi, mail, board, quoted, written, inbox, questions, steals, restarts,
                   followups, dropped>>

\* The owner's own question, once per message unless it was not delivered.
ClarificationRead(t) ==
    /\ turn[t].at = "clarification"
    /\ IF MayApply /\ (mi.asked # turn[t].msg \/ mi.unasked)
       THEN Moves(t, IF mi.asked = turn[t].msg THEN "asking" ELSE "clarifying")
       ELSE Ends(t)
    /\ UNCHANGED <<mi, mail, board, quoted, written, inbox, questions, failures,
                   steals, restarts, followups, dropped>>

ClarificationWritten(t) ==
    /\ turn[t].at = "clarifying"
    /\ mi' = [mi EXCEPT !.asked = turn[t].msg, !.unasked = FALSE]
    /\ Moves(t, "asking")
    /\ UNCHANGED <<mail, board, quoted, written, inbox, questions, failures, steals,
                   restarts, followups, dropped>>

ClarificationSent(t) ==
    /\ turn[t].at = "asking"
    /\ \/ Moves(t, "asked") /\ UNCHANGED failures
       \/ Moves(t, "unasked") /\ Failure
    /\ UNCHANGED <<mi, mail, board, quoted, written, inbox, questions, steals,
                   restarts, followups, dropped>>

\* Mutant: a status that none of the lists names.
ClarificationStoredUnlisted(t) ==
    /\ turn[t].at \in {"asked", "unasked"}
    /\ mi' = IF turn[t].at = "asked"
             THEN [mi EXCEPT !.status = "clarifying", !.explained = NoMsg, !.relay = "none"]
             ELSE [mi EXCEPT !.status = "owner_notified", !.unasked = TRUE]
    /\ Ends(t)
    /\ UNCHANGED <<mail, board, quoted, written, inbox, questions, failures, steals,
                   restarts, followups, dropped>>

\* markPaMissingInfoAwaitingCustomerClarification and
\* ...ClarificationDeliveryFailed, whatever the status is by now.
ClarificationStored(t) ==
    /\ turn[t].at \in {"asked", "unasked"}
    /\ mi' = IF turn[t].at = "asked"
             THEN [mi EXCEPT !.status = "awaiting", !.explained = NoMsg, !.relay = "none"]
             ELSE [mi EXCEPT !.status = "owner_notified", !.unasked = TRUE]
    /\ Ends(t)
    /\ UNCHANGED <<mail, board, quoted, written, inbox, questions, failures, steals,
                   restarts, followups, dropped>>

\* A question that was sent is not recorded: the catch records a failed
\* delivery.
ClarificationStoreFails(t) ==
    /\ turn[t].at = "asked"
    /\ Failure
    /\ Moves(t, "unasked")
    /\ UNCHANGED <<mi, mail, board, quoted, written, inbox, questions, steals, restarts,
                   followups, dropped>>

-----------------------------------------------------------------------------
(* The customer explains.                                                  *)

CustomerWrites(c) ==
    /\ c \notin written /\ mi.asked # NoMsg
    /\ written' = written \union {c} /\ inbox' = inbox \union {c}
    /\ UNCHANGED <<mi, turn, mail, board, quoted, questions, failures, steals,
                   restarts, followups, dropped>>

\* A message is an explanation while one is awaited; it is relayed once,
\* unless the relay failed.
ExplanationTaken(t, c) ==
    /\ c \in inbox /\ inbox' = inbox \ {c}
    /\ IF mi.status = "awaiting" /\ ~mi.expired
          /\ (mi.explained # c \/ mi.relay = "failed")
       THEN Begins(t, IF mi.explained = c THEN "relaying" ELSE "explaining", c)
       ELSE UNCHANGED <<turn, steals>>
    /\ UNCHANGED <<mi, mail, board, quoted, written, questions, failures, restarts,
                   followups, dropped>>

ExplanationWritten(t) ==
    /\ turn[t].at = "explaining"
    /\ mi' = [mi EXCEPT !.explained = turn[t].msg, !.relay = "none"]
    /\ Moves(t, "relaying")
    /\ UNCHANGED <<mail, board, quoted, written, inbox, questions, failures, steals,
                   restarts, followups, dropped>>

RelaySent(t) ==
    /\ turn[t].at = "relaying"
    /\ Mails(t, "relayed")
    /\ UNCHANGED <<mi, quoted, written, inbox, questions, failures, steals, restarts,
                   followups, dropped>>

RelayRefused(t) ==
    /\ turn[t].at = "relaying"
    /\ MailFails(t, "unrelayed")
    /\ UNCHANGED <<mi, quoted, written, inbox, questions, steals, restarts, followups,
                   dropped>>

\* markPaMissingInfoOwnerClarificationRelaySent and ...Failed, whatever the
\* status is by now.
RelayStored(t) ==
    /\ turn[t].at \in {"relayed", "unrelayed"}
    /\ mi' = IF turn[t].at = "relayed"
             THEN [mi EXCEPT !.status = "owner_notified", !.notify = "sent",
                             !.wamid = turn[t].id, !.relay = "sent"]
             ELSE [mi EXCEPT !.status = "awaiting", !.relay = "failed"]
    /\ Ends(t)
    /\ UNCHANGED <<mail, board, quoted, written, inbox, questions, failures, steals,
                   restarts, followups, dropped>>

-----------------------------------------------------------------------------
\* Two days pass.
Expires ==
    /\ mi.status # "none" /\ ~mi.expired
    /\ mi' = [mi EXCEPT !.expired = TRUE]
    /\ UNCHANGED <<turn, mail, board, quoted, written, inbox, questions, failures,
                   steals, restarts, followups, dropped>>

\* A read, an update or the composition throws and nothing in the handler
\* catches it, the update in its catch block included: the document stays as it
\* is, and the message may be handled again.
TurnThrows(t) ==
    /\ turn[t].at # "idle"
    /\ Failure
    /\ \E again \in SUBSET (written \intersect {turn[t].msg}) : inbox' = inbox \union again
    /\ dropped' = (dropped \/ HoldsAnswer(t))
    /\ Ends(t)
    /\ UNCHANGED <<mi, mail, board, quoted, written, questions, steals, restarts,
                   followups>>

\* The turns are gone; the rows of messages not marked done, the owner's
\* among them whatever became of them, are handled again.
ServerRestarts ==
    /\ restarts < MaxRestarts /\ restarts' = restarts + 1
    /\ turn' = [t \in Turns |-> NoTurn]
    /\ \E again \in SUBSET written : inbox' = inbox \union again
    /\ dropped' = (dropped \/ \E t \in Turns : HoldsAnswer(t))
    /\ UNCHANGED <<mi, mail, board, quoted, written, questions, failures, steals,
                   followups>>

TurnStep(t) ==
    \/ NoOwnerPhone(t) \/ NotifyStarted(t) \/ NotifySent(t)
    \/ NotifyRefused(t) \/ NotifyStored(t) \/ NotifyStoreFails(t)
    \/ Classified(t) \/ AnswerRead(t) \/ AnswerWritten(t)
    \/ FollowupSent(t) \/ FollowupFailed(t) \/ FollowupStored(t)
    \/ FollowupStoreFails(t) \/ ClarificationStoreFails(t) \/ TurnThrows(t)
    \/ ClarificationRead(t) \/ ClarificationWritten(t) \/ ClarificationSent(t)
    \/ ClarificationStored(t)
    \/ ExplanationWritten(t) \/ RelaySent(t) \/ RelayRefused(t) \/ RelayStored(t)

MiNext ==
    \/ \E t \in Turns :
          \/ CustomerAsks(t) \/ TurnStep(t)
          \/ \E o \in OwnerMsgs : ReplyTaken(t, o)
          \/ \E c \in CustMsgs : ExplanationTaken(t, c)
    \/ \E o \in OwnerMsgs : OwnerWrites(o)
    \/ \E c \in CustMsgs : CustomerWrites(c)
    \/ Expires \/ ServerRestarts

MiSpec == MiInit /\ [][MiNext]_miVars

-----------------------------------------------------------------------------
Steps == {"found", "notifying", "notified", "classifying", "final",
          "answering", "composing", "followed", "unfollowed", "clarification",
          "clarifying", "asking", "asked", "unasked", "explaining", "relaying",
          "relayed", "unrelayed"}

\* Every variable keeps its type.
MiTypeOK ==
    /\ mi \in [status : {"none"} \union Open \union PostAnswer,
               notify : {"not_started", "sending", "sent", "failed"},
               wamid : Nat, answer : OwnerMsgs \union {NoMsg},
               asked : OwnerMsgs \union {NoMsg}, unasked : BOOLEAN,
               explained : CustMsgs \union {NoMsg},
               relay : {"none", "sent", "failed"}, expired : BOOLEAN]
    /\ turn \in [Turns -> [at : Steps \union {"idle"},
                           msg : OwnerMsgs \union CustMsgs \union {NoMsg}, id : Nat]]
    /\ mail \in Nat /\ board \subseteq 1..mail
    /\ quoted \in [OwnerMsgs -> Nat]
    /\ written \subseteq OwnerMsgs \union CustMsgs /\ inbox \subseteq written
    /\ questions \in 0..MaxQuestions /\ failures \in 0..MaxFailures
    /\ steals \in 0..MaxSteals /\ restarts \in 0..MaxRestarts
    /\ followups \in Nat /\ dropped \in BOOLEAN

\* An answered request never sends the customer an answer again
\* (PA_MISSING_INFO_POST_ANSWER_STATUSES), however often the owner's messages
\* are handled and whatever the model makes of them, as long as no turn loses
\* the lock to another.
FollowupOnce == Overlap \/ followups <= 1

\* When nothing fails or restarts, an unanswered request is never left where
\* nobody can answer it: between turns, it awaits the customer, or names a
\* message the owner has.
NeverStranded ==
    \/ failures > 0 \/ restarts > 0
    \/ \E t \in Turns : turn[t].at # "idle"
    \/ mi.status \in PostAnswer \union {"none", "awaiting"}
    \/ mi.status = "owner_notified" /\ mi.notify = "sent" /\ mi.wamid \in board

\* An answer is recorded before it is sent and never taken up again: as long
\* as the request says "answered", the turn that recorded it, or another one
\* that answers, is still at it, unless a restart or an exception that nothing
\* catches cut such a turn off; also while turns take the lock from each other
\* and store their outcomes over each other's.
AnswerInHand ==
    mi.status = "answered" => dropped \/ \E t \in Turns : HoldsAnswer(t)
=============================================================================
