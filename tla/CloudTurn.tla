------------------------------- MODULE CloudTurn -------------------------------
(***************************************************************************)
(* One inbound Cloud API direct message, from its webhook deliveries to    *)
(* the reply or the manual-review alert.  Several pipeline runs            *)
(* (executeWhatsAppAiPipeline) can be alive for the same turn: webhook     *)
(* redeliveries, the in-memory retry timer, the drained message queue and  *)
(* the startup recovery sweep all enter it.  Node runs one piece of code   *)
(* at a time, so a step of this module is what a run does between two      *)
(* awaits; everything except the ledger row is lost in a crash.            *)
(*                                                                         *)
(* The global active-job lock is shared with all other conversations, so   *)
(* whether it is held is an input here (GatePasses or GateQueues); its own *)
(* protocol is the module ActiveJob.                                       *)
(***************************************************************************)
EXTENDS InboundTurnLedger, Sequences

CONSTANTS
    MaxDeliveries,  \* bound: webhook deliveries of the same message
    MaxCrashes,     \* bound: process restarts
    Dead            \* owner of a send claim whose run died: no live run has it

ASSUME OwnersAssumption == Owners = 1..MaxDeliveries
ASSUME BoundAssumption == MaxDeliveries \in Nat /\ MaxCrashes \in Nat
ASSUME DeadAssumption == Dead \in Senders

Runs == Senders \ {Dead}

VARIABLES
    \* the implementation
    entry,      \* the ledger row (durable)
    pc,         \* pc[r]: the await run r is suspended at
    job,        \* job[r]: the payload run r was started with
    view,       \* view[r]: what r read or computed before its await
    queue,      \* globalThis.__messageQueue, the payloads of this turn
    timer,      \* pendingCloudRetryTimersByGuarantee, this turn's payload
    sweep,      \* the startup sweep's timer: scheduled queue status, or "off"
    \* the environment
    deliveries, \* webhook deliveries so far
    crashes,    \* restarts so far
    \* observation of the provider, read by properties only
    accepted,    \* accepted[r]: Meta accepted the request r is waiting for
    started,     \* send requests started
    refused,     \* send requests that returned ok:false to their caller
    misreported, \* those of them whose message Meta had accepted
    outbox       \* the texts Meta accepted, in order

procVars == <<pc, job, view>>
volatile == <<pc, job, view, queue, timer, sweep>>
envVars  == <<deliveries, crashes>>
verdicts == <<refused, misreported>>
obsVars  == <<accepted, started, verdicts, outbox>>
vars     == <<entry, pc, job, view, queue, timer, sweep,
              deliveries, crashes, accepted, started, refused, misreported, outbox>>

Payloads == [owner : Owners, resume : BOOLEAN, token : BOOLEAN]

NoPayload == [owner |-> None, resume |-> FALSE, token |-> FALSE]

PCs == {"idle", "creds", "lookup", "preflight", "ownership", "lane", "ready",
        "claimed", "sending", "resend", "sweep_resend", "failing"}

NoView == [text |-> None, snap |-> NoEntry]

-----------------------------------------------------------------------------
Init ==
    /\ entry = NoEntry
    /\ pc = [r \in Runs |-> "idle"]
    /\ job = [r \in Runs |-> NoPayload]
    /\ view = [r \in Runs |-> NoView]
    /\ queue = <<>>
    /\ timer = NoPayload
    /\ sweep = "off"
    /\ deliveries = 0
    /\ crashes = 0
    /\ accepted = [r \in Runs |-> FALSE]
    /\ started = 0
    /\ refused = 0
    /\ misreported = 0
    /\ outbox = <<>>

\* Run r ends: the slot is free for the next run.
Ends(r) ==
    /\ pc' = [pc EXCEPT ![r] = "idle"]
    /\ job' = [job EXCEPT ![r] = NoPayload]
    /\ view' = [view EXCEPT ![r] = NoView]

\* Run r suspends at await label a.
Awaits(r, a) == pc' = [pc EXCEPT ![r] = a]

\* Mutant: the retry bound is off by one.
ScheduleRetryOffByOne(owner, retryCount, paused) ==
    timer' = IF timer # NoPayload \/ retryCount >= MaxRetryCount \/ paused
             THEN timer
             ELSE [owner |-> owner, resume |-> TRUE, token |-> FALSE]

\* scheduleCloudPostConfirmRetry: one timer per guarantee, bounded retries.
ScheduleRetry(owner, retryCount, paused) ==
    timer' = IF timer # NoPayload \/ retryCount > MaxRetryCount \/ paused
             THEN timer
             ELSE [owner |-> owner, resume |-> TRUE, token |-> FALSE]

\* catch block of the pipeline and of its lookups: durable retry bookkeeping,
\* then the retry timer; the run ends.
FailsRetryably(r, paused) ==
    /\ entry' = RetryableFailure(entry, paused)
    /\ ScheduleRetry(job[r].owner, entry'.retryCount, paused)
    /\ Ends(r)

-----------------------------------------------------------------------------
(* tryRecoverCloudOutboundLockedTurn on the row e the caller holds: e may  *)
(* be older than the ledger's row when the caller awaited in between.      *)

RecoversWithoutSend(r, e) ==
    /\ \/ ClassifyLocked(e) # "resume_send"
       \/ ~MayClaimSend(entry, r)
    /\ entry' = CASE ClassifyLocked(e) = "complete_ledger" -> MarkSent(entry)
                  [] ClassifyLocked(e) = "uncertain_fail_closed" ->
                       MarkUncertain(entry)
                  [] ClassifyLocked(e) = "corrupted_locked_reply" ->
                       TerminalFailure(entry, entry.retryCount)
                  [] OTHER -> entry
    /\ Ends(r)
    /\ UNCHANGED <<accepted, started>>

RecoversWithSend(r, e, p, label) ==
    /\ ClassifyLocked(e) = "resume_send"
    /\ MayClaimSend(entry, r)
    /\ entry' = MarkInFlight(ClaimSend(entry, r), r)
    /\ Awaits(r, label)
    /\ job' = [job EXCEPT ![r] = p]
    /\ view' = [view EXCEPT ![r] = [text |-> e.reply, snap |-> e]]
    /\ accepted' = [accepted EXCEPT ![r] = FALSE]
    /\ started' = started + 1

RecoverLocked(r, e, p, label) ==
    \/ RecoversWithoutSend(r, e)
    \/ RecoversWithSend(r, e, p, label)

\* Start of executeWhatsAppAiPipeline up to its first await: the provisional
\* claim decides whether the run proceeds.
BeginTurn(r, p) ==
    \/ /\ ClaimAction(entry, p) = "process"
       /\ entry' = ClaimTurn(entry, p)
       /\ Awaits(r, "lookup")
       /\ job' = [job EXCEPT ![r] = p]
       /\ view' = [view EXCEPT ![r] = NoView]
       /\ UNCHANGED <<accepted, started>>
    \/ /\ ClaimAction(entry, p) \in {"done", "processing", "terminal"}
       /\ Ends(r)
       /\ UNCHANGED <<entry, accepted, started>>
    \/ /\ ClaimAction(entry, p) = "outbound_locked"
       /\ RecoverLocked(r, entry, p, "resend")

-----------------------------------------------------------------------------
(* What starts a run.                                                      *)

\* Meta delivers the webhook, possibly again.  A run without a claim owner
\* draws a fresh uuid: the number of the delivery.
Deliver(r) ==
    /\ pc[r] = "idle"
    /\ deliveries < MaxDeliveries
    /\ deliveries' = deliveries + 1
    /\ BeginTurn(r, [owner |-> deliveries + 1, resume |-> FALSE,
                     token |-> FALSE])
    /\ UNCHANGED <<queue, timer, sweep, crashes, verdicts, outbox>>

TimerFires(r) ==
    /\ pc[r] = "idle"
    /\ timer # NoPayload
    /\ timer' = NoPayload
    /\ BeginTurn(r, timer)
    /\ UNCHANGED <<queue, sweep, envVars, verdicts, outbox>>

\* The finally block of some pipeline run shifted this payload off the queue.
DrainQueue(r) ==
    /\ pc[r] = "idle"
    /\ queue # <<>>
    /\ queue' = Tail(queue)
    /\ BeginTurn(r, Head(queue))
    /\ UNCHANGED <<timer, sweep, envVars, verdicts, outbox>>

\* A sweep timer checks the row it was scheduled for against the queue status
\* it saw when it was scheduled.
SweepDrops(status) ==
    \/ entry.state = "done"
    \/ status = "queued" /\ ~(entry.state = "processing" /\ entry.queue = status)
    \/ status = "resuming" /\ ~(entry.state = "processing" /\ entry.queue = status)
    \/ /\ status = "retryable"
       /\ ~(entry.state = "failed" /\ entry.queue = status /\ entry.autoRetry)

\* A fresh resuming lease only re-arms the sweep timer.
SweepDefers(status) == status = "resuming" /\ entry.procFresh

SweepDiscards ==
    /\ sweep # "off"
    /\ SweepDrops(sweep)
    /\ sweep' = "off"
    /\ UNCHANGED <<entry, procVars, queue, timer, envVars, obsVars>>

\* The sweep keeps the row it just read and awaits the owner's credentials.
SweepFires(r) ==
    /\ pc[r] = "idle"
    /\ sweep # "off"
    /\ ~SweepDrops(sweep)
    /\ ~SweepDefers(sweep)
    /\ sweep' = "off"
    /\ Awaits(r, "creds")
    /\ view' = [view EXCEPT ![r] = [text |-> None, snap |-> entry]]
    /\ UNCHANGED <<entry, job, queue, timer, envVars, obsVars>>

\* Mutant: only the queue marker's owner is resumed.
SweepPayloadQueueOwner(e) ==
    [owner |-> e.queueOwner, resume |-> TRUE, token |-> e.queue = "queued"]

\* buildPipelinePayload on the row read before the await.
SweepPayload(e) ==
    LET queued == e.queue \in {"queued", "resuming", "retryable"} IN
    [ owner  |-> IF queued THEN e.queueOwner
                 ELSE IF e.origOwner # None THEN e.origOwner ELSE e.procOwner,
      resume |-> TRUE,
      token  |-> e.queue = "queued" ]

SweepResumes(r) ==
    /\ pc[r] = "creds"
    /\ LET e == view[r].snap IN
       \/ /\ e.state = "outbound_locked"
          /\ RecoverLocked(r, e, SweepPayload(e), "sweep_resend")
       \/ /\ e.state # "outbound_locked"
          /\ BeginTurn(r, SweepPayload(e))
    /\ UNCHANGED <<queue, timer, sweep, envVars, verdicts, outbox>>

\* No credentials for the business: the recovery of this row is given up.
SweepLacksCredentials(r) ==
    /\ pc[r] = "creds"
    /\ Ends(r)
    /\ UNCHANGED <<entry, queue, timer, sweep, envVars, obsVars>>

-----------------------------------------------------------------------------
(* A claimed run, await by await.                                          *)

LookupFails(r) ==
    /\ pc[r] = "lookup"
    /\ FailsRetryably(r, FALSE)
    /\ UNCHANGED <<queue, sweep, envVars, obsVars>>

\* The active job is free (or was force-released): the run takes it.
GatePasses(r) ==
    /\ pc[r] = "lookup"
    /\ Awaits(r, "preflight")
    /\ UNCHANGED <<entry, job, view, queue, timer, sweep, envVars, obsVars>>

\* The active job is held: mark the row queued and park the payload with its
\* single-use token; without the lease the marker fails and the run retries.
GateQueues(r) ==
    /\ pc[r] = "lookup"
    /\ IF MayMarkQueued(entry, job[r].owner)
       THEN /\ entry' = MarkQueued(entry, job[r].owner)
            /\ queue' = Append(queue, [owner |-> job[r].owner, resume |-> TRUE,
                                       token |-> TRUE])
            /\ Ends(r)
            /\ UNCHANGED timer
       ELSE FailsRetryably(r, FALSE) /\ UNCHANGED queue
    /\ UNCHANGED <<sweep, envVars, obsVars>>

\* Same text answered in this session within REPLY_DEDUPE_WINDOW_MS: a run
\* that is not a resume returns and leaves the row in processing.
DuplicateInbound(r) ==
    /\ pc[r] = "lookup"
    /\ ~job[r].resume
    /\ Ends(r)
    /\ UNCHANGED <<entry, queue, timer, sweep, envVars, obsVars>>

\* The message was an owner's answer to a missing-info question: handled
\* without outbound.  Only a resumed run that found a confirmed reply to
\* recover marks the row done here; any other leaves it in processing.
OwnerAnswerHandled(r) ==
    /\ pc[r] = "preflight"
    /\ \/ UNCHANGED entry
       \/ job[r].resume /\ entry' = MarkSilentDone(entry)
    /\ Ends(r)
    /\ UNCHANGED <<queue, timer, sweep, envVars, obsVars>>

\* Lane of a scope (deriveCloudSemanticOwnershipLane).
Lane(s) ==
    CASE s = "PENDING_AVAILABILITY_REFERENCE" -> "waiting_confirm_dm"
      [] s = "OLD_BOOKING_REFERENCE"          -> "post_confirm_pa"
      [] OTHER                                -> "normal_routing"

\* Enter the lane of scope s with row e: normal routing claims it at once.
EntersLane(r, e) ==
    /\ entry' = IF Lane(e.scope) = "normal_routing" THEN MarkLaneOwned(e) ELSE e
    /\ Awaits(r, "lane")
    /\ view' = [view EXCEPT ![r].snap = e]
    /\ UNCHANGED <<job, timer>>

\* An accepted scope is reused; otherwise the ownership model is called.
AskOwnership(r) ==
    /\ pc[r] = "preflight"
    /\ \/ entry.scope # None /\ EntersLane(r, entry)
       \/ /\ entry.scope = None
          /\ Awaits(r, "ownership")
          /\ UNCHANGED <<entry, job, view, timer>>
    /\ UNCHANGED <<queue, sweep, envVars, obsVars>>

\* Mutant: the last decision wins.
OwnershipDecidedLastWins(r, s) ==
    /\ pc[r] = "ownership"
    /\ EntersLane(r, [entry EXCEPT !.scope = s])
    /\ UNCHANGED <<queue, sweep, envVars, obsVars>>

\* The model's scope is persisted once; a contradiction with a scope another
\* run persisted meanwhile throws.
OwnershipDecided(r, s) ==
    /\ pc[r] = "ownership"
    /\ IF DecisionContradicts(entry, s)
       THEN FailsRetryably(r, FALSE)
       ELSE EntersLane(r, PersistDecision(entry, s))
    /\ UNCHANGED <<queue, sweep, envVars, obsVars>>

OwnershipFails(r) ==
    /\ pc[r] = "ownership"
    /\ FailsRetryably(r, FALSE)
    /\ UNCHANGED <<queue, sweep, envVars, obsVars>>

\* Unusable model output: the fixed technical-recovery reply is sent, no scope
\* is persisted and the queue marker stays.
OwnershipUnusable(r, text) ==
    /\ pc[r] = "ownership"
    /\ Awaits(r, "ready")
    /\ view' = [view EXCEPT ![r].text = text]
    /\ UNCHANGED <<entry, job, queue, timer, sweep, envVars, obsVars>>

\* The lane's service produced a reply.  The waiting-confirm service sends its
\* own messages, so it never hands a reply to the pipeline.
LaneReplies(r, text) ==
    /\ pc[r] = "lane"
    /\ Lane(view[r].snap.scope) # "waiting_confirm_dm"
    /\ entry' = IF Lane(view[r].snap.scope) = "post_confirm_pa"
                THEN MarkLaneOwned(entry) ELSE entry
    /\ Awaits(r, "ready")
    /\ view' = [view EXCEPT ![r].text = text]
    /\ UNCHANGED <<job, queue, timer, sweep, envVars, obsVars>>

\* Handled without a reply: the row is done and nothing is sent.
LaneSilent(r) ==
    /\ pc[r] = "lane"
    /\ entry' = MarkSilentDone(IF Lane(view[r].snap.scope) = "post_confirm_pa"
                               THEN MarkLaneOwned(entry) ELSE entry)
    /\ Ends(r)
    /\ UNCHANGED <<queue, timer, sweep, envVars, obsVars>>

\* The lane throws.  Model-contract failures of the post-confirm lane pause
\* automatic retries (CLOUD_POST_CONFIRM_AUTO_RETRY is off by default).
LaneFails(r, paused) ==
    /\ pc[r] = "lane"
    /\ paused => Lane(view[r].snap.scope) = "post_confirm_pa"
    /\ FailsRetryably(r, paused)
    /\ UNCHANGED <<queue, sweep, envVars, obsVars>>

-----------------------------------------------------------------------------
(* The reply leaves.                                                       *)

\* Lock the row with the reply and claim the send, up to the await between
\* the claim and the in-flight mark.  A failed claim is caught, releases
\* nothing it does not own, and the turn fails after the next await.
LockReply(r) ==
    /\ pc[r] = "ready"
    /\ LET locked == LockOutbound(entry, view[r].text) IN
       IF MayClaimSend(locked, r)
       THEN entry' = ClaimSend(locked, r) /\ Awaits(r, "claimed")
       ELSE entry' = ReleaseSend(locked, r, FALSE) /\ Awaits(r, "failing")
    /\ UNCHANGED <<job, view, queue, timer, sweep, envVars, obsVars>>

\* A message with the same text was answered in this session within the
\* dedupe window: nothing is sent and the turn fails.
DuplicateSend(r) ==
    /\ pc[r] = "ready"
    /\ FailsRetryably(r, FALSE)
    /\ UNCHANGED <<queue, sweep, envVars, obsVars>>

\* The in-flight mark's result is not looked at: the request starts anyway.
StartSend(r) ==
    /\ pc[r] = "claimed"
    /\ entry' = MarkInFlight(entry, r)
    /\ Awaits(r, "sending")
    /\ accepted' = [accepted EXCEPT ![r] = FALSE]
    /\ started' = started + 1
    /\ UNCHANGED <<job, view, queue, timer, sweep, envVars, verdicts, outbox>>

InRequest(r) == pc[r] \in {"sending", "resend", "sweep_resend"}

\* The provider takes the message.
ProviderAccepts(r) ==
    /\ InRequest(r)
    /\ ~accepted[r]
    /\ accepted' = [accepted EXCEPT ![r] = TRUE]
    /\ outbox' = Append(outbox, view[r].text)
    /\ UNCHANGED <<entry, volatile, envVars, started, verdicts>>

SendSucceeds(r) ==
    /\ InRequest(r)
    /\ accepted[r]
    /\ entry' = MarkSent(entry)
    /\ Ends(r)
    /\ UNCHANGED <<queue, timer, sweep, envVars, obsVars>>

\* ok:false.  sendWhatsAppMessage turns a lost response into ok:false too, and
\* a reply with images is ok:false when only a later part failed.
SendRefused(r) ==
    /\ InRequest(r)
    /\ refused' = refused + 1
    /\ misreported' = misreported + IF accepted[r] THEN 1 ELSE 0
    /\ LET released == ReleaseSend(entry, r, TRUE)
           failed   == RetryableFailure(released, FALSE)
       IN CASE pc[r] = "sending" ->
                 /\ entry' = released
                 /\ Awaits(r, "failing")
                 /\ UNCHANGED <<job, view, timer, sweep>>
            [] pc[r] = "resend" ->
                 /\ entry' = failed
                 /\ ScheduleRetry(job[r].owner, failed.retryCount, FALSE)
                 /\ Ends(r)
                 /\ UNCHANGED sweep
            [] pc[r] = "sweep_resend" ->
                 /\ entry' = failed
                 /\ sweep' = IF failed.retryCount \in 1..(MaxRetryCount - 1)
                             THEN view[r].snap.queue ELSE "off"
                 /\ Ends(r)
                 /\ UNCHANGED timer
    /\ UNCHANGED <<queue, envVars, accepted, started, outbox>>

\* Mutant: an exception releases the claim as if the provider had refused.
SendThrowsReleases(r) ==
    /\ InRequest(r)
    /\ entry' = ReleaseSend(entry, r, TRUE)
    /\ Awaits(r, "failing")
    /\ UNCHANGED <<job, view, queue, timer, sweep, envVars, obsVars>>

\* The send throws: the pipeline keeps the intent, the recovery asks for
\* manual review.
SendThrows(r) ==
    /\ InRequest(r)
    /\ \/ /\ pc[r] = "sending"
          /\ entry' = ReleaseSend(entry, r, FALSE)
          /\ Awaits(r, "failing")
          /\ UNCHANGED <<job, view>>
       \/ /\ pc[r] # "sending"
          /\ entry' = MarkUncertain(entry)
          /\ Ends(r)
    /\ UNCHANGED <<queue, timer, sweep, envVars, obsVars>>

\* "outbound_not_delivered", thrown after the message log was awaited.
FailTurn(r) ==
    /\ pc[r] = "failing"
    /\ FailsRetryably(r, FALSE)
    /\ UNCHANGED <<queue, sweep, envVars, obsVars>>

-----------------------------------------------------------------------------
(* Time and crashes.                                                       *)

\* PROCESSING_STALE_MS (at least 30 s) passes since the claim.  A retry timer
\* waits 8 s at most, and a failure arms it only after it dropped the lease: one
\* that is pending now was armed before the claim and fires before the lapse.
\* A sweep waits 30 s at most for a row that was not queued or resuming at the
\* restart; such a row had no fresh lease then, so this claim came after it.
ProcessingLeaseLapses ==
    /\ entry.procFresh
    /\ timer = NoPayload
    /\ sweep \in {"off", "queued", "resuming"}
    /\ entry' = [entry EXCEPT !.procFresh = FALSE]
    /\ UNCHANGED <<volatile, envVars, obsVars>>

\* RECOVERY_CLAIM_TTL_MS passes.  A live claim is at most one dynamic import
\* of a loaded module away from its in-flight mark, so it does not lapse.
SendLeaseLapses ==
    /\ entry.sendFresh
    /\ \A r \in Runs : pc[r] # "claimed"
    /\ entry' = [entry EXCEPT !.sendFresh = FALSE]
    /\ UNCHANGED <<volatile, envVars, obsVars>>

\* The process dies and restarts: the row survives, one sweep is scheduled
\* for it if it is recoverable.
CrashRestart ==
    /\ crashes < MaxCrashes
    /\ crashes' = crashes + 1
    /\ pc' = [r \in Runs |-> "idle"]
    /\ job' = [r \in Runs |-> NoPayload]
    /\ view' = [r \in Runs |-> NoView]
    /\ queue' = <<>>
    /\ timer' = NoPayload
    /\ sweep' = IF Recoverable(entry) THEN entry.queue ELSE "off"
    /\ entry' = [entry EXCEPT !.sendOwner = IF @ = None THEN None ELSE Dead]
    /\ UNCHANGED <<deliveries, obsVars>>

-----------------------------------------------------------------------------
RunStep(r) ==
    \/ LookupFails(r) \/ GatePasses(r) \/ GateQueues(r) \/ DuplicateInbound(r)
    \/ OwnerAnswerHandled(r) \/ AskOwnership(r)
    \/ \E s \in Scopes : OwnershipDecided(r, s)
    \/ OwnershipFails(r)
    \/ \E t \in Replies : OwnershipUnusable(r, t) \/ LaneReplies(r, t)
    \/ LaneSilent(r)
    \/ \E paused \in BOOLEAN : LaneFails(r, paused)
    \/ LockReply(r) \/ DuplicateSend(r) \/ StartSend(r)
    \/ SendSucceeds(r) \/ SendRefused(r) \/ SendThrows(r) \/ FailTurn(r)
    \/ SweepResumes(r) \/ SweepLacksCredentials(r)

RunStart(r) == Deliver(r) \/ TimerFires(r) \/ DrainQueue(r) \/ SweepFires(r)

Next ==
    \/ \E r \in Runs : RunStep(r) \/ RunStart(r) \/ ProviderAccepts(r)
    \/ SweepDiscards
    \/ ProcessingLeaseLapses
    \/ SendLeaseLapses
    \/ CrashRestart

Spec == Init /\ [][Next]_vars

\* Every await of a run settles and an armed timer fires.  Nothing makes Meta
\* accept, a lease lapse, or another conversation's run drain the queue.
Fairness ==
    /\ \A r \in Runs : WF_vars(RunStep(r))
    /\ WF_vars(\E r \in Runs : TimerFires(r))

FairSpec == Spec /\ Fairness

-----------------------------------------------------------------------------
(* Properties.                                                             *)

\* Every variable keeps its type; a payload in a queue or timer has an owner.
TypeOK ==
    /\ entry \in Entries
    /\ pc \in [Runs -> PCs]
    /\ job \in [Runs -> Payloads \union {NoPayload}]
    /\ view \in [Runs -> [text : Replies \union {None}, snap : Entries]]
    /\ queue \in Seq(Payloads)
    /\ timer \in Payloads \union {NoPayload}
    /\ sweep \in QueueStatuses \union {"off"}
    /\ deliveries \in 0..MaxDeliveries
    /\ crashes \in 0..MaxCrashes
    /\ accepted \in [Runs -> BOOLEAN]
    /\ started \in Nat
    /\ refused \in Nat
    /\ misreported \in Nat
    /\ outbox \in Seq(Replies)

\* A second request to the provider starts only after an ok:false verdict on
\* the one before: no redelivery, retry, drained message, recovery sweep or
\* restart starts one while a verdict is open, lost in a crash, or positive.
SendLicence == started <= refused + 1

\* The customer gets a second message only if the provider's verdict denied
\* one it had accepted.
DeliveryLicence == Len(outbox) <= misreported + 1

\* Two runs never wait for the provider about this turn at the same time,
\* though several can be working on the same reply.
OneSendAtATime ==
    \A q, r \in Runs : InRequest(q) /\ InRequest(r) => q = r

\* Every run that executes a lane executes that of the scope in the ledger,
\* also when another run's decision was persisted while it asked the model.
LaneFollowsDecision ==
    \A r \in Runs : pc[r] = "lane" =>
        entry.scope # None /\ view[r].snap.scope = entry.scope

\* A row that says the reply was sent is one whose customer has it.
ReplySentMeansDelivered == entry.replySent => outbox # <<>>

\* With the request in flight and nobody left waiting for its verdict (a
\* crash, an exception), no step of any run sends again or frees the row for
\* a send.
UncertainNeverResent ==
    [][ /\ entry.intent = "send_in_flight"
        /\ \A r \in Runs : ~InRequest(r)
        => started' = started /\ entry'.intent \in SendStarted ]_vars

Stage == CASE entry.state = "outbound_locked" -> "committed"
           [] entry.state = "done"            -> "done"
           [] OTHER                           -> "working"

Promise == INSTANCE DeliveryPromise WITH stage <- Stage

\* The turn implements the promise: see DeliveryPromise.
KeepsPromise == Promise!Spec

\* Without a restart, a failed turn that may be retried is retried, or gives
\* up with an alert: no failure path forgets to arm the timer, and no timer's
\* run is turned away by the ledger.
FailedTurnIsRetried ==
    (entry.state = "failed" /\ entry.autoRetry)
        ~> (entry.state # "failed" \/ entry.terminal \/ crashes > 0)

\* Without a restart, a committed reply is settled: sent, handed to a person,
\* or refused by the provider until the retries are used up.
CommittedReplyIsSettled ==
    (entry.state = "outbound_locked")
        ~> \/ entry.state = "done"
           \/ entry.alert
           \/ entry.retryCount > MaxRetryCount
           \/ crashes > 0

-----------------------------------------------------------------------------
(* Statements of the repository that the code does not keep.               *)

\* Recovery's residual limitation is at most one message per turn
\* (cloudInboundRecovery.js: "do not blind-resend", "at_most_once_...").
AtMostOneMessage == Len(outbox) <= 1

\* "Live non-stale processing leases cannot be stolen by recovery or
\* duplicates." (claimCloudInboundTurn)
LiveLeaseNotStolen ==
    [][ entry.state = "processing" /\ entry.procFresh
            /\ entry'.state = "processing"
        => entry'.procOwner = entry.procOwner ]_vars

\* The startup listing keeps every locked row so as to "not drop
\* pending_send": the sweep it schedules looks at such a row.
LockedRowNotDropped ==
    [][ sweep # "off" /\ entry.state = "outbound_locked" /\ sweep' = "off"
            /\ crashes' = crashes
        => \E r \in Runs : pc[r] = "idle" /\ pc'[r] = "creds" ]_vars
=============================================================================
