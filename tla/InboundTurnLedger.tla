--------------------------- MODULE InboundTurnLedger ---------------------------
(***************************************************************************)
(* The durable inbound turn ledger, src/services/inboundTurnLedger.js, for *)
(* one Cloud API turn.  An entry is the JSON row the ledger keeps under    *)
(* chatKey::stableId; each exported function of the module that changes a  *)
(* row is an operator from the old row (and its arguments) to the new one. *)
(* Every such function writes the whole file before it returns, so a row   *)
(* is durable at each step and the operators need no separate "save".      *)
(*                                                                         *)
(* Wall-clock comparisons are booleans of the row: procFresh stands for    *)
(* now - processingAt <= PROCESSING_STALE_MS and sendFresh for             *)
(* now - recoveryClaimedAt <= RECOVERY_CLAIM_TTL_MS.                       *)
(***************************************************************************)
EXTENDS Naturals

CONSTANTS
    Owners,         \* claim owners of processing leases (cloud-claim:<uuid>)
    Senders,        \* claim owners of outbound sends (cloud-send:<traceId>)
    Scopes,         \* accepted semantic turn scopes
    Replies,        \* final reply texts
    MaxRetryCount,  \* the maxRetryCount default of the ledger (5 in the code)
    None            \* null

ASSUME NoneAssumption ==
    /\ None \notin Owners
    /\ None \notin Senders
    /\ None \notin Scopes
    /\ None \notin Replies
ASSUME RetryAssumption == MaxRetryCount \in Nat \ {0}

States == {"absent", "processing", "done", "failed", "outbound_locked"}

Intents == {"none", "pending_send", "send_claimed", "send_in_flight",
            "provider_accepted"}

QueueStatuses == {"none", "queued", "resuming", "retryable", "terminal"}

Entries ==
    [ state      : States,
      procOwner  : Owners \union {None},
      procFresh  : BOOLEAN,
      origOwner  : Owners \union {None},
      queue      : QueueStatuses,
      queueOwner : Owners \union {None},
      retryCount : Nat,
      autoRetry  : BOOLEAN,
      scope      : Scopes \union {None},
      intent     : Intents,
      reply      : Replies \union {None},
      sendOwner  : Senders \union {None},
      sendFresh  : BOOLEAN,
      terminal   : BOOLEAN,
      alert      : BOOLEAN,
      replySent  : BOOLEAN ]

NoEntry ==
    [ state |-> "absent", procOwner |-> None, procFresh |-> FALSE,
      origOwner |-> None, queue |-> "none", queueOwner |-> None,
      retryCount |-> 0, autoRetry |-> TRUE, scope |-> None,
      intent |-> "none", reply |-> None, sendOwner |-> None,
      sendFresh |-> FALSE, terminal |-> FALSE, alert |-> FALSE,
      replySent |-> FALSE ]

-----------------------------------------------------------------------------
(* claimCloudInboundTurn: admission of one pipeline run to the turn.  A    *)
(* payload p carries the claim owner, the __cloudResumeProcessing flag and *)
(* the single-use __cloudQueuedOwnershipResume token.                      *)

QueuedOwnershipResume(e, p) ==
    p.token /\ e.queue = "queued" /\ e.queueOwner = p.owner

QueuedOwnershipRetryResume(e, p) ==
    p.resume /\ ~p.token /\ e.queue = "retryable" /\ e.queueOwner = p.owner

ClaimAction(e, p) ==
    CASE e.state = "done"            -> "done"
      [] e.state = "outbound_locked" -> "outbound_locked"
      [] e.state = "failed" /\ ~e.autoRetry /\ e.terminal -> "terminal"
      [] OTHER ->
           IF \/ p.token /\ ~QueuedOwnershipResume(e, p)
              \/ /\ e.state = "failed" /\ e.queue = "retryable"
                 /\ ~QueuedOwnershipRetryResume(e, p)
              \/ /\ e.state = "processing" /\ e.procFresh
                 /\ ~QueuedOwnershipResume(e, p)
           THEN "processing"
           ELSE "process"

ClaimTurn(e, p) ==
    [e EXCEPT
        !.state     = "processing",
        !.procOwner = p.owner,
        !.procFresh = TRUE,
        !.queue     = IF \/ QueuedOwnershipResume(e, p)
                         \/ QueuedOwnershipRetryResume(e, p)
                      THEN "resuming" ELSE @,
        !.origOwner = IF @ # None THEN @
                      ELSE IF e.queueOwner # None THEN e.queueOwner
                      ELSE p.owner]

\* markCloudInboundTurnOwnershipQueued returns null unless the caller still
\* owns the processing lease.
MayMarkQueued(e, owner) == e.state = "processing" /\ e.procOwner = owner

MarkQueued(e, owner) == [e EXCEPT !.queue = "queued", !.queueOwner = owner]

\* markCloudInboundTurnNormalRouting and markCloudInboundTurnPostConfirmOwned:
\* both drop the ownership queue marker and keep the original claim owner.
MarkLaneOwned(e) ==
    IF e.state = "done" THEN e
    ELSE [e EXCEPT
            !.queue      = "none",
            !.queueOwner = None,
            !.origOwner  = IF @ # None THEN @
                           ELSE IF e.queueOwner # None THEN e.queueOwner
                           ELSE e.procOwner]

\* persistCloudInboundSemanticDecision: the first accepted scope stays.
DecisionContradicts(e, s) == e.scope # None /\ e.scope # s
PersistDecision(e, s) == [e EXCEPT !.scope = IF @ = None THEN s ELSE @]

-----------------------------------------------------------------------------
(* Failure bookkeeping.                                                    *)

\* markCloudInboundTurnTerminalTechnicalFailure
TerminalFailure(e, retryCount) ==
    IF e.state \in {"absent", "done"} THEN e
    ELSE [e EXCEPT
            !.state = "failed", !.autoRetry = FALSE, !.replySent = FALSE,
            !.procOwner = None, !.procFresh = FALSE,
            !.sendOwner = None, !.sendFresh = FALSE,
            !.retryCount = retryCount, !.terminal = TRUE, !.alert = TRUE,
            !.queue = IF @ = "none" THEN @ ELSE "terminal"]

\* Mutant: a locked row is failed like any other.
RetryableFailureReopens(e, paused) ==
    IF e.state \in {"absent", "done"} THEN e
    ELSE IF e.retryCount + 1 > MaxRetryCount
    THEN TerminalFailure(e, e.retryCount + 1)
    ELSE [e EXCEPT
            !.state = "failed", !.procOwner = None, !.procFresh = FALSE,
            !.retryCount = @ + 1, !.autoRetry = @ /\ ~paused,
            !.queue = IF @ = "none" THEN @ ELSE "retryable"]

\* markCloudInboundTurnRetryableFailure; paused is autoRetryAllowed === false
RetryableFailure(e, paused) ==
    IF e.state \in {"absent", "done"} THEN e
    ELSE IF e.state # "outbound_locked" /\ e.retryCount + 1 > MaxRetryCount
    THEN TerminalFailure(e, e.retryCount + 1)
    ELSE [e EXCEPT
            !.state = IF @ = "outbound_locked" THEN @ ELSE "failed",
            !.procOwner = None, !.procFresh = FALSE,
            !.retryCount = @ + 1,
            !.autoRetry = @ /\ ~paused,
            !.queue = IF @ = "none" THEN @ ELSE "retryable"]

-----------------------------------------------------------------------------
(* The outbound lock and the send-only recovery.                           *)

SendStarted == {"send_in_flight", "provider_accepted"}

\* markInboundTurnLedgerOutboundLocked with a non-empty reply text
LockOutbound(e, text) ==
    IF e.state = "done" THEN e
    ELSE [e EXCEPT
            !.state = "outbound_locked", !.autoRetry = FALSE,
            !.procFresh = FALSE, !.reply = text,
            !.intent = IF @ \in SendStarted \union {"send_claimed"}
                       THEN @ ELSE "pending_send"]

\* Mutants: an intent already in flight is claimed again; a live claim is.
MayClaimSendInFlight(e, s) ==
    /\ e.state = "outbound_locked"
    /\ ~(e.sendOwner \notin {None, s} /\ e.sendFresh)

MayClaimSendHeld(e, s) ==
    /\ e.state = "outbound_locked"
    /\ e.intent \notin SendStarted

\* claimOutboundLockedRecovery
MayClaimSend(e, s) ==
    /\ e.state = "outbound_locked"
    /\ e.intent \notin SendStarted
    /\ e.autoRetry \/ e.intent \in {"send_claimed", "pending_send"}
    /\ ~(e.sendOwner \notin {None, s} /\ e.sendFresh)

ClaimSend(e, s) ==
    [e EXCEPT !.sendOwner = s, !.sendFresh = TRUE, !.intent = "send_claimed"]

\* markOutboundSendInFlight: a no-op (null) for a caller that is not the owner
MarkInFlight(e, s) ==
    IF e.state = "outbound_locked" /\ e.sendOwner \in {None, s}
    THEN [e EXCEPT !.intent = "send_in_flight"]
    ELSE e

\* markOutboundLockedRecoverySent (force): receipt, then the row is done
MarkSent(e) ==
    [e EXCEPT
        !.state = "done", !.intent = "provider_accepted",
        !.sendOwner = None, !.sendFresh = FALSE,
        !.procOwner = None, !.procFresh = FALSE,
        !.autoRetry = FALSE, !.replySent = TRUE]

\* releaseOutboundLockedRecoveryClaim
ReleaseSend(e, s, resetToPending) ==
    IF e.state = "outbound_locked" /\ e.sendOwner \in {None, s}
    THEN [e EXCEPT !.sendOwner = None, !.sendFresh = FALSE,
                   !.intent = IF resetToPending THEN "pending_send" ELSE @]
    ELSE e

\* Mutant: no owner alert is opened.
MarkUncertainQuietly(e) ==
    IF e.state \in {"absent", "done"} THEN e
    ELSE [e EXCEPT
            !.state = "outbound_locked", !.autoRetry = FALSE,
            !.sendOwner = None, !.sendFresh = FALSE,
            !.intent = IF @ = "none" THEN "send_in_flight" ELSE @]

\* markOutboundUncertainManualReview: keeps the reply, opens the owner alert
MarkUncertain(e) ==
    IF e.state \in {"absent", "done"} THEN e
    ELSE [e EXCEPT
            !.state = "outbound_locked", !.autoRetry = FALSE,
            !.replySent = FALSE, !.sendOwner = None, !.sendFresh = FALSE,
            !.intent = IF @ = "none" THEN "send_in_flight" ELSE @,
            !.alert = TRUE]

\* classifyOutboundLockedRecovery
ClassifyLocked(e) ==
    CASE e.state # "outbound_locked"     -> "not_recoverable"
      [] e.state = "outbound_locked" /\ e.intent = "provider_accepted"
                                         -> "complete_ledger"
      [] e.state = "outbound_locked" /\ e.intent = "send_in_flight"
                                         -> "uncertain_fail_closed"
      [] /\ e.state = "outbound_locked" /\ e.intent \notin SendStarted
         /\ e.reply = None               -> "corrupted_locked_reply"
      [] /\ e.state = "outbound_locked" /\ e.intent = "send_claimed"
         /\ e.reply # None /\ e.sendOwner # None /\ e.sendFresh
                                         -> "lease_held"
      [] OTHER                           -> "resume_send"

-----------------------------------------------------------------------------
(* Completion without a send, and the startup listing.                     *)

\* Mutant: every done row counts as replied.
MarkSilentDoneReplied(e) ==
    IF e.state = "absent" THEN e
    ELSE [e EXCEPT !.state = "done", !.replySent = TRUE, !.procFresh = FALSE,
                   !.sendOwner = None, !.sendFresh = FALSE]

\* markCloudInboundTurnDone with replySent = false
MarkSilentDone(e) ==
    IF e.state = "absent" THEN e
    ELSE [e EXCEPT !.state = "done", !.replySent = FALSE, !.procFresh = FALSE,
                   !.sendOwner = None, !.sendFresh = FALSE]

\* listRecoverableCloudInboundTurns
Recoverable(e) ==
    CASE e.state \in {"absent", "done"}  -> FALSE
      [] e.state = "outbound_locked"     -> TRUE
      [] e.state = "processing" ->
           e.autoRetry /\ (e.queue \in {"queued", "resuming"} \/ ~e.procFresh)
      [] e.state = "failed"     -> e.autoRetry /\ e.retryCount <= MaxRetryCount
=============================================================================
