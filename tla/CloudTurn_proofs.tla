---------------------------- MODULE CloudTurn_proofs ----------------------------
(***************************************************************************)
(* Proofs about CloudTurn, for every number of run slots, deliveries and   *)
(* restarts, every set of scopes and replies and every retry bound.        *)
(***************************************************************************)
EXTENDS CloudTurn, TLAPS

USE NoneAssumption, RetryAssumption

-----------------------------------------------------------------------------
(* The rows of the ledger.  What the row operators of InboundTurnLedger    *)
(* preserve: the row's type, the row's own invariant, and what the         *)
(* operators that do not send leave alone.                                 *)

\* Committed: the turn belongs to its outbound, or is over.
Committed(e) == e.state \in {"outbound_locked", "done"}

\* A live processing lease; a live send claim of run s, or in its way.
Leased(e) == e.procFresh
Holds(e, s) == e.sendOwner = s /\ e.sendFresh
HeldByOther(e, s) == e.sendOwner \notin {None, s} /\ e.sendFresh

\* What every row reachable in the ledger satisfies.
RowOK(e) ==
    /\ e.intent # "none" => Committed(e)
    /\ e.state = "outbound_locked" =>
         e.intent \notin {"none", "provider_accepted"} /\ e.reply # None
    /\ e.state = "failed" => e.queue # "queued"
    /\ e.queue # "none" => e.queueOwner # None
    /\ IF e.state = "absent" THEN e.queue = "none" ELSE e.origOwner # None

\* From row e to row f nothing happens to the reply: no lock is set, a locked
\* row stays locked with its reply and its claim, or is done.
ReplyKept(e, f) ==
    /\ f.intent = e.intent
    /\ e.state = "done" => f.state = "done"
    /\ e.state = "outbound_locked" => Committed(f)
    /\ f.state = "outbound_locked" =>
         /\ e.state = "outbound_locked"
         /\ f.reply = e.reply
         /\ f.sendOwner = e.sendOwner
         /\ f.sendFresh = e.sendFresh
    /\ f.replySent => e.replySent

\* The absent row is a legal row.
LEMMA NoEntryRow == NoEntry \in Entries /\ RowOK(NoEntry)
  BY DEF NoEntry, Entries, States, Intents, QueueStatuses, RowOK, Committed

\* A live claim keeps its owner, and keeps the others out.
LEMMA HoldsFacts ==
    ASSUME NEW e, NEW f, NEW s \in Senders
    PROVE  /\ Holds(e, s) => e.sendOwner = s
           /\ \A t \in Senders \ {s} : Holds(e, s) => HeldByOther(e, t)
           /\ f.sendOwner = e.sendOwner /\ f.sendFresh = e.sendFresh /\ Holds(e, s)
                => Holds(f, s)
  BY DEF Holds, HeldByOther

\* No change is a quiet change.
LEMMA QuietSame == \A e : ReplyKept(e, e)
  BY DEF ReplyKept, Committed

\* claimCloudInboundTurn, when it lets the run proceed.
LEMMA ClaimTurnRow ==
    ASSUME NEW e \in Entries, RowOK(e), NEW p, p.owner \in Owners,
           ClaimAction(e, p) = "process"
    PROVE  LET f == ClaimTurn(e, p) IN
           /\ f \in Entries /\ RowOK(f) /\ ReplyKept(e, f)
           /\ ~Committed(e)
           /\ f.state = "processing" /\ Leased(f)
           /\ f.scope = e.scope
           /\ f.queue = "queued" =>
                e.state = "processing" /\ e.queue = "queued" /\ ~Leased(e)
           /\ e.state = "processing" /\ Leased(e) => e.queue = "queued"
  <1> DEFINE f == ClaimTurn(e, p)
  <1>1. ~Committed(e)
    BY DEF ClaimAction, Committed
  <1>2. PICK q \in QueueStatuses, o \in Owners :
          /\ f = [e EXCEPT !.state = "processing", !.procOwner = p.owner,
                           !.procFresh = TRUE, !.queue = q, !.origOwner = o]
          /\ q = e.queue \/ (q = "resuming" /\ e.queueOwner # None)
          /\ QueuedOwnershipResume(e, p) => q = "resuming"
    <2> DEFINE q == IF QueuedOwnershipResume(e, p) \/ QueuedOwnershipRetryResume(e, p)
                    THEN "resuming" ELSE e.queue
               o == IF e.origOwner # None THEN e.origOwner
                    ELSE IF e.queueOwner # None THEN e.queueOwner ELSE p.owner
    <2>1. q \in QueueStatuses /\ o \in Owners
      BY DEF Entries, QueueStatuses
    <2>2. f = [e EXCEPT !.state = "processing", !.procOwner = p.owner,
                        !.procFresh = TRUE, !.queue = q, !.origOwner = o]
      BY DEF ClaimTurn, Entries
    <2>3. q = e.queue \/ (q = "resuming" /\ e.queueOwner # None)
      BY DEF QueuedOwnershipResume, QueuedOwnershipRetryResume, Entries
    <2>4. QueuedOwnershipResume(e, p) => q = "resuming"
      OBVIOUS
    <2> QED BY <2>1, <2>2, <2>3, <2>4
  <1> HIDE DEF f
  <1>3. f \in Entries
    BY <1>2 DEF Entries, States
  <1>4. /\ f.state = "processing" /\ f.scope = e.scope
        /\ f.intent = e.intent /\ f.queue = q /\ f.queueOwner = e.queueOwner
        /\ f.origOwner = o /\ f.replySent = e.replySent
    BY <1>2 DEF Entries
  <1>5. RowOK(f)
    BY <1>1, <1>2, <1>4 DEF RowOK, Committed
  <1>6. ReplyKept(e, f)
    BY <1>1, <1>4 DEF ReplyKept, Committed
  <1>7. e.state = "processing" /\ Leased(e) => QueuedOwnershipResume(e, p)
    BY DEF ClaimAction, Leased
  <1>8. e.state = "processing" /\ Leased(e) => e.queue = "queued"
    BY <1>7 DEF QueuedOwnershipResume
  <1>9. f.queue = "queued" => e.queue = "queued" /\ ~QueuedOwnershipResume(e, p)
    BY <1>2, <1>4
  <1>10. e.queue = "queued" => e.state = "processing"
    BY <1>1 DEF RowOK, Committed, Entries, States
  <1>11. Leased(f)
    BY <1>2 DEF Leased, Entries
  <1> QED BY <1>1, <1>3, <1>4, <1>5, <1>6, <1>7, <1>8, <1>9, <1>10, <1>11 DEF f

\* markCloudInboundTurnOwnershipQueued by the lease's owner.
LEMMA MarkQueuedRow ==
    ASSUME NEW e \in Entries, RowOK(e), NEW o \in Owners, MayMarkQueued(e, o)
    PROVE  LET f == MarkQueued(e, o) IN
           /\ f \in Entries /\ RowOK(f) /\ ReplyKept(e, f)
           /\ f.state = "processing" /\ (Leased(f) <=> Leased(e))
           /\ f.scope = e.scope
  <1> DEFINE f == MarkQueued(e, o)
  <1>1. f \in Entries
    BY DEF MarkQueued, Entries, QueueStatuses
  <1>2. /\ f.state = e.state /\ f.scope = e.scope
        /\ f.intent = e.intent /\ f.queue = "queued" /\ f.queueOwner = o
        /\ f.origOwner = e.origOwner /\ f.replySent = e.replySent
    BY DEF MarkQueued, Entries
  <1>6. Leased(f) <=> Leased(e)
    BY DEF MarkQueued, Entries, Leased
  <1>3. e.state = "processing"
    BY DEF MayMarkQueued
  <1> HIDE DEF f
  <1>4. RowOK(f)
    BY <1>2, <1>3 DEF RowOK, Committed
  <1>5. ReplyKept(e, f)
    BY <1>2, <1>3 DEF ReplyKept, Committed
  <1> QED BY <1>1, <1>2, <1>3, <1>4, <1>5, <1>6 DEF f

\* markCloudInboundTurnNormalRouting, markCloudInboundTurnPostConfirmOwned.
LEMMA MarkLaneOwnedRow ==
    ASSUME NEW e \in Entries, RowOK(e), e.state # "absent"
    PROVE  LET f == MarkLaneOwned(e) IN
           /\ f \in Entries /\ RowOK(f) /\ ReplyKept(e, f)
           /\ f.state = e.state /\ (Leased(f) <=> Leased(e))
           /\ f.scope = e.scope
           /\ f.queue \in {e.queue, "none"}
  <1> DEFINE f == MarkLaneOwned(e)
  <1>1. CASE e.state = "done"
    BY <1>1, QuietSame DEF MarkLaneOwned
  <1>2. CASE e.state # "done"
    <2>1. f = [e EXCEPT !.queue = "none", !.queueOwner = None,
                        !.origOwner = e.origOwner]
      BY <1>2 DEF MarkLaneOwned, Entries, RowOK
    <2> HIDE DEF f
    <2>2. f \in Entries
      BY <2>1 DEF Entries, QueueStatuses
    <2>6. Leased(f) <=> Leased(e)
      BY <2>1 DEF Entries, Leased
    <2>3. /\ f.state = e.state /\ f.scope = e.scope
          /\ f.intent = e.intent /\ f.queue = "none" /\ f.reply = e.reply
          /\ f.sendOwner = e.sendOwner /\ f.sendFresh = e.sendFresh
          /\ f.origOwner = e.origOwner /\ f.replySent = e.replySent
      BY <2>1 DEF Entries
    <2>4. RowOK(f)
      BY <1>2, <2>3 DEF RowOK, Committed
    <2>5. ReplyKept(e, f)
      BY <1>2, <2>3 DEF ReplyKept, Committed
    <2> QED BY <2>2, <2>3, <2>4, <2>5, <2>6 DEF f
  <1> QED BY <1>1, <1>2

\* persistCloudInboundSemanticDecision, when it does not throw.
LEMMA PersistDecisionRow ==
    ASSUME NEW e \in Entries, RowOK(e), NEW s \in Scopes, ~DecisionContradicts(e, s)
    PROVE  LET f == PersistDecision(e, s) IN
           /\ f \in Entries /\ RowOK(f) /\ ReplyKept(e, f)
           /\ f.state = e.state /\ (Leased(f) <=> Leased(e))
           /\ f.queue = e.queue
           /\ f.scope = s /\ e.scope \in {None, s}
  <1> DEFINE f == PersistDecision(e, s)
  <1>1. e.scope \in {None, s}
    BY DEF DecisionContradicts
  <1>2. f = [e EXCEPT !.scope = s]
    BY <1>1 DEF PersistDecision, Entries
  <1> HIDE DEF f
  <1>3. f \in Entries
    BY <1>2 DEF Entries
  <1>7. Leased(f) <=> Leased(e)
    BY <1>2 DEF Entries, Leased
  <1>4. /\ f.state = e.state /\ f.scope = s
        /\ f.intent = e.intent /\ f.queue = e.queue /\ f.reply = e.reply
        /\ f.sendOwner = e.sendOwner /\ f.sendFresh = e.sendFresh
        /\ f.queueOwner = e.queueOwner
        /\ f.origOwner = e.origOwner /\ f.replySent = e.replySent
    BY <1>2 DEF Entries
  <1>5. RowOK(f)
    BY <1>4 DEF RowOK, Committed
  <1>6. ReplyKept(e, f)
    BY <1>4 DEF ReplyKept, Committed
  <1> QED BY <1>1, <1>3, <1>4, <1>5, <1>6, <1>7 DEF f

\* markCloudInboundTurnDone without a reply.
LEMMA MarkSilentDoneRow ==
    ASSUME NEW e \in Entries, RowOK(e), e.state # "absent"
    PROVE  LET f == MarkSilentDone(e) IN
           /\ f \in Entries /\ RowOK(f) /\ ReplyKept(e, f)
           /\ f.state = "done" /\ f.scope = e.scope
  <1> DEFINE f == MarkSilentDone(e)
  <1>1. f = [e EXCEPT !.state = "done", !.replySent = FALSE, !.procFresh = FALSE,
                      !.sendOwner = None, !.sendFresh = FALSE]
    BY DEF MarkSilentDone
  <1> HIDE DEF f
  <1>2. f \in Entries
    BY <1>1 DEF Entries, States
  <1>3. /\ f.state = "done" /\ f.scope = e.scope /\ f.replySent = FALSE
        /\ f.intent = e.intent /\ f.queue = e.queue /\ f.queueOwner = e.queueOwner
        /\ f.origOwner = e.origOwner
    BY <1>1 DEF Entries
  <1>4. RowOK(f)
    BY <1>3 DEF RowOK, Committed
  <1>5. ReplyKept(e, f)
    BY <1>3 DEF ReplyKept, Committed
  <1> QED BY <1>2, <1>3, <1>4, <1>5 DEF f

-----------------------------------------------------------------------------
(* Failures.                                                               *)

\* markCloudInboundTurnTerminalTechnicalFailure of a row without a lock.
LEMMA TerminalFailureRow ==
    ASSUME NEW e \in Entries, RowOK(e), e.state # "absent", ~Committed(e),
           NEW n \in Nat
    PROVE  LET f == TerminalFailure(e, n) IN
           /\ f \in Entries /\ RowOK(f) /\ ReplyKept(e, f)
           /\ f.state = "failed" /\ f.scope = e.scope
  <1> DEFINE f == TerminalFailure(e, n)
             g == [e EXCEPT !.state = "failed", !.autoRetry = FALSE, !.replySent = FALSE,
                            !.procOwner = None, !.procFresh = FALSE]
             q == IF e.queue = "none" THEN "none" ELSE "terminal"
  <1>1. q \in QueueStatuses /\ q \in {"none", "terminal"}
    BY DEF QueueStatuses
  <1>2. /\ g \in Entries
        /\ g.state = "failed" /\ g.scope = e.scope /\ g.replySent = FALSE
        /\ g.intent = e.intent /\ g.queue = e.queue /\ g.origOwner = e.origOwner
        /\ g.queueOwner = e.queueOwner
    BY DEF Entries, States
  <1>3. f = [g EXCEPT !.sendOwner = None, !.sendFresh = FALSE,
                      !.retryCount = n, !.terminal = TRUE, !.alert = TRUE,
                      !.queue = q]
    BY DEF TerminalFailure, Entries, Committed
  <1> HIDE DEF f, g, q
  <1>4. f \in Entries
    BY <1>1, <1>2, <1>3 DEF Entries
  <1>5. /\ f.state = "failed" /\ f.scope = e.scope /\ f.replySent = FALSE
        /\ f.intent = e.intent /\ f.queue = q /\ f.origOwner = e.origOwner
        /\ f.queueOwner = e.queueOwner
    BY <1>2, <1>3 DEF Entries
  <1>6. RowOK(f)
    BY <1>1, <1>5 DEF RowOK, Committed, q
  <1>7. ReplyKept(e, f)
    BY <1>5 DEF ReplyKept, Committed
  <1> QED BY <1>4, <1>5, <1>6, <1>7 DEF f

\* markCloudInboundTurnRetryableFailure: a locked or done row stays so.
LEMMA RetryableFailureRow ==
    ASSUME NEW e \in Entries, RowOK(e), e.state # "absent", NEW paused \in BOOLEAN
    PROVE  LET f == RetryableFailure(e, paused) IN
           /\ f \in Entries /\ RowOK(f) /\ ReplyKept(e, f)
           /\ f.scope = e.scope
           /\ f.state = IF Committed(e) THEN e.state ELSE "failed"
  <1> DEFINE f == RetryableFailure(e, paused)
  <1>1. CASE e.state = "done"
    BY <1>1, QuietSame DEF RetryableFailure, Committed
  <1>2. CASE e.state \notin {"done", "outbound_locked"} /\ e.retryCount + 1 > MaxRetryCount
    <2>1. e.retryCount + 1 \in Nat
      BY DEF Entries
    <2>2. f = TerminalFailure(e, e.retryCount + 1)
      BY <1>2 DEF RetryableFailure
    <2> QED BY <1>2, <2>1, <2>2, TerminalFailureRow DEF Committed
  <1>3. CASE /\ e.state # "done"
             /\ ~(e.state # "outbound_locked" /\ e.retryCount + 1 > MaxRetryCount)
    <2> DEFINE t == IF e.state = "outbound_locked" THEN "outbound_locked" ELSE "failed"
               q == IF e.queue = "none" THEN "none" ELSE "retryable"
               a == e.autoRetry /\ ~paused
               n == e.retryCount + 1
    <2>1. n \in Nat /\ t \in States /\ q \in QueueStatuses
      BY DEF Entries, States, QueueStatuses
    <2>2. a \in BOOLEAN
      OBVIOUS
    <2>3. f = [e EXCEPT !.state = t, !.procOwner = None, !.procFresh = FALSE,
                        !.retryCount = n, !.autoRetry = a, !.queue = q]
      BY <1>3 DEF RetryableFailure, Entries
    <2> HIDE DEF f, n, a, t, q
    <2>4. f \in Entries
      BY <2>1, <2>2, <2>3 DEF Entries
    <2>5. /\ f.state = t /\ f.scope = e.scope /\ f.replySent = e.replySent
          /\ f.intent = e.intent /\ f.queue = q /\ f.origOwner = e.origOwner
          /\ f.queueOwner = e.queueOwner /\ f.reply = e.reply
          /\ f.sendOwner = e.sendOwner /\ f.sendFresh = e.sendFresh
      BY <2>3 DEF Entries
    <2>6. RowOK(f)
      BY <1>3, <2>5 DEF RowOK, Committed, t, q
    <2>7. ReplyKept(e, f)
      BY <1>3, <2>5 DEF ReplyKept, Committed, t
    <2> QED BY <1>3, <2>4, <2>5, <2>6, <2>7 DEF f, t, Committed
  <1> QED BY <1>1, <1>2, <1>3

-----------------------------------------------------------------------------
(* The outbound lock and the sends.                                        *)

\* markInboundTurnLedgerOutboundLocked: a new reply, an older claim stands.
LEMMA LockOutboundRow ==
    ASSUME NEW e \in Entries, RowOK(e), e.state # "absent", NEW text \in Replies
    PROVE  LET f == LockOutbound(e, text) IN
           /\ f \in Entries /\ RowOK(f) /\ f.scope = e.scope
           /\ e.state = "done" => f = e
           /\ e.state # "done" =>
                /\ f.state = "outbound_locked"
                /\ f.intent = IF e.intent \in {"send_claimed", "send_in_flight"}
                              THEN e.intent ELSE "pending_send"
                /\ f.sendOwner = e.sendOwner /\ f.sendFresh = e.sendFresh
                /\ f.replySent = e.replySent
  <1> DEFINE f == LockOutbound(e, text)
  <1>1. CASE e.state = "done"
    BY <1>1 DEF LockOutbound
  <1>2. CASE e.state # "done"
    <2> DEFINE i == IF e.intent \in {"send_claimed", "send_in_flight"}
                    THEN e.intent ELSE "pending_send"
    <2>1. i \in Intents /\ i \notin {"none", "provider_accepted"}
      BY DEF Entries, Intents
    <2>2. e.intent # "provider_accepted"
      BY <1>2 DEF RowOK, Committed
    <2>3. f = [e EXCEPT !.state = "outbound_locked", !.autoRetry = FALSE,
                        !.procFresh = FALSE, !.reply = text, !.intent = i]
      BY <1>2, <2>2 DEF LockOutbound, SendStarted, Entries
    <2> HIDE DEF f, i
    <2>4. f \in Entries
      BY <2>1, <2>3 DEF Entries, States
    <2>5. /\ f.state = "outbound_locked" /\ f.scope = e.scope /\ f.reply = text
          /\ f.intent = i /\ f.queue = e.queue /\ f.origOwner = e.origOwner
          /\ f.queueOwner = e.queueOwner /\ f.replySent = e.replySent
          /\ f.sendOwner = e.sendOwner /\ f.sendFresh = e.sendFresh
      BY <2>3 DEF Entries
    <2>6. RowOK(f)
      BY <2>1, <2>5 DEF RowOK, Committed
    <2> QED BY <1>2, <2>4, <2>5, <2>6 DEF f, i
  <1> QED BY <1>1, <1>2

\* claimOutboundLockedRecovery succeeds only on a locked row with no send
\* started and no live claim of another run.
LEMMA ClaimSendRow ==
    ASSUME NEW e \in Entries, RowOK(e), NEW s \in Senders, MayClaimSend(e, s)
    PROVE  LET f == ClaimSend(e, s) IN
           /\ f \in Entries /\ RowOK(f) /\ f.scope = e.scope
           /\ e.state = "outbound_locked" /\ f.state = "outbound_locked"
           /\ e.intent \in {"pending_send", "send_claimed"}
           /\ ~HeldByOther(e, s)
           /\ f.intent = "send_claimed" /\ f.sendOwner = s /\ Holds(f, s)
           /\ f.replySent = e.replySent
  <1> DEFINE f == ClaimSend(e, s)
  <1>1. /\ e.state = "outbound_locked"
        /\ ~HeldByOther(e, s)
    BY DEF MayClaimSend, HeldByOther
  <1>2. e.intent \in {"pending_send", "send_claimed"}
    BY <1>1 DEF MayClaimSend, SendStarted, RowOK, Entries, Intents
  <1>3. f = [e EXCEPT !.sendOwner = s, !.sendFresh = TRUE, !.intent = "send_claimed"]
    BY DEF ClaimSend
  <1> HIDE DEF f
  <1>4. f \in Entries
    BY <1>3 DEF Entries, Intents
  <1>5. /\ f.state = e.state /\ f.scope = e.scope /\ f.reply = e.reply
        /\ f.intent = "send_claimed" /\ f.queue = e.queue /\ f.origOwner = e.origOwner
        /\ f.queueOwner = e.queueOwner /\ f.replySent = e.replySent
        /\ f.sendOwner = s
    BY <1>3 DEF Entries
  <1>6. RowOK(f)
    BY <1>1, <1>5 DEF RowOK, Committed
  <1>7. Holds(f, s)
    BY <1>3 DEF Holds, Entries
  <1> QED BY <1>1, <1>2, <1>4, <1>5, <1>6, <1>7 DEF f

\* markOutboundSendInFlight
LEMMA MarkInFlightRow ==
    ASSUME NEW e \in Entries, RowOK(e), NEW s \in Senders
    PROVE  LET f == MarkInFlight(e, s) IN
           /\ f \in Entries /\ RowOK(f) /\ f.scope = e.scope
           /\ f.state = e.state /\ f.replySent = e.replySent
           /\ f.intent = IF e.state = "outbound_locked" /\ e.sendOwner \in {None, s}
                         THEN "send_in_flight" ELSE e.intent
  <1> DEFINE f == MarkInFlight(e, s)
  <1>1. CASE ~(e.state = "outbound_locked" /\ e.sendOwner \in {None, s})
    BY <1>1 DEF MarkInFlight
  <1>2. CASE e.state = "outbound_locked" /\ e.sendOwner \in {None, s}
    <2>1. f = [e EXCEPT !.intent = "send_in_flight"]
      BY <1>2 DEF MarkInFlight
    <2> HIDE DEF f
    <2>2. f \in Entries
      BY <2>1 DEF Entries, Intents
    <2>3. /\ f.state = e.state /\ f.scope = e.scope /\ f.reply = e.reply
          /\ f.intent = "send_in_flight" /\ f.queue = e.queue
          /\ f.origOwner = e.origOwner /\ f.queueOwner = e.queueOwner
          /\ f.replySent = e.replySent
      BY <2>1 DEF Entries
    <2>4. RowOK(f)
      BY <1>2, <2>3 DEF RowOK, Committed
    <2> QED BY <1>2, <2>2, <2>3, <2>4 DEF f
  <1> QED BY <1>1, <1>2

\* markOutboundLockedRecoverySent
LEMMA MarkSentRow ==
    ASSUME NEW e \in Entries, RowOK(e), e.state # "absent"
    PROVE  LET f == MarkSent(e) IN
           /\ f \in Entries /\ RowOK(f) /\ f.scope = e.scope
           /\ f.state = "done" /\ f.intent = "provider_accepted"
  <1> DEFINE f == MarkSent(e)
  <1>1. f \in Entries
    BY DEF MarkSent, Entries, States, Intents
  <1>2. /\ f.state = "done" /\ f.scope = e.scope /\ f.intent = "provider_accepted"
        /\ f.queue = e.queue /\ f.queueOwner = e.queueOwner
        /\ f.origOwner = e.origOwner
    BY DEF MarkSent, Entries
  <1> HIDE DEF f
  <1>3. RowOK(f)
    BY <1>2 DEF RowOK, Committed
  <1> QED BY <1>1, <1>2, <1>3 DEF f

\* releaseOutboundLockedRecoveryClaim
LEMMA ReleaseSendRow ==
    ASSUME NEW e \in Entries, RowOK(e), NEW s \in Senders, NEW reset \in BOOLEAN
    PROVE  LET f == ReleaseSend(e, s, reset) IN
           /\ f \in Entries /\ RowOK(f) /\ f.scope = e.scope
           /\ f.state = e.state /\ f.replySent = e.replySent
           /\ f.intent \in {e.intent, "pending_send"}
           /\ ~reset => f.intent = e.intent
           /\ e.state = "done" \/ e.sendOwner \notin {None, s} => f = e
  <1> DEFINE f == ReleaseSend(e, s, reset)
  <1>1. CASE ~(e.state = "outbound_locked" /\ e.sendOwner \in {None, s})
    BY <1>1 DEF ReleaseSend
  <1>2. CASE e.state = "outbound_locked" /\ e.sendOwner \in {None, s}
    <2>1. PICK i \in {e.intent, "pending_send"} :
            /\ f = [e EXCEPT !.sendOwner = None, !.sendFresh = FALSE, !.intent = i]
            /\ ~reset => i = e.intent
      <3>1. CASE reset
        BY <1>2, <3>1 DEF ReleaseSend, Entries
      <3>2. CASE ~reset
        BY <1>2, <3>2 DEF ReleaseSend, Entries
      <3> QED BY <3>1, <3>2
    <2> HIDE DEF f
    <2>2. f \in Entries
      BY <2>1 DEF Entries, Intents
    <2>3. /\ f.state = e.state /\ f.scope = e.scope /\ f.reply = e.reply
          /\ f.intent = i /\ f.queue = e.queue
          /\ f.origOwner = e.origOwner /\ f.queueOwner = e.queueOwner
          /\ f.replySent = e.replySent
      BY <2>1 DEF Entries
    <2>4. RowOK(f)
      BY <1>2, <2>1, <2>3 DEF RowOK, Committed
    <2> QED BY <1>2, <2>1, <2>2, <2>3, <2>4 DEF f
  <1> QED BY <1>1, <1>2

\* markOutboundUncertainManualReview of a committed row
LEMMA MarkUncertainRow ==
    ASSUME NEW e \in Entries, RowOK(e), Committed(e)
    PROVE  LET f == MarkUncertain(e) IN
           /\ f \in Entries /\ RowOK(f) /\ f.scope = e.scope
           /\ f.state = e.state /\ f.intent = e.intent
           /\ f.replySent => e.replySent
           /\ e.state = "done" => f = e
  <1> DEFINE f == MarkUncertain(e)
  <1>1. CASE e.state = "done"
    BY <1>1 DEF MarkUncertain
  <1>2. CASE e.state = "outbound_locked"
    <2>1. f = [e EXCEPT !.state = "outbound_locked", !.autoRetry = FALSE,
                        !.replySent = FALSE, !.sendOwner = None, !.sendFresh = FALSE,
                        !.intent = e.intent, !.alert = TRUE]
      BY <1>2 DEF MarkUncertain, RowOK, Entries
    <2> HIDE DEF f
    <2>2. f \in Entries
      BY <2>1 DEF Entries, States
    <2>3. /\ f.state = e.state /\ f.scope = e.scope /\ f.reply = e.reply
          /\ f.intent = e.intent /\ f.queue = e.queue
          /\ f.origOwner = e.origOwner /\ f.queueOwner = e.queueOwner
          /\ f.replySent = FALSE
      BY <1>2, <2>1 DEF Entries
    <2>4. RowOK(f)
      BY <1>2, <2>3 DEF RowOK, Committed
    <2> QED BY <1>2, <2>2, <2>3, <2>4 DEF f
  <1> QED BY <1>1, <1>2 DEF Committed

USE OwnersAssumption, BoundAssumption, DeadAssumption

-----------------------------------------------------------------------------
(* Types.  TypeOK is not inductive: a run's text, owner and snapshot depend*)
(* on where the run is, and the row's own invariant is needed for the      *)
(* payload the recovery sweep builds from a row.                           *)

Views == [text : Replies \union {None}, snap : Entries]

Working == {"lookup", "preflight", "ownership", "lane", "ready", "claimed",
            "failing", "sending", "resend"}
HasText == {"ready", "claimed", "sending", "resend", "sweep_resend"}
AfterLock == {"claimed", "sending", "resend", "sweep_resend", "failing"}

\* What a run at await a with payload p and view v relies on.
RunOK(a, p, v) ==
    /\ a \in Working => p \in Payloads
    /\ a \in HasText => v.text \in Replies
    /\ a \in AfterLock => Committed(entry)
    /\ a = "creds" => RowOK(v.snap) /\ v.snap.state # "absent"
    /\ a = "creds" /\ v.snap.state = "outbound_locked" => Committed(entry)

ProcInv ==
    /\ pc \in [Runs -> PCs]
    /\ job \in [Runs -> Payloads \union {NoPayload}]
    /\ view \in [Runs -> Views]
    /\ \A r \in Runs : RunOK(pc[r], job[r], view[r])

RowInv ==
    /\ entry \in Entries
    /\ RowOK(entry)
    /\ entry.state = "absent" => sweep = "off" /\ \A r \in Runs : pc[r] = "idle"

QueueInv ==
    /\ queue \in Seq(Payloads)
    /\ timer \in Payloads \union {NoPayload}
    /\ sweep \in QueueStatuses \union {"off"}

CountInv ==
    /\ deliveries \in 0..MaxDeliveries
    /\ crashes \in 0..MaxCrashes
    /\ started \in Nat
    /\ refused \in Nat
    /\ misreported \in Nat
    /\ outbox \in Seq(Replies)

TypeInv ==
    /\ ProcInv
    /\ RowInv
    /\ QueueInv
    /\ CountInv
    /\ accepted \in [Runs -> BOOLEAN]

\* From entry to entry': a row that exists, committed or done if it was, with
\* the scope it had.
CloudRowStep ==
    /\ entry' \in Entries
    /\ RowOK(entry')
    /\ entry'.state # "absent"
    /\ Committed(entry) => Committed(entry')
    /\ entry.state = "done" => entry'.state = "done"
    /\ entry.scope # None => entry'.scope = entry.scope

\* The invariant implies the type invariant that the runs check.
LEMMA TypeInvOK == TypeInv => TypeOK
  BY DEF TypeInv, TypeOK, ProcInv, RowInv, QueueInv, CountInv, Views

\* "No payload" is not a payload.
LEMMA NoPayloadNone == NoPayload \notin Payloads
  BY DEF NoPayload, Payloads

\* One run moves; the others rely on what they relied on before.
LEMMA RunMoves ==
    ASSUME ProcInv, Committed(entry) => Committed(entry'), NEW r \in Runs,
           NEW a \in PCs, NEW p \in Payloads \union {NoPayload}, NEW v \in Views,
           pc' = [pc EXCEPT ![r] = a],
           job' = [job EXCEPT ![r] = p],
           view' = [view EXCEPT ![r] = v],
           a \in Working => p \in Payloads,
           a \in HasText => v.text \in Replies,
           a \in AfterLock => Committed(entry'),
           a = "creds" => RowOK(v.snap) /\ v.snap.state # "absent",
           a = "creds" /\ v.snap.state = "outbound_locked" => Committed(entry')
    PROVE  ProcInv'
  <1>1. /\ pc' \in [Runs -> PCs]
        /\ job' \in [Runs -> Payloads \union {NoPayload}]
        /\ view' \in [Runs -> Views]
    BY DEF ProcInv
  <1>2. ASSUME NEW q \in Runs
        PROVE  RunOK(pc[q], job[q], view[q])'
    <2>1. CASE q = r
      <3>1. pc'[q] = a /\ job'[q] = p /\ view'[q] = v
        BY <2>1 DEF ProcInv
      <3> QED BY <3>1 DEF RunOK
    <2>2. CASE q # r
      <3>1. pc'[q] = pc[q] /\ job'[q] = job[q] /\ view'[q] = view[q]
        BY <2>2 DEF ProcInv
      <3>2. RunOK(pc[q], job[q], view[q])
        BY DEF ProcInv
      <3> QED BY <3>1, <3>2 DEF RunOK
    <2> QED BY <2>1, <2>2
  <1> QED BY <1>1, <1>2 DEF ProcInv

\* A run ends, and relies on nothing any more.
LEMMA RunStops ==
    ASSUME ProcInv, Committed(entry) => Committed(entry'), NEW r \in Runs, Ends(r)
    PROVE  ProcInv'
  <1>1. "idle" \in PCs /\ "idle" \notin Working \union HasText \union AfterLock
    BY DEF PCs, Working, HasText, AfterLock
  <1>2. NoView \in Views
    BY NoEntryRow DEF NoView, Views
  <1> QED BY <1>1, <1>2, RunMoves DEF Ends

\* One run moves on with something new in view, or with nothing new.
LEMMA RunAwaitsView ==
    ASSUME ProcInv, Committed(entry) => Committed(entry'), NEW r \in Runs,
           NEW a \in PCs \ {"creds"}, NEW v \in Views,
           Awaits(r, a), job' = job, view' = [view EXCEPT ![r] = v],
           a \in Working => job[r] \in Payloads,
           a \in HasText => v.text \in Replies,
           a \in AfterLock => Committed(entry')
    PROVE  ProcInv'
  <1>1. job[r] \in Payloads \union {NoPayload}
    BY DEF ProcInv
  <1>2. job' = [job EXCEPT ![r] = job[r]]
    BY DEF ProcInv
  <1>3. a \in PCs /\ a # "creds" /\ pc' = [pc EXCEPT ![r] = a]
    BY DEF Awaits
  <1> QED BY <1>1, <1>2, <1>3, RunMoves

\* A run goes on to an await for which it has what it needs.
LEMMA RunAwaits ==
    ASSUME ProcInv, Committed(entry) => Committed(entry'), NEW r \in Runs,
           NEW a \in PCs \ {"creds"}, Awaits(r, a), job' = job, view' = view,
           a \in Working => job[r] \in Payloads,
           a \in HasText => view[r].text \in Replies,
           a \in AfterLock => Committed(entry')
    PROVE  ProcInv'
  <1>1. view[r] \in Views /\ view' = [view EXCEPT ![r] = view[r]]
    BY DEF ProcInv
  <1> QED BY <1>1, RunAwaitsView

\* Nobody moves.
LEMMA RunsStay ==
    ASSUME ProcInv, Committed(entry) => Committed(entry'), UNCHANGED procVars
    PROVE  ProcInv'
  BY DEF ProcInv, procVars, RunOK

\* A retry timer carries a payload with an owner.
LEMMA RetryTimerType ==
    ASSUME QueueInv, NEW o \in Owners, NEW n, NEW paused, ScheduleRetry(o, n, paused)
    PROVE  timer' \in Payloads \union {NoPayload}
  <1>1. [owner |-> o, resume |-> TRUE, token |-> FALSE] \in Payloads
    BY DEF Payloads
  <1>2. timer' = timer \/ timer' = [owner |-> o, resume |-> TRUE, token |-> FALSE]
    BY DEF ScheduleRetry
  <1> QED BY <1>1, <1>2 DEF QueueInv

\* A run that is somewhere has a row; a working run has a payload with owner.
LEMMA AwakeFacts ==
    ASSUME TypeInv, NEW r \in Runs, pc[r] # "idle"
    PROVE  /\ entry \in Entries /\ RowOK(entry) /\ entry.state # "absent"
           /\ pc[r] \in Working => job[r] \in Payloads /\ job[r].owner \in Owners
           /\ pc[r] \in HasText => view[r].text \in Replies
           /\ pc[r] \in AfterLock => Committed(entry)
           /\ view[r] \in Views
           /\ ProcInv /\ QueueInv
  BY DEF TypeInv, RowInv, ProcInv, RunOK, Payloads

\* A change that leaves the claim alone is a legal step of the row.
LEMMA QuietRow ==
    ASSUME entry' \in Entries, RowOK(entry'), ReplyKept(entry, entry'), entry'.state # "absent",
           entry.scope # None => entry'.scope = entry.scope
    PROVE  CloudRowStep
  BY DEF CloudRowStep, ReplyKept, Committed

\* So is no change.
LEMMA SameRow ==
    ASSUME TypeInv, entry.state # "absent", entry' = entry
    PROVE  CloudRowStep /\ ReplyKept(entry, entry')
  BY QuietSame DEF CloudRowStep, TypeInv, RowInv

\* The row keeps its state and its lease, and gets no queue marker; or it
\* fails, unless it is committed.
RowKeeps ==
    /\ entry'.state = entry.state
    /\ Leased(entry') <=> Leased(entry)
    /\ entry'.queue \in {entry.queue, "none"}
RowFails == entry'.state = IF Committed(entry) THEN entry.state ELSE "failed"

\* The catch block.
LEMMA FailsRetryablyStep ==
    ASSUME TypeInv, NEW r \in Runs, pc[r] \in Working, NEW paused \in BOOLEAN,
           FailsRetryably(r, paused)
    PROVE  /\ CloudRowStep /\ ReplyKept(entry, entry') /\ ProcInv'
           /\ timer' \in Payloads \union {NoPayload}
           /\ entry'.scope = entry.scope /\ RowFails
  <1>1. pc[r] # "idle"
    BY DEF Working
  <1>2. /\ entry' = RetryableFailure(entry, paused)
        /\ ScheduleRetry(job[r].owner, entry'.retryCount, paused)
        /\ Ends(r)
    BY DEF FailsRetryably
  <1>3. /\ entry' \in Entries /\ RowOK(entry') /\ ReplyKept(entry, entry')
        /\ entry'.scope = entry.scope
        /\ entry'.state = IF Committed(entry) THEN entry.state ELSE "failed"
    BY <1>1, <1>2, AwakeFacts, RetryableFailureRow
  <1>4. entry'.state # "absent"
    BY <1>1, <1>3, AwakeFacts
  <1>5. CloudRowStep
    BY <1>2, <1>3, <1>4, QuietRow
  <1>6. ProcInv'
    BY <1>1, <1>2, <1>5, AwakeFacts, RunStops DEF CloudRowStep
  <1>7. timer' \in Payloads \union {NoPayload}
    BY <1>1, <1>2, AwakeFacts, RetryTimerType
  <1> QED BY <1>3, <1>5, <1>6, <1>7 DEF RowFails

-----------------------------------------------------------------------------
(* What the actions of a claimed run do to the row and to the runs.  The   *)
(* steps in which nothing is sent are quiet.                               *)

QuietTypeStep ==
    /\ CloudRowStep
    /\ ReplyKept(entry, entry')
    /\ ProcInv'
    /\ timer' \in Payloads \union {NoPayload}
    /\ queue' \in Seq(Payloads)

\* The failures keep the types and leave a committed row alone.
LEMMA LookupFailsType ==
    ASSUME TypeInv, NEW r \in Runs, LookupFails(r) \/ OwnershipFails(r) \/ DuplicateSend(r)
                                      \/ FailTurn(r)
    PROVE  QuietTypeStep /\ RowFails
  <1>1. pc[r] \in Working /\ FailsRetryably(r, FALSE) /\ queue' = queue
    BY DEF LookupFails, OwnershipFails, DuplicateSend, FailTurn, Working
  <1> QED BY <1>1, FailsRetryablyStep DEF QuietTypeStep, TypeInv, QueueInv

\* The same for a lane's exception.
LEMMA LaneFailsType ==
    ASSUME TypeInv, NEW r \in Runs, NEW paused \in BOOLEAN, LaneFails(r, paused)
    PROVE  QuietTypeStep /\ RowFails
  <1>1. pc[r] \in Working /\ FailsRetryably(r, paused) /\ queue' = queue
    BY DEF LaneFails, Working
  <1> QED BY <1>1, FailsRetryablyStep DEF QuietTypeStep, TypeInv, QueueInv

\* Passing the gate keeps the types.
LEMMA GatePassesType ==
    ASSUME TypeInv, NEW r \in Runs, GatePasses(r)
    PROVE  QuietTypeStep
  <1>1. /\ pc[r] = "lookup" /\ Awaits(r, "preflight")
        /\ UNCHANGED <<entry, job, view, queue, timer>>
    BY DEF GatePasses
  <1>2. CloudRowStep /\ ReplyKept(entry, entry')
    BY <1>1, AwakeFacts, SameRow
  <1>3. "preflight" \in PCs \ {"creds"} /\ "preflight" \notin HasText \union AfterLock
    BY DEF PCs, HasText, AfterLock
  <1>4. job[r] \in Payloads
    BY <1>1, AwakeFacts DEF Working
  <1>5. ProcInv'
    BY <1>1, <1>2, <1>3, <1>4, AwakeFacts, RunAwaits DEF CloudRowStep
  <1> QED BY <1>1, <1>2, <1>5 DEF QuietTypeStep, TypeInv, QueueInv

\* Queueing behind the active job keeps the types, and the lease or the failure.
LEMMA GateQueuesType ==
    ASSUME TypeInv, NEW r \in Runs, GateQueues(r)
    PROVE  /\ QuietTypeStep
           /\ \/ RowFails
              \/ /\ entry.state = "processing" /\ entry'.state = "processing"
                 /\ Leased(entry') <=> Leased(entry)
  <1>1. pc[r] = "lookup" /\ pc[r] \in Working
    BY DEF GateQueues, Working
  <1>2. CASE MayMarkQueued(entry, job[r].owner)
    <2>1. /\ entry' = MarkQueued(entry, job[r].owner)
          /\ queue' = Append(queue, [owner |-> job[r].owner, resume |-> TRUE, token |-> TRUE])
          /\ Ends(r) /\ timer' = timer
      BY <1>2 DEF GateQueues
    <2>2. /\ entry' \in Entries /\ RowOK(entry') /\ ReplyKept(entry, entry')
          /\ entry'.state = "processing" /\ entry'.scope = entry.scope
          /\ entry.state = "processing" /\ (Leased(entry') <=> Leased(entry))
      BY <1>1, <1>2, <2>1, AwakeFacts, MarkQueuedRow DEF MayMarkQueued
    <2>3. CloudRowStep
      BY <2>2, QuietRow
    <2>4. ProcInv'
      BY <1>1, <2>1, <2>3, AwakeFacts, RunStops DEF CloudRowStep
    <2>5. [owner |-> job[r].owner, resume |-> TRUE, token |-> TRUE] \in Payloads
      BY <1>1, AwakeFacts DEF Payloads
    <2> QED BY <2>1, <2>2, <2>3, <2>4, <2>5 DEF QuietTypeStep, TypeInv, QueueInv
  <1>3. CASE ~MayMarkQueued(entry, job[r].owner)
    <2>1. FailsRetryably(r, FALSE) /\ queue' = queue
      BY <1>3 DEF GateQueues
    <2> QED BY <1>1, <2>1, FailsRetryablyStep DEF QuietTypeStep, TypeInv, QueueInv
  <1> QED BY <1>2, <1>3

\* A run that has nothing to do ends with the row as it was, or done.
LEMMA RunOverType ==
    ASSUME TypeInv, NEW r \in Runs,
           DuplicateInbound(r) \/ OwnerAnswerHandled(r) \/ SweepLacksCredentials(r)
    PROVE  QuietTypeStep /\ (entry' = entry \/ entry'.state = "done")
  <1>1. /\ pc[r] # "idle" /\ Ends(r) /\ UNCHANGED <<queue, timer>>
        /\ entry' = entry \/ entry' = MarkSilentDone(entry)
    BY DEF DuplicateInbound, OwnerAnswerHandled, SweepLacksCredentials
  <1>2. CloudRowStep /\ ReplyKept(entry, entry') /\ (entry' = entry \/ entry'.state = "done")
    <2>1. CASE entry' = entry
      BY <1>1, <2>1, AwakeFacts, SameRow
    <2>2. CASE entry' = MarkSilentDone(entry)
      BY <1>1, <2>2, AwakeFacts, MarkSilentDoneRow, QuietRow
    <2> QED BY <1>1, <2>1, <2>2
  <1>3. ProcInv'
    BY <1>1, <1>2, AwakeFacts, RunStops DEF CloudRowStep
  <1> QED BY <1>1, <1>2, <1>3 DEF QuietTypeStep, TypeInv, QueueInv

\* Entering a lane with row e, which keeps all of the row but the scope.
LEMMA EntersLaneType ==
    ASSUME TypeInv, NEW r \in Runs, pc[r] \in Working, NEW e \in Entries, RowOK(e),
           e.state = entry.state, ReplyKept(entry, e), EntersLane(r, e), queue' = queue,
           entry.scope # None => e.scope = entry.scope
    PROVE  /\ QuietTypeStep
           /\ pc' = [pc EXCEPT ![r] = "lane"] /\ view'[r].snap = e
           /\ entry'.scope = e.scope /\ entry'.state = e.state
           /\ (Leased(entry') <=> Leased(e)) /\ entry'.queue \in {e.queue, "none"}
  <1>1. pc[r] # "idle"
    BY DEF Working
  <1>2. e.state # "absent"
    BY <1>1, AwakeFacts
  <1>3. /\ entry' \in Entries /\ RowOK(entry') /\ ReplyKept(e, entry')
        /\ entry'.scope = e.scope /\ entry'.state = e.state
        /\ (Leased(entry') <=> Leased(e)) /\ entry'.queue \in {e.queue, "none"}
    <2>1. CASE Lane(e.scope) = "normal_routing"
      BY <1>2, <2>1, MarkLaneOwnedRow DEF EntersLane
    <2>2. CASE Lane(e.scope) # "normal_routing"
      BY <2>2, QuietSame DEF EntersLane
    <2> QED BY <2>1, <2>2
  <1>4. ReplyKept(entry, entry')
    BY <1>3 DEF ReplyKept, Committed
  <1>5. CloudRowStep
    BY <1>2, <1>3, <1>4, QuietRow
  <1>6. /\ Awaits(r, "lane") /\ job' = job /\ timer' = timer
        /\ view' = [view EXCEPT ![r] = [view[r] EXCEPT !.snap = e]]
    BY DEF EntersLane
  <1>7. /\ [view[r] EXCEPT !.snap = e] \in Views
        /\ view'[r].snap = e
    BY <1>1, <1>6, AwakeFacts DEF Views, ProcInv
  <1>8. "lane" \in PCs \ {"creds"} /\ "lane" \notin HasText \union AfterLock
    BY DEF PCs, HasText, AfterLock
  <1>9. ProcInv'
    BY <1>1, <1>5, <1>6, <1>7, <1>8, AwakeFacts, RunAwaitsView DEF CloudRowStep
  <1> QED BY <1>3, <1>4, <1>5, <1>6, <1>7, <1>9 DEF QuietTypeStep, TypeInv, QueueInv, Awaits

\* Reading the recorded scope keeps the types; a run that skips the model has it.
LEMMA AskOwnershipType ==
    ASSUME TypeInv, NEW r \in Runs, AskOwnership(r)
    PROVE  /\ QuietTypeStep /\ RowKeeps
           /\ pc' = [pc EXCEPT ![r] = "lane"] =>
                entry'.scope # None /\ view'[r].snap.scope = entry'.scope
  <1>1. pc[r] = "preflight" /\ pc[r] \in Working /\ queue' = queue
    BY DEF AskOwnership, Working
  <1>2. CASE entry.scope # None /\ EntersLane(r, entry)
    BY <1>1, <1>2, AwakeFacts, QuietSame, EntersLaneType DEF RowKeeps
  <1>3. CASE /\ Awaits(r, "ownership")
             /\ UNCHANGED <<entry, job, view, timer>>
    <2>1. CloudRowStep /\ ReplyKept(entry, entry')
      BY <1>1, <1>3, AwakeFacts, SameRow
    <2>2. "ownership" \in PCs \ {"creds"} /\ "ownership" \notin HasText \union AfterLock
      BY DEF PCs, HasText, AfterLock
    <2>3. ProcInv'
      BY <1>1, <1>3, <2>1, <2>2, AwakeFacts, RunAwaits DEF CloudRowStep
    <2>4. pc' # [pc EXCEPT ![r] = "lane"]
      BY <1>3 DEF Awaits, TypeInv, ProcInv
    <2> QED BY <1>1, <1>3, <2>1, <2>3, <2>4 DEF QuietTypeStep, TypeInv, QueueInv, RowKeeps
  <1> QED BY <1>2, <1>3 DEF AskOwnership

\* A decided scope is recorded, and is the one the run goes on with.
LEMMA OwnershipDecidedType ==
    ASSUME TypeInv, NEW r \in Runs, NEW s \in Scopes, OwnershipDecided(r, s)
    PROVE  /\ QuietTypeStep
           /\ \/ RowFails /\ pc' = [pc EXCEPT ![r] = "idle"]
              \/ /\ RowKeeps /\ pc' = [pc EXCEPT ![r] = "lane"]
                 /\ entry'.scope # None /\ view'[r].snap.scope = entry'.scope
  <1>1. pc[r] = "ownership" /\ pc[r] \in Working /\ queue' = queue
    BY DEF OwnershipDecided, Working
  <1>2. CASE DecisionContradicts(entry, s)
    <2>1. FailsRetryably(r, FALSE)
      BY <1>2 DEF OwnershipDecided
    <2> QED BY <1>1, <2>1, FailsRetryablyStep
         DEF QuietTypeStep, TypeInv, QueueInv, FailsRetryably, Ends
  <1>3. CASE ~DecisionContradicts(entry, s)
    <2>1. EntersLane(r, PersistDecision(entry, s))
      BY <1>3 DEF OwnershipDecided
    <2>2. /\ PersistDecision(entry, s) \in Entries /\ RowOK(PersistDecision(entry, s))
          /\ PersistDecision(entry, s).state = entry.state
          /\ entry.scope # None => PersistDecision(entry, s).scope = entry.scope
          /\ ReplyKept(entry, PersistDecision(entry, s))
          /\ Leased(PersistDecision(entry, s)) <=> Leased(entry)
          /\ PersistDecision(entry, s).queue = entry.queue
          /\ PersistDecision(entry, s).scope = s
      BY <1>1, <1>3, AwakeFacts, PersistDecisionRow
    <2> DEFINE e == PersistDecision(entry, s)
    <2> HIDE DEF e
    <2>3. /\ QuietTypeStep /\ pc' = [pc EXCEPT ![r] = "lane"] /\ view'[r].snap = e
          /\ entry'.scope = e.scope /\ entry'.state = e.state
          /\ (Leased(entry') <=> Leased(e)) /\ entry'.queue \in {e.queue, "none"}
      BY <1>1, <2>1, <2>2, EntersLaneType DEF e
    <2>4. e.state = entry.state /\ (Leased(e) <=> Leased(entry)) /\ e.queue = entry.queue
          /\ e.scope = s
      BY <2>2 DEF e
    <2>5. RowKeeps
      BY <2>3, <2>4 DEF RowKeeps
    <2> QED BY <2>3, <2>4, <2>5
  <1> QED BY <1>2, <1>3

\* A silent lane ends the turn.
LEMMA LaneOverType ==
    ASSUME TypeInv, NEW r \in Runs, LaneSilent(r)
    PROVE  QuietTypeStep /\ entry'.state = "done"
  <1> DEFINE e == IF Lane(view[r].snap.scope) = "post_confirm_pa"
                  THEN MarkLaneOwned(entry) ELSE entry
  <1>1. /\ pc[r] # "idle" /\ Ends(r) /\ UNCHANGED <<queue, timer>>
        /\ entry' = MarkSilentDone(e)
    BY DEF LaneSilent
  <1>2. /\ e \in Entries /\ RowOK(e) /\ ReplyKept(entry, e) /\ e.state # "absent"
        /\ e.scope = entry.scope
    <2>1. CASE Lane(view[r].snap.scope) = "post_confirm_pa"
      BY <1>1, <2>1, AwakeFacts, MarkLaneOwnedRow
    <2>2. CASE Lane(view[r].snap.scope) # "post_confirm_pa"
      BY <1>1, <2>2, AwakeFacts, QuietSame
    <2> QED BY <2>1, <2>2
  <1> HIDE DEF e
  <1>3. /\ entry' \in Entries /\ RowOK(entry') /\ ReplyKept(e, entry')
        /\ entry'.state = "done" /\ entry'.scope = e.scope
    BY <1>1, <1>2, MarkSilentDoneRow
  <1>4. ReplyKept(entry, entry')
    BY <1>2, <1>3 DEF ReplyKept, Committed
  <1>5. CloudRowStep
    BY <1>2, <1>3, <1>4, QuietRow
  <1>6. ProcInv'
    BY <1>1, <1>5, AwakeFacts, RunStops DEF CloudRowStep
  <1> QED BY <1>1, <1>3, <1>4, <1>5, <1>6 DEF QuietTypeStep, TypeInv, QueueInv

\* A run got its reply: from the lane, or the technical fallback.
LEMMA GotReplyType ==
    ASSUME TypeInv, NEW r \in Runs, NEW t \in Replies,
           OwnershipUnusable(r, t) \/ LaneReplies(r, t)
    PROVE  QuietTypeStep /\ RowKeeps
  <1>1. /\ pc[r] \in Working /\ Awaits(r, "ready") /\ UNCHANGED <<job, queue, timer>>
        /\ view' = [view EXCEPT ![r] = [view[r] EXCEPT !.text = t]]
        /\ entry' = entry \/ entry' = MarkLaneOwned(entry)
    BY DEF OwnershipUnusable, LaneReplies, Working
  <1>2. pc[r] # "idle"
    BY <1>1 DEF Working
  <1>3. CloudRowStep /\ ReplyKept(entry, entry') /\ RowKeeps
    <2>1. CASE entry' = entry
      BY <1>2, <2>1, AwakeFacts, SameRow DEF RowKeeps
    <2>2. CASE entry' = MarkLaneOwned(entry)
      BY <1>2, <2>2, AwakeFacts, MarkLaneOwnedRow, QuietRow DEF RowKeeps
    <2> QED BY <1>1, <2>1, <2>2
  <1>4. [view[r] EXCEPT !.text = t] \in Views /\ [view[r] EXCEPT !.text = t].text = t
    BY <1>2, AwakeFacts DEF Views
  <1>5. "ready" \in PCs \ {"creds"} /\ "ready" \notin AfterLock
    BY DEF PCs, AfterLock
  <1>6. ProcInv'
    BY <1>1, <1>2, <1>3, <1>4, <1>5, AwakeFacts, RunAwaitsView DEF CloudRowStep
  <1> QED BY <1>1, <1>3, <1>6 DEF QuietTypeStep, TypeInv, QueueInv

-----------------------------------------------------------------------------
(* What the sends do to the row and to the runs.                           *)

LEMMA LockReplyType ==
    ASSUME TypeInv, NEW r \in Runs, LockReply(r)
    PROVE  /\ CloudRowStep /\ ProcInv' /\ Committed(entry')
           /\ entry'.scope = entry.scope /\ entry'.replySent = entry.replySent
           /\ \/ /\ pc' = [pc EXCEPT ![r] = "claimed"]
                 /\ entry.state # "done" /\ entry.intent # "send_in_flight"
                 /\ ~HeldByOther(entry, r)
                 /\ entry'.state = "outbound_locked" /\ entry'.intent = "send_claimed"
                 /\ Holds(entry', r)
              \/ /\ pc' = [pc EXCEPT ![r] = "failing"]
                 /\ entry'.state = IF entry.state = "done" THEN "done" ELSE "outbound_locked"
                 /\ entry'.intent = IF Committed(entry) THEN entry.intent ELSE "pending_send"
                 /\ entry.state = "outbound_locked" /\ entry.sendOwner \notin {None, r} =>
                      entry'.sendOwner = entry.sendOwner /\ entry'.sendFresh = entry.sendFresh
  <1> DEFINE l == LockOutbound(entry, view[r].text)
  <1>1. pc[r] = "ready" /\ pc[r] \in Working /\ pc[r] \in HasText /\ pc[r] # "idle"
    BY DEF LockReply, Working, HasText
  <1>2. /\ l \in Entries /\ RowOK(l) /\ l.scope = entry.scope
        /\ entry.state = "done" => l = entry
        /\ entry.state # "done" =>
             /\ l.state = "outbound_locked"
             /\ l.intent = IF entry.intent \in {"send_claimed", "send_in_flight"}
                           THEN entry.intent ELSE "pending_send"
             /\ l.sendOwner = entry.sendOwner /\ l.sendFresh = entry.sendFresh
             /\ l.replySent = entry.replySent
    BY <1>1, AwakeFacts, LockOutboundRow
  <1>3. entry \in Entries /\ RowOK(entry) /\ ProcInv
    BY <1>1, AwakeFacts
  <1>4. r \in Senders /\ UNCHANGED <<job, view>>
    BY DEF LockReply, Runs
  <1>5. job[r] \in Payloads /\ view[r].text \in Replies
    BY <1>1, AwakeFacts
  <1>6. "claimed" \in PCs \ {"creds"} /\ "failing" \in PCs \ {"creds"}
    BY DEF PCs
  <1>7. CASE MayClaimSend(l, r)
    <2>1. entry' = ClaimSend(l, r) /\ Awaits(r, "claimed")
      BY <1>7 DEF LockReply
    <2> HIDE DEF l
    <2>2. /\ entry' \in Entries /\ RowOK(entry') /\ entry'.scope = l.scope
          /\ l.state = "outbound_locked" /\ entry'.state = "outbound_locked"
          /\ l.intent \in {"pending_send", "send_claimed"}
          /\ ~HeldByOther(l, r)
          /\ entry'.intent = "send_claimed" /\ Holds(entry', r)
          /\ entry'.replySent = l.replySent
      BY <1>2, <1>4, <1>7, <2>1, ClaimSendRow
    <2>3. entry.state # "done"
      BY <1>2, <2>2
    <2>4. entry.intent # "send_in_flight" /\ ~HeldByOther(entry, r)
      <3>1. l.sendOwner = entry.sendOwner /\ l.sendFresh = entry.sendFresh
        BY <1>2, <2>3
      <3>2. ~HeldByOther(entry, r)
        BY <2>2, <3>1 DEF HeldByOther
      <3> QED BY <1>2, <2>2, <2>3, <3>2
    <2>5. CloudRowStep
      BY <1>2, <2>2, <2>3 DEF CloudRowStep, Committed
    <2>6. ProcInv'
      BY <1>3, <1>4, <1>5, <1>6, <2>1, <2>2, <2>5, RunAwaits DEF CloudRowStep, Committed
    <2> QED BY <1>2, <2>1, <2>2, <2>3, <2>4, <2>5, <2>6 DEF Awaits, Committed
  <1>8. CASE ~MayClaimSend(l, r)
    <2>1. entry' = ReleaseSend(l, r, FALSE) /\ Awaits(r, "failing")
      BY <1>8 DEF LockReply
    <2> HIDE DEF l
    <2>2. /\ entry' \in Entries /\ RowOK(entry') /\ entry'.scope = l.scope
          /\ entry'.state = l.state /\ entry'.replySent = l.replySent
          /\ entry'.intent = l.intent
          /\ l.state = "done" \/ l.sendOwner \notin {None, r} => entry' = l
      BY <1>2, <1>4, <2>1, ReleaseSendRow
    <2>3. entry'.state = IF entry.state = "done" THEN "done" ELSE "outbound_locked"
      BY <1>2, <2>2
    <2>4. CloudRowStep /\ Committed(entry')
      BY <1>2, <2>2, <2>3 DEF CloudRowStep, Committed
    <2>5. ProcInv'
      BY <1>3, <1>4, <1>5, <1>6, <2>1, <2>4, RunAwaits DEF CloudRowStep, HasText
    <2>6. entry'.intent = IF Committed(entry) THEN entry.intent ELSE "pending_send"
      BY <1>2, <1>3, <2>2 DEF Committed, RowOK, Entries, Intents
    <2>7. entry.state = "outbound_locked" /\ entry.sendOwner \notin {None, r} =>
            entry'.sendOwner = entry.sendOwner /\ entry'.sendFresh = entry.sendFresh
      BY <1>2, <2>2
    <2>8. entry'.scope = entry.scope /\ entry'.replySent = entry.replySent
      BY <1>2, <2>2
    <2>9. pc' = [pc EXCEPT ![r] = "failing"]
      BY <2>1 DEF Awaits
    <2> QED BY <2>3, <2>4, <2>5, <2>6, <2>7, <2>8, <2>9
  <1> QED BY <1>7, <1>8

\* What the in-flight mark does to the row and the run.
LEMMA StartSendType ==
    ASSUME TypeInv, NEW r \in Runs, StartSend(r)
    PROVE  /\ CloudRowStep /\ ProcInv'
           /\ pc[r] = "claimed" /\ pc' = [pc EXCEPT ![r] = "sending"]
           /\ entry'.scope = entry.scope /\ entry'.replySent = entry.replySent
           /\ entry'.state = entry.state
           /\ entry'.intent = IF entry.state = "outbound_locked" /\ entry.sendOwner \in {None, r}
                              THEN "send_in_flight" ELSE entry.intent
  <1>1. /\ pc[r] = "claimed" /\ pc[r] \in Working /\ pc[r] \in HasText /\ pc[r] # "idle"
        /\ entry' = MarkInFlight(entry, r) /\ Awaits(r, "sending") /\ UNCHANGED <<job, view>>
    BY DEF StartSend, Working, HasText
  <1>2. r \in Senders
    BY DEF Runs
  <1>3. /\ entry' \in Entries /\ RowOK(entry') /\ entry'.scope = entry.scope
        /\ entry'.state = entry.state /\ entry'.replySent = entry.replySent
        /\ entry'.intent = IF entry.state = "outbound_locked" /\ entry.sendOwner \in {None, r}
                           THEN "send_in_flight" ELSE entry.intent
    BY <1>1, <1>2, AwakeFacts, MarkInFlightRow
  <1>4. entry'.state # "absent"
    BY <1>1, <1>3, AwakeFacts
  <1>5. CloudRowStep
    BY <1>3, <1>4 DEF CloudRowStep, Committed
  <1>6. "sending" \in PCs \ {"creds"}
    BY DEF PCs
  <1>7. ProcInv'
    BY <1>1, <1>5, <1>6, AwakeFacts, RunAwaits DEF CloudRowStep, AfterLock
  <1> QED BY <1>1, <1>3, <1>5, <1>7 DEF Awaits

\* What ok:true does to the row and the run.
LEMMA SendSucceedsType ==
    ASSUME TypeInv, NEW r \in Runs, SendSucceeds(r)
    PROVE  /\ CloudRowStep /\ ProcInv'
           /\ InRequest(r) /\ accepted[r] /\ pc' = [pc EXCEPT ![r] = "idle"]
           /\ entry'.scope = entry.scope /\ entry'.state = "done"
           /\ entry'.intent = "provider_accepted"
  <1>1. /\ InRequest(r) /\ accepted[r] /\ entry' = MarkSent(entry) /\ Ends(r)
    BY DEF SendSucceeds
  <1>2. pc[r] # "idle"
    BY <1>1 DEF InRequest
  <1>3. /\ entry' \in Entries /\ RowOK(entry') /\ entry'.scope = entry.scope
        /\ entry'.state = "done" /\ entry'.intent = "provider_accepted"
    BY <1>1, <1>2, AwakeFacts, MarkSentRow
  <1>4. CloudRowStep
    BY <1>3 DEF CloudRowStep, Committed
  <1>5. ProcInv'
    BY <1>1, <1>2, <1>4, AwakeFacts, RunStops DEF CloudRowStep
  <1> QED BY <1>1, <1>3, <1>4, <1>5 DEF Ends

\* What ok:false does to the row and the run.
LEMMA SendRefusedType ==
    ASSUME TypeInv, NEW r \in Runs, SendRefused(r)
    PROVE  /\ CloudRowStep /\ ProcInv'
           /\ timer' \in Payloads \union {NoPayload}
           /\ sweep' \in QueueStatuses \union {"off"}
           /\ sweep' = sweep \/ (pc[r] = "sweep_resend" /\ pc' = [pc EXCEPT ![r] = "idle"])
           /\ InRequest(r)
           /\ \/ pc[r] = "sending" /\ pc' = [pc EXCEPT ![r] = "failing"]
              \/ pc[r] # "sending" /\ pc' = [pc EXCEPT ![r] = "idle"]
           /\ entry'.scope = entry.scope /\ entry'.state = entry.state
           /\ entry'.replySent => entry.replySent
  <1> DEFINE released == ReleaseSend(entry, r, TRUE)
             failed == RetryableFailure(released, FALSE)
  <1>1. /\ InRequest(r) /\ pc[r] # "idle" /\ pc[r] \in AfterLock /\ r \in Senders
        /\ pc[r] \in {"sending", "resend", "sweep_resend"}
    BY DEF SendRefused, InRequest, AfterLock, Runs
  <1>2. entry \in Entries /\ RowOK(entry) /\ Committed(entry) /\ ProcInv /\ QueueInv
    BY <1>1, AwakeFacts
  <1>3. /\ released \in Entries /\ RowOK(released) /\ released.scope = entry.scope
        /\ released.state = entry.state /\ released.replySent = entry.replySent
    BY <1>1, <1>2, ReleaseSendRow
  <1> HIDE DEF released
  <1>4. /\ failed \in Entries /\ RowOK(failed) /\ failed.scope = entry.scope
        /\ failed.state = entry.state /\ (failed.replySent => entry.replySent)
    BY <1>2, <1>3, RetryableFailureRow DEF Committed, ReplyKept
  <1> HIDE DEF failed
  <1>5. CASE pc[r] = "sending"
    <2>1. entry' = released /\ Awaits(r, "failing") /\ UNCHANGED <<job, view, timer, sweep>>
      BY <1>5 DEF SendRefused, released
    <2>2. CloudRowStep
      BY <1>2, <1>3, <2>1 DEF CloudRowStep, Committed
    <2>3. "failing" \in PCs \ {"creds"} /\ "failing" \notin HasText
      BY DEF PCs, HasText
    <2>4. job[r] \in Payloads
      BY <1>1, <1>5, AwakeFacts DEF Working
    <2>5. ProcInv'
      BY <1>2, <2>1, <2>2, <2>3, <2>4, RunAwaits DEF CloudRowStep
    <2> QED BY <1>1, <1>2, <1>3, <1>5, <2>1, <2>2, <2>5 DEF Awaits, QueueInv
  <1>6. CASE pc[r] = "resend"
    <2>1. /\ entry' = failed /\ ScheduleRetry(job[r].owner, failed.retryCount, FALSE)
          /\ Ends(r) /\ sweep' = sweep
      BY <1>6 DEF SendRefused, released, failed
    <2>2. CloudRowStep
      BY <1>2, <1>4, <2>1 DEF CloudRowStep, Committed
    <2>3. ProcInv'
      BY <1>2, <2>1, <2>2, RunStops DEF CloudRowStep
    <2>4. timer' \in Payloads \union {NoPayload}
      BY <1>1, <1>2, <1>6, <2>1, AwakeFacts, RetryTimerType DEF Working
    <2> QED BY <1>1, <1>2, <1>4, <1>6, <2>1, <2>2, <2>3, <2>4 DEF Ends, QueueInv
  <1>7. CASE pc[r] = "sweep_resend"
    <2>1. /\ entry' = failed /\ Ends(r) /\ timer' = timer
          /\ sweep' \in {view[r].snap.queue, "off"}
      BY <1>7 DEF SendRefused, released, failed
    <2>2. CloudRowStep
      BY <1>2, <1>4, <2>1 DEF CloudRowStep, Committed
    <2>3. ProcInv'
      BY <1>2, <2>1, <2>2, RunStops DEF CloudRowStep
    <2>4. view[r].snap.queue \in QueueStatuses
      BY <1>1, AwakeFacts DEF Views, Entries
    <2> QED BY <1>1, <1>2, <1>4, <1>7, <2>1, <2>2, <2>3, <2>4 DEF Ends, QueueInv
  <1> QED BY <1>1, <1>5, <1>6, <1>7

\* What an exception of the provider does to the row and the run.
LEMMA SendThrowsType ==
    ASSUME TypeInv, NEW r \in Runs, SendThrows(r)
    PROVE  /\ CloudRowStep /\ ProcInv'
           /\ InRequest(r)
           /\ \/ pc[r] = "sending" /\ pc' = [pc EXCEPT ![r] = "failing"]
              \/ pc[r] # "sending" /\ pc' = [pc EXCEPT ![r] = "idle"]
           /\ entry'.scope = entry.scope /\ entry'.state = entry.state
           /\ entry'.intent = entry.intent
           /\ entry'.replySent => entry.replySent
  <1>1. InRequest(r) /\ pc[r] # "idle" /\ pc[r] \in AfterLock /\ r \in Senders
    BY DEF SendThrows, InRequest, AfterLock, Runs
  <1>2. entry \in Entries /\ RowOK(entry) /\ Committed(entry) /\ ProcInv
    BY <1>1, AwakeFacts
  <1>3. CASE /\ pc[r] = "sending"
             /\ entry' = ReleaseSend(entry, r, FALSE)
             /\ Awaits(r, "failing") /\ UNCHANGED <<job, view>>
    <2>1. /\ entry' \in Entries /\ RowOK(entry') /\ entry'.scope = entry.scope
          /\ entry'.state = entry.state /\ entry'.intent = entry.intent
          /\ entry'.replySent = entry.replySent
      BY <1>1, <1>2, <1>3, ReleaseSendRow
    <2>2. CloudRowStep
      BY <1>2, <2>1 DEF CloudRowStep, Committed
    <2>3. "failing" \in PCs \ {"creds"} /\ "failing" \notin HasText
      BY DEF PCs, HasText
    <2>4. job[r] \in Payloads
      BY <1>1, <1>3, AwakeFacts DEF Working
    <2>5. ProcInv'
      BY <1>2, <1>3, <2>2, <2>3, <2>4, RunAwaits DEF CloudRowStep
    <2> QED BY <1>1, <1>3, <2>1, <2>2, <2>5 DEF Awaits
  <1>4. CASE /\ pc[r] # "sending"
             /\ entry' = MarkUncertain(entry)
             /\ Ends(r)
    <2>1. /\ entry' \in Entries /\ RowOK(entry') /\ entry'.scope = entry.scope
          /\ entry'.state = entry.state /\ entry'.intent = entry.intent
          /\ entry'.replySent => entry.replySent
      BY <1>2, <1>4, MarkUncertainRow
    <2>2. CloudRowStep
      BY <1>2, <2>1 DEF CloudRowStep, Committed
    <2>3. ProcInv'
      BY <1>2, <1>4, <2>2, RunStops DEF CloudRowStep
    <2> QED BY <1>1, <1>4, <2>1, <2>2, <2>3 DEF Ends
  <1> QED BY <1>3, <1>4 DEF SendThrows

-----------------------------------------------------------------------------
(* What starts or resumes a run.                                           *)

\* Recovery of row e by run r that ends without a send: at most the row is
\* handed to a person, and only when e says that a send was in flight.
RecoveryEnds(r, e) ==
    /\ entry' = entry \/ (e.intent = "send_in_flight" /\ entry' = MarkUncertain(entry))
    /\ pc' = [pc EXCEPT ![r] = "idle"]
    /\ entry'.scope = entry.scope /\ entry'.state = entry.state
    /\ entry'.intent = entry.intent
    /\ entry'.replySent => entry.replySent
    /\ accepted' = accepted /\ started' = started

\* Recovery by run r that sends: the row allowed it, and is in flight now.
RecoverySends(r, label) ==
    /\ entry.state = "outbound_locked"
    /\ entry.intent \in {"pending_send", "send_claimed"}
    /\ ~HeldByOther(entry, r)
    /\ pc' = [pc EXCEPT ![r] = label]
    /\ entry'.state = "outbound_locked" /\ entry'.intent = "send_in_flight"
    /\ entry'.scope = entry.scope /\ entry'.replySent = entry.replySent
    /\ accepted' = [accepted EXCEPT ![r] = FALSE] /\ started' = started + 1

\* The claim lets run r proceed.
TurnStarts(r) ==
    /\ ~Committed(entry) /\ ReplyKept(entry, entry')
    /\ entry'.state = "processing" /\ Leased(entry')
    /\ entry'.scope = entry.scope
    /\ entry'.queue = "queued" =>
         entry.state = "processing" /\ entry.queue = "queued" /\ ~Leased(entry)
    /\ entry.state = "processing" /\ Leased(entry) => entry.queue = "queued"
    /\ pc' = [pc EXCEPT ![r] = "lookup"]
    /\ accepted' = accepted /\ started' = started

\* Recovery of a locked row e, which may be older than entry, keeps the types
\* (tryRecoverCloudOutboundLockedTurn).
LEMMA RecoverLockedType ==
    ASSUME TypeInv, NEW r \in Runs, NEW e \in Entries, RowOK(e), Committed(entry),
           e.state = "outbound_locked", NEW p \in Payloads,
           NEW label \in {"resend", "sweep_resend"}, RecoverLocked(r, e, p, label)
    PROVE  CloudRowStep /\ ProcInv' /\ (RecoveryEnds(r, e) \/ RecoverySends(r, label))
  <1>1. entry \in Entries /\ RowOK(entry) /\ ProcInv /\ r \in Senders
    BY DEF TypeInv, RowInv, Runs
  <1>2. e.intent \notin {"none", "provider_accepted"} /\ e.reply \in Replies
    BY DEF RowOK, Entries
  <1>3. ASSUME RecoversWithoutSend(r, e)
        PROVE  CloudRowStep /\ ProcInv' /\ RecoveryEnds(r, e)
    <2>1. ClassifyLocked(e) \in {"uncertain_fail_closed", "lease_held", "resume_send"}
      BY <1>2 DEF ClassifyLocked, SendStarted
    <2>2. ClassifyLocked(e) = "uncertain_fail_closed" => e.intent = "send_in_flight"
      BY <1>2 DEF ClassifyLocked, SendStarted
    <2>3. entry' = entry \/ (e.intent = "send_in_flight" /\ entry' = MarkUncertain(entry))
      BY <1>3, <2>1, <2>2 DEF RecoversWithoutSend
    <2>4. /\ entry' \in Entries /\ RowOK(entry') /\ entry'.scope = entry.scope
          /\ entry'.state = entry.state /\ entry'.intent = entry.intent
          /\ entry'.replySent => entry.replySent
      BY <1>1, <2>3, MarkUncertainRow
    <2>5. CloudRowStep
      BY <2>4 DEF CloudRowStep, Committed
    <2>6. Ends(r) /\ accepted' = accepted /\ started' = started
      BY <1>3 DEF RecoversWithoutSend
    <2>7. ProcInv'
      BY <1>1, <2>5, <2>6, RunStops DEF CloudRowStep
    <2> QED BY <2>3, <2>4, <2>5, <2>6, <2>7 DEF Ends, RecoveryEnds
  <1>4. ASSUME RecoversWithSend(r, e, p, label)
        PROVE  CloudRowStep /\ ProcInv' /\ RecoverySends(r, label)
    <2> DEFINE c == ClaimSend(entry, r)
    <2>1. /\ MayClaimSend(entry, r) /\ entry' = MarkInFlight(c, r)
          /\ Awaits(r, label) /\ job' = [job EXCEPT ![r] = p]
          /\ view' = [view EXCEPT ![r] = [text |-> e.reply, snap |-> e]]
          /\ accepted' = [accepted EXCEPT ![r] = FALSE] /\ started' = started + 1
      BY <1>4 DEF RecoversWithSend
    <2>2. /\ c \in Entries /\ RowOK(c) /\ c.scope = entry.scope
          /\ entry.state = "outbound_locked" /\ c.state = "outbound_locked"
          /\ entry.intent \in {"pending_send", "send_claimed"}
          /\ ~HeldByOther(entry, r)
          /\ c.sendOwner = r /\ c.replySent = entry.replySent
      BY <1>1, <2>1, ClaimSendRow
    <2> HIDE DEF c
    <2>3. /\ entry' \in Entries /\ RowOK(entry') /\ entry'.scope = c.scope
          /\ entry'.state = c.state /\ entry'.replySent = c.replySent
          /\ entry'.intent = "send_in_flight"
      BY <1>1, <2>1, <2>2, MarkInFlightRow
    <2>4. CloudRowStep
      BY <2>2, <2>3 DEF CloudRowStep, Committed
    <2>5. /\ [text |-> e.reply, snap |-> e] \in Views
          /\ [text |-> e.reply, snap |-> e].text \in Replies
      BY <1>2 DEF Views
    <2>6. label \in PCs /\ label # "creds"
      BY DEF PCs
    <2>7. Committed(entry')
      BY <2>4 DEF CloudRowStep
    <2>8. ProcInv'
      BY <1>1, <2>1, <2>5, <2>6, <2>7, RunMoves DEF Awaits
    <2> QED BY <2>1, <2>2, <2>3, <2>4, <2>8 DEF Awaits, RecoverySends
  <1> QED BY <1>3, <1>4 DEF RecoverLocked

\* Entering the pipeline with payload p keeps the types
\* (executeWhatsAppAiPipeline up to its first await).
LEMMA BeginTurnType ==
    ASSUME TypeInv, NEW r \in Runs, NEW p \in Payloads, BeginTurn(r, p)
    PROVE  /\ entry' \in Entries /\ RowOK(entry')
           /\ entry'.state = "absent" => entry' = entry /\ pc' = [pc EXCEPT ![r] = "idle"]
           /\ entry'.state # "absent" => CloudRowStep
           /\ Committed(entry) => Committed(entry')
           /\ ProcInv'
           /\ \/ TurnStarts(r)
              \/ /\ entry' = entry /\ pc' = [pc EXCEPT ![r] = "idle"]
                 /\ accepted' = accepted /\ started' = started
              \/ entry.state = "outbound_locked" /\ RecoveryEnds(r, entry)
              \/ RecoverySends(r, "resend")
  <1>1. entry \in Entries /\ RowOK(entry) /\ ProcInv /\ p.owner \in Owners
    BY DEF TypeInv, RowInv, Payloads
  <1>2. CASE /\ ClaimAction(entry, p) = "process"
             /\ entry' = ClaimTurn(entry, p)
             /\ Awaits(r, "lookup")
             /\ job' = [job EXCEPT ![r] = p]
             /\ view' = [view EXCEPT ![r] = NoView]
             /\ UNCHANGED <<accepted, started>>
    <2>1. /\ entry' \in Entries /\ RowOK(entry') /\ ReplyKept(entry, entry')
          /\ ~Committed(entry)
          /\ entry'.state = "processing" /\ Leased(entry')
          /\ entry'.scope = entry.scope
          /\ entry'.queue = "queued" =>
               entry.state = "processing" /\ entry.queue = "queued" /\ ~Leased(entry)
          /\ entry.state = "processing" /\ Leased(entry) => entry.queue = "queued"
      BY <1>1, <1>2, ClaimTurnRow
    <2>2. TurnStarts(r)
      BY <1>2, <2>1 DEF TurnStarts, Awaits
    <2>3. "lookup" \in PCs /\ "lookup" # "creds" /\ "lookup" \notin HasText \union AfterLock
      BY DEF PCs, HasText, AfterLock
    <2>4. NoView \in Views
      BY NoEntryRow DEF NoView, Views
    <2>5. CloudRowStep
      BY <2>1 DEF CloudRowStep, ReplyKept
    <2>6. ProcInv'
      BY <1>1, <1>2, <2>1, <2>3, <2>4, RunMoves DEF Awaits
    <2> QED BY <2>1, <2>2, <2>5, <2>6
  <1>3. CASE Ends(r) /\ UNCHANGED <<entry, accepted, started>>
    <2>1. ProcInv'
      BY <1>1, <1>3, RunStops
    <2> QED BY <1>1, <1>3, <2>1 DEF Ends, CloudRowStep
  <1>4. CASE ClaimAction(entry, p) = "outbound_locked" /\ RecoverLocked(r, entry, p, "resend")
    <2>1. entry.state = "outbound_locked" /\ Committed(entry)
      BY <1>4 DEF ClaimAction, Committed
    <2>2. CloudRowStep /\ ProcInv' /\ (RecoveryEnds(r, entry) \/ RecoverySends(r, "resend"))
      BY <1>1, <1>4, <2>1, RecoverLockedType
    <2> QED BY <2>1, <2>2 DEF CloudRowStep
  <1> QED BY <1>2, <1>3, <1>4 DEF BeginTurn

\* The recovery sweep's payload has an owner (buildPipelinePayload).
LEMMA SweepPayloadType ==
    ASSUME NEW e \in Entries, RowOK(e), e.state # "absent"
    PROVE  SweepPayload(e) \in Payloads
  <1>1. /\ e.origOwner \in Owners
        /\ e.queue \in {"queued", "resuming", "retryable"} => e.queueOwner \in Owners
    BY DEF RowOK, Entries
  <1>2. (e.queue = "queued") \in BOOLEAN
    OBVIOUS
  <1>3. CASE e.queue \in {"queued", "resuming", "retryable"}
    <2>1. SweepPayload(e) = [owner |-> e.queueOwner, resume |-> TRUE, token |-> e.queue = "queued"]
      BY <1>3 DEF SweepPayload
    <2> QED BY <1>1, <1>2, <1>3, <2>1 DEF Payloads
  <1>4. CASE e.queue \notin {"queued", "resuming", "retryable"}
    <2>1. SweepPayload(e) = [owner |-> e.origOwner, resume |-> TRUE, token |-> e.queue = "queued"]
      BY <1>1, <1>4 DEF SweepPayload
    <2> QED BY <1>1, <1>2, <2>1 DEF Payloads
  <1> QED BY <1>3, <1>4

\* The sweep after its await keeps the types (the recovery sweep's timer
\* callback, from the credentials on).
LEMMA SweepResumesType ==
    ASSUME TypeInv, NEW r \in Runs, SweepResumes(r)
    PROVE  /\ CloudRowStep /\ ProcInv' /\ pc[r] = "creds"
           /\ \/ view[r].snap.state = "outbound_locked" /\ RecoveryEnds(r, view[r].snap)
              \/ view[r].snap.state = "outbound_locked" /\ RecoverySends(r, "sweep_resend")
              \/ /\ view[r].snap.state # "outbound_locked"
                 /\ \/ TurnStarts(r)
                    \/ /\ entry' = entry /\ pc' = [pc EXCEPT ![r] = "idle"]
                       /\ accepted' = accepted /\ started' = started
                    \/ entry.state = "outbound_locked" /\ RecoveryEnds(r, entry)
                    \/ RecoverySends(r, "resend")
  <1> DEFINE e == view[r].snap
  <1>1. pc[r] = "creds" /\ pc[r] # "idle"
    BY DEF SweepResumes
  <1>2. /\ entry \in Entries /\ RowOK(entry) /\ entry.state # "absent" /\ view[r] \in Views
        /\ RunOK(pc[r], job[r], view[r])
    BY <1>1, AwakeFacts DEF ProcInv
  <1>3. /\ e \in Entries /\ RowOK(e) /\ e.state # "absent"
        /\ e.state = "outbound_locked" => Committed(entry)
    BY <1>1, <1>2 DEF RunOK, Views
  <1>4. SweepPayload(e) \in Payloads
    BY <1>3, SweepPayloadType
  <1>5. CASE e.state = "outbound_locked" /\ RecoverLocked(r, e, SweepPayload(e), "sweep_resend")
    <2>1. Committed(entry) /\ e.state = "outbound_locked"
      BY <1>3, <1>5
    <2> HIDE DEF e
    <2>2. CloudRowStep /\ ProcInv' /\ (RecoveryEnds(r, e) \/ RecoverySends(r, "sweep_resend"))
      BY <1>3, <1>4, <1>5, <2>1, RecoverLockedType
    <2> QED BY <1>1, <2>1, <2>2 DEF e
  <1>6. CASE e.state # "outbound_locked" /\ BeginTurn(r, SweepPayload(e))
    <2>1. /\ entry' \in Entries /\ RowOK(entry')
          /\ entry'.state = "absent" => entry' = entry /\ pc' = [pc EXCEPT ![r] = "idle"]
          /\ entry'.state # "absent" => CloudRowStep
          /\ Committed(entry) => Committed(entry')
          /\ ProcInv'
          /\ \/ TurnStarts(r)
             \/ /\ entry' = entry /\ pc' = [pc EXCEPT ![r] = "idle"]
                /\ accepted' = accepted /\ started' = started
             \/ entry.state = "outbound_locked" /\ RecoveryEnds(r, entry)
             \/ RecoverySends(r, "resend")
      BY <1>4, <1>6, BeginTurnType
    <2>2. CloudRowStep
      BY <1>2, <2>1
    <2> QED BY <1>1, <1>6, <2>1, <2>2
  <1> QED BY <1>5, <1>6 DEF SweepResumes

-----------------------------------------------------------------------------
(* Type correctness.                                                       *)

LEMMA RowStepInv == CloudRowStep => RowInv'
  BY DEF CloudRowStep, RowInv

\* What the send steps change besides the row and the runs keeps its type.
LEMMA OutboxType ==
    ASSUME NEW s \in Seq(Replies), NEW t \in Replies
    PROVE  Append(s, t) \in Seq(Replies)
  OBVIOUS

\* Counters stay numbers.
LEMMA SuccType == \A n \in Nat : n + 1 \in Nat /\ n + 0 \in Nat
  OBVIOUS

\* Steps of a run that has started keep the types.
LEMMA RunStepType ==
    ASSUME TypeInv, NEW r \in Runs, RunStep(r)
    PROVE  TypeInv'
  <1>1. CASE \/ QuietTypeStep /\ sweep' = sweep /\ UNCHANGED <<envVars, obsVars>>
    BY <1>1, RowStepInv DEF QuietTypeStep, TypeInv, QueueInv, CountInv, envVars, obsVars, verdicts
  <1>2. CASE \/ LookupFails(r) \/ GatePasses(r) \/ GateQueues(r) \/ DuplicateInbound(r)
             \/ OwnerAnswerHandled(r) \/ AskOwnership(r) \/ OwnershipFails(r)
             \/ LaneSilent(r) \/ DuplicateSend(r) \/ FailTurn(r) \/ SweepLacksCredentials(r)
    <2>1. QuietTypeStep
      BY <1>2, LookupFailsType, GatePassesType, GateQueuesType, RunOverType,
         AskOwnershipType, LaneOverType
    <2>2. sweep' = sweep /\ UNCHANGED <<envVars, obsVars>>
      BY <1>2 DEF LookupFails, GatePasses, GateQueues, DuplicateInbound, OwnerAnswerHandled,
         AskOwnership, OwnershipFails, LaneSilent, DuplicateSend, FailTurn, SweepLacksCredentials
    <2> QED BY <1>1, <2>1, <2>2
  <1>3. CASE \/ \E s \in Scopes : OwnershipDecided(r, s)
             \/ \E t \in Replies : OwnershipUnusable(r, t) \/ LaneReplies(r, t)
             \/ \E paused \in BOOLEAN : LaneFails(r, paused)
    <2>1. QuietTypeStep
      BY <1>3, OwnershipDecidedType, GotReplyType, LaneFailsType
    <2>2. sweep' = sweep /\ UNCHANGED <<envVars, obsVars>>
      BY <1>3 DEF OwnershipDecided, OwnershipUnusable, LaneReplies, LaneFails
    <2> QED BY <1>1, <2>1, <2>2
  <1>4. CASE LockReply(r) \/ SendSucceeds(r) \/ SendThrows(r)
    <2>1. CloudRowStep /\ ProcInv'
      BY <1>4, LockReplyType, SendSucceedsType, SendThrowsType
    <2>2. UNCHANGED <<queue, timer, sweep, envVars, obsVars>>
      BY <1>4 DEF LockReply, SendSucceeds, SendThrows
    <2> QED BY <2>1, <2>2, RowStepInv
         DEF TypeInv, QueueInv, CountInv, envVars, obsVars, verdicts
  <1>5. CASE StartSend(r)
    <2>1. CloudRowStep /\ ProcInv'
      BY <1>5, StartSendType
    <2>2. /\ accepted' = [accepted EXCEPT ![r] = FALSE] /\ started' = started + 1
          /\ UNCHANGED <<queue, timer, sweep, envVars, verdicts, outbox>>
      BY <1>5 DEF StartSend
    <2>3. accepted' \in [Runs -> BOOLEAN]
      BY <2>2 DEF TypeInv
    <2>4. started + 1 \in Nat
      BY SuccType DEF TypeInv, CountInv
    <2> QED BY <2>1, <2>2, <2>3, <2>4, RowStepInv
         DEF TypeInv, QueueInv, CountInv, envVars, verdicts
  <1>6. CASE SendRefused(r)
    <2>1. /\ CloudRowStep /\ ProcInv' /\ timer' \in Payloads \union {NoPayload}
          /\ sweep' \in QueueStatuses \union {"off"}
      BY <1>6, SendRefusedType
    <2>2. /\ UNCHANGED <<queue, envVars, accepted, started, outbox>>
          /\ refused' = refused + 1
          /\ misreported' = misreported + 1 \/ misreported' = misreported + 0
      BY <1>6 DEF SendRefused
    <2>3. refused + 1 \in Nat /\ misreported + 1 \in Nat /\ misreported + 0 \in Nat
      BY SuccType DEF TypeInv, CountInv
    <2> QED BY <2>1, <2>2, <2>3, RowStepInv DEF TypeInv, QueueInv, CountInv, envVars
  <1>7. CASE SweepResumes(r)
    <2>1. CloudRowStep /\ ProcInv' /\ UNCHANGED <<queue, timer, sweep, envVars, verdicts, outbox>>
      BY <1>7, SweepResumesType DEF SweepResumes
    <2>2. \/ accepted' = accepted /\ started' = started
          \/ accepted' = [accepted EXCEPT ![r] = FALSE] /\ started' = started + 1
      BY <1>7, SweepResumesType DEF TurnStarts, RecoveryEnds, RecoverySends
    <2>3. accepted' \in [Runs -> BOOLEAN]
      BY <2>2 DEF TypeInv
    <2>4. started + 1 \in Nat
      BY SuccType DEF TypeInv, CountInv
    <2> QED BY <2>1, <2>2, <2>3, <2>4, RowStepInv
         DEF TypeInv, QueueInv, CountInv, envVars, verdicts
  <1> QED BY <1>2, <1>3, <1>4, <1>5, <1>6, <1>7 DEF RunStep

\* Starting a run keeps the types.
LEMMA RunStartType ==
    ASSUME TypeInv, NEW r \in Runs, RunStart(r)
    PROVE  TypeInv'
  <1>1. ASSUME NEW p \in Payloads, BeginTurn(r, p), pc[r] = "idle", sweep' = sweep
        PROVE  /\ ProcInv' /\ RowInv' /\ accepted' \in [Runs -> BOOLEAN] /\ started' \in Nat
    <2>1. /\ entry' \in Entries /\ RowOK(entry')
          /\ entry'.state = "absent" => entry' = entry /\ pc' = [pc EXCEPT ![r] = "idle"]
          /\ ProcInv'
      BY <1>1, BeginTurnType
    <2>2. \/ accepted' = accepted /\ started' = started
          \/ accepted' = [accepted EXCEPT ![r] = FALSE] /\ started' = started + 1
      BY <1>1, BeginTurnType DEF TurnStarts, RecoveryEnds, RecoverySends
    <2>3. entry'.state = "absent" => sweep' = "off" /\ \A q \in Runs : pc'[q] = "idle"
      BY <1>1, <2>1 DEF TypeInv, RowInv, ProcInv
    <2>4. RowInv'
      BY <2>1, <2>3 DEF RowInv
    <2>5. started + 1 \in Nat
      BY SuccType DEF TypeInv, CountInv
    <2>6. started' \in Nat
      BY <2>2, <2>5 DEF TypeInv, CountInv
    <2>7. accepted' \in [Runs -> BOOLEAN]
      BY <2>2 DEF TypeInv
    <2> QED BY <2>1, <2>4, <2>6, <2>7
  <1>2. CASE Deliver(r)
    <2> DEFINE p == [owner |-> deliveries + 1, resume |-> FALSE, token |-> FALSE]
    <2>1. /\ pc[r] = "idle" /\ deliveries < MaxDeliveries /\ deliveries' = deliveries + 1
          /\ BeginTurn(r, p)
          /\ UNCHANGED <<queue, timer, sweep, crashes, verdicts, outbox>>
      BY <1>2 DEF Deliver
    <2>2. deliveries \in 0..MaxDeliveries /\ deliveries + 1 \in 1..MaxDeliveries
      BY <2>1 DEF TypeInv, CountInv
    <2>3. p \in Payloads
      BY <2>2 DEF Payloads
    <2> HIDE DEF p
    <2>4. /\ ProcInv' /\ RowInv' /\ accepted' \in [Runs -> BOOLEAN] /\ started' \in Nat
      BY <1>1, <2>1, <2>3
    <2>5. deliveries + 1 \in 0..MaxDeliveries
      BY <2>2
    <2> QED BY <2>1, <2>4, <2>5 DEF TypeInv, QueueInv, CountInv, verdicts
  <1>3. CASE TimerFires(r)
    <2>1. /\ pc[r] = "idle" /\ timer \in Payloads /\ timer' = NoPayload /\ BeginTurn(r, timer)
          /\ UNCHANGED <<queue, sweep, envVars, verdicts, outbox>>
      BY <1>3 DEF TimerFires, TypeInv, QueueInv
    <2>2. /\ ProcInv' /\ RowInv' /\ accepted' \in [Runs -> BOOLEAN] /\ started' \in Nat
      BY <1>1, <2>1
    <2> QED BY <2>1, <2>2 DEF TypeInv, QueueInv, CountInv, envVars, verdicts
  <1>4. CASE DrainQueue(r)
    <2>1. /\ pc[r] = "idle" /\ queue # <<>> /\ queue' = Tail(queue)
          /\ BeginTurn(r, Head(queue)) /\ queue \in Seq(Payloads)
          /\ UNCHANGED <<timer, sweep, envVars, verdicts, outbox>>
      BY <1>4 DEF DrainQueue, TypeInv, QueueInv
    <2>2. Head(queue) \in Payloads /\ queue' \in Seq(Payloads)
      BY <2>1
    <2>3. /\ ProcInv' /\ RowInv' /\ accepted' \in [Runs -> BOOLEAN] /\ started' \in Nat
      BY <1>1, <2>1, <2>2
    <2> QED BY <2>1, <2>2, <2>3 DEF TypeInv, QueueInv, CountInv, envVars, verdicts
  <1>5. CASE SweepFires(r)
    <2>1. /\ sweep # "off" /\ sweep' = "off" /\ pc' = [pc EXCEPT ![r] = "creds"]
          /\ view' = [view EXCEPT ![r] = [text |-> None, snap |-> entry]]
          /\ UNCHANGED <<entry, job, queue, timer, envVars, obsVars>>
      BY <1>5 DEF SweepFires, Awaits
    <2>2. entry \in Entries /\ RowOK(entry) /\ entry.state # "absent" /\ ProcInv
      BY <2>1 DEF TypeInv, RowInv
    <2>3. CloudRowStep
      BY <2>1, <2>2 DEF CloudRowStep
    <2>4. [text |-> None, snap |-> entry] \in Views
      BY <2>2 DEF Views
    <2>5. "creds" \in PCs /\ "creds" \notin Working \union HasText \union AfterLock
      BY DEF PCs, Working, HasText, AfterLock
    <2>6. job[r] \in Payloads \union {NoPayload} /\ job' = [job EXCEPT ![r] = job[r]]
      BY <2>1, <2>2 DEF ProcInv
    <2>7. entry.state = "outbound_locked" => Committed(entry')
      BY <2>1 DEF Committed
    <2>8. ProcInv'
      BY <2>1, <2>2, <2>3, <2>4, <2>5, <2>6, <2>7, RunMoves DEF CloudRowStep
    <2> QED BY <2>1, <2>3, <2>8, RowStepInv
         DEF TypeInv, QueueInv, CountInv, envVars, obsVars, verdicts
  <1> QED BY <1>2, <1>3, <1>4, <1>5 DEF RunStart

\* A lapse of a lease is quiet for everything but the leases.
LEMMA LapseRow ==
    ASSUME NEW e \in Entries, RowOK(e)
    PROVE  /\ LET f == [e EXCEPT !.procFresh = FALSE] IN
              /\ f \in Entries /\ RowOK(f) /\ ReplyKept(e, f) /\ f.state = e.state
              /\ f.scope = e.scope /\ f.queue = e.queue /\ ~Leased(f)
           /\ LET f == [e EXCEPT !.sendFresh = FALSE] IN
              /\ f \in Entries /\ RowOK(f) /\ f.state = e.state /\ f.intent = e.intent
              /\ f.scope = e.scope /\ f.queue = e.queue /\ (Leased(f) <=> Leased(e))
              /\ f.replySent = e.replySent
           /\ LET f == [e EXCEPT !.sendOwner = IF @ = None THEN None ELSE Dead] IN
              /\ f \in Entries /\ RowOK(f) /\ f.state = e.state /\ f.intent = e.intent
              /\ f.scope = e.scope /\ f.queue = e.queue /\ (Leased(f) <=> Leased(e))
              /\ f.replySent = e.replySent
  <1>1. [e EXCEPT !.procFresh = FALSE] \in Entries
    BY DEF Entries
  <1>2. [e EXCEPT !.sendFresh = FALSE] \in Entries
    BY DEF Entries
  <1>3. [e EXCEPT !.sendOwner = IF @ = None THEN None ELSE Dead] \in Entries
    BY DEF Entries
  <1>4. /\ RowOK([e EXCEPT !.procFresh = FALSE])
        /\ RowOK([e EXCEPT !.sendFresh = FALSE])
        /\ RowOK([e EXCEPT !.sendOwner = IF @ = None THEN None ELSE Dead])
    BY DEF RowOK, Entries, Committed
  <1>5. ReplyKept(e, [e EXCEPT !.procFresh = FALSE])
    BY DEF ReplyKept, Entries, Committed
  <1> QED BY <1>1, <1>2, <1>3, <1>4, <1>5 DEF Entries, Leased

\* Time, crashes and the sweep's discarding keep the types.
LEMMA EnvStepType ==
    ASSUME TypeInv, SweepDiscards \/ ProcessingLeaseLapses \/ SendLeaseLapses \/ CrashRestart
    PROVE  TypeInv'
  <1>1. entry \in Entries /\ RowOK(entry) /\ ProcInv
    BY DEF TypeInv, RowInv
  <1>2. CASE SweepDiscards
    BY <1>1, <1>2, RunsStay DEF SweepDiscards, TypeInv, QueueInv, CountInv, RowInv, envVars,
       obsVars, verdicts, procVars
  <1>3. CASE ProcessingLeaseLapses \/ SendLeaseLapses
    <2>1. /\ entry' \in Entries /\ RowOK(entry') /\ entry'.state = entry.state
          /\ UNCHANGED <<volatile, envVars, obsVars>>
      <3>1. CASE ProcessingLeaseLapses
        BY <1>1, <3>1, LapseRow DEF ProcessingLeaseLapses
      <3>2. CASE SendLeaseLapses
        BY <1>1, <3>2, LapseRow DEF SendLeaseLapses
      <3> QED BY <1>3, <3>1, <3>2
    <2>2. ProcInv'
      BY <1>1, <2>1, RunsStay DEF Committed, volatile, procVars
    <2> QED BY <2>1, <2>2 DEF TypeInv, QueueInv, CountInv, RowInv, volatile, envVars,
       obsVars, verdicts
  <1>4. CASE CrashRestart
    <2>1. /\ entry' \in Entries /\ RowOK(entry') /\ entry'.state = entry.state
      BY <1>1, <1>4, LapseRow DEF CrashRestart
    <2>2. /\ pc' = [q \in Runs |-> "idle"] /\ job' = [q \in Runs |-> NoPayload]
          /\ view' = [q \in Runs |-> NoView] /\ queue' = <<>> /\ timer' = NoPayload
          /\ sweep' \in {entry.queue, "off"} /\ crashes < MaxCrashes /\ crashes' = crashes + 1
          /\ entry.state = "absent" => sweep' = "off"
          /\ UNCHANGED <<deliveries, obsVars>>
      BY <1>4 DEF CrashRestart, Recoverable
    <2>3. "idle" \in PCs /\ "idle" \notin Working \union HasText \union AfterLock
      BY DEF PCs, Working, HasText, AfterLock
    <2>4. NoView \in Views
      BY NoEntryRow DEF NoView, Views
    <2>5. \A r \in Runs : RunOK("idle", NoPayload, NoView)'
      BY <2>3 DEF RunOK
    <2>6. ProcInv'
      BY <2>2, <2>3, <2>4, <2>5 DEF ProcInv, RunOK
    <2>7. RowInv'
      BY <2>1, <2>2 DEF RowInv
    <2>8. entry.queue \in QueueStatuses
      BY <1>1 DEF Entries
    <2>9. crashes + 1 \in 0..MaxCrashes
      BY <2>2 DEF TypeInv, CountInv
    <2> QED BY <2>2, <2>6, <2>7, <2>8, <2>9
         DEF TypeInv, QueueInv, CountInv, obsVars, verdicts
  <1> QED BY <1>2, <1>3, <1>4

\* A message in the customer's chat is a reply.
LEMMA ProviderAcceptsType ==
    ASSUME TypeInv, NEW r \in Runs, ProviderAccepts(r)
    PROVE  TypeInv'
  <1>1. /\ pc[r] \in HasText /\ pc[r] # "idle"
        /\ outbox' = Append(outbox, view[r].text)
        /\ accepted' = [accepted EXCEPT ![r] = TRUE]
        /\ UNCHANGED <<entry, volatile, envVars, started, verdicts>>
    BY DEF ProviderAccepts, InRequest, HasText
  <1>2. outbox' \in Seq(Replies)
    BY <1>1, AwakeFacts, OutboxType DEF TypeInv, CountInv
  <1>3. ProcInv'
    BY <1>1, RunsStay DEF TypeInv, volatile, procVars
  <1> QED BY <1>1, <1>2, <1>3 DEF TypeInv, QueueInv, CountInv, RowInv, volatile, envVars, verdicts

\* The invariant is inductive.
LEMMA TypeInvStep ==
    ASSUME TypeInv, [Next]_vars
    PROVE  TypeInv'
  <1>1. CASE UNCHANGED vars
    BY <1>1 DEF vars, TypeInv, ProcInv, RunOK, RowInv, QueueInv, CountInv
  <1>2. CASE Next
    BY <1>2, RunStepType, RunStartType, ProviderAcceptsType, EnvStepType DEF Next
  <1> QED BY <1>1, <1>2

\* It holds initially.
LEMMA TypeInvInit == Init => TypeInv
  <1> SUFFICES ASSUME Init PROVE TypeInv
    OBVIOUS
  <1>1. "idle" \in PCs /\ "idle" \notin Working \union HasText \union AfterLock
    BY DEF PCs, Working, HasText, AfterLock
  <1>2. NoView \in Views
    BY NoEntryRow DEF NoView, Views
  <1>3. ProcInv
    BY <1>1, <1>2 DEF Init, ProcInv, RunOK
  <1>4. RowInv
    BY NoEntryRow DEF Init, RowInv
  <1> QED BY <1>3, <1>4 DEF Init, TypeInv, QueueInv, CountInv

\* So it holds of every behaviour.
LEMMA TypeInvariant == Spec => []TypeInv
  BY TypeInvInit, TypeInvStep, PTL DEF Spec

\* Every variable keeps its type, for every number of runs, deliveries and
\* restarts: executeWhatsAppAiPipeline, the ledger and the recovery sweep.
THEOREM TypeCorrect == Spec => []TypeOK
  BY TypeInvariant, TypeInvOK, PTL

-----------------------------------------------------------------------------
(* The safety properties of CloudTurn for every value of its constants: at *)
(* most one run sends at a time, sends and deliveries are licensed by the  *)
(* provider's verdicts, the lane follows the recorded decision, and the    *)
(* turn implements DeliveryPromise.                                        *)
(*                                                                         *)
(* The argument: an outbound is claimed by one run only (HolderInv); while *)
(* a send can still be claimed every earlier verdict is in (CountsInv); and*)
(* the recovery sweep, which acts on a row it read before an await, never  *)
(* clears a live claim, because no other run can be about to send by then  *)
(* (SweepInv).                                                             *)

\* Run r is about to send, or is waiting for the provider.
Claimed(r) == pc[r] = "claimed"
Holder(r) == Claimed(r) \/ InRequest(r)

\* A send could still be claimed, or a first one is.
Unsent == ~Committed(entry) \/ (entry.state = "outbound_locked" /\ entry.intent # "send_in_flight")

\* Every verdict is in; every message but the misreported ones is accounted for.
VerdictsIn == started = refused /\ Len(outbox) = misreported

\* One run claims or sends; the row says so.
HolderInv ==
    /\ \A q, r \in Runs : Holder(q) /\ Holder(r) => q = r
    /\ \A r \in Runs : Claimed(r) =>
         /\ entry.intent = "send_claimed"
         /\ entry.state = "outbound_locked" => Holds(entry, r)
    /\ \A r \in Runs : InRequest(r) /\ entry.state = "outbound_locked" =>
         entry.intent = "send_in_flight"

\* While a send can be claimed all verdicts are in; while a request waits, all
\* but its own.
CountsInv ==
    /\ Unsent => VerdictsIn
    /\ \A r \in Runs : Claimed(r) => VerdictsIn
    /\ \A r \in Runs : InRequest(r) =>
         /\ started = refused + 1
         /\ accepted[r] => Len(outbox) = misreported + 1
         /\ ~accepted[r] => Len(outbox) = misreported
    /\ started = refused \/ started = refused + 1
    /\ Len(outbox) = misreported \/ Len(outbox) = misreported + 1
    /\ entry.replySent => outbox # <<>>

\* Run r can still lead to a reply of its own.
Busy(r) == pc[r] \in {"lookup", "preflight", "ownership", "lane", "ready", "claimed"}

\* A sweep is pending whose only test of the row is that it is not done.
Blind == sweep \in {"none", "terminal"}

\* While a blind sweep is pending one run at most can lead to a reply, and it
\* holds the lease or, once the row is locked, the claim. A sweep that resumes a
\* locked row has no other run beside it but the claimer.
SweepInv ==
    /\ Blind => \A q, r \in Runs : Busy(q) /\ Busy(r) => q = r
    /\ Blind /\ ~Committed(entry) => \A r \in Runs : Busy(r) =>
         entry.state = "processing" /\ Leased(entry) /\ entry.queue # "queued"
    /\ Blind /\ entry.state = "processing" /\ entry.queue = "queued" => Leased(entry)
    /\ Blind /\ entry.state = "outbound_locked" => \A r \in Runs : Busy(r) => Claimed(r)
    /\ \A r \in Runs : pc[r] = "creds" /\ view[r].snap.state = "outbound_locked" =>
         /\ \A q \in Runs : Busy(q) => Claimed(q)
         /\ view[r].snap.intent = "send_in_flight" => \A q \in Runs : ~Busy(q)
    /\ \A r \in Runs : pc[r] = "sweep_resend" => \A q \in Runs : ~Busy(q)

\* A run in a lane is in the lane the row records.
LaneInv ==
    \A r \in Runs : pc[r] = "lane" =>
        entry.scope # None /\ view[r].snap.scope = entry.scope

\* The inductive invariant.
CoreInv == TypeInv /\ HolderInv /\ CountsInv /\ SweepInv /\ LaneInv

-----------------------------------------------------------------------------
(* Steps in which nothing is sent or claimed.                              *)

\* The runs that claim or send are the same before and after.
SameHolders ==
    \A q \in Runs : (Claimed(q)' <=> Claimed(q)) /\ (InRequest(q)' <=> InRequest(q))

\* If nobody claims, starts or ends a request, and the row's claim is left alone,
\* who claims and who waits stays consistent with the row.
LEMMA QuietKeepsHolders ==
    ASSUME HolderInv, SameHolders, ReplyKept(entry, entry')
    PROVE  HolderInv'
  <1>1. ASSUME NEW q \in Runs, NEW r \in Runs, Holder(q)', Holder(r)'
        PROVE  q = r
    BY <1>1 DEF HolderInv, SameHolders, Holder
  <1>2. ASSUME NEW r \in Runs, Claimed(r)'
        PROVE  /\ entry'.intent = "send_claimed"
               /\ entry'.state = "outbound_locked" => Holds(entry', r)
    <2>1. /\ entry.intent = "send_claimed"
          /\ entry.state = "outbound_locked" => Holds(entry, r)
      BY <1>2 DEF HolderInv, SameHolders
    <2>2. /\ entry'.intent = entry.intent
          /\ entry'.state = "outbound_locked" =>
               /\ entry.state = "outbound_locked"
               /\ entry'.sendOwner = entry.sendOwner
               /\ entry'.sendFresh = entry.sendFresh
      BY DEF ReplyKept
    <2> QED BY <2>1, <2>2 DEF Holds
  <1>3. ASSUME NEW r \in Runs, InRequest(r)', entry'.state = "outbound_locked"
        PROVE  entry'.intent = "send_in_flight"
    BY <1>3 DEF HolderInv, SameHolders, ReplyKept
  <1> QED BY <1>1, <1>2, <1>3 DEF HolderInv

\* The same for the counts of requests, verdicts and messages.
LEMMA QuietKeepsCounts ==
    ASSUME CountsInv, SameHolders, ReplyKept(entry, entry'), UNCHANGED obsVars
    PROVE  CountsInv'
  <1>1. Unsent' => Unsent
    BY DEF Unsent, ReplyKept, Committed
  <1>2. VerdictsIn' <=> VerdictsIn
    BY DEF VerdictsIn, obsVars, verdicts
  <1>3. ASSUME NEW r \in Runs, InRequest(r)'
        PROVE  /\ started' = refused' + 1
               /\ accepted'[r] => Len(outbox') = misreported' + 1
               /\ ~accepted'[r] => Len(outbox') = misreported'
    BY <1>3 DEF CountsInv, SameHolders, obsVars, verdicts
  <1>4. \A r \in Runs : Claimed(r)' => VerdictsIn'
    BY <1>2 DEF CountsInv, SameHolders
  <1>5. entry'.replySent => outbox' # <<>>
    BY DEF CountsInv, ReplyKept, obsVars
  <1> QED BY <1>1, <1>2, <1>3, <1>4, <1>5 DEF CountsInv, obsVars, verdicts

\* A step of run r that neither claims nor sends: what SweepInv and LaneInv
\* need to know of it.
QuietRun(r) ==
    /\ pc' = [pc EXCEPT ![r] = pc'[r]]
    /\ \A q \in Runs \ {r} : view'[q] = view[q]
    /\ ~Holder(r) /\ ~Holder(r)'
    /\ pc'[r] \notin {"creds", "sweep_resend"}
    /\ Busy(r)' => Busy(r) /\ RowKeeps
    /\ RowKeeps \/ Busy(r) \/ Committed(entry)
    /\ \/ RowKeeps \/ entry'.state # "processing"
       \/ entry.state = "processing" /\ (Leased(entry') <=> Leased(entry))
    /\ pc'[r] = "lane" => entry'.scope # None /\ view'[r].snap.scope = entry'.scope

\* A quiet run leaves the claimers and the senders as they are.
LEMMA QuietRunHolders ==
    ASSUME TypeInv, NEW r \in Runs, QuietRun(r)
    PROVE  SameHolders
  BY DEF QuietRun, SameHolders, Holder, Claimed, InRequest, TypeInv, ProcInv

\* A quiet run leaves what a pending sweep relies on, and the lane of each run.
LEMMA QuietRunSweep ==
    ASSUME CoreInv, NEW r \in Runs, QuietRun(r), ReplyKept(entry, entry'), sweep' = sweep,
           Committed(entry) => Committed(entry'),
           entry.scope # None => entry'.scope = entry.scope
    PROVE  SweepInv' /\ LaneInv'
  <1>1. pc \in [Runs -> PCs] /\ pc' = [pc EXCEPT ![r] = pc'[r]]
    BY DEF CoreInv, TypeInv, ProcInv, QuietRun
  <1>2. \A q \in Runs : q # r => pc'[q] = pc[q]
    BY <1>1
  <1>3. \A q \in Runs : Busy(q)' => Busy(q)
    BY <1>2 DEF QuietRun, Busy
  <1>4. \A q \in Runs : Claimed(q) => Claimed(q)'
    BY <1>2 DEF QuietRun, Claimed, Holder
  <1>5. Committed(entry) => Committed(entry')
    OBVIOUS
  <1>6. entry'.state = "outbound_locked" => entry.state = "outbound_locked"
    BY DEF ReplyKept
  <1>7. Blind' <=> Blind
    BY DEF Blind
  <1>8. Blind' => \A p, q \in Runs : Busy(p)' /\ Busy(q)' => p = q
    BY <1>3, <1>7 DEF CoreInv, SweepInv
  <1>9. ASSUME Blind', ~Committed(entry'), NEW q \in Runs, Busy(q)'
        PROVE  entry'.state = "processing" /\ Leased(entry') /\ entry'.queue # "queued"
    <2>1. Blind /\ ~Committed(entry) /\ Busy(q)
      BY <1>3, <1>5, <1>9 DEF Blind
    <2>2. entry.state = "processing" /\ Leased(entry) /\ entry.queue # "queued"
      BY <2>1 DEF CoreInv, SweepInv
    <2>3. RowKeeps
      <3>1. CASE q = r
        BY <1>9, <3>1 DEF QuietRun
      <3>2. CASE q # r
        <4>1. ~Busy(r)
          BY <2>1, <3>2 DEF CoreInv, SweepInv
        <4> QED BY <2>1, <4>1 DEF QuietRun
      <3> QED BY <3>1, <3>2
    <2> QED BY <2>2, <2>3 DEF RowKeeps
  <1>10. ASSUME Blind', entry'.state = "processing", entry'.queue = "queued"
         PROVE  Leased(entry')
    <2>1. Blind /\ ~Committed(entry)
      BY <1>5, <1>10 DEF Blind, Committed
    <2>2. CASE RowKeeps
      <3>1. entry.state = "processing" /\ entry.queue = "queued" /\ (Leased(entry') <=> Leased(entry))
        BY <1>10, <2>2 DEF RowKeeps
      <3> QED BY <2>1, <3>1 DEF CoreInv, SweepInv
    <2>3. CASE ~RowKeeps
      <3>1. Busy(r) /\ (Leased(entry') <=> Leased(entry))
        BY <1>10, <2>1, <2>3 DEF QuietRun
      <3> QED BY <2>1, <3>1 DEF CoreInv, SweepInv
    <2> QED BY <2>2, <2>3
  <1>11. Blind' /\ entry'.state = "outbound_locked" =>
           \A q \in Runs : Busy(q)' => Claimed(q)'
    BY <1>3, <1>4, <1>6 DEF CoreInv, SweepInv, Blind
  <1>12. ASSUME NEW p \in Runs, pc'[p] = "creds", view'[p].snap.state = "outbound_locked"
         PROVE  /\ \A q \in Runs : Busy(q)' => Claimed(q)'
                /\ view'[p].snap.intent = "send_in_flight" => \A q \in Runs : ~Busy(q)'
    <2>1. p # r /\ pc[p] = "creds" /\ view'[p] = view[p]
      BY <1>2, <1>12 DEF QuietRun
    <2>2. /\ \A q \in Runs : Busy(q) => Claimed(q)
          /\ view[p].snap.intent = "send_in_flight" => \A q \in Runs : ~Busy(q)
      BY <1>12, <2>1 DEF CoreInv, SweepInv
    <2> QED BY <1>3, <1>4, <2>1, <2>2
  <1>13. ASSUME NEW p \in Runs, pc'[p] = "sweep_resend"
         PROVE  \A q \in Runs : ~Busy(q)'
    BY <1>2, <1>3, <1>13 DEF QuietRun, CoreInv, SweepInv
  <1>14. SweepInv'
    BY <1>8, <1>9, <1>10, <1>11, <1>12, <1>13 DEF SweepInv
  <1>15. LaneInv'
    BY <1>2 DEF LaneInv, CoreInv, QuietRun
  <1> QED BY <1>14, <1>15

\* A quiet run keeps the whole invariant.
LEMMA QuietRunStep ==
    ASSUME CoreInv, NEW r \in Runs, QuietRun(r), ReplyKept(entry, entry'), sweep' = sweep,
           Committed(entry) => Committed(entry'),
           entry.scope # None => entry'.scope = entry.scope,
           UNCHANGED obsVars, TypeInv'
    PROVE  CoreInv'
  <1>1. SameHolders
    BY QuietRunHolders DEF CoreInv
  <1> QED BY <1>1, QuietKeepsHolders, QuietKeepsCounts, QuietRunSweep DEF CoreInv

-----------------------------------------------------------------------------
(* The actions that neither claim nor send.                                *)

\* A run that ends is quiet.
LEMMA EndsQuietly ==
    ASSUME TypeInv, NEW r \in Runs, Ends(r) \/ (pc' = [pc EXCEPT ![r] = "idle"] /\ view' = view),
           ~Holder(r),
           RowKeeps \/ Busy(r) \/ Committed(entry),
           \/ RowKeeps \/ entry'.state # "processing"
           \/ entry.state = "processing" /\ (Leased(entry') <=> Leased(entry))
    PROVE  QuietRun(r)
  <1>1. pc'[r] = "idle" /\ pc' = [pc EXCEPT ![r] = pc'[r]]
    BY DEF Ends, TypeInv, ProcInv
  <1>2. \A q \in Runs \ {r} : view'[q] = view[q]
    BY DEF Ends, TypeInv, ProcInv
  <1> QED BY <1>1, <1>2 DEF QuietRun, Holder, Claimed, InRequest, Busy

\* A row that does not change keeps its state and lease.
LEMMA RowSameKeeps == entry' = entry => RowKeeps
  BY DEF RowKeeps

\* The failures of a run are quiet.
LEMMA QuietFailures ==
    ASSUME TypeInv, NEW r \in Runs,
           \/ LookupFails(r) \/ OwnershipFails(r) \/ DuplicateSend(r) \/ FailTurn(r)
           \/ \E paused \in BOOLEAN : LaneFails(r, paused)
    PROVE  /\ QuietRun(r) /\ QuietTypeStep
           /\ sweep' = sweep /\ UNCHANGED obsVars
  <1>1. QuietTypeStep /\ RowFails
    BY LookupFailsType, LaneFailsType
  <1>2. /\ pc[r] \in {"lookup", "ownership", "lane", "ready", "failing"} /\ Ends(r)
        /\ sweep' = sweep /\ UNCHANGED obsVars
    BY DEF LookupFails, OwnershipFails, DuplicateSend, FailTurn, LaneFails, FailsRetryably
  <1>3. Busy(r) \/ Committed(entry)
    BY <1>2, AwakeFacts DEF Busy, AfterLock
  <1>4. ~Holder(r)
    BY <1>2 DEF Holder, Claimed, InRequest
  <1>5. entry'.state # "processing"
    BY <1>1 DEF RowFails, Committed
  <1> QED BY <1>1, <1>2, <1>3, <1>4, <1>5, EndsQuietly

\* So are the steps that only go on to the next await.
LEMMA QuietAwaits ==
    ASSUME TypeInv, NEW r \in Runs,
           \/ GatePasses(r)
           \/ \E t \in Replies : OwnershipUnusable(r, t) \/ LaneReplies(r, t)
    PROVE  /\ QuietRun(r) /\ QuietTypeStep
           /\ sweep' = sweep /\ UNCHANGED obsVars
  <1>1. CASE GatePasses(r)
    <2>1. /\ pc[r] = "lookup" /\ pc' = [pc EXCEPT ![r] = "preflight"]
          /\ entry' = entry /\ view' = view /\ sweep' = sweep /\ UNCHANGED obsVars
      BY <1>1 DEF GatePasses, Awaits
    <2>2. pc'[r] = "preflight" /\ pc' = [pc EXCEPT ![r] = pc'[r]]
      BY <2>1 DEF TypeInv, ProcInv
    <2>3. QuietRun(r)
      BY <2>1, <2>2, RowSameKeeps DEF QuietRun, Holder, Claimed, InRequest, Busy
    <2> QED BY <1>1, <2>1, <2>3, GatePassesType
  <1>2. ASSUME NEW t \in Replies, OwnershipUnusable(r, t) \/ LaneReplies(r, t)
        PROVE  QuietRun(r) /\ QuietTypeStep /\ sweep' = sweep /\ UNCHANGED obsVars
    <2>1. /\ pc[r] \in {"ownership", "lane"} /\ pc' = [pc EXCEPT ![r] = "ready"]
          /\ view' = [view EXCEPT ![r] = [view[r] EXCEPT !.text = t]]
          /\ sweep' = sweep /\ UNCHANGED obsVars
      BY <1>2 DEF OwnershipUnusable, LaneReplies, Awaits
    <2>2. /\ pc'[r] = "ready" /\ pc' = [pc EXCEPT ![r] = pc'[r]]
          /\ \A q \in Runs \ {r} : view'[q] = view[q]
      BY <2>1 DEF TypeInv, ProcInv
    <2>3. QuietTypeStep /\ RowKeeps
      BY <1>2, GotReplyType
    <2>4. QuietRun(r)
      BY <2>1, <2>2, <2>3 DEF QuietRun, Holder, Claimed, InRequest, Busy
    <2> QED BY <2>1, <2>3, <2>4
  <1> QED BY <1>1, <1>2

\* So are the ends without a reply: queued, duplicate, silent, no credentials.
LEMMA QuietEnds ==
    ASSUME TypeInv, NEW r \in Runs,
           \/ GateQueues(r) \/ DuplicateInbound(r) \/ OwnerAnswerHandled(r) \/ LaneSilent(r)
           \/ SweepLacksCredentials(r)
    PROVE  /\ QuietRun(r) /\ QuietTypeStep
           /\ sweep' = sweep /\ UNCHANGED obsVars
  <1>1. CASE GateQueues(r)
    <2>1. /\ pc[r] = "lookup" /\ Ends(r) /\ sweep' = sweep /\ UNCHANGED obsVars
      BY <1>1 DEF GateQueues, FailsRetryably
    <2>2. /\ QuietTypeStep
          /\ \/ entry'.state # "processing"
             \/ entry.state = "processing" /\ (Leased(entry') <=> Leased(entry))
      BY <1>1, GateQueuesType DEF RowFails, Committed
    <2>3. Busy(r) /\ ~Holder(r)
      BY <2>1 DEF Busy, Holder, Claimed, InRequest
    <2> QED BY <2>1, <2>2, <2>3, EndsQuietly
  <1>2. CASE DuplicateInbound(r) \/ OwnerAnswerHandled(r) \/ SweepLacksCredentials(r)
    <2>1. /\ pc[r] \in {"lookup", "preflight", "creds"} /\ Ends(r) /\ sweep' = sweep
          /\ UNCHANGED obsVars
          /\ pc[r] = "creds" => entry' = entry
      BY <1>2 DEF DuplicateInbound, OwnerAnswerHandled, SweepLacksCredentials
    <2>2. QuietTypeStep /\ (entry' = entry \/ entry'.state = "done")
      BY <1>2, RunOverType
    <2>3. ~Holder(r) /\ (pc[r] # "creds" => Busy(r))
      BY <2>1 DEF Busy, Holder, Claimed, InRequest
    <2>4. RowKeeps \/ Busy(r)
      BY <2>1, <2>3, RowSameKeeps
    <2>5. RowKeeps \/ entry'.state # "processing"
      BY <2>2, RowSameKeeps
    <2> QED BY <2>1, <2>2, <2>3, <2>4, <2>5, EndsQuietly
  <1>3. CASE LaneSilent(r)
    <2>1. /\ pc[r] = "lane" /\ Ends(r) /\ sweep' = sweep /\ UNCHANGED obsVars
      BY <1>3 DEF LaneSilent
    <2>2. QuietTypeStep /\ entry'.state = "done"
      BY <1>3, LaneOverType
    <2>3. Busy(r) /\ ~Holder(r)
      BY <2>1 DEF Busy, Holder, Claimed, InRequest
    <2> QED BY <2>1, <2>2, <2>3, EndsQuietly
  <1> QED BY <1>1, <1>2, <1>3

\* So is the decision of the lane, by the ledger or by the ownership model.
LEMMA QuietDecisions ==
    ASSUME TypeInv, NEW r \in Runs,
           AskOwnership(r) \/ \E s \in Scopes : OwnershipDecided(r, s)
    PROVE  /\ QuietRun(r) /\ QuietTypeStep
           /\ sweep' = sweep /\ UNCHANGED obsVars
  <1>1. CASE AskOwnership(r)
    <2>1. /\ pc[r] = "preflight" /\ sweep' = sweep /\ UNCHANGED obsVars
          /\ \/ pc' = [pc EXCEPT ![r] = "lane"] /\ view' = [view EXCEPT ![r].snap = entry]
             \/ pc' = [pc EXCEPT ![r] = "ownership"] /\ view' = view
      BY <1>1 DEF AskOwnership, EntersLane, Awaits
    <2>2. /\ pc' = [pc EXCEPT ![r] = pc'[r]] /\ pc'[r] \in {"lane", "ownership"}
          /\ pc'[r] = "lane" => pc' = [pc EXCEPT ![r] = "lane"]
          /\ \A q \in Runs \ {r} : view'[q] = view[q]
      BY <2>1 DEF TypeInv, ProcInv
    <2>3. /\ QuietTypeStep /\ RowKeeps
          /\ pc' = [pc EXCEPT ![r] = "lane"] =>
               entry'.scope # None /\ view'[r].snap.scope = entry'.scope
      BY <1>1, AskOwnershipType
    <2>4. QuietRun(r)
      BY <2>1, <2>2, <2>3 DEF QuietRun, Holder, Claimed, InRequest, Busy
    <2> QED BY <2>1, <2>3, <2>4
  <1>2. ASSUME NEW s \in Scopes, OwnershipDecided(r, s)
        PROVE  QuietRun(r) /\ QuietTypeStep /\ sweep' = sweep /\ UNCHANGED obsVars
    <2>1. /\ pc[r] = "ownership" /\ sweep' = sweep /\ UNCHANGED obsVars
          /\ \/ Ends(r)
             \/ \E e : view' = [view EXCEPT ![r].snap = e]
      BY <1>2 DEF OwnershipDecided, EntersLane, FailsRetryably
    <2>2. /\ QuietTypeStep
          /\ \/ RowFails /\ pc' = [pc EXCEPT ![r] = "idle"]
             \/ /\ RowKeeps /\ pc' = [pc EXCEPT ![r] = "lane"]
                /\ entry'.scope # None /\ view'[r].snap.scope = entry'.scope
      BY <1>2, OwnershipDecidedType
    <2>3. \A q \in Runs \ {r} : view'[q] = view[q]
      BY <2>1 DEF Ends, TypeInv, ProcInv
    <2>4. pc' = [pc EXCEPT ![r] = pc'[r]] /\ pc'[r] \in {"idle", "lane"}
      BY <2>2 DEF TypeInv, ProcInv
    <2>5. pc'[r] = "lane" => pc' = [pc EXCEPT ![r] = "lane"]
      BY <2>4
    <2>6. pc' = [pc EXCEPT ![r] = "idle"] => pc'[r] = "idle"
      BY DEF TypeInv, ProcInv
    <2>7. QuietRun(r)
      <3>1. CASE RowFails /\ pc' = [pc EXCEPT ![r] = "idle"]
        <4>1. entry'.state # "processing"
          BY <3>1 DEF RowFails, Committed
        <4> QED BY <2>1, <2>3, <2>4, <2>6, <3>1, <4>1
             DEF QuietRun, Holder, Claimed, InRequest, Busy
      <3>2. CASE /\ RowKeeps /\ pc' = [pc EXCEPT ![r] = "lane"]
                 /\ entry'.scope # None /\ view'[r].snap.scope = entry'.scope
        BY <2>1, <2>3, <2>4, <3>2 DEF QuietRun, Holder, Claimed, InRequest, Busy
      <3> QED BY <2>2, <3>1, <3>2
    <2> QED BY <2>1, <2>2, <2>7
  <1> QED BY <1>1, <1>2

-----------------------------------------------------------------------------
(* The actions that claim and send.                                        *)

LEMMA RunMovesAlone ==
    ASSUME TypeInv, NEW r \in Runs, NEW a \in PCs, pc' = [pc EXCEPT ![r] = a]
    PROVE  pc'[r] = a /\ pc' = [pc EXCEPT ![r] = pc'[r]] /\ \A q \in Runs \ {r} : pc'[q] = pc[q]
  BY DEF TypeInv, ProcInv

\* SweepInv and LaneInv across a step of run r after which the row is committed.
LEMMA SweepFrame ==
    ASSUME CoreInv, CloudRowStep, Committed(entry'), NEW r \in Runs,
           \A q \in Runs \ {r} : pc'[q] = pc[q] /\ view'[q] = view[q],
           pc'[r] \notin {"creds", "lane"},
           Busy(r)' => Busy(r) /\ (Claimed(r) => Claimed(r)'),
           Blind' => Blind \/ \A q \in Runs : ~Busy(q),
           \/ entry'.state = "outbound_locked" => entry.state = "outbound_locked"
           \/ Busy(r) /\ (Busy(r)' => Claimed(r)'),
           pc'[r] = "sweep_resend" => \A q \in Runs : ~Busy(q)
    PROVE  SweepInv' /\ LaneInv'
  <1>1. \A q \in Runs : Busy(q)' => Busy(q)
    BY DEF Busy
  <1>2. ASSUME NEW q \in Runs, Busy(q)', Claimed(q)
        PROVE  Claimed(q)'
    BY <1>2 DEF Claimed
  <1>3. Blind' => \A p, q \in Runs : Busy(p)' /\ Busy(q)' => p = q
    BY <1>1 DEF CoreInv, SweepInv
  <1>4. ASSUME Blind', entry'.state = "outbound_locked", NEW q \in Runs, Busy(q)'
        PROVE  Claimed(q)'
    <2>1. Busy(q) /\ Blind
      BY <1>1, <1>4
    <2>2. CASE entry.state = "outbound_locked"
      <3>1. Claimed(q)
        BY <2>1, <2>2 DEF CoreInv, SweepInv
      <3> QED BY <1>2, <1>4, <3>1
    <2>3. CASE entry.state # "outbound_locked"
      <3>1. Busy(r) /\ (Busy(r)' => Claimed(r)')
        BY <1>4, <2>3
      <3>2. q = r
        BY <2>1, <3>1 DEF CoreInv, SweepInv
      <3> QED BY <1>4, <3>1, <3>2
    <2> QED BY <2>2, <2>3
  <1>5. ASSUME NEW p \in Runs, pc'[p] = "creds", view'[p].snap.state = "outbound_locked"
        PROVE  /\ \A q \in Runs : Busy(q)' => Claimed(q)'
               /\ view'[p].snap.intent = "send_in_flight" => \A q \in Runs : ~Busy(q)'
    <2>1. p # r /\ pc[p] = "creds" /\ view'[p] = view[p]
      BY <1>5
    <2>2. /\ \A q \in Runs : Busy(q) => Claimed(q)
          /\ view[p].snap.intent = "send_in_flight" => \A q \in Runs : ~Busy(q)
      BY <1>5, <2>1 DEF CoreInv, SweepInv
    <2> QED BY <1>1, <1>2, <2>1, <2>2
  <1>6. ASSUME NEW p \in Runs, pc'[p] = "sweep_resend"
        PROVE  \A q \in Runs : ~Busy(q)'
    <2>1. CASE p = r
      BY <1>1, <1>6, <2>1
    <2>2. CASE p # r
      BY <1>1, <1>6, <2>2 DEF CoreInv, SweepInv
    <2> QED BY <2>1, <2>2
  <1>7. entry'.state # "processing"
    BY DEF Committed
  <1>8. SweepInv'
    BY <1>3, <1>4, <1>5, <1>6, <1>7 DEF SweepInv
  <1>9. LaneInv'
    BY DEF LaneInv, CoreInv, CloudRowStep
  <1> QED BY <1>8, <1>9

\* While a run claims or sends nobody else does, and the row is committed.
LEMMA HolderAlone ==
    ASSUME CoreInv, NEW r \in Runs, Holder(r)
    PROVE  Committed(entry) /\ \A q \in Runs : Holder(q) => q = r
  <1>1. pc[r] \in AfterLock /\ pc[r] # "idle"
    BY DEF Holder, Claimed, InRequest, AfterLock
  <1> QED BY <1>1, AwakeFacts DEF CoreInv, HolderInv

\* Locking the row and claiming the send.
LEMMA LockReplyCore ==
    ASSUME CoreInv, NEW r \in Runs, LockReply(r), TypeInv'
    PROVE  CoreInv'
  <1>1. /\ CloudRowStep /\ Committed(entry') /\ entry'.replySent = entry.replySent
        /\ \/ /\ pc' = [pc EXCEPT ![r] = "claimed"]
              /\ entry.state # "done" /\ entry.intent # "send_in_flight"
              /\ ~HeldByOther(entry, r)
              /\ entry'.state = "outbound_locked" /\ entry'.intent = "send_claimed"
              /\ Holds(entry', r)
           \/ /\ pc' = [pc EXCEPT ![r] = "failing"]
              /\ entry'.state = IF entry.state = "done" THEN "done" ELSE "outbound_locked"
              /\ entry'.intent = IF Committed(entry) THEN entry.intent ELSE "pending_send"
              /\ entry.state = "outbound_locked" /\ entry.sendOwner \notin {None, r} =>
                   entry'.sendOwner = entry.sendOwner /\ entry'.sendFresh = entry.sendFresh
    BY LockReplyType DEF CoreInv
  <1>2. /\ pc[r] = "ready" /\ view' = view /\ sweep' = sweep
        /\ UNCHANGED <<accepted, started, refused, misreported, outbox>>
    BY DEF LockReply, obsVars, verdicts
  <1>3. /\ pc'[r] \in {"claimed", "failing"} /\ \A q \in Runs \ {r} : pc'[q] = pc[q]
        /\ pc' = [pc EXCEPT ![r] = "claimed"] <=> pc'[r] = "claimed"
    BY <1>1, RunMovesAlone DEF CoreInv, PCs
  <1>4. SweepInv' /\ LaneInv'
    <2>1. Busy(r) /\ (Busy(r)' => Claimed(r)') /\ ~Claimed(r)
      BY <1>2, <1>3 DEF Busy, Claimed
    <2>2. Blind' => Blind
      BY <1>2 DEF Blind
    <2> QED BY <1>1, <1>2, <1>3, <2>1, <2>2, SweepFrame
  <1>5. \A q \in Runs \ {r} : (Claimed(q)' <=> Claimed(q)) /\ (InRequest(q)' <=> InRequest(q))
    BY <1>3 DEF Claimed, InRequest
  <1>6. ~Holder(r) /\ ~InRequest(r)'
    BY <1>2, <1>3 DEF Holder, Claimed, InRequest
  <1>7. CASE pc'[r] = "claimed"
    <2>1. /\ entry.state # "done" /\ entry.intent # "send_in_flight"
          /\ ~HeldByOther(entry, r)
          /\ entry'.state = "outbound_locked" /\ entry'.intent = "send_claimed"
          /\ Holds(entry', r)
      BY <1>1, <1>3, <1>7, RunMovesAlone DEF CoreInv, PCs
    <2>2. ASSUME NEW q \in Runs
          PROVE  ~Holder(q)
      <3>1. SUFFICES ASSUME Holder(q) PROVE FALSE
        OBVIOUS
      <3>2. entry.state = "outbound_locked" /\ q # r
        BY <1>6, <2>1, <3>1, HolderAlone DEF Committed
      <3>3. CASE Claimed(q)
        <4>1. Holds(entry, q)
          BY <3>2, <3>3 DEF CoreInv, HolderInv
        <4>2. q \in Senders /\ r \in Senders
          BY DEF Runs
        <4> QED BY <2>1, <3>2, <4>1, <4>2, HoldsFacts
      <3>4. CASE InRequest(q)
        BY <2>1, <3>2, <3>4 DEF CoreInv, HolderInv
      <3> QED BY <3>1, <3>3, <3>4 DEF Holder
    <2>3. \A q \in Runs : (Claimed(q)' => q = r) /\ ~InRequest(q)'
      BY <1>5, <1>6, <2>2 DEF Holder
    <2>4. HolderInv'
      BY <2>1, <2>3 DEF HolderInv, Holder
    <2>5. Unsent
      BY <2>1 DEF Unsent, Committed
    <2>6. VerdictsIn'
      BY <1>2, <2>5 DEF CoreInv, CountsInv, VerdictsIn
    <2>7. CountsInv'
      BY <1>1, <1>2, <2>3, <2>6 DEF CoreInv, CountsInv
    <2> QED BY <1>4, <2>4, <2>7 DEF CoreInv
  <1>8. CASE pc'[r] = "failing"
    <2>1. /\ entry'.state = IF entry.state = "done" THEN "done" ELSE "outbound_locked"
          /\ entry'.intent = IF Committed(entry) THEN entry.intent ELSE "pending_send"
          /\ entry.state = "outbound_locked" /\ entry.sendOwner \notin {None, r} =>
               entry'.sendOwner = entry.sendOwner /\ entry'.sendFresh = entry.sendFresh
      BY <1>1, <1>3, <1>8
    <2>2. ~Claimed(r)'
      BY <1>8 DEF Claimed
    <2>3. \A q \in Runs : (Claimed(q)' <=> Claimed(q)) /\ (InRequest(q)' <=> InRequest(q))
      BY <1>5, <1>6, <2>2 DEF Holder
    <2>4. ASSUME NEW q \in Runs, Claimed(q)'
          PROVE  /\ entry'.intent = "send_claimed"
                 /\ entry'.state = "outbound_locked" => Holds(entry', q)
      <3>1. Claimed(q) /\ Holder(q) /\ q # r
        BY <1>6, <2>3, <2>4 DEF Holder
      <3>2. /\ Committed(entry) /\ entry.intent = "send_claimed"
            /\ entry.state = "outbound_locked" => Holds(entry, q)
        BY <3>1, HolderAlone DEF CoreInv, HolderInv
      <3>3. entry'.intent = "send_claimed"
        BY <2>1, <3>2
      <3>4. ASSUME entry'.state = "outbound_locked"
            PROVE  Holds(entry', q)
        <4>1. entry.state = "outbound_locked" /\ Holds(entry, q)
          BY <2>1, <3>2, <3>4 DEF Committed
        <4>2. q \in Senders
          BY DEF Runs
        <4>3. entry.sendOwner = q
          BY <4>1, <4>2, HoldsFacts
        <4>4. entry'.sendOwner = entry.sendOwner /\ entry'.sendFresh = entry.sendFresh
          BY <2>1, <3>1, <4>1, <4>2, <4>3, NoneAssumption
        <4> QED BY <4>1, <4>2, <4>4, HoldsFacts
      <3> QED BY <3>3, <3>4
    <2>5. ASSUME NEW q \in Runs, InRequest(q)', entry'.state = "outbound_locked"
          PROVE  entry'.intent = "send_in_flight"
      <3>1. InRequest(q) /\ Holder(q)
        BY <2>3, <2>5 DEF Holder
      <3>2. Committed(entry) /\ entry.state = "outbound_locked"
        BY <2>1, <2>5, <3>1, HolderAlone DEF Committed
      <3>3. entry.intent = "send_in_flight"
        BY <3>1, <3>2 DEF CoreInv, HolderInv
      <3> QED BY <2>1, <3>2, <3>3
    <2>6. HolderInv'
      BY <2>3, <2>4, <2>5 DEF HolderInv, Holder, CoreInv
    <2>7. Unsent' => Unsent
      BY <2>1 DEF Unsent, Committed
    <2>8. VerdictsIn' <=> VerdictsIn
      BY <1>2 DEF VerdictsIn
    <2>9. CountsInv'
      BY <1>1, <1>2, <2>3, <2>7, <2>8 DEF CoreInv, CountsInv
    <2> QED BY <1>4, <2>6, <2>9 DEF CoreInv
  <1> QED BY <1>3, <1>7, <1>8

\* The request starts: the claim's owner marks the row in flight.
LEMMA StartSendCore ==
    ASSUME CoreInv, NEW r \in Runs, StartSend(r), TypeInv'
    PROVE  CoreInv'
  <1>1. /\ CloudRowStep /\ pc[r] = "claimed" /\ pc' = [pc EXCEPT ![r] = "sending"]
        /\ entry'.replySent = entry.replySent /\ entry'.state = entry.state
        /\ entry'.intent = IF entry.state = "outbound_locked" /\ entry.sendOwner \in {None, r}
                           THEN "send_in_flight" ELSE entry.intent
    BY StartSendType DEF CoreInv
  <1>2. /\ view' = view /\ sweep' = sweep
        /\ accepted' = [accepted EXCEPT ![r] = FALSE] /\ started' = started + 1
        /\ UNCHANGED <<refused, misreported, outbox>>
    BY DEF StartSend, verdicts
  <1>3. pc'[r] = "sending" /\ \A q \in Runs \ {r} : pc'[q] = pc[q]
    BY <1>1, RunMovesAlone DEF CoreInv, PCs
  <1>4. Claimed(r) /\ Holder(r) /\ ~Claimed(r)' /\ InRequest(r)' /\ ~Busy(r)' /\ Busy(r)
    BY <1>1, <1>3 DEF Claimed, Holder, InRequest, Busy
  <1>5. Committed(entry) /\ Committed(entry') /\ \A q \in Runs : Holder(q) => q = r
    BY <1>1, <1>4, HolderAlone DEF CloudRowStep
  <1>6. SweepInv' /\ LaneInv'
    <2>1. Blind' => Blind
      BY <1>2 DEF Blind
    <2> QED BY <1>1, <1>2, <1>3, <1>4, <1>5, <2>1, SweepFrame
  <1>7. \A q \in Runs : (Claimed(q)' => FALSE) /\ (InRequest(q)' => q = r)
    BY <1>3, <1>4, <1>5 DEF Claimed, InRequest, Holder
  <1>8. entry'.state = "outbound_locked" => entry'.intent = "send_in_flight"
    <2>1. SUFFICES ASSUME entry'.state = "outbound_locked"
                   PROVE  entry'.intent = "send_in_flight"
      OBVIOUS
    <2>2. Holds(entry, r)
      BY <1>1, <1>4, <2>1 DEF CoreInv, HolderInv
    <2>3. entry.sendOwner = r
      BY <2>2, HoldsFacts DEF Runs
    <2> QED BY <1>1, <2>1, <2>3
  <1>9. HolderInv'
    BY <1>7, <1>8 DEF HolderInv, Holder
  <1>10. ~Unsent'
    BY <1>5, <1>8 DEF Unsent, Committed
  <1>11. VerdictsIn /\ (entry.replySent => outbox # <<>>)
    BY <1>4 DEF CoreInv, CountsInv
  <1>12. started' = refused' + 1 /\ Len(outbox') = misreported' /\ ~accepted'[r]
    BY <1>2, <1>11 DEF VerdictsIn, CoreInv, TypeInv
  <1>13. CountsInv'
    BY <1>1, <1>2, <1>7, <1>10, <1>11, <1>12 DEF CountsInv
  <1> QED BY <1>6, <1>9, <1>13 DEF CoreInv

\* The provider accepts: one message more, for the one request that waits.
LEMMA ProviderAcceptsCore ==
    ASSUME CoreInv, NEW r \in Runs, ProviderAccepts(r), TypeInv'
    PROVE  CoreInv'
  <1>1. /\ InRequest(r) /\ ~accepted[r]
        /\ accepted' = [accepted EXCEPT ![r] = TRUE]
        /\ outbox' = Append(outbox, view[r].text)
        /\ UNCHANGED <<entry, pc, job, view, sweep, started, refused, misreported>>
    BY DEF ProviderAccepts, volatile, verdicts
  <1>2. Holder(r) /\ Committed(entry) /\ \A q \in Runs : Holder(q) => q = r
    BY <1>1, HolderAlone DEF Holder
  <1>3. HolderInv' /\ SweepInv' /\ LaneInv'
    BY <1>1 DEF CoreInv, HolderInv, SweepInv, LaneInv, Holder, Claimed, InRequest, Busy, Blind
  <1>4. Len(outbox') = Len(outbox) + 1 /\ outbox' # <<>>
    <2>1. view[r].text \in Replies
      BY <1>1, AwakeFacts DEF CoreInv, InRequest, HasText
    <2>2. outbox \in Seq(Replies)
      BY DEF CoreInv, TypeInv, CountInv
    <2> QED BY <1>1, <2>1, <2>2
  <1>5. Len(outbox) = misreported /\ started = refused + 1
    BY <1>1 DEF CoreInv, CountsInv
  <1>6. accepted'[r]
    BY <1>1 DEF CoreInv, TypeInv
  <1>7. \A q \in Runs : (Claimed(q)' => FALSE) /\ (InRequest(q)' => q = r)
    <2>1. ~Claimed(r)
      BY <1>1 DEF Claimed, InRequest
    <2> QED BY <1>1, <1>2, <2>1 DEF Claimed, InRequest, Holder
  <1>8. ~Unsent'
    BY <1>1, <1>2 DEF Unsent, Committed, CoreInv, HolderInv
  <1>9. CountsInv'
    BY <1>1, <1>4, <1>5, <1>6, <1>7, <1>8 DEF CountsInv
  <1> QED BY <1>3, <1>9 DEF CoreInv

\* The one run that sends stops sending.
LEMMA HolderStops ==
    ASSUME CoreInv, NEW r \in Runs, Holder(r), NEW a \in {"idle", "failing"},
           pc' = [pc EXCEPT ![r] = a]
    PROVE  \A q \in Runs : ~Claimed(q)' /\ ~InRequest(q)' /\ ~Holder(q)'
  <1>1. pc'[r] = a /\ \A q \in Runs \ {r} : pc'[q] = pc[q]
    BY RunMovesAlone DEF CoreInv, PCs
  <1>2. \A q \in Runs \ {r} : ~Claimed(q) /\ ~InRequest(q)
    BY HolderAlone DEF Holder
  <1> QED BY <1>1, <1>2 DEF Claimed, InRequest, Holder

\* ok:true, with a message id.
LEMMA SendSucceedsCore ==
    ASSUME CoreInv, NEW r \in Runs, SendSucceeds(r), TypeInv'
    PROVE  CoreInv'
  <1>1. /\ CloudRowStep /\ InRequest(r) /\ accepted[r] /\ pc' = [pc EXCEPT ![r] = "idle"]
        /\ entry'.state = "done"
    BY SendSucceedsType DEF CoreInv
  <1>2. /\ Ends(r) /\ sweep' = sweep
        /\ UNCHANGED <<accepted, started, refused, misreported, outbox>>
    BY DEF SendSucceeds, obsVars, verdicts
  <1>3. /\ pc'[r] = "idle" /\ \A q \in Runs \ {r} : pc'[q] = pc[q]
        /\ \A q \in Runs \ {r} : view'[q] = view[q]
    BY <1>1, <1>2, RunMovesAlone DEF CoreInv, PCs, Ends, TypeInv, ProcInv
  <1>4. Committed(entry')
    BY <1>1 DEF Committed
  <1>5. SweepInv' /\ LaneInv'
    <2>1. (Blind' => Blind) /\ ~Busy(r)'
      BY <1>2, <1>3 DEF Blind, Busy
    <2> QED BY <1>1, <1>3, <1>4, <2>1, SweepFrame
  <1>6. \A q \in Runs : ~Claimed(q)' /\ ~InRequest(q)' /\ ~Holder(q)'
    BY <1>1, HolderStops DEF Holder
  <1>7. HolderInv'
    BY <1>6 DEF HolderInv
  <1>8. started = refused + 1 /\ Len(outbox) = misreported + 1
    BY <1>1 DEF CoreInv, CountsInv
  <1>9. outbox # <<>>
    <2>1. misreported \in Nat
      BY DEF CoreInv, TypeInv, CountInv
    <2>2. Len(outbox) # 0
      BY <1>8, <2>1
    <2> QED BY <2>2
  <1>10. ~Unsent'
    BY <1>1 DEF Unsent, Committed
  <1>11. CountsInv'
    BY <1>2, <1>6, <1>8, <1>9, <1>10 DEF CountsInv
  <1> QED BY <1>5, <1>7, <1>11 DEF CoreInv

\* ok:false, whatever the provider did.
LEMMA SendRefusedCore ==
    ASSUME CoreInv, NEW r \in Runs, SendRefused(r), TypeInv'
    PROVE  CoreInv'
  <1>1. /\ CloudRowStep /\ InRequest(r)
        /\ sweep' = sweep \/ (pc[r] = "sweep_resend" /\ pc' = [pc EXCEPT ![r] = "idle"])
        /\ \/ pc[r] = "sending" /\ pc' = [pc EXCEPT ![r] = "failing"]
           \/ pc[r] # "sending" /\ pc' = [pc EXCEPT ![r] = "idle"]
        /\ entry'.state = entry.state
        /\ entry'.replySent => entry.replySent
    BY SendRefusedType DEF CoreInv
  <1>2. /\ UNCHANGED <<accepted, started, outbox>> /\ refused' = refused + 1
        /\ misreported' = misreported + IF accepted[r] THEN 1 ELSE 0
    BY DEF SendRefused
  <1>3. \A q \in Runs \ {r} : view'[q] = view[q]
    BY <1>1 DEF SendRefused, InRequest, Ends, CoreInv, TypeInv, ProcInv
  <1>4. pc'[r] \in {"idle", "failing"} /\ \A q \in Runs \ {r} : pc'[q] = pc[q]
    BY <1>1, RunMovesAlone DEF CoreInv, PCs
  <1>5. Holder(r) /\ Committed(entry')
    BY <1>1, HolderAlone DEF Holder, CloudRowStep
  <1>6. SweepInv' /\ LaneInv'
    <2>1. ~Busy(r)'
      BY <1>4 DEF Busy
    <2>2. Blind' => Blind \/ \A q \in Runs : ~Busy(q)
      BY <1>1 DEF Blind, CoreInv, SweepInv
    <2> QED BY <1>1, <1>3, <1>4, <1>5, <2>1, <2>2, SweepFrame
  <1>7. \A q \in Runs : ~Claimed(q)' /\ ~InRequest(q)' /\ ~Holder(q)'
    BY <1>1, <1>5, HolderStops
  <1>8. HolderInv'
    BY <1>7 DEF HolderInv
  <1>9. /\ started = refused + 1
        /\ accepted[r] => Len(outbox) = misreported + 1
        /\ ~accepted[r] => Len(outbox) = misreported
        /\ misreported \in Nat
    BY <1>1 DEF CoreInv, CountsInv, TypeInv, CountInv
  <1>10. started' = refused' /\ Len(outbox') = misreported'
    <2>1. CASE accepted[r]
      BY <1>2, <1>9, <2>1
    <2>2. CASE ~accepted[r]
      BY <1>2, <1>9, <2>2
    <2> QED BY <2>1, <2>2
  <1>11. CountsInv'
    BY <1>1, <1>2, <1>7, <1>10 DEF CoreInv, CountsInv, VerdictsIn
  <1> QED BY <1>6, <1>8, <1>11 DEF CoreInv

\* An exception: the verdict stays open.
LEMMA SendThrowsCore ==
    ASSUME CoreInv, NEW r \in Runs, SendThrows(r), TypeInv'
    PROVE  CoreInv'
  <1>1. /\ CloudRowStep /\ InRequest(r)
        /\ \/ pc[r] = "sending" /\ pc' = [pc EXCEPT ![r] = "failing"]
           \/ pc[r] # "sending" /\ pc' = [pc EXCEPT ![r] = "idle"]
        /\ entry'.state = entry.state /\ entry'.intent = entry.intent
        /\ entry'.replySent => entry.replySent
    BY SendThrowsType DEF CoreInv
  <1>2. /\ UNCHANGED <<sweep, accepted, started, refused, misreported, outbox>>
        /\ \A q \in Runs \ {r} : view'[q] = view[q]
    BY DEF SendThrows, Ends, obsVars, verdicts, CoreInv, TypeInv, ProcInv
  <1>3. pc'[r] \in {"idle", "failing"} /\ \A q \in Runs \ {r} : pc'[q] = pc[q]
    BY <1>1, RunMovesAlone DEF CoreInv, PCs
  <1>4. Holder(r) /\ Committed(entry) /\ Committed(entry')
    BY <1>1, HolderAlone DEF Holder, CloudRowStep
  <1>5. SweepInv' /\ LaneInv'
    <2>1. ~Busy(r)' /\ (Blind' => Blind)
      BY <1>2, <1>3 DEF Busy, Blind
    <2> QED BY <1>1, <1>2, <1>3, <1>4, <2>1, SweepFrame
  <1>6. \A q \in Runs : ~Claimed(q)' /\ ~InRequest(q)' /\ ~Holder(q)'
    BY <1>1, <1>4, HolderStops
  <1>7. HolderInv'
    BY <1>6 DEF HolderInv
  <1>8. ~Unsent'
    BY <1>1, <1>4 DEF Unsent, Committed, CoreInv, HolderInv
  <1>9. CountsInv'
    BY <1>1, <1>2, <1>6, <1>8 DEF CoreInv, CountsInv
  <1> QED BY <1>5, <1>7, <1>9 DEF CoreInv

-----------------------------------------------------------------------------
(* What starts or resumes a run.                                           *)

\* The recovery ends without a send.
LEMMA RecoveryEndsCore ==
    ASSUME CoreInv, NEW r \in Runs, NEW e, pc[r] \in {"idle", "creds"},
           CloudRowStep, Committed(entry), RecoveryEnds(r, e),
           e.intent = "send_in_flight" => \A q \in Runs : ~Claimed(q),
           \A q \in Runs \ {r} : view'[q] = view[q],
           sweep' = sweep, UNCHANGED <<refused, misreported, outbox>>, TypeInv'
    PROVE  CoreInv'
  <1>1. /\ entry' = entry \/ \A q \in Runs : ~Claimed(q)
        /\ pc' = [pc EXCEPT ![r] = "idle"]
        /\ entry'.state = entry.state /\ entry'.intent = entry.intent
        /\ entry'.replySent => entry.replySent
        /\ accepted' = accepted /\ started' = started
    BY DEF RecoveryEnds
  <1>2. pc'[r] = "idle" /\ \A q \in Runs \ {r} : pc'[q] = pc[q]
    BY <1>1, RunMovesAlone DEF CoreInv, PCs
  <1>3. Committed(entry') /\ ~Busy(r)' /\ (Blind' => Blind)
    BY <1>2 DEF CloudRowStep, Busy, Blind
  <1>4. SweepInv' /\ LaneInv'
    BY <1>1, <1>2, <1>3, SweepFrame
  <1>5. SameHolders
    BY <1>2 DEF SameHolders, Claimed, InRequest
  <1>6. HolderInv'
    BY <1>1, <1>5 DEF CoreInv, HolderInv, SameHolders, Holder
  <1>7. (Unsent' => Unsent) /\ (VerdictsIn' <=> VerdictsIn)
    BY <1>1 DEF Unsent, VerdictsIn, Committed
  <1>8. CountsInv'
    BY <1>1, <1>5, <1>7 DEF CoreInv, CountsInv, SameHolders
  <1> QED BY <1>4, <1>6, <1>8 DEF CoreInv

\* The recovery sends.
LEMMA RecoverySendsCore ==
    ASSUME CoreInv, NEW r \in Runs, NEW label \in {"resend", "sweep_resend"},
           pc[r] \in {"idle", "creds"}, CloudRowStep, RecoverySends(r, label),
           label = "sweep_resend" => \A q \in Runs : Busy(q) => Claimed(q),
           \A q \in Runs \ {r} : view'[q] = view[q],
           sweep' = sweep, UNCHANGED <<refused, misreported, outbox>>, TypeInv'
    PROVE  CoreInv'
  <1>1. /\ entry.state = "outbound_locked"
        /\ entry.intent \in {"pending_send", "send_claimed"}
        /\ ~HeldByOther(entry, r)
        /\ pc' = [pc EXCEPT ![r] = label]
        /\ entry'.state = "outbound_locked" /\ entry'.intent = "send_in_flight"
        /\ entry'.replySent = entry.replySent
        /\ accepted' = [accepted EXCEPT ![r] = FALSE] /\ started' = started + 1
    BY DEF RecoverySends
  <1>2. pc'[r] = label /\ \A q \in Runs \ {r} : pc'[q] = pc[q]
    BY <1>1, RunMovesAlone DEF CoreInv, PCs
  <1>3. ASSUME NEW q \in Runs
        PROVE  ~Claimed(q) /\ ~InRequest(q)
    <2>1. ASSUME Claimed(q) PROVE FALSE
      <3>1. Holds(entry, q) /\ q # r
        BY <1>1, <2>1 DEF CoreInv, HolderInv, Claimed
      <3>2. q \in Senders /\ r \in Senders
        BY DEF Runs
      <3> QED BY <1>1, <3>1, <3>2, HoldsFacts
    <2>2. ~InRequest(q)
      BY <1>1 DEF CoreInv, HolderInv
    <2> QED BY <2>1, <2>2
  <1>4. Committed(entry') /\ ~Busy(r)' /\ (Blind' => Blind)
    BY <1>1, <1>2 DEF Committed, Busy, Blind
  <1>5. SweepInv' /\ LaneInv'
    BY <1>1, <1>2, <1>3, <1>4, SweepFrame
  <1>6. \A q \in Runs : (Claimed(q)' => FALSE) /\ (InRequest(q)' => q = r)
    BY <1>2, <1>3 DEF Claimed, InRequest
  <1>7. HolderInv'
    BY <1>1, <1>6 DEF HolderInv, Holder
  <1>8. VerdictsIn /\ (entry.replySent => outbox # <<>>)
    BY <1>1 DEF CoreInv, CountsInv, Unsent
  <1>9. started' = refused' + 1 /\ Len(outbox') = misreported' /\ ~accepted'[r]
    BY <1>1, <1>8 DEF VerdictsIn, CoreInv, TypeInv
  <1>10. ~Unsent'
    BY <1>1 DEF Unsent, Committed
  <1>11. CountsInv'
    BY <1>1, <1>6, <1>8, <1>9, <1>10 DEF CountsInv
  <1> QED BY <1>5, <1>7, <1>11 DEF CoreInv

\* A run is admitted: with a blind sweep pending, it is the only one.
LEMMA TurnStartsCore ==
    ASSUME CoreInv, NEW r \in Runs, pc[r] \in {"idle", "creds"}, TurnStarts(r),
           \A q \in Runs \ {r} : view'[q] = view[q],
           sweep' = sweep, UNCHANGED <<refused, misreported, outbox>>, TypeInv'
    PROVE  CoreInv'
  <1>1. /\ ~Committed(entry) /\ ReplyKept(entry, entry')
        /\ entry'.state = "processing" /\ Leased(entry') /\ entry'.scope = entry.scope
        /\ entry'.queue = "queued" =>
             entry.state = "processing" /\ entry.queue = "queued" /\ ~Leased(entry)
        /\ entry.state = "processing" /\ Leased(entry) => entry.queue = "queued"
        /\ pc' = [pc EXCEPT ![r] = "lookup"]
        /\ UNCHANGED obsVars
    BY DEF TurnStarts, obsVars, verdicts
  <1>2. pc'[r] = "lookup" /\ \A q \in Runs \ {r} : pc'[q] = pc[q]
    BY <1>1, RunMovesAlone DEF CoreInv, PCs
  <1>3. SameHolders
    BY <1>2 DEF SameHolders, Claimed, InRequest
  <1>4. HolderInv' /\ CountsInv'
    BY <1>1, <1>3, QuietKeepsHolders, QuietKeepsCounts DEF CoreInv
  <1>5. (Blind' <=> Blind) /\ \A q \in Runs \ {r} : Busy(q)' <=> Busy(q)
    BY <1>2 DEF Blind, Busy
  <1>6. Blind => \A q \in Runs : ~Busy(q)
    BY <1>1 DEF CoreInv, SweepInv
  <1>7. Blind => entry'.queue # "queued"
    BY <1>1 DEF CoreInv, SweepInv
  <1>8. \A p \in Runs : pc[p] # "sweep_resend" /\
                        (pc[p] = "creds" => view[p].snap.state # "outbound_locked")
    BY <1>1 DEF CoreInv, TypeInv, ProcInv, RunOK, AfterLock
  <1>9. \A p \in Runs : pc'[p] # "sweep_resend" /\
                        (pc'[p] = "creds" => view'[p].snap.state # "outbound_locked")
    BY <1>2, <1>8
  <1>10. SweepInv'
    BY <1>1, <1>5, <1>6, <1>7, <1>9 DEF SweepInv
  <1>11. LaneInv'
    BY <1>1, <1>2 DEF CoreInv, LaneInv
  <1> QED BY <1>4, <1>10, <1>11 DEF CoreInv

\* A run is turned away.
LEMMA TurnedAwayCore ==
    ASSUME CoreInv, NEW r \in Runs, pc[r] \in {"idle", "creds"}, entry' = entry,
           pc' = [pc EXCEPT ![r] = "idle"], \A q \in Runs \ {r} : view'[q] = view[q],
           sweep' = sweep, UNCHANGED obsVars, TypeInv'
    PROVE  CoreInv'
  <1>1. pc'[r] = "idle" /\ pc' = [pc EXCEPT ![r] = pc'[r]]
    BY RunMovesAlone DEF CoreInv, PCs
  <1>2. QuietRun(r)
    BY <1>1, RowSameKeeps DEF QuietRun, Holder, Claimed, InRequest, Busy
  <1> QED BY <1>2, QuietSame, QuietRunStep

\* The ways a run starts.
LEMMA BeginTurnCore ==
    ASSUME CoreInv, NEW r \in Runs, NEW p \in Payloads, pc[r] \in {"idle", "creds"},
           BeginTurn(r, p), sweep' = sweep, UNCHANGED <<refused, misreported, outbox>>,
           TypeInv'
    PROVE  CoreInv'
  <1>1. /\ entry'.state # "absent" => CloudRowStep
        /\ \/ TurnStarts(r)
           \/ /\ entry' = entry /\ pc' = [pc EXCEPT ![r] = "idle"]
              /\ accepted' = accepted /\ started' = started
           \/ entry.state = "outbound_locked" /\ RecoveryEnds(r, entry)
           \/ RecoverySends(r, "resend")
    BY BeginTurnType DEF CoreInv
  <1>2. \A q \in Runs \ {r} : view'[q] = view[q]
    BY DEF BeginTurn, RecoverLocked, RecoversWithSend, RecoversWithoutSend, Ends,
           CoreInv, TypeInv, ProcInv
  <1>3. CASE TurnStarts(r)
    BY <1>2, <1>3, TurnStartsCore
  <1>4. CASE /\ entry' = entry /\ pc' = [pc EXCEPT ![r] = "idle"]
             /\ accepted' = accepted /\ started' = started
    BY <1>2, <1>4, TurnedAwayCore DEF obsVars, verdicts
  <1>5. CASE entry.state = "outbound_locked" /\ RecoveryEnds(r, entry)
    <2>1. CloudRowStep /\ Committed(entry)
      BY <1>1, <1>5 DEF RecoveryEnds, Committed
    <2>2. entry.intent = "send_in_flight" => \A q \in Runs : ~Claimed(q)
      BY DEF CoreInv, HolderInv
    <2> QED BY <1>2, <1>5, <2>1, <2>2, RecoveryEndsCore
  <1>6. CASE RecoverySends(r, "resend")
    <2>1. CloudRowStep
      BY <1>1, <1>6 DEF RecoverySends
    <2> QED BY <1>2, <1>6, <2>1, RecoverySendsCore
  <1> QED BY <1>1, <1>3, <1>4, <1>5, <1>6

\* A delivery, the retry timer and the drained queue keep the invariant: a run
\* is admitted only on a row without a live lease.
LEMMA RunStartCore ==
    ASSUME CoreInv, NEW r \in Runs, Deliver(r) \/ TimerFires(r) \/ DrainQueue(r), TypeInv'
    PROVE  CoreInv'
  <1>1. CASE Deliver(r)
    <2> DEFINE p == [owner |-> deliveries + 1, resume |-> FALSE, token |-> FALSE]
    <2>1. /\ pc[r] = "idle" /\ deliveries < MaxDeliveries /\ BeginTurn(r, p)
          /\ sweep' = sweep /\ UNCHANGED <<refused, misreported, outbox>>
      BY <1>1 DEF Deliver, verdicts
    <2>2. deliveries + 1 \in 1..MaxDeliveries
      BY <2>1, BoundAssumption DEF CoreInv, TypeInv, CountInv
    <2>3. p \in Payloads
      BY <2>2, OwnersAssumption DEF Payloads
    <2> HIDE DEF p
    <2> QED BY <2>1, <2>3, BeginTurnCore
  <1>2. CASE TimerFires(r)
    <2>1. /\ pc[r] = "idle" /\ timer \in Payloads /\ BeginTurn(r, timer)
          /\ sweep' = sweep /\ UNCHANGED <<refused, misreported, outbox>>
      BY <1>2 DEF TimerFires, CoreInv, TypeInv, QueueInv, verdicts
    <2> QED BY <2>1, BeginTurnCore
  <1>3. CASE DrainQueue(r)
    <2>1. /\ pc[r] = "idle" /\ queue # <<>> /\ BeginTurn(r, Head(queue))
          /\ sweep' = sweep /\ UNCHANGED <<refused, misreported, outbox>>
          /\ queue \in Seq(Payloads)
      BY <1>3 DEF DrainQueue, CoreInv, TypeInv, QueueInv, verdicts
    <2>2. Head(queue) \in Payloads
      BY <2>1
    <2> QED BY <2>1, <2>2, BeginTurnCore
  <1> QED BY <1>1, <1>2, <1>3

\* The sweep takes the row it acts on.
LEMMA SweepFiresCore ==
    ASSUME CoreInv, NEW r \in Runs, SweepFires(r), TypeInv'
    PROVE  CoreInv'
  <1>1. /\ pc[r] = "idle" /\ sweep # "off" /\ ~SweepDrops(sweep) /\ sweep' = "off"
        /\ pc' = [pc EXCEPT ![r] = "creds"]
        /\ view' = [view EXCEPT ![r] = [text |-> None, snap |-> entry]]
        /\ entry' = entry /\ UNCHANGED obsVars
    BY DEF SweepFires, Awaits
  <1>2. /\ pc'[r] = "creds" /\ \A q \in Runs \ {r} : pc'[q] = pc[q]
        /\ view'[r].snap = entry /\ \A q \in Runs \ {r} : view'[q] = view[q]
    BY <1>1, RunMovesAlone DEF CoreInv, PCs, TypeInv, ProcInv
  <1>3. \A q \in Runs : (Claimed(q)' <=> Claimed(q)) /\ (Busy(q)' <=> Busy(q))
    BY <1>1, <1>2 DEF Claimed, Busy
  <1>4. SameHolders
    BY <1>1, <1>2 DEF SameHolders, Claimed, InRequest
  <1>5. ReplyKept(entry, entry')
    BY <1>1, QuietSame
  <1>6. HolderInv' /\ CountsInv'
    BY <1>1, <1>4, <1>5, QuietKeepsHolders, QuietKeepsCounts DEF CoreInv
  <1>7. entry.state = "outbound_locked" => Blind
    BY <1>1 DEF SweepDrops, Blind, CoreInv, TypeInv, QueueInv, QueueStatuses
  <1>8. ~Blind'
    BY <1>1 DEF Blind
  <1>9. ASSUME NEW p \in Runs, pc'[p] = "creds", view'[p].snap.state = "outbound_locked"
        PROVE  /\ \A q \in Runs : Busy(q)' => Claimed(q)'
               /\ view'[p].snap.intent = "send_in_flight" => \A q \in Runs : ~Busy(q)'
    <2>1. CASE p = r
      <3>1. \A q \in Runs : Busy(q) => Claimed(q)
        BY <1>2, <1>7, <1>9, <2>1 DEF CoreInv, SweepInv
      <3>2. entry.intent = "send_in_flight" => \A q \in Runs : ~Claimed(q)
        BY DEF CoreInv, HolderInv
      <3> QED BY <1>2, <1>3, <2>1, <3>1, <3>2
    <2>2. CASE p # r
      BY <1>2, <1>3, <1>9, <2>2 DEF CoreInv, SweepInv
    <2> QED BY <2>1, <2>2
  <1>10. ASSUME NEW p \in Runs, pc'[p] = "sweep_resend"
         PROVE  \A q \in Runs : ~Busy(q)'
    BY <1>2, <1>3, <1>10 DEF CoreInv, SweepInv
  <1>11. SweepInv'
    BY <1>8, <1>9, <1>10 DEF SweepInv
  <1>12. LaneInv'
    BY <1>1, <1>2 DEF CoreInv, LaneInv
  <1> QED BY <1>6, <1>11, <1>12 DEF CoreInv

\* The sweep acts on it.
LEMMA SweepResumesCore ==
    ASSUME CoreInv, NEW r \in Runs, SweepResumes(r), TypeInv'
    PROVE  CoreInv'
  <1>1. /\ CloudRowStep /\ pc[r] = "creds"
        /\ \/ view[r].snap.state = "outbound_locked" /\ RecoveryEnds(r, view[r].snap)
           \/ view[r].snap.state = "outbound_locked" /\ RecoverySends(r, "sweep_resend")
           \/ TurnStarts(r)
           \/ /\ entry' = entry /\ pc' = [pc EXCEPT ![r] = "idle"]
              /\ accepted' = accepted /\ started' = started
           \/ entry.state = "outbound_locked" /\ RecoveryEnds(r, entry)
           \/ RecoverySends(r, "resend")
    BY SweepResumesType DEF CoreInv
  <1>2. /\ \A q \in Runs \ {r} : view'[q] = view[q]
        /\ sweep' = sweep /\ UNCHANGED <<refused, misreported, outbox>>
    BY DEF SweepResumes, BeginTurn, RecoverLocked, RecoversWithSend, RecoversWithoutSend, Ends,
           CoreInv, TypeInv, ProcInv, verdicts
  <1>3. view[r].snap.state = "outbound_locked" =>
          /\ Committed(entry)
          /\ \A q \in Runs : Busy(q) => Claimed(q)
          /\ view[r].snap.intent = "send_in_flight" => \A q \in Runs : ~Busy(q)
    BY <1>1 DEF CoreInv, SweepInv, TypeInv, ProcInv, RunOK
  <1>4. CASE view[r].snap.state = "outbound_locked" /\ RecoveryEnds(r, view[r].snap)
    <2>1. view[r].snap.intent = "send_in_flight" => \A q \in Runs : ~Claimed(q)
      BY <1>3, <1>4 DEF Busy, Claimed
    <2> QED BY <1>1, <1>2, <1>3, <1>4, <2>1, RecoveryEndsCore
  <1>5. CASE view[r].snap.state = "outbound_locked" /\ RecoverySends(r, "sweep_resend")
    BY <1>1, <1>2, <1>3, <1>5, RecoverySendsCore
  <1>6. CASE TurnStarts(r)
    BY <1>1, <1>2, <1>6, TurnStartsCore
  <1>7. CASE /\ entry' = entry /\ pc' = [pc EXCEPT ![r] = "idle"]
             /\ accepted' = accepted /\ started' = started
    BY <1>1, <1>2, <1>7, TurnedAwayCore DEF obsVars, verdicts
  <1>8. CASE entry.state = "outbound_locked" /\ RecoveryEnds(r, entry)
    <2>1. entry.intent = "send_in_flight" => \A q \in Runs : ~Claimed(q)
      BY DEF CoreInv, HolderInv
    <2> QED BY <1>1, <1>2, <1>8, <2>1, RecoveryEndsCore DEF Committed
  <1>9. CASE RecoverySends(r, "resend")
    BY <1>1, <1>2, <1>9, RecoverySendsCore
  <1> QED BY <1>1, <1>4, <1>5, <1>6, <1>7, <1>8, <1>9

-----------------------------------------------------------------------------
(* Time and crashes.                                                       *)

LEMMA EnvStepCore ==
    ASSUME CoreInv, SweepDiscards \/ ProcessingLeaseLapses \/ SendLeaseLapses \/ CrashRestart,
           TypeInv'
    PROVE  CoreInv'
  <1>1. entry \in Entries /\ RowOK(entry)
    BY DEF CoreInv, TypeInv, RowInv
  <1>2. CASE SweepDiscards
    <2>1. UNCHANGED <<entry, pc, view, accepted, started, refused, misreported, outbox>>
          /\ sweep' = "off"
      BY <1>2 DEF SweepDiscards, procVars, obsVars, verdicts
    <2>2. HolderInv' /\ CountsInv' /\ LaneInv'
      BY <2>1 DEF CoreInv, HolderInv, CountsInv, LaneInv, Holder, Claimed, InRequest, Unsent,
         VerdictsIn
    <2>3. SweepInv'
      BY <2>1 DEF CoreInv, SweepInv, Blind, Busy, Claimed
    <2> QED BY <2>2, <2>3 DEF CoreInv
  <1>3. CASE ProcessingLeaseLapses
    <2>1. /\ sweep \in {"off", "queued", "resuming"}
          /\ UNCHANGED <<pc, view, sweep, accepted, started, refused, misreported, outbox>>
          /\ ReplyKept(entry, entry') /\ entry'.scope = entry.scope
      BY <1>1, <1>3, LapseRow DEF ProcessingLeaseLapses, volatile, obsVars, verdicts
    <2>2. SameHolders
      BY <2>1 DEF SameHolders, Claimed, InRequest
    <2>3. HolderInv' /\ CountsInv'
      BY <2>1, <2>2, QuietKeepsHolders, QuietKeepsCounts DEF CoreInv, obsVars, verdicts
    <2>4. SweepInv' /\ LaneInv'
      BY <2>1 DEF CoreInv, SweepInv, LaneInv, Blind, Busy, Claimed
    <2> QED BY <2>3, <2>4 DEF CoreInv
  <1>4. CASE SendLeaseLapses
    <2>1. /\ \A r \in Runs : ~Claimed(r)
          /\ UNCHANGED <<pc, view, sweep, accepted, started, refused, misreported, outbox>>
          /\ entry'.state = entry.state /\ entry'.intent = entry.intent
          /\ entry'.scope = entry.scope /\ entry'.queue = entry.queue
          /\ (Leased(entry') <=> Leased(entry)) /\ entry'.replySent = entry.replySent
      BY <1>1, <1>4, LapseRow DEF SendLeaseLapses, volatile, obsVars, verdicts, Claimed
    <2>2. HolderInv'
      BY <2>1 DEF CoreInv, HolderInv, Holder, Claimed, InRequest
    <2>3. CountsInv'
      BY <2>1 DEF CoreInv, CountsInv, Unsent, VerdictsIn, Committed, Claimed, InRequest
    <2>4. SweepInv' /\ LaneInv'
      BY <2>1 DEF CoreInv, SweepInv, LaneInv, Blind, Busy, Claimed, Committed
    <2> QED BY <2>2, <2>3, <2>4 DEF CoreInv
  <1>5. CASE CrashRestart
    <2>1. /\ pc' = [q \in Runs |-> "idle"] /\ sweep' \in {entry.queue, "off"}
          /\ UNCHANGED <<accepted, started, refused, misreported, outbox>>
          /\ entry'.state = entry.state /\ entry'.intent = entry.intent
          /\ entry'.queue = entry.queue /\ entry'.replySent = entry.replySent
      BY <1>1, <1>5, LapseRow DEF CrashRestart, obsVars, verdicts
    <2>2. \A q \in Runs : pc'[q] = "idle" /\ ~Claimed(q)' /\ ~InRequest(q)' /\ ~Busy(q)'
      BY <2>1 DEF Claimed, InRequest, Busy
    <2>3. HolderInv'
      BY <2>2 DEF HolderInv, Holder
    <2>4. CountsInv'
      BY <2>1, <2>2 DEF CoreInv, CountsInv, Unsent, VerdictsIn, Committed
    <2>5. Blind' => entry'.queue # "queued"
      BY <2>1 DEF Blind
    <2>6. SweepInv' /\ LaneInv'
      BY <2>2, <2>5 DEF SweepInv, LaneInv
    <2> QED BY <2>3, <2>4, <2>6 DEF CoreInv
  <1> QED BY <1>2, <1>3, <1>4, <1>5

-----------------------------------------------------------------------------
(* The invariant.                                                          *)

LEMMA RunStepCore ==
    ASSUME CoreInv, NEW r \in Runs, RunStep(r), TypeInv'
    PROVE  CoreInv'
  <1>1. ASSUME QuietRun(r), QuietTypeStep, sweep' = sweep, UNCHANGED obsVars
        PROVE  CoreInv'
    BY <1>1, QuietRunStep DEF QuietTypeStep, CloudRowStep
  <1>2. CASE \/ LookupFails(r) \/ OwnershipFails(r) \/ DuplicateSend(r) \/ FailTurn(r)
             \/ \E paused \in BOOLEAN : LaneFails(r, paused)
    BY <1>1, <1>2, QuietFailures DEF CoreInv
  <1>3. CASE \/ GatePasses(r)
             \/ \E t \in Replies : OwnershipUnusable(r, t) \/ LaneReplies(r, t)
    BY <1>1, <1>3, QuietAwaits DEF CoreInv
  <1>4. CASE \/ GateQueues(r) \/ DuplicateInbound(r) \/ OwnerAnswerHandled(r) \/ LaneSilent(r)
             \/ SweepLacksCredentials(r)
    BY <1>1, <1>4, QuietEnds DEF CoreInv
  <1>5. CASE AskOwnership(r) \/ \E s \in Scopes : OwnershipDecided(r, s)
    BY <1>1, <1>5, QuietDecisions DEF CoreInv
  <1>6. CASE LockReply(r) \/ StartSend(r)
    BY <1>6, LockReplyCore, StartSendCore
  <1>7. CASE SendSucceeds(r) \/ SendRefused(r) \/ SendThrows(r)
    BY <1>7, SendSucceedsCore, SendRefusedCore, SendThrowsCore
  <1>8. CASE SweepResumes(r)
    BY <1>8, SweepResumesCore
  <1> QED BY <1>2, <1>3, <1>4, <1>5, <1>6, <1>7, <1>8 DEF RunStep

\* The invariant is inductive.
LEMMA CoreInvStep ==
    ASSUME CoreInv, [Next]_vars
    PROVE  CoreInv'
  <1>1. TypeInv'
    BY TypeInvStep DEF CoreInv
  <1>2. CASE UNCHANGED vars
    BY <1>1, <1>2 DEF vars, CoreInv, HolderInv, CountsInv, SweepInv, LaneInv, Holder, Claimed,
       InRequest, Unsent, VerdictsIn, Blind, Busy
  <1>3. CASE \E r \in Runs : RunStep(r) \/ RunStart(r) \/ ProviderAccepts(r)
    BY <1>1, <1>3, RunStepCore, RunStartCore, SweepFiresCore, ProviderAcceptsCore DEF RunStart
  <1>4. CASE SweepDiscards \/ ProcessingLeaseLapses \/ SendLeaseLapses \/ CrashRestart
    BY <1>1, <1>4, EnvStepCore
  <1> QED BY <1>2, <1>3, <1>4 DEF Next

\* It holds initially.
LEMMA CoreInvInit == Init => CoreInv
  <1> SUFFICES ASSUME Init PROVE CoreInv
    OBVIOUS
  <1>1. TypeInv
    BY TypeInvInit
  <1>2. \A q \in Runs : pc[q] = "idle"
    BY DEF Init
  <1>3. \A q \in Runs : ~Claimed(q) /\ ~InRequest(q) /\ ~Busy(q)
    BY <1>2 DEF Claimed, InRequest, Busy
  <1>4. HolderInv /\ LaneInv
    BY <1>2, <1>3 DEF HolderInv, LaneInv, Holder
  <1>5. started = refused /\ Len(outbox) = misreported /\ ~entry.replySent
    BY DEF Init, NoEntry
  <1>6. CountsInv
    BY <1>3, <1>5 DEF CountsInv, VerdictsIn
  <1>7. sweep = "off"
    BY DEF Init
  <1>8. SweepInv
    BY <1>2, <1>7 DEF SweepInv, Blind
  <1> QED BY <1>1, <1>4, <1>6, <1>8 DEF CoreInv

\* So it holds of every behaviour.
LEMMA CoreInvariant == Spec => []CoreInv
  BY CoreInvInit, CoreInvStep, PTL DEF Spec

-----------------------------------------------------------------------------
(* The properties.                                                         *)

\* Two runs never wait for the provider about this turn at the same time,
\* however many runs, redeliveries, retries, drained messages, sweeps and
\* restarts there are (claimOutboundLockedRecovery).
THEOREM OneSend == Spec => []OneSendAtATime
  <1>1. CoreInv => OneSendAtATime
    BY DEF CoreInv, HolderInv, Holder, OneSendAtATime
  <1> QED BY <1>1, CoreInvariant, PTL

\* A second request to the provider starts only after an ok:false verdict on
\* the one before (the outbound intent's send_in_flight).
THEOREM SendsLicensed == Spec => []SendLicence
  <1>1. CoreInv => SendLicence
    <2> SUFFICES ASSUME CoreInv PROVE started <= refused + 1
      BY DEF SendLicence
    <2>1. refused \in Nat /\ (started = refused \/ started = refused + 1)
      BY DEF CoreInv, CountsInv, TypeInv, CountInv
    <2> QED BY <2>1
  <1> QED BY <1>1, CoreInvariant, PTL

\* The customer gets one message more than the provider's wrong denials, at
\* most.
THEOREM DeliveriesLicensed == Spec => []DeliveryLicence
  <1>1. CoreInv => DeliveryLicence
    <2> SUFFICES ASSUME CoreInv PROVE Len(outbox) <= misreported + 1
      BY DEF DeliveryLicence
    <2>1. /\ misreported \in Nat
          /\ Len(outbox) = misreported \/ Len(outbox) = misreported + 1
      BY DEF CoreInv, CountsInv, TypeInv, CountInv
    <2> QED BY <2>1
  <1> QED BY <1>1, CoreInvariant, PTL

\* A row that says the reply was sent is one whose customer has it
\* (markOutboundLockedRecoverySent).
THEOREM SentMeansDelivered == Spec => []ReplySentMeansDelivered
  <1>1. CoreInv => ReplySentMeansDelivered
    BY DEF CoreInv, CountsInv, ReplySentMeansDelivered
  <1> QED BY <1>1, CoreInvariant, PTL

\* Every run in a lane is in the lane of the recorded scope
\* (persistCloudInboundSemanticDecision).
THEOREM LaneIsDecided == Spec => []LaneFollowsDecision
  <1>1. CoreInv => LaneFollowsDecision
    BY DEF CoreInv, LaneInv, LaneFollowsDecision
  <1> QED BY <1>1, CoreInvariant, PTL

\* What a run's start or the sweep's resumption does to the row.
LEMMA StartOutcome ==
    ASSUME CoreInv, NEW r \in Runs, RunStart(r) \/ SweepResumes(r)
    PROVE  /\ UNCHANGED <<misreported, outbox>>
           /\ \/ TurnStarts(r)
              \/ entry' = entry /\ started' = started
              \/ \E e : RecoveryEnds(r, e)
              \/ \E label : RecoverySends(r, label)
  <1>1. CASE SweepResumes(r)
    BY <1>1, SweepResumesType DEF SweepResumes, CoreInv, verdicts
  <1>2. CASE SweepFires(r)
    BY <1>2 DEF SweepFires, obsVars, verdicts
  <1>3. ASSUME NEW p \in Payloads, BeginTurn(r, p)
        PROVE  \/ TurnStarts(r)
               \/ entry' = entry /\ started' = started
               \/ \E e : RecoveryEnds(r, e)
               \/ \E label : RecoverySends(r, label)
    BY <1>3, BeginTurnType DEF CoreInv
  <1>4. CASE Deliver(r)
    <2> DEFINE p == [owner |-> deliveries + 1, resume |-> FALSE, token |-> FALSE]
    <2>1. /\ deliveries < MaxDeliveries /\ BeginTurn(r, p)
          /\ UNCHANGED <<misreported, outbox>>
      BY <1>4 DEF Deliver, verdicts
    <2>2. deliveries + 1 \in 1..MaxDeliveries
      BY <2>1, BoundAssumption DEF CoreInv, TypeInv, CountInv
    <2>3. p \in Payloads
      BY <2>2, OwnersAssumption DEF Payloads
    <2> HIDE DEF p
    <2> QED BY <1>3, <2>1, <2>3
  <1>5. CASE TimerFires(r)
    <2>1. timer \in Payloads /\ BeginTurn(r, timer) /\ UNCHANGED <<misreported, outbox>>
      BY <1>5 DEF TimerFires, CoreInv, TypeInv, QueueInv, verdicts
    <2> QED BY <1>3, <2>1
  <1>6. CASE DrainQueue(r)
    <2>1. /\ queue # <<>> /\ queue \in Seq(Payloads)
          /\ BeginTurn(r, Head(queue)) /\ UNCHANGED <<misreported, outbox>>
      BY <1>6 DEF DrainQueue, CoreInv, TypeInv, QueueInv, verdicts
    <2>2. Head(queue) \in Payloads
      BY <2>1
    <2> QED BY <1>3, <2>1, <2>2
  <1> QED BY <1>1, <1>2, <1>4, <1>5, <1>6 DEF RunStart

\* A run's other steps are quiet, claim, or concern the request under way.
LEMMA StepKinds ==
    ASSUME CoreInv, NEW r \in Runs, RunStep(r)
    PROVE  \/ ReplyKept(entry, entry') /\ CloudRowStep /\ UNCHANGED obsVars
           \/ LockReply(r) \/ StartSend(r) \/ SendSucceeds(r) \/ SendRefused(r) \/ SendThrows(r)
           \/ SweepResumes(r)
  BY QuietFailures, QuietAwaits, QuietEnds, QuietDecisions DEF RunStep, QuietTypeStep, CoreInv

\* Time, crashes and a discarding sweep decide nothing about a send.
LEMMA EnvOutcome ==
    ASSUME CoreInv, SweepDiscards \/ ProcessingLeaseLapses \/ SendLeaseLapses \/ CrashRestart
    PROVE  /\ entry'.state = entry.state /\ entry'.intent = entry.intent
           /\ UNCHANGED <<started, misreported, outbox>>
  <1>1. entry \in Entries /\ RowOK(entry)
    BY DEF CoreInv, TypeInv, RowInv
  <1>2. CASE SweepDiscards
    BY <1>2 DEF SweepDiscards, obsVars, verdicts
  <1>3. CASE ProcessingLeaseLapses
    BY <1>1, <1>3, LapseRow DEF ProcessingLeaseLapses, ReplyKept, obsVars, verdicts
  <1>4. CASE SendLeaseLapses
    BY <1>1, <1>4, LapseRow DEF SendLeaseLapses, obsVars, verdicts
  <1>5. CASE CrashRestart
    BY <1>1, <1>5, LapseRow DEF CrashRestart, obsVars, verdicts
  <1> QED BY <1>2, <1>3, <1>4, <1>5

\* With a request in flight and nobody waiting, a step starts no send and leaves
\* the row in flight or settled.
LEMMA UncertainStep ==
    ASSUME CoreInv, [Next]_vars, entry.intent = "send_in_flight",
           \A r \in Runs : ~InRequest(r)
    PROVE  started' = started /\ entry'.intent \in SendStarted
  <1>1. entry \in Entries /\ RowOK(entry) /\ Committed(entry)
    BY DEF CoreInv, TypeInv, RowInv, RowOK
  <1>2. SUFFICES started' = started /\ entry'.intent = entry.intent
    BY DEF SendStarted
  <1>3. ASSUME NEW r \in Runs, RunStart(r) \/ SweepResumes(r)
        PROVE  started' = started /\ entry'.intent = entry.intent
    BY <1>1, <1>3, StartOutcome DEF TurnStarts, RecoveryEnds, RecoverySends
  <1>4. ASSUME NEW r \in Runs, RunStep(r)
        PROVE  started' = started /\ entry'.intent = entry.intent
    <2>1. CASE ReplyKept(entry, entry') /\ UNCHANGED obsVars
      BY <2>1 DEF ReplyKept, obsVars
    <2>2. CASE LockReply(r)
      <3>1. started' = started
        BY <2>2 DEF LockReply, obsVars
      <3>2. entry'.intent = entry.intent
        BY <1>1, <2>2, LockReplyType DEF CoreInv
      <3> QED BY <3>1, <3>2
    <2>3. ~StartSend(r)
      BY StartSendType DEF CoreInv, HolderInv, Claimed
    <2>4. ~SendSucceeds(r) /\ ~SendRefused(r) /\ ~SendThrows(r)
      BY DEF SendSucceeds, SendRefused, SendThrows
    <2> QED BY <1>3, <1>4, <2>1, <2>2, <2>3, <2>4, StepKinds
  <1>5. CASE UNCHANGED vars
    BY <1>5 DEF vars
  <1>6. CASE Next
    <2>1. \A r \in Runs : ~ProviderAccepts(r)
      BY DEF ProviderAccepts
    <2> QED BY <1>3, <1>4, <1>6, <2>1, EnvOutcome DEF Next
  <1> QED BY <1>5, <1>6

\* With the request in flight and nobody left to hear the verdict, no step
\* sends again or frees the row for a send (markOutboundUncertainManualReview,
\* classifyOutboundLockedRecovery).
THEOREM UncertainStays == Spec => UncertainNeverResent
  <1>1. CoreInv /\ [Next]_vars =>
          [ /\ entry.intent = "send_in_flight"
            /\ \A r \in Runs : ~InRequest(r)
            => started' = started /\ entry'.intent \in SendStarted ]_vars
    BY UncertainStep
  <1> QED BY <1>1, CoreInvariant, PTL DEF Spec, UncertainNeverResent

-----------------------------------------------------------------------------
(* The turn implements the promise.                                        *)

\* A row that stays committed, or done, if it was, moves the stage as the
\* promise allows.
LEMMA StageMoves ==
    ASSUME Committed(entry) => Committed(entry'), entry.state = "done" => entry'.state = "done",
           UNCHANGED <<misreported, outbox>>
    PROVE  [Promise!Next]_(Promise!vars)
  <1>1. /\ Stage = "done" <=> entry.state = "done"
        /\ Stage = "committed" <=> entry.state = "outbound_locked"
        /\ Stage \in {"working", "committed", "done"}
        /\ Stage' = "done" <=> entry'.state = "done"
        /\ Stage' = "committed" <=> entry'.state = "outbound_locked"
        /\ Stage' \in {"working", "committed", "done"}
    BY DEF Stage
  <1>2. CASE Stage' = Stage
    BY <1>2 DEF Promise!vars
  <1>3. CASE Stage # "done" /\ Stage' = "done"
    BY <1>3 DEF Promise!Next, Promise!Finish
  <1>4. CASE Stage = "working" /\ Stage' = "committed"
    BY <1>4 DEF Promise!Next, Promise!Commit
  <1> QED BY <1>1, <1>2, <1>3, <1>4 DEF Committed

\* Every step of the turn is a step of the promise, or changes nothing of it.
LEMMA PromiseStep ==
    ASSUME CoreInv, [Next]_vars
    PROVE  [Promise!Next]_(Promise!vars)
  <1>1. ASSUME NEW r \in Runs, RunStart(r) \/ SweepResumes(r)
        PROVE  [Promise!Next]_(Promise!vars)
    <2>1. /\ UNCHANGED <<misreported, outbox>>
          /\ Committed(entry) => Committed(entry')
          /\ entry.state = "done" => entry'.state = "done"
      BY <1>1, StartOutcome DEF TurnStarts, RecoveryEnds, RecoverySends, Committed
    <2> QED BY <2>1, StageMoves
  <1>2. ASSUME NEW r \in Runs, RunStep(r)
        PROVE  [Promise!Next]_(Promise!vars)
    <2>1. CASE ReplyKept(entry, entry') /\ CloudRowStep /\ UNCHANGED obsVars
      BY <2>1, StageMoves DEF CloudRowStep, obsVars, verdicts
    <2>2. CASE LockReply(r) \/ StartSend(r) \/ SendSucceeds(r) \/ SendThrows(r)
      <3>1. CloudRowStep
        BY <2>2, LockReplyType, StartSendType, SendSucceedsType, SendThrowsType DEF CoreInv
      <3>2. UNCHANGED <<misreported, outbox>>
        BY <2>2 DEF LockReply, StartSend, SendSucceeds, SendThrows, obsVars, verdicts
      <3> QED BY <3>1, <3>2, StageMoves DEF CloudRowStep
    <2>3. CASE SendRefused(r)
      <3>1. CloudRowStep /\ InRequest(r) /\ entry'.state = entry.state
        BY <2>3, SendRefusedType DEF CoreInv
      <3>2. /\ outbox' = outbox
            /\ misreported' = misreported + IF accepted[r] THEN 1 ELSE 0
            /\ misreported \in Nat
        BY <2>3 DEF SendRefused, CoreInv, TypeInv, CountInv
      <3>3. CASE accepted[r]
        <4>1. misreported' = misreported + 1 /\ Len(outbox) = misreported + 1
          BY <3>1, <3>2, <3>3 DEF CoreInv, CountsInv
        <4>2. Stage' = Stage /\ Stage # "working"
          BY <3>1, HolderAlone DEF Stage, Holder, Committed
        <4> QED BY <3>2, <4>1, <4>2 DEF Promise!Next, Promise!Misreport
      <3>4. CASE ~accepted[r]
        <4>1. misreported' = misreported
          BY <3>2, <3>4
        <4> QED BY <3>1, <3>2, <4>1, StageMoves DEF CloudRowStep
      <3> QED BY <3>3, <3>4
    <2> QED BY <1>1, <1>2, <2>1, <2>2, <2>3, StepKinds
  <1>3. ASSUME NEW r \in Runs, ProviderAccepts(r)
        PROVE  [Promise!Next]_(Promise!vars)
    <2>1. /\ InRequest(r) /\ ~accepted[r] /\ outbox' = Append(outbox, view[r].text)
          /\ entry' = entry /\ misreported' = misreported
      BY <1>3 DEF ProviderAccepts, verdicts
    <2>2. Len(outbox) = misreported
      BY <2>1 DEF CoreInv, CountsInv
    <2>3. Stage' = Stage /\ Stage # "working"
      BY <2>1, HolderAlone DEF Stage, Holder, Committed
    <2>4. view[r].text \in Replies
      BY <2>1, AwakeFacts DEF CoreInv, InRequest, HasText
    <2> QED BY <2>1, <2>2, <2>3, <2>4 DEF Promise!Next, Promise!Accept
  <1>4. CASE SweepDiscards \/ ProcessingLeaseLapses \/ SendLeaseLapses \/ CrashRestart
    BY <1>4, EnvOutcome, StageMoves DEF Committed
  <1>5. CASE UNCHANGED vars
    BY <1>5 DEF vars, Promise!vars, Stage
  <1> QED BY <1>1, <1>2, <1>3, <1>4, <1>5 DEF Next

\* The turn implements DeliveryPromise: nothing leaves before the reply is
\* committed, a committed or done turn is never worked on again, and messages
\* beyond the first answer wrong denials, one for one.
THEOREM PromiseKept == Spec => KeepsPromise
  <1>1. Init => Promise!Init
    BY DEF Init, NoEntry, Promise!Init, Stage
  <1> QED BY <1>1, PromiseStep, CoreInvariant, PTL DEF Spec, KeepsPromise, Promise!Spec
=============================================================================
