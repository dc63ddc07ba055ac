---------------------------- MODULE GroupTurnBuffer ----------------------------
(***************************************************************************)
(* The canonical group turn buffer: how rows of one WhatsApp group, read   *)
(* by the Playwright listener, become frozen turns of the AI pipeline.     *)
(*                                                                         *)
(* The listener polls.  A scan reads the page, admits the rows behind its  *)
(* anchor and hands them one by one to scheduleBufferedWhatsAppInbound,    *)
(* which appends them to the open entry of their participant.  An entry is *)
(* frozen and flushed when two clean scans in a row saw nothing of that    *)
(* participant, when an assistant reply follows one of its rows, or when   *)
(* its deadline asked for a final observation and one clean scan confirms  *)
(* it.  A frozen turn passes the group gate and the pipeline; a failed one *)
(* is put back under its key, still frozen, and tried again.               *)
(*                                                                         *)
(* Three flags of the chat couple the two sides: chatLocked                *)
(* (__processingChats), responding (__chatResponding) and pinned           *)
(* (__activeChatLock, the listener may not leave the chat).  A row is      *)
(* known by its position on the page.  Texts are left out: which of them    *)
(* are equal decides only whether the pipeline skips a turn as a duplicate, *)
(* and there every turn may be one.                                         *)
(***************************************************************************)
EXTENDS Naturals, Sequences, SequencesExt, FiniteSets, FiniteSetsExt

CONSTANTS
    Participants,  \* trusted participants of the group
    Emily,         \* the author of the assistant's rows
    MaxRows,       \* bound: rows that people write
    MaxReplies,    \* bound: rows that the assistant or the owner writes
    MaxFaults      \* bound: failed reads, handoffs and pipeline attempts

ASSUME AuthorAssumption == Emily \notin Participants
ASSUME BoundAssumption == MaxRows \in Nat /\ MaxReplies \in Nat /\ MaxFaults \in Nat

VARIABLES
    page,        \* authors of the rows, oldest first
    anchor,      \* acknowledgedAnchorIndex: the last row handed over (0: baseline)
    handed,      \* rows the session has seen: their handoff succeeded
    failed,      \* rows in message state "failed": a handoff failed lately
    entry,       \* messageBuffer: entry[p] of participant p
    flight,      \* flushed turns between the buffer and their settlement
    parked,      \* pendingPlaywrightPipelineBySession
    drains,      \* drains[p]: drains scheduled for p's session
    busy,        \* __ACTIVE_PIPELINE__ and __activeJob
    chatLocked,  \* __processingChats has the chat
    responding,  \* __chatResponding[chat]
    pinned,      \* __activeChatLock is held on the chat
    loopRunning, \* globalThis.__loopRunning
    scan,        \* the running chat loop iteration
    faults,      \* failures so far
    skipped,     \* observation: a turn was skipped since the chat was last freed
    cleanReads,  \* observation: complete reads since one that admitted rows of p
    answered,    \* observation: rows of turns that were settled
    dropped      \* observation: rows of turns that left without a settlement

lockVars   == <<chatLocked, responding, pinned, skipped>>
turnVars   == <<flight, parked, drains, busy, answered, dropped>>
bufferVars == <<entry, cleanReads>>
pageVars   == <<page, anchor, handed, failed>>
loopVars   == <<loopRunning, scan>>
vars == <<pageVars, bufferVars, turnVars, lockVars, loopVars, faults>>

Rows == 1..(MaxRows + MaxReplies)
Timers == {"none", "deadline", "again", "retry"}
Entries == [state : {"none", "open", "frozen"}, parts : Seq(Rows), quiet : BOOLEAN,
            wanted : BOOLEAN, failing : BOOLEAN, timer : Timers, deferred : Seq(Rows)]

\* No entry under the key.
Absent == [state |-> "none", parts |-> <<>>, quiet |-> FALSE, wanted |-> FALSE,
           failing |-> FALSE, timer |-> "none", deferred |-> <<>>]

Idle == [phase |-> "idle", watch |-> FALSE, snapshot |-> [p \in Participants |-> 0],
         read |-> FALSE, admitted |-> {}, queue |-> {}, inherited |-> FALSE,
         acquired |-> FALSE, stamped |-> {}, todo |-> {}]

Init ==
    /\ page = <<>>
    /\ anchor = 0
    /\ handed = {}
    /\ failed = {}
    /\ entry = [p \in Participants |-> Absent]
    /\ flight = {}
    /\ parked = [p \in Participants |-> <<>>]
    /\ drains = [p \in Participants |-> 0]
    /\ busy = FALSE
    /\ chatLocked = FALSE
    /\ responding = FALSE
    /\ pinned = FALSE
    /\ loopRunning = FALSE
    /\ scan = Idle
    /\ faults = 0
    /\ skipped = FALSE
    /\ cleanReads = [p \in Participants |-> 0]
    /\ answered = {}
    /\ dropped = {}

IsOpen(p) == entry[p].state = "open"
SomeOpen == \E p \in Participants : IsOpen(p)
Replies == Cardinality({i \in DOMAIN page : page[i] = Emily})

(***************************************************************************)
(* The page.                                                               *)
(***************************************************************************)
PersonWrites(p) ==
    /\ Len(page) - Replies < MaxRows
    /\ page' = Append(page, p)
    /\ UNCHANGED <<anchor, handed, failed, bufferVars, turnVars, lockVars, loopVars, faults>>

\* The owner answers by hand: a row of the assistant's side.
OwnerWrites ==
    /\ Replies < MaxReplies
    /\ page' = Append(page, Emily)
    /\ UNCHANGED <<anchor, handed, failed, bufferVars, turnVars, lockVars, loopVars, faults>>

\* evaluateReplyAfterGuard: an assistant row between row i and the next row of
\* the same participant.
RepliedAfter(i) ==
    \E k \in i + 1 .. Len(page) :
        /\ page[k] = Emily
        /\ \A j \in i + 1 .. k : page[j] # page[i]

\* resolveFreshAdmittedTurns: unseen rows behind the anchor.
Admitted == {i \in anchor + 1 .. Len(page) : page[i] # Emily /\ i \notin handed}

(***************************************************************************)
(* The buffer.                                                             *)
(***************************************************************************)
\* Mutant: a fragment joins a frozen turn, which opens again.
ScheduleIntoFrozen(e, row) ==
    IF row \in ToSet(e.parts) THEN e
    ELSE [e EXCEPT !.state = "open", !.parts = Append(@, row), !.quiet = FALSE,
                   !.wanted = FALSE, !.failing = FALSE, !.timer = "deadline"]

\* scheduleBufferedWhatsAppInbound: a fragment for a frozen entry waits behind
\* it, any other is appended, opens the entry and re-arms the deadline.
Schedule(e, row) ==
    IF row \in ToSet(e.parts) THEN e
    ELSE IF e.state = "frozen" THEN [e EXCEPT !.deferred = Append(@, row)]
    ELSE [e EXCEPT !.state = "open", !.parts = Append(@, row), !.quiet = FALSE,
                   !.wanted = FALSE, !.failing = FALSE, !.timer = "deadline"]

\* The loop that schedules deferred fragments anew, oldest first.
Replay(e, rows) ==
    LET after[n \in 0..Len(rows)] ==
            IF n = 0 THEN e ELSE Schedule(after[n - 1], rows[n])
    IN  after[Len(rows)]

\* flushBufferedWhatsAppInbound of a canonical entry: the turn that leaves.
Turn(p, stage, watched) ==
    [by |-> p, parts |-> entry[p].parts, deferred |-> entry[p].deferred,
     stage |-> stage, watched |-> watched]

RowsOf(t) == ToSet(t.parts) \cup ToSet(t.deferred)

\* The deadline fires: ask the listener for a final observation.
DeadlineFires(p) ==
    /\ entry[p].timer = "deadline"
    /\ entry' = [entry EXCEPT ![p].timer = "none", ![p].wanted = TRUE]
    /\ UNCHANGED <<pageVars, cleanReads, turnVars, lockVars, loopVars, faults>>

\* The poll-interval timer after a failed observation: ask again.
AgainFires(p) ==
    /\ entry[p].timer = "again"
    /\ entry' = [entry EXCEPT ![p].timer = "none", ![p].wanted = TRUE]
    /\ UNCHANGED <<pageVars, cleanReads, turnVars, lockVars, loopVars, faults>>

\* The retry timer of a restored turn: flush it again.
RetryFires(p) ==
    /\ entry[p].timer = "retry"
    /\ flight' = flight \cup {Turn(p, "gate", FALSE)}
    /\ entry' = [entry EXCEPT ![p] = Absent]
    /\ UNCHANGED <<pageVars, cleanReads, parked, drains, busy, answered,
                   dropped, lockVars, loopVars, faults>>

\* recordCanonicalGroupObservationFailure: entries that want an observation
\* remember the failure; one that is failing for 120 s (aged) gives up the pin,
\* the others ask again.
RecordFailure(aged) ==
    LET wanting == {p \in Participants : IsOpen(p) /\ entry[p].wanted}
    IN  /\ aged \subseteq {p \in wanting : entry[p].failing}
        /\ pinned' = (pinned /\ aged = {})
        /\ entry' = [p \in Participants |->
               IF p \in wanting
               THEN [entry[p] EXCEPT !.failing = TRUE,
                        !.timer = IF p \notin aged /\ @ = "none" THEN "again" ELSE @]
               ELSE entry[p]]

(***************************************************************************)
(* The listener's chat loop.                                               *)
(***************************************************************************)
\* runChatLoop gets past its guards.  With the pin on this chat it is a
\* read-only observation of the open entries, whose versions it remembers.
StartScan ==
    /\ scan.phase = "idle"
    /\ ~loopRunning
    /\ ~busy
    /\ pinned => SomeOpen
    /\ loopRunning' = TRUE
    /\ scan' = [Idle EXCEPT !.phase = "reading", !.watch = pinned,
                   !.snapshot = [p \in Participants |->
                       IF pinned /\ IsOpen(p) THEN Len(entry[p].parts) ELSE 0]]
    /\ UNCHANGED <<pageVars, bufferVars, turnVars, lockVars, faults>>

\* A tick that finds the loop, a pipeline or a send of any chat busy counts as
\* a failed observation.
BlockedTick ==
    /\ pinned
    /\ \E p \in Participants : IsOpen(p) /\ entry[p].wanted
    /\ \E aged \in SUBSET Participants : RecordFailure(aged)
    /\ UNCHANGED <<pageVars, cleanReads, turnVars, chatLocked, responding, skipped, loopVars, faults>>

\* maybeReleaseStaleChatLock: the pin is older than two minutes.
ReleaseStalePin ==
    /\ pinned
    /\ ~loopRunning
    /\ ~busy
    /\ pinned' = FALSE
    /\ UNCHANGED <<pageVars, bufferVars, turnVars, chatLocked, responding, skipped, loopVars, faults>>

\* An assistant row follows one of the entry's rows.
ReplyBoundary(p) == \E i \in ToSet(entry[p].parts) : RepliedAfter(i)
\* Mutant: one clean read without the participant is enough.
FreezesOnFirstAbsence(p, admitted) ==
    /\ IsOpen(p)
    /\ ReplyBoundary(p) \/ p \notin admitted

\* confirmCanonicalGroupScanCompleted for participant p, who admitted rows or
\* not in this read: whether the entry freezes, and what is left if it does not.
Freezes(p, admitted) ==
    /\ IsOpen(p)
    /\ ReplyBoundary(p) \/ (p \notin admitted /\ entry[p].quiet)
Confirmed(p, admitted) ==
    IF Freezes(p, admitted) THEN Absent
    ELSE IF IsOpen(p) THEN [entry[p] EXCEPT !.quiet = p \notin admitted]
    ELSE entry[p]

\* The page is read and the admission scan completed in one synchronous run:
\* entries freeze and are flushed, the rows to forward are queued.  Nothing is
\* forwarded while the chat is being answered (unless this is an observation)
\* or when it was processed a moment ago (tooSoon).
Read(tooSoon) ==
    LET admitted == {page[i] : i \in Admitted}
        frozen == {p \in Participants : Freezes(p, admitted)}
        queue == IF tooSoon \/ (responding /\ ~scan.watch) THEN {}
                 ELSE {i \in Admitted : ~RepliedAfter(i)}
    IN  /\ scan.phase = "reading"
        /\ entry' = [p \in Participants |-> Confirmed(p, admitted)]
        /\ flight' = flight \cup {Turn(p, "gate", FALSE) : p \in frozen}
        /\ cleanReads' = [p \in Participants |->
               IF p \in admitted THEN 0 ELSE IF cleanReads[p] < 2 THEN cleanReads[p] + 1 ELSE 2]
        /\ scan' = [scan EXCEPT
               !.phase = IF queue = {} THEN "closing" ELSE "queued",
               !.read = TRUE, !.admitted = admitted,
               !.todo = {p \in Participants : scan.snapshot[p] # 0},
               !.queue = queue]
        /\ UNCHANGED <<pageVars, parked, drains, busy, answered, dropped,
                       lockVars, loopRunning, faults>>

\* The page could not be read, or it is not the page of this group.
ReadFails ==
    /\ scan.phase = "reading"
    /\ faults < MaxFaults
    /\ faults' = faults + 1
    /\ scan' = [scan EXCEPT !.phase = "closing"]
    /\ UNCHANGED <<pageVars, bufferVars, turnVars, lockVars, loopRunning>>

\* A row whose handoff failed is passed over while its state is remembered: its
\* one retry (PLAYWRIGHT_FAILED_RETRY_MAX) counts as used.  A locked chat takes a
\* row only into the batch this pass began, or into the open entry of its own
\* participant while the pin is held.
MayJoin(row, s, locked, pin, ent) ==
    /\ row \notin failed
    /\ \/ ~locked
       \/ s.stamped # {} /\ ~s.inherited
       \/ pin /\ ent[page[row]].state = "open"

\* The pass s goes on, up to the next await: rows that may not join are skipped
\* for a later pass, the first one that may waits for ensureActiveChat.
GoesOn(s, locked, pin, ent) ==
    LET joining == {i \in s.queue : MayJoin(i, s, locked, pin, ent)}
    IN  IF joining = {} THEN [s EXCEPT !.queue = {}, !.phase = "closing"]
        ELSE [s EXCEPT !.queue = {i \in @ : i >= Min(joining)}, !.phase = "pass"]

\* A pass that took the pin and forwarded nothing gives it back.
PinAfter(s, pin) == pin /\ ~(s.phase = "closing" /\ s.acquired /\ s.stamped = {})

\* The pass takes its rows in the order of the page.
NextRow == Min(scan.queue)

\* runPlaywrightForwardPass starts: take the pin if nobody has it.
StartPass ==
    LET s == GoesOn([scan EXCEPT !.inherited = chatLocked, !.acquired = ~pinned],
                    chatLocked, TRUE, entry)
    IN  /\ scan.phase = "queued"
        /\ scan' = s
        /\ pinned' = PinAfter(s, TRUE)
        /\ UNCHANGED <<pageVars, bufferVars, turnVars, chatLocked, responding, skipped,
                       loopRunning, faults>>

\* ensureActiveChat finds another chat open.
SkipWrongChat ==
    LET s == GoesOn([scan EXCEPT !.queue = @ \ {NextRow}], chatLocked, pinned, entry)
    IN  /\ scan.phase = "pass"
        /\ faults < MaxFaults
        /\ faults' = faults + 1
        /\ scan' = s
        /\ pinned' = PinAfter(s, pinned)
        /\ UNCHANGED <<pageVars, bufferVars, turnVars, chatLocked, responding, skipped, loopRunning>>

\* ensureActiveChat confirms the chat: lock it and await forwardToPipeline.
Forward ==
    /\ scan.phase = "pass"
    /\ chatLocked' = TRUE
    /\ responding' = TRUE
    /\ scan' = [scan EXCEPT !.phase = "forward"]
    /\ UNCHANGED <<pageVars, bufferVars, turnVars, pinned, skipped, loopRunning, faults>>

\* Mutant: the row is not remembered as seen.
HandedUnmarked ==
    LET p == page[NextRow]
        ent == [entry EXCEPT ![p] = Schedule(@, NextRow)]
        s == GoesOn([scan EXCEPT !.queue = @ \ {NextRow}, !.stamped = @ \cup {NextRow}],
                    chatLocked, pinned, ent)
    IN  /\ scan.phase = "forward"
        /\ entry' = ent
        /\ anchor' = NextRow
        /\ scan' = s
        /\ pinned' = PinAfter(s, pinned)
        /\ UNCHANGED <<page, handed, failed, cleanReads, turnVars, chatLocked, responding,
                       skipped, loopRunning, faults>>

\* forwardToPipeline returned true: the handoff is irreversible, the row is
\* seen and the anchor moves to it.
Handed ==
    LET p == page[NextRow]
        ent == [entry EXCEPT ![p] = Schedule(@, NextRow)]
        s == GoesOn([scan EXCEPT !.queue = @ \ {NextRow}, !.stamped = @ \cup {NextRow}],
                    chatLocked, pinned, ent)
    IN  /\ scan.phase = "forward"
        /\ entry' = ent
        /\ handed' = handed \cup {NextRow}
        /\ anchor' = NextRow
        /\ scan' = s
        /\ pinned' = PinAfter(s, pinned)
        /\ UNCHANGED <<page, failed, cleanReads, turnVars, chatLocked, responding, skipped,
                       loopRunning, faults>>

\* The chat is neither locked nor marked as being answered any more.
Frees ==
    /\ chatLocked' = FALSE
    /\ responding' = FALSE
    /\ skipped' = FALSE

\* forwardToPipeline returned false or threw: the admission is rolled back.
ForwardFails ==
    LET s == GoesOn([scan EXCEPT !.queue = @ \ {NextRow}], FALSE, pinned, entry)
    IN  /\ scan.phase = "forward"
        /\ faults < MaxFaults
        /\ faults' = faults + 1
        /\ failed' = failed \cup {NextRow}
        /\ Frees
        /\ scan' = s
        /\ pinned' = PinAfter(s, pinned)
        /\ UNCHANGED <<page, anchor, handed, bufferVars, turnVars, loopRunning>>

\* clearOldStates, at the head of a tick: a failure of ten seconds ago is forgotten.
Forgets(row) ==
    /\ row \in failed
    /\ failed' = failed \ {row}
    /\ UNCHANGED <<page, anchor, handed, bufferVars, turnVars, lockVars, loopVars, faults>>

Awaiting == \E t \in flight : t.watched

\* completeCanonicalGroupFinalObservation for one entry of the snapshot.  An
\* entry that changed, or whose participant was admitted, waits for the next
\* deadline (the timer that is pending, if any, is kept); an entry last
\* appended in this very scan is left alone; any other is frozen, and the loop
\* awaits its flush.
FinalCheck(p) ==
    LET e == entry[p]
        due == IsOpen(p) /\ e.wanted /\ Last(e.parts) \notin scan.stamped
        changed == Len(e.parts) # scan.snapshot[p] \/ p \in scan.admitted
    IN  /\ scan.phase = "closing"
        /\ scan.watch /\ scan.read
        /\ ~Awaiting
        /\ p \in scan.todo
        /\ scan' = [scan EXCEPT !.todo = @ \ {p}]
        /\ \/ /\ ~due
              /\ UNCHANGED <<entry, flight>>
           \/ /\ due /\ changed
              /\ entry' = [entry EXCEPT ![p].wanted = FALSE, ![p].failing = FALSE,
                              ![p].timer = IF @ = "none" THEN "deadline" ELSE @]
              /\ UNCHANGED flight
           \/ /\ due /\ ~changed
              /\ flight' = flight \cup {Turn(p, "gate", TRUE)}
              /\ entry' = [entry EXCEPT ![p] = Absent]
        /\ UNCHANGED <<pageVars, cleanReads, parked, drains, busy, answered,
                       dropped, lockVars, loopRunning, faults>>

\* The end of runChatLoop's finally block.
EndScan ==
    /\ scan.phase = "closing"
    /\ ~Awaiting
    /\ \/ /\ scan.watch /\ ~scan.read
          /\ \E aged \in SUBSET Participants : RecordFailure(aged)
       \/ /\ scan.watch => scan.read /\ scan.todo = {}
          /\ UNCHANGED <<entry, pinned>>
    /\ loopRunning' = FALSE
    /\ scan' = Idle
    /\ UNCHANGED <<pageVars, cleanReads, turnVars, chatLocked, responding, skipped, faults>>

(***************************************************************************)
(* The turns.                                                              *)
(***************************************************************************)
\* Mutant: the blocked turn does not free the chat.
GateBlocksKeepsChat(t) ==
    /\ t.stage = "gate"
    /\ flight' = flight \ {t}
    /\ dropped' = dropped \cup RowsOf(t)
    /\ UNCHANGED <<pageVars, bufferVars, parked, drains, busy, answered,
                   lockVars, loopVars, faults>>

\* The group gate blocks the turn: it is dropped and the chat freed.
GateBlocks(t) ==
    /\ t.stage = "gate"
    /\ flight' = flight \ {t}
    /\ dropped' = dropped \cup RowsOf(t)
    /\ Frees
    /\ UNCHANGED <<pageVars, bufferVars, parked, drains, busy, answered,
                   pinned, loopVars, faults>>

\* executeWhatsAppAiPipeline skips a text that its owner received in the last
\* five seconds, from whichever row, customer, chat or source: it returns, and
\* neither settles the turn nor frees the chat.
Skipped(t, others) ==
    /\ flight' = others
    /\ dropped' = dropped \cup RowsOf(t)
    /\ skipped' = (skipped \/ chatLocked)

\* executeWhatsAppAiPipeline up to its job gate: the turn is skipped, or it is
\* parked behind the active job, or it runs.  A job older than MAX_ACTIVE_JOB_MS
\* does not hold the gate.
Enter(t, others) ==
    \/ /\ Skipped(t, others)
       /\ UNCHANGED <<parked, busy>>
    \/ /\ busy
       /\ parked' = [parked EXCEPT ![t.by] =
                        Append(@, [t EXCEPT !.stage = "parked", !.watched = FALSE])]
       /\ flight' = others
       /\ UNCHANGED <<busy, dropped, skipped>>
    \/ /\ busy' = TRUE
       /\ flight' = others \cup {[t EXCEPT !.stage = "running"]}
       /\ UNCHANGED <<parked, dropped, skipped>>

GateOpens(t) ==
    /\ t.stage = "gate"
    /\ Enter(t, flight \ {t})
    /\ UNCHANGED <<pageVars, bufferVars, drains, answered, chatLocked, responding, pinned,
                   loopVars, faults>>

\* drainPendingPlaywrightPipelines of p's session, once no job is active.
Drain(p) ==
    /\ drains[p] > 0
    /\ ~busy
    /\ drains' = [drains EXCEPT ![p] = @ - 1]
    /\ \/ /\ parked[p] = <<>>
          /\ UNCHANGED <<flight, parked, busy, dropped, skipped>>
       \/ /\ parked[p] # <<>>
          /\ Skipped(Head(parked[p]), flight)
          /\ parked' = [parked EXCEPT ![p] = Tail(@)]
          /\ UNCHANGED busy
       \/ /\ parked[p] # <<>>
          /\ busy' = TRUE
          /\ flight' = flight \cup {[Head(parked[p]) EXCEPT !.stage = "running"]}
          /\ parked' = [parked EXCEPT ![p] = Tail(@)]
          /\ UNCHANGED <<dropped, skipped>>
    /\ UNCHANGED <<pageVars, bufferVars, answered, chatLocked, responding, pinned,
                   loopVars, faults>>

\* The reply is typed into the group: the outbound bridge releases the pin.
Reply(t) ==
    /\ t.stage = "running"
    /\ Replies < MaxReplies
    /\ page' = Append(page, Emily)
    /\ flight' = (flight \ {t}) \cup {[t EXCEPT !.stage = "sent"]}
    /\ pinned' = FALSE
    /\ UNCHANGED <<anchor, handed, failed, bufferVars, parked, drains, busy, answered,
                   dropped, chatLocked, responding, skipped, loopVars, faults>>

\* Mutant: the deferred fragments are replayed but stay with the turn.
SucceedsKeepsDeferred(t) ==
    /\ t.stage \in {"running", "sent"}
    /\ flight' = (flight \ {t}) \cup {[t EXCEPT !.stage = "closing"]}
    /\ entry' = [entry EXCEPT ![t.by] = Replay(@, t.deferred)]
    /\ UNCHANGED <<pageVars, cleanReads, parked, drains, busy, answered, dropped, lockVars,
                   loopVars, faults>>

\* The settlement of a turn that was answered, or meant to stay silent: the
\* fragments deferred behind it are scheduled anew.
Succeeds(t) ==
    /\ t.stage \in {"running", "sent"}
    /\ flight' = (flight \ {t}) \cup {[t EXCEPT !.stage = "closing", !.deferred = <<>>]}
    /\ entry' = [entry EXCEPT ![t.by] = Replay(@, t.deferred)]
    /\ UNCHANGED <<pageVars, cleanReads, parked, drains, busy, answered, dropped, lockVars,
                   loopVars, faults>>

\* The rest of the finally block, behind the await that saves the cursor.
Closes(t) ==
    /\ t.stage = "closing"
    /\ flight' = flight \ {t}
    /\ answered' = answered \cup ToSet(t.parts)
    /\ busy' = FALSE
    /\ Frees
    /\ drains' = [drains EXCEPT ![t.by] = @ + 1]
    /\ UNCHANGED <<pageVars, bufferVars, parked, dropped, pinned, loopVars, faults>>

\* Mutant: the entry goes back without its retry timer.
RestoredUntimed(t) ==
    [Absent EXCEPT !.state = "frozen", !.parts = t.parts, !.deferred = t.deferred]

\* settle({successful: false}): the frozen entry goes back under its key with
\* a retry timer, unless the key is taken by then.
Restored(t) ==
    [Absent EXCEPT !.state = "frozen", !.parts = t.parts, !.deferred = t.deferred,
                   !.timer = "retry"]

\* The attempt fails, before or while it sends (the outbound bridge then
\* releases the pin): settlement and finally block in one synchronous run.  The
\* flush rejects; if the chat loop awaits it, the exception leaves its finally
\* block before __loopRunning is reset.
Fails(t) ==
    /\ t.stage = "running"
    /\ faults < MaxFaults
    /\ faults' = faults + 1
    /\ flight' = flight \ {t}
    /\ \/ /\ entry[t.by].state = "none"
          /\ entry' = [entry EXCEPT ![t.by] = Restored(t)]
          /\ UNCHANGED dropped
       \/ /\ entry[t.by].state # "none"
          /\ dropped' = dropped \cup RowsOf(t)
          /\ UNCHANGED entry
    /\ busy' = FALSE
    /\ Frees
    /\ pinned' \in {pinned, FALSE}
    /\ drains' = [drains EXCEPT ![t.by] = @ + 1]
    /\ scan' = IF t.watched THEN Idle ELSE scan
    /\ UNCHANGED <<pageVars, cleanReads, parked, answered, loopRunning>>

Listener ==
    \/ StartScan \/ BlockedTick \/ ReleaseStalePin
    \/ \E tooSoon \in BOOLEAN : Read(tooSoon)
    \/ ReadFails \/ StartPass \/ SkipWrongChat \/ Forward \/ Handed \/ ForwardFails
    \/ \E row \in failed : Forgets(row)
    \/ \E p \in Participants : FinalCheck(p)
    \/ EndScan

Pipeline ==
    \/ \E t \in flight : GateBlocks(t) \/ GateOpens(t) \/ Reply(t) \/ Succeeds(t)
                            \/ Closes(t) \/ Fails(t)
    \/ \E p \in Participants : Drain(p)

Next ==
    \/ \E p \in Participants : PersonWrites(p)
    \/ OwnerWrites
    \/ \E p \in Participants : DeadlineFires(p) \/ AgainFires(p) \/ RetryFires(p)
    \/ Listener
    \/ Pipeline

Spec == Init /\ [][Next]_vars

(***************************************************************************)
(* Correctness.                                                            *)
(***************************************************************************)
Turns == [by : Participants, parts : Seq(Rows), deferred : Seq(Rows), watched : BOOLEAN,
          stage : {"gate", "parked", "running", "sent", "closing"}]

\* The values the variables may take.
TypeOK ==
    /\ page \in Seq(Participants \cup {Emily}) /\ anchor \in 0..Len(page)
    /\ handed \subseteq DOMAIN page /\ failed \subseteq DOMAIN page
    /\ entry \in [Participants -> Entries]
    /\ flight \subseteq Turns
    /\ parked \in [Participants -> Seq(Turns)]
    /\ drains \in [Participants -> Nat]
    /\ {busy, chatLocked, responding, pinned, skipped, loopRunning} \subseteq BOOLEAN
    /\ scan.phase \in {"idle", "reading", "queued", "pass", "forward", "closing"}
    /\ scan.queue \subseteq DOMAIN page
    /\ faults \in 0..MaxFaults
    /\ cleanReads \in [Participants -> 0..2]
    /\ (answered \cup dropped) \subseteq handed

\* The places that hold row i.
HeldAt(i) ==
    {<<"entry", p>> : p \in {q \in Participants : i \in ToSet(entry[q].parts)}}
    \cup {<<"deferred", p>> : p \in {q \in Participants : i \in ToSet(entry[q].deferred)}}
    \cup {<<"flight", t>> : t \in {u \in flight : i \in RowsOf(u)}}
    \cup (UNION {{<<"parked", p, k>> : k \in {n \in DOMAIN parked[p] : i \in RowsOf(parked[p][n])}}
                     : p \in Participants})
    \cup {<<"answered">> : r \in {i} \cap answered}
    \cup {<<"dropped">> : r \in {i} \cap dropped}

\* A row the listener has handed over is in exactly one place: an entry, the
\* fragments deferred behind one, a turn on its way or parked, or it was settled
\* or dropped for good.  A row that was not handed over is nowhere.  This is what
\* the seen-ids of the session, the frozen state and the settlement have to keep
\* together across failed handoffs, restored turns and replayed fragments.
HeldExactlyOnce ==
    \A i \in DOMAIN page : Cardinality(HeldAt(i)) = IF i \in handed THEN 1 ELSE 0

\* Whoever settles or drops the last row frees the chat: it is locked
\* (__processingChats) or marked as being answered (__chatResponding) only while
\* a handoff runs or some row that was handed over is unsettled.  The duplicate
\* check of the pipeline is the one place that loses a turn and leaves the chat
\* marked; the mark then stays until another turn of the chat frees it.
LockHasTurn ==
    chatLocked \/ responding =>
        scan.phase = "forward" \/ handed \ (answered \cup dropped) # {} \/ skipped

\* A turn closes only on evidence from the page: an assistant row behind one of
\* its rows, two complete reads in a row without a new row of its participant, or
\* one such read after its deadline asked for it.  A failed read or the clock
\* alone never closes it, and a row that arrives in between starts the count
\* again.
FreezeNeedsQuiet ==
    [][\A p \in Participants : IsOpen(p) /\ entry'[p].state # "open" =>
          \/ ReplyBoundary(p)
          \/ cleanReads'[p] = 2
          \/ entry[p].wanted /\ cleanReads[p] # 0]_vars

\* How the buffer stands in TurnPromise: rows of an open entry and deferred ones
\* wait; a frozen entry is a closed turn, as is one on its way or parked.
UnderWay == flight \cup (UNION {ToSet(parked[p]) : p \in Participants})
Waiting ==
    (UNION {ToSet(entry[p].parts) : p \in {q \in Participants : IsOpen(q)}})
    \cup (UNION {ToSet(entry[p].deferred) : p \in Participants})
    \cup (UNION {ToSet(t.deferred) : t \in UnderWay})
Closed ==
    {ToSet(entry[p].parts) : p \in {q \in Participants : entry[q].state = "frozen"}}
    \cup {ToSet(t.parts) : t \in UnderWay}

Promise == INSTANCE TurnPromise WITH
    Authors <- Participants, Assistant <- Emily, waiting <- Waiting, turns <- Closed

\* The buffer implements the promise: see TurnPromise.
KeepsPromise == Promise!Spec

\* A row of a participant that the listener has not handed over is ahead of the
\* anchor, where a later pass finds it (unless an assistant row already answered
\* it).  "lock-skipped admitted turns stay pending until a later pass
\* successfully schedules them": violated, a row that was skipped because the
\* chat is locked is passed by the anchor when the next row of the same pass may
\* join its open entry.
AnchorBehindUnseen ==
    \A i \in DOMAIN page :
        (page[i] # Emily /\ i \notin handed /\ ~RepliedAfter(i)) => i > anchor

\* A turn that was put back after a failed attempt is tried again.
RestoredTurnRunsAgain ==
    \A p \in Participants : entry[p].state = "frozen" ~> entry[p].state # "frozen"

\* An open turn is closed eventually.  "the buffered physical IDs remain
\* retryable" after the pin was released: violated, the chat is still marked as
\* being answered, so scans without the pin admit a new row of the participant
\* without forwarding it, and each such scan counts as one that is not quiet.
OpenTurnIsClosed ==
    \A p \in Participants : IsOpen(p) ~> ~IsOpen(p)

(***************************************************************************)
(* Fairness: the poll runs, awaits settle, timers fire, and the page is    *)
(* read again and again when the chat was not processed a moment ago.      *)
(***************************************************************************)
Fair ==
    /\ WF_vars(StartScan) /\ WF_vars(ReleaseStalePin)
    /\ SF_vars(Read(FALSE)) /\ WF_vars(StartPass)
    /\ WF_vars(Forward) /\ WF_vars(Handed)
    /\ WF_vars(\E p \in Participants : FinalCheck(p)) /\ WF_vars(EndScan)
    /\ WF_vars(\E t \in flight : GateOpens(t)) /\ WF_vars(\E t \in flight : Succeeds(t))
    /\ WF_vars(\E t \in flight : Closes(t))
    /\ \A p \in Participants : WF_vars(DeadlineFires(p)) /\ WF_vars(AgainFires(p))
          /\ WF_vars(RetryFires(p)) /\ WF_vars(Drain(p))
FairSpec == Spec /\ Fair
=============================================================================
