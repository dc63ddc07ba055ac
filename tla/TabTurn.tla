-------------------------------- MODULE TabTurn --------------------------------
(***************************************************************************)
(* The turns of one WhatsApp Web group, from the row the listener reads to *)
(* the reply typed into the page: the rows of inboundTurnLedger.js that    *)
(* belong to the tab, the registry of typed texts                          *)
(* (playwrightOutboundRegistry.js), the pipeline's runs with their         *)
(* adapter (adapters/playwrightAdapter.js), and the recovery of locked     *)
(* rows (outboundLockedRecovery.js), which types into the same page.       *)
(*                                                                         *)
(* The listener is in fresh-delta mode, each row is a turn of its own, and *)
(* a turn that fails is restored by the group buffer.  A run older than    *)
(* ten seconds loses the active-job lock, so runs overlap freely here.     *)
(***************************************************************************)
EXTENDS Naturals, FiniteSets

CONSTANTS
    Rows,         \* messages customers write into the group
    Texts,        \* replies
    RepliesTo,    \* RepliesTo[r]: those a turn may find for row r
    Nothing,      \* null
    Recoverer,    \* claim owner of a recovery (recovery:<uuid>)
    MaxMishaps    \* bound: crashes, and texts typed but reported as not typed

ASSUME TabAssumption ==
    /\ Nothing \notin Texts \union Rows /\ Recoverer # Nothing
    /\ RepliesTo \in [Rows -> SUBSET Texts]
    /\ MaxMishaps \in Nat

VARIABLES
    \* the page of the group, below its older messages
    arrived,    \* rows on it
    tail,       \* the row at its end, or Nothing below a reply
    shown,      \* replies on it
    copies,     \* copies[r]: how many of them answer r
    row,        \* row[r]: its ledger row, durable
    registry,   \* texts registered as typed, durable
    \* the memory of the process
    baselined,  \* the startup baseline is taken
    scan,       \* the listener is idle, or reads the page
    seen,       \* rows it does not forward again
    waiting,    \* turns in the group buffer, restored ones among them
    run,        \* run[r]: the pipeline run of r
    rec,        \* rec[r]: the recovery of r and the text it types
    typing,     \* typing[s]: a sender that types into the compose box
    busy,       \* __OUTBOUND_BUSY__ and __UI_SEND_LOCK
    active,     \* __ACTIVE_PIPELINE__ and __UI_HARD_LOCK
    textSent,   \* rows in __playwrightTextSentForGuarantee
    mishaps,
    \* observation, read by properties only
    swallowed,  \* texts that were lost to another sender's
    causes      \* causes[r]: reasons there were for r's reply to be repeated

memory == <<baselined, scan, seen, waiting, run, rec, typing, busy, active, textSent>>
page == <<arrived, tail, shown, copies>>
tabVars == <<page, row, registry, memory, mishaps, swallowed, causes>>

Ledger == INSTANCE InboundTurnLedger WITH
    Owners <- {}, Senders <- {Recoverer}, Scopes <- {}, Replies <- Texts,
    MaxRetryCount <- 5, None <- Nothing

NoRun == [at |-> "none", text |-> Nothing, again |-> FALSE]
NoRec == [by |-> "none", text |-> Nothing, over |-> FALSE]
Quiet == [at |-> "none", mixed |-> FALSE]

\* Whoever types: a run or a recovery of a row.
Typists == {"run", "rec"} \X Rows
TextOf(s) == IF s[1] = "run" THEN run[s[2]].text ELSE rec[s[2]].text

TabInit ==
    /\ arrived = {} /\ tail = Nothing /\ shown = {} /\ copies = [r \in Rows |-> 0]
    /\ row = [r \in Rows |-> Ledger!NoEntry]
    /\ registry = {}
    /\ baselined = FALSE /\ scan = "idle" /\ seen = {} /\ waiting = {}
    /\ run = [r \in Rows |-> NoRun] /\ rec = [r \in Rows |-> NoRec]
    /\ typing = [s \in Typists |-> Quiet]
    /\ busy = FALSE /\ active = FALSE /\ textSent = {}
    /\ mishaps = 0
    /\ swallowed = {} /\ causes = [r \in Rows |-> 0]

-----------------------------------------------------------------------------
(* The ledger's row as the tab changes it.                                 *)

Settled == {"done", "outbound_locked"}

MarkProcessing(e) ==
    IF e.state \in Settled \/ (e.state = "processing" /\ e.procFresh) THEN e
    ELSE [e EXCEPT !.state = "processing", !.procFresh = TRUE]

\* Mutant: a failure reopens a locked row.
MarkFailedAlways(e) ==
    IF e.state = "done" THEN e
    ELSE [e EXCEPT !.state = "failed", !.procFresh = FALSE]

MarkFailed(e) ==
    IF e.state \in Settled THEN e
    ELSE [e EXCEPT !.state = "failed", !.procFresh = FALSE]

MarkAbsorbed(e) ==
    IF e.state \in Settled THEN e
    ELSE [e EXCEPT !.state = "baseline_absorbed", !.procFresh = FALSE]

MarkDone(e, replied) ==
    [e EXCEPT !.state = "done", !.replySent = replied, !.procFresh = FALSE]

\* resolveInboundTurnAdmissionBlock fails a stale row and lets it pass.
IsStale(e) == e.state = "processing" /\ ~e.procFresh
Unstale(e) == IF IsStale(e) THEN MarkFailed(e) ELSE e

\* Mutant: any text typed into the chat is evidence for the row's reply.
RecoveryByAnyText(e) ==
    IF e.state = "outbound_locked" /\ registry # {} THEN "complete_ledger"
    ELSE Ledger!ClassifyLocked(e)

\* classifyOutboundLockedRecovery with the registry's evidence
Recovery(e) ==
    IF e.state = "outbound_locked" /\ e.reply \in registry
    THEN "complete_ledger"
    ELSE Ledger!ClassifyLocked(e)

-----------------------------------------------------------------------------
(* The compose box.                                                        *)

\* Two that type at once clear and cut each other's text.
Types(new) ==
    LET all == new \union {s \in Typists : typing[s].at = "typing"} IN
    typing' = [s \in Typists |->
        IF s \in all
        THEN [at |-> "typing", mixed |-> Cardinality(all) > 1 \/ typing[s].mixed]
        ELSE typing[s]]

Enter(s) ==
    LET r == s[2] IN
    /\ typing[s].at = "typing"
    /\ typing' = [typing EXCEPT ![s] = [at |-> "typed", mixed |-> FALSE]]
    /\ \/ /\ shown' = shown \union {TextOf(s)} /\ tail' = Nothing
          /\ copies' = [copies EXCEPT ![r] = @ + 1]
          /\ UNCHANGED swallowed
       \/ /\ typing[s].mixed
          /\ swallowed' = swallowed \union {TextOf(s)}
          /\ UNCHANGED <<tail, shown, copies>>
    /\ causes' = [causes EXCEPT ![r] = @
          + (IF (s[1] = "run" /\ run[r].again) \/ (s[1] = "rec" /\ rec[r].over)
             THEN 1 ELSE 0)]
    /\ UNCHANGED <<arrived, row, registry, baselined, scan, seen, waiting, run, rec,
                   busy, active, textSent, mishaps>>

\* sendPlaywrightGroupText answers: a text that was typed is registered, and
\* the locks are released whoever else types.
Delivered(s) ==
    /\ typing[s].at = "typed"
    /\ typing' = [typing EXCEPT ![s] = Quiet]
    /\ registry' = registry \union {TextOf(s)}
    /\ UNCHANGED <<mishaps, causes>>

\* It refuses, before Enter or, rarely, after it.
Refused(s) ==
    /\ typing' = [typing EXCEPT ![s] = Quiet]
    /\ \/ typing[s].at = "typing" /\ UNCHANGED <<mishaps, causes>>
       \/ /\ typing[s].at = "typed"
          /\ mishaps < MaxMishaps /\ mishaps' = mishaps + 1
          /\ causes' = [causes EXCEPT ![s[2]] = @ + 1]
    /\ UNCHANGED registry

-----------------------------------------------------------------------------
(* The listener.                                                           *)

RowArrives(r) ==
    /\ r \notin arrived
    /\ arrived' = arrived \union {r} /\ tail' = r
    /\ UNCHANGED <<shown, copies, row, registry, memory, mishaps, swallowed, causes>>

ScanBegins ==
    /\ scan = "idle" /\ ~busy /\ ~active
    /\ scan' = "reading"
    /\ UNCHANGED <<page, row, registry, baselined, seen, waiting, run, rec, typing,
                   busy, active, textSent, mishaps, swallowed, causes>>

\* establishFreshDeltaStartupBaseline: what is on the page when the process
\* first reads it is not answered, except a last row that a signal announced.
Baseline ==
    /\ scan = "reading" /\ ~baselined
    /\ \E spared \in SUBSET ({tail} \ {Nothing}) :
          /\ \A r \in spared : row[r].state \in {"absent", "failed"}
          /\ row' = [r \in Rows |-> IF r \in arrived \ spared
                                      THEN MarkAbsorbed(row[r]) ELSE row[r]]
          /\ seen' = arrived \ spared
    /\ baselined' = TRUE /\ scan' = "idle"
    /\ UNCHANGED <<page, registry, waiting, run, rec, typing, busy, active, textSent,
                   mishaps, swallowed, causes>>

\* Which fates an admitted row can meet: it is outside what the listener takes
\* for new, or another turn holds the chat; it is handed to the buffer; the
\* handover fails; or it is absorbed, shortly after the baseline.
Fates == {"left", "forwarded", "rolled_back", "absorbed"}

Admitted(e, fate) ==
    CASE fate = "left"        -> e
      [] fate = "forwarded"   -> MarkProcessing(e)
      [] fate = "rolled_back" -> MarkFailed(MarkProcessing(e))
      [] fate = "absorbed"    -> MarkAbsorbed(e)

\* What doRecoverOutboundLockedInboundTurn makes of the row before it types:
\* the claim and the in-flight mark are written in one go.
RecoveryWrites(e) ==
    CASE Recovery(e) = "complete_ledger"      -> Ledger!MarkSent(e)
      [] Recovery(e) = "uncertain_fail_closed" -> Ledger!MarkUncertain(e)
      [] Recovery(e) = "resume_send" /\ Ledger!MayClaimSend(e, Recoverer) ->
            Ledger!MarkInFlight(Ledger!ClaimSend(e, Recoverer), Recoverer)
      [] OTHER -> e

Resumes(e) == Recovery(e) = "resume_send" /\ Ledger!MayClaimSend(e, Recoverer)

StartsRecovery(new, by) ==
    /\ rec' = [r \in Rows |->
          IF r \in new
          THEN [by |-> by, text |-> row[r].reply, over |-> typing[<<"run", r>>].at # "none"]
          ELSE rec[r]]
    /\ Types({"rec"} \X new)
    /\ busy' = (busy \/ new # {})

\* resolveFreshAdmittedTurns and forwardAdmittedTurns: locked rows are
\* recovered, whatever the pipeline has begun since the scan was let through.
ScanReads ==
    /\ scan = "reading" /\ baselined
    /\ LET now == [r \in Rows |-> IF r \in arrived THEN Unstale(row[r]) ELSE row[r]]
           locked == {r \in arrived : row[r].state = "outbound_locked"
                                     /\ rec[r].by = "none"}
           open == {r \in arrived \ seen : now[r].state \in {"absent", "failed"}}
       IN \E fate \in [open -> Fates] :
             /\ row' = [r \in Rows |->
                   IF r \in locked THEN RecoveryWrites(row[r])
                   ELSE IF r \in open THEN Admitted(now[r], fate[r])
                   ELSE now[r]]
             /\ seen' = seen \union {r \in open : fate[r] \in {"forwarded", "absorbed"}}
             /\ waiting' = waiting \union {r \in open : fate[r] = "forwarded"}
             /\ StartsRecovery({r \in locked : Resumes(row[r])}, "scan")
    /\ scan' = "idle"
    /\ UNCHANGED <<page, registry, baselined, run, active, textSent, mishaps,
                   swallowed, causes>>

-----------------------------------------------------------------------------
(* The pipeline.                                                           *)

\* A row that has waited too long to be a handover, not long enough to be
\* stale: the run returns without settling the buffered turn.
TakenForDuplicate(r) ==
    /\ r \in waiting /\ row[r].state = "processing" /\ row[r].procFresh
    /\ waiting' = waiting \ {r}
    /\ UNCHANGED <<page, row, registry, baselined, scan, seen, run, rec, typing, busy,
                   active, textSent, mishaps, swallowed, causes>>

\* A row that is done is answered once more: the gate turns back locked rows
\* and duplicates only.
RunBegins(r) ==
    /\ r \in waiting /\ row[r].state # "outbound_locked"
    /\ waiting' = waiting \ {r}
    /\ row' = [row EXCEPT ![r] = Unstale(@)]
    /\ run' = [run EXCEPT ![r] = [NoRun EXCEPT !.at = "thinking",
                                               !.again = row[r].state = "done"]]
    /\ active' = TRUE
    /\ UNCHANGED <<page, registry, baselined, scan, seen, rec, typing, busy, textSent,
                   mishaps, swallowed, causes>>

\* A locked row: its reply is sent, or the turn waits on.
RunRecovers(r) ==
    /\ r \in waiting /\ row[r].state = "outbound_locked" /\ rec[r].by = "none"
    /\ row' = [row EXCEPT ![r] = RecoveryWrites(@)]
    /\ StartsRecovery(IF Resumes(row[r]) THEN {r} ELSE {}, "buffer")
    /\ waiting' = IF Recovery(row[r]) = "uncertain_fail_closed" THEN waiting
                  ELSE waiting \ {r}
    /\ textSent' = IF Recovery(row[r]) = "complete_ledger" THEN textSent \ {r}
                   ELSE textSent
    /\ UNCHANGED <<page, registry, baselined, scan, seen, run, active, mishaps,
                   swallowed, causes>>

\* Two minutes: the locks are released under the run, which goes on.
TimesOut(r) ==
    /\ run[r].at # "none"
    /\ active' = FALSE
    /\ row' = [row EXCEPT ![r] = MarkFailed(@)]
    /\ UNCHANGED <<page, registry, baselined, scan, seen, waiting, run, rec, typing,
                   busy, textSent, mishaps, swallowed, causes>>

\* After the text, images: the page stays locked for them, and a retry will
\* know that the text is out.
TextIsOut(r) ==
    \E images \in BOOLEAN :
       /\ run' = [run EXCEPT ![r] = [NoRun EXCEPT !.at = IF images THEN "media" ELSE "sent"]]
       /\ textSent' = IF images THEN textSent \union {r} ELSE textSent \ {r}
       /\ busy' = images

\* The reply is persisted with the lock, then typed, unless the turn's text is
\* known to be out.
RunReplies(r, text) ==
    /\ run[r].at = "thinking"
    /\ row' = [row EXCEPT ![r] = Ledger!LockOutbound(@, text)]
    /\ \/ /\ r \notin textSent
          /\ run' = [run EXCEPT ![r].at = "sending", ![r].text = text]
          /\ Types({<<"run", r>>})
          /\ busy' = TRUE
          /\ UNCHANGED textSent
       \/ /\ r \in textSent
          /\ TextIsOut(r)
          /\ UNCHANGED typing
    /\ UNCHANGED <<page, registry, baselined, scan, seen, waiting, rec, active, mishaps,
                   swallowed, causes>>

TextTyped(r) ==
    /\ run[r].at = "sending"
    /\ Delivered(<<"run", r>>)
    /\ TextIsOut(r)
    /\ UNCHANGED <<page, row, baselined, scan, seen, waiting, rec, active, mishaps,
                   swallowed>>

\* What the end of a run leaves, the job and UI locks included.
RunEnds(r) ==
    /\ run' = [run EXCEPT ![r] = NoRun]
    /\ active' = FALSE

\* finalizeAdmittedInboundTurnLedger: the reply is out, with its images if it
\* has any.
Succeeds(r) ==
    /\ run[r].at \in {"media", "sent"}
    /\ RunEnds(r)
    /\ row' = [row EXCEPT ![r] = MarkDone(@, TRUE)]
    /\ textSent' = textSent \ {r}
    /\ busy' = (busy /\ run[r].at = "sent")
    /\ UNCHANGED <<page, registry, baselined, scan, seen, waiting, rec, typing, mishaps,
                   swallowed, causes>>

StaysSilent(r) ==
    /\ run[r].at = "thinking"
    /\ RunEnds(r)
    /\ row' = [row EXCEPT ![r] = MarkDone(@, FALSE)]
    /\ textSent' = textSent \ {r}
    /\ UNCHANGED <<page, registry, baselined, scan, seen, waiting, rec, typing, busy,
                   mishaps, swallowed, causes>>

\* The buffered turn is restored, unless the customer has opened another.
Restores(r) ==
    /\ row' = [row EXCEPT ![r] = MarkFailed(@)]
    /\ \/ waiting' = waiting \union {r}
       \/ UNCHANGED waiting

\* No reply, or the images fail.
RunFails(r) ==
    /\ \/ run[r].at = "thinking" /\ UNCHANGED busy
       \/ run[r].at = "media" /\ busy' = FALSE
    /\ RunEnds(r)
    /\ Restores(r)
    /\ UNCHANGED <<page, registry, baselined, scan, seen, rec, typing, textSent, mishaps,
                   swallowed, causes>>

TextRefused(r) ==
    /\ run[r].at = "sending"
    /\ Refused(<<"run", r>>)
    /\ RunEnds(r)
    /\ Restores(r)
    /\ busy' = FALSE
    /\ UNCHANGED <<page, baselined, scan, seen, rec, textSent, swallowed>>

-----------------------------------------------------------------------------
(* The end of a recovery's send.                                           *)

RecoverySent(r) ==
    /\ rec[r].by # "none"
    /\ Delivered(<<"rec", r>>)
    /\ row' = [row EXCEPT ![r] = Ledger!MarkSent(@)]
    /\ rec' = [rec EXCEPT ![r] = NoRec]
    /\ textSent' = textSent \ {r}
    /\ busy' = FALSE
    /\ UNCHANGED <<page, baselined, scan, seen, waiting, run, active, mishaps, swallowed>>

RecoveryRefused(r) ==
    /\ rec[r].by # "none"
    /\ Refused(<<"rec", r>>)
    /\ row' = [row EXCEPT ![r] = Ledger!ReleaseSend(@, Recoverer, TRUE)]
    /\ \/ rec[r].by = "buffer" /\ waiting' = waiting \union {r}
       \/ UNCHANGED waiting
    /\ rec' = [rec EXCEPT ![r] = NoRec]
    /\ busy' = FALSE
    /\ UNCHANGED <<page, baselined, scan, seen, run, active, textSent, swallowed>>

-----------------------------------------------------------------------------
TimePasses(r) ==
    /\ row[r].state = "processing" /\ row[r].procFresh
    /\ row' = [row EXCEPT ![r].procFresh = FALSE]
    /\ UNCHANGED <<page, registry, memory, mishaps, swallowed, causes>>

\* The page, the ledger and the registry stay.  A run's text that is on the
\* page and not registered will be typed again.
Crashes ==
    /\ mishaps < MaxMishaps /\ mishaps' = mishaps + 1
    /\ baselined' = FALSE /\ scan' = "idle" /\ seen' = {} /\ waiting' = {}
    /\ run' = [r \in Rows |-> NoRun] /\ rec' = [r \in Rows |-> NoRec]
    /\ typing' = [s \in Typists |-> Quiet]
    /\ busy' = FALSE /\ active' = FALSE /\ textSent' = {}
    /\ row' = [r \in Rows |-> Unstale(row[r])]
    /\ causes' = [r \in Rows |->
          IF typing[<<"run", r>>].at = "typed" THEN causes[r] + 1 ELSE causes[r]]
    /\ UNCHANGED <<page, registry, swallowed>>

RowStep(r) ==
    \/ RowArrives(r) \/ TakenForDuplicate(r) \/ RunBegins(r) \/ RunRecovers(r)
    \/ TimesOut(r) \/ TextTyped(r) \/ Succeeds(r) \/ StaysSilent(r) \/ RunFails(r)
    \/ TextRefused(r) \/ RecoverySent(r) \/ RecoveryRefused(r) \/ TimePasses(r)
    \/ \E text \in RepliesTo[r] : RunReplies(r, text)

TabNext ==
    \/ \E r \in Rows : RowStep(r)
    \/ \E s \in Typists : Enter(s)
    \/ ScanBegins \/ Baseline \/ ScanReads \/ Crashes

TabSpec == TabInit /\ [][TabNext]_tabVars

-----------------------------------------------------------------------------
Fits(records) == [Rows -> records]

\* Every variable keeps its type.
TabTypeOK ==
    /\ arrived \subseteq Rows /\ tail \in Rows \union {Nothing}
    /\ shown \subseteq Texts /\ copies \in Fits(Nat)
    /\ \A r \in Rows :
          /\ row[r].state \in Ledger!States \union {"baseline_absorbed"}
          /\ [row[r] EXCEPT !.state = "absent"] \in Ledger!Entries
    /\ registry \subseteq Texts /\ baselined \in BOOLEAN
    /\ scan \in {"idle", "reading"}
    /\ seen \subseteq Rows /\ waiting \subseteq Rows /\ textSent \subseteq Rows
    /\ run \in Fits([at : {"none", "thinking", "sending", "media", "sent"},
                     text : Texts \union {Nothing}, again : BOOLEAN])
    /\ rec \in Fits([by : {"none", "scan", "buffer"},
                     text : Texts \union {Nothing}, over : BOOLEAN])
    /\ typing \in [Typists -> [at : {"none", "typing", "typed"}, mixed : BOOLEAN]]
    /\ busy \in BOOLEAN /\ active \in BOOLEAN
    /\ mishaps \in 0..MaxMishaps
    /\ swallowed \subseteq Texts /\ causes \in Fits(Nat)

\* A reply stands on the page as often as there was a reason to repeat it, and
\* once: a text that was typed and reported as not, a crash between Enter and
\* the registry, a recovery that began while the run was typing, or a turn that
\* was answered again.  No crash while a recovery types, no scan, no retry
\* and no image that fails repeats a reply.
CopiesHaveCause == \A r \in Rows : copies[r] <= 1 + causes[r]

\* A row is done with a reply only if the reply in its ledger row is on the
\* page, unless two senders typed into the compose box at once.
DoneHasReply ==
    \A r \in Rows : row[r].state = "done" /\ row[r].replySent =>
        row[r].reply \in shown \union swallowed
=============================================================================
