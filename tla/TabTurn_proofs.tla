----------------------------- MODULE TabTurn_proofs -----------------------------
(***************************************************************************)
(* The turns of a WhatsApp Web group, for every set of rows and texts and  *)
(* every number of mishaps: a reply is on the page no more often than there*)
(* was cause, and a row is done with a reply only if the reply is out.     *)
(*                                                                         *)
(* The argument: TabInv says of every row where its turn is (PlaceInv),    *)
(* that whoever may still type holds a row no mark can settle (TabRowInv),    *)
(* that it may type only while the copies do not outnumber the causes      *)
(* (CopyInv), and that what was typed is out (ReplyInv).  A step that is   *)
(* Calm on a row keeps all four; each other step is a lemma of its own.    *)
(***************************************************************************)
EXTENDS TabTurn, TLAPS

USE TabAssumption

TabEntries ==
    [ state      : Ledger!States \union {"baseline_absorbed"},
      procOwner  : {Nothing},
      procFresh  : BOOLEAN,
      origOwner  : {Nothing},
      queue      : Ledger!QueueStatuses,
      queueOwner : {Nothing},
      retryCount : Nat,
      autoRetry  : BOOLEAN,
      scope      : {Nothing},
      intent     : Ledger!Intents,
      reply      : Texts \union {Nothing},
      sendOwner  : {Recoverer, Nothing},
      sendFresh  : BOOLEAN,
      terminal   : BOOLEAN,
      alert      : BOOLEAN,
      replySent  : BOOLEAN ]
RunRecords == [at : {"none", "thinking", "sending", "media", "sent"},
               text : Texts \union {Nothing}, again : BOOLEAN]
RecRecords == [by : {"none", "scan", "buffer"},
               text : Texts \union {Nothing}, over : BOOLEAN]
TypingRecords == [at : {"none", "typing", "typed"}, mixed : BOOLEAN]

\* The types of the functions: what the other steps of the argument need.
Shape ==
    /\ row \in [Rows -> TabEntries]
    /\ run \in [Rows -> RunRecords]
    /\ rec \in [Rows -> RecRecords]
    /\ typing \in [Typists -> TypingRecords]
    /\ copies \in [Rows -> Nat]
    /\ causes \in [Rows -> Nat]

-----------------------------------------------------------------------------
(* What the operators on a ledger row do.                                  *)

\* From e to f neither the reply nor what was sent of it changes.
Keeps(e, f) ==
    /\ f \in TabEntries
    /\ f.intent = e.intent /\ f.reply = e.reply /\ f.replySent = e.replySent

\* Marks for the turn leave a row alone that is locked or done.
LEMMA Marks ==
    ASSUME NEW e \in TabEntries
    PROVE  \A f \in {MarkProcessing(e), MarkFailed(e), MarkAbsorbed(e), Unstale(e),
                     MarkFailed(MarkProcessing(e))} :
             /\ Keeps(e, f)
             /\ e.state \in Settled => f = e
             /\ e.state \notin Settled => f.state \notin Settled
  <1> USE DEF TabEntries, Ledger!States, Settled, Keeps
  <1>1. ASSUME NEW g \in TabEntries
        PROVE  /\ Keeps(g, MarkFailed(g))
               /\ g.state \in Settled => MarkFailed(g) = g
               /\ g.state \notin Settled => MarkFailed(g).state \notin Settled
    <2>1. CASE g.state \in Settled
      BY <2>1 DEF MarkFailed
    <2>2. CASE g.state \notin Settled
      <3>1. MarkFailed(g) = [g EXCEPT !.state = "failed", !.procFresh = FALSE]
        BY <2>2 DEF MarkFailed
      <3> QED BY <2>2, <3>1
    <2> QED BY <2>1, <2>2
  <1>2. /\ Keeps(e, MarkProcessing(e))
        /\ e.state \in Settled => MarkProcessing(e) = e
        /\ e.state \notin Settled => MarkProcessing(e).state \notin Settled
    BY DEF MarkProcessing
  <1>3. /\ Keeps(e, MarkAbsorbed(e))
        /\ e.state \in Settled => MarkAbsorbed(e) = e
        /\ e.state \notin Settled => MarkAbsorbed(e).state \notin Settled
    BY DEF MarkAbsorbed
  <1>4. /\ Keeps(e, Unstale(e))
        /\ e.state \in Settled => Unstale(e) = e
        /\ e.state \notin Settled => Unstale(e).state \notin Settled
    BY <1>1 DEF Unstale
  <1> DEFINE g == MarkProcessing(e)
  <1>6. /\ Keeps(e, MarkFailed(g))
        /\ e.state \in Settled => MarkFailed(g) = e
        /\ e.state \notin Settled => MarkFailed(g).state \notin Settled
    <2> HIDE DEF g
    <2>1. /\ g \in TabEntries /\ Keeps(e, g)
          /\ e.state \in Settled => g = e
          /\ e.state \notin Settled => g.state \notin Settled
      BY <1>2 DEF g
    <2> QED BY <1>1, <2>1
  <1> QED BY <1>1, <1>2, <1>3, <1>4, <1>6

\* The end of a run.
LEMMA MarkDoneRow ==
    ASSUME NEW e \in TabEntries, NEW replied \in BOOLEAN
    PROVE  LET f == MarkDone(e, replied) IN
           /\ f \in TabEntries
           /\ f.state = "done" /\ f.replySent = replied
           /\ f.intent = e.intent /\ f.reply = e.reply
  BY DEF TabEntries, Ledger!States, MarkDone

\* The lock that a reply begins with.
LEMMA LockRow ==
    ASSUME NEW e \in TabEntries, NEW text \in Texts
    PROVE  LET f == Ledger!LockOutbound(e, text) IN
           /\ f \in TabEntries
           /\ e.state = "done" => f = e
           /\ e.state # "done" =>
                /\ f.state = "outbound_locked" /\ f.reply = text
                /\ e.intent # "provider_accepted" => f.intent # "provider_accepted"
  <1> DEFINE f == Ledger!LockOutbound(e, text)
  <1>1. CASE e.state = "done"
    BY <1>1 DEF Ledger!LockOutbound
  <1>2. CASE e.state # "done"
    <2>1. PICK i \in {e.intent, "pending_send"} :
            f = [e EXCEPT !.state = "outbound_locked", !.autoRetry = FALSE,
                          !.procFresh = FALSE, !.reply = text, !.intent = i]
      <3>1. CASE e.intent \in Ledger!SendStarted \union {"send_claimed"}
        BY <1>2, <3>1 DEF Ledger!LockOutbound, TabEntries
      <3>2. CASE e.intent \notin Ledger!SendStarted \union {"send_claimed"}
        BY <1>2, <3>2 DEF Ledger!LockOutbound, TabEntries
      <3> QED BY <3>1, <3>2
    <2> HIDE DEF f
    <2>2. f \in TabEntries
      BY <2>1 DEF TabEntries, Ledger!States, Ledger!Intents
    <2>3. f.state = "outbound_locked" /\ f.reply = text /\ f.intent = i
      BY <2>1 DEF TabEntries
    <2> QED BY <1>2, <2>1, <2>2, <2>3 DEF f
  <1> QED BY <1>1, <1>2

\* The receipt of a recovery.
LEMMA SentRow ==
    ASSUME NEW e \in TabEntries
    PROVE  LET f == Ledger!MarkSent(e) IN
           f \in TabEntries /\ f.state = "done" /\ f.reply = e.reply
  BY DEF TabEntries, Ledger!States, Ledger!Intents, Ledger!MarkSent

\* A recovery gives a row back.
LEMMA ReleaseRow ==
    ASSUME NEW e \in TabEntries
    PROVE  LET f == Ledger!ReleaseSend(e, Recoverer, TRUE) IN
           /\ f \in TabEntries /\ f.state = e.state /\ f.reply = e.reply
           /\ f.replySent = e.replySent
           /\ e.state # "outbound_locked" => f = e
           /\ f.intent \in {e.intent, "pending_send"}
  <1> DEFINE f == Ledger!ReleaseSend(e, Recoverer, TRUE)
  <1>1. CASE ~(e.state = "outbound_locked" /\ e.sendOwner \in {Nothing, Recoverer})
    BY <1>1 DEF Ledger!ReleaseSend
  <1>2. CASE e.state = "outbound_locked" /\ e.sendOwner \in {Nothing, Recoverer}
    <2>1. f = [e EXCEPT !.sendOwner = Nothing, !.sendFresh = FALSE,
                        !.intent = "pending_send"]
      BY <1>2 DEF Ledger!ReleaseSend, TabEntries
    <2> HIDE DEF f
    <2>2. f \in TabEntries
      BY <2>1 DEF TabEntries, Ledger!Intents
    <2>3. /\ f.state = e.state /\ f.reply = e.reply /\ f.replySent = e.replySent
          /\ f.intent = "pending_send"
      BY <2>1 DEF TabEntries
    <2> QED BY <1>2, <2>2, <2>3 DEF f
  <1> QED BY <1>1, <1>2

\* What a recovery writes before it types, and when it types.
LEMMA RecoveryRow ==
    ASSUME NEW e \in TabEntries, e.state = "outbound_locked",
           e.intent # "provider_accepted"
    PROVE  LET f == RecoveryWrites(e) IN
           /\ f \in TabEntries /\ f.reply = e.reply
           /\ f.state \in Settled
           /\ f.state = "done" => e.reply \in registry
           /\ f.state = "outbound_locked" =>
                f.intent = IF Resumes(e) THEN "send_in_flight" ELSE e.intent
           /\ Recovery(e) = "complete_ledger" => f.state = "done"
           /\ Resumes(e) => /\ f.state = "outbound_locked"
                            /\ e.reply \in Texts \ registry
                            /\ e.intent \notin Ledger!SendStarted
                            /\ Recovery(e) # "uncertain_fail_closed"
                            /\ Recovery(e) # "complete_ledger"
  <1> USE DEF TabEntries, Ledger!States, Ledger!Intents, Settled
  <1>1. CASE Recovery(e) = "complete_ledger"
    <2>1. e.reply \in registry
      BY <1>1 DEF Recovery, Ledger!ClassifyLocked
    <2>2. RecoveryWrites(e) = Ledger!MarkSent(e) /\ ~Resumes(e)
      BY <1>1 DEF RecoveryWrites, Resumes
    <2> QED BY <1>1, <2>1, <2>2, SentRow
  <1>2. CASE Recovery(e) = "uncertain_fail_closed"
    <2>1. e.intent # "none"
      BY <1>2 DEF Recovery, Ledger!ClassifyLocked
    <2>2. RecoveryWrites(e) = Ledger!MarkUncertain(e) /\ ~Resumes(e)
      BY <1>2 DEF RecoveryWrites, Resumes
    <2> DEFINE f == RecoveryWrites(e)
    <2>3. f = [e EXCEPT !.state = "outbound_locked", !.autoRetry = FALSE,
                        !.replySent = FALSE, !.sendOwner = Nothing,
                        !.sendFresh = FALSE, !.intent = e.intent, !.alert = TRUE]
      BY <2>1, <2>2 DEF Ledger!MarkUncertain
    <2> HIDE DEF f
    <2>4. f \in TabEntries
      BY <2>3
    <2>5. f.state = "outbound_locked" /\ f.reply = e.reply /\ f.intent = e.intent
      BY <2>3
    <2> QED BY <1>2, <2>2, <2>4, <2>5 DEF f
  <1>3. CASE Resumes(e)
    <2>1. /\ Recovery(e) = "resume_send" /\ Ledger!MayClaimSend(e, Recoverer)
          /\ e.reply \in Texts \ registry
      BY <1>3 DEF Resumes, Recovery, Ledger!ClassifyLocked, Ledger!MayClaimSend
    <2>2. RecoveryWrites(e) =
            Ledger!MarkInFlight(Ledger!ClaimSend(e, Recoverer), Recoverer)
      BY <2>1 DEF RecoveryWrites
    <2> DEFINE g == Ledger!ClaimSend(e, Recoverer)
    <2>3. /\ g \in TabEntries /\ g.state = e.state /\ g.reply = e.reply
          /\ g.sendOwner = Recoverer
      BY DEF Ledger!ClaimSend
    <2> HIDE DEF g
    <2>4. LET f == Ledger!MarkInFlight(g, Recoverer) IN
          /\ f \in TabEntries /\ f.state = g.state /\ f.reply = g.reply
          /\ f.intent = "send_in_flight"
      BY <2>3 DEF Ledger!MarkInFlight
    <2> QED BY <1>3, <2>1, <2>2, <2>3, <2>4 DEF g, Ledger!MayClaimSend
  <1>4. CASE /\ Recovery(e) \notin {"complete_ledger", "uncertain_fail_closed"}
             /\ ~Resumes(e)
    <2>1. RecoveryWrites(e) = e
      BY <1>4 DEF RecoveryWrites, Resumes
    <2> QED BY <1>4, <2>1
  <1> QED BY <1>1, <1>2, <1>3, <1>4

-----------------------------------------------------------------------------
(* The compose box.                                                        *)

Typing(kind, r) == typing[<<kind, r>>].at

\* Who starts to type types; everyone else goes on.
LEMMA TypesSets ==
    ASSUME Shape, NEW new \in SUBSET Typists, Types(new)
    PROVE  /\ typing' \in [Typists -> TypingRecords]
           /\ \A s \in Typists :
                typing'[s].at = IF s \in new THEN "typing" ELSE typing[s].at
  <1> DEFINE all == new \union {s \in Typists : typing[s].at = "typing"}
             more == Cardinality(all) > 1
  <1>1. typing' = [s \in Typists |->
          IF s \in all
          THEN [at |-> "typing", mixed |-> more \/ typing[s].mixed]
          ELSE typing[s]]
    BY DEF Types
  <1>2. \A s \in Typists : typing[s] \in TypingRecords
    BY DEF Shape
  <1>3. \A s \in Typists : s \in all => typing[s].at = "typing" \/ s \in new
    OBVIOUS
  <1> HIDE DEF all, more
  <1>4. \A s \in Typists : (more \/ typing[s].mixed) \in BOOLEAN
    OBVIOUS
  <1>5. \A s \in Typists : s \in new => s \in all
    BY DEF all
  <1>6. \A s \in Typists : typing[s].at = "typing" => s \in all
    BY DEF all
  <1>7. ASSUME NEW s \in Typists
        PROVE  /\ typing'[s] \in TypingRecords
               /\ typing'[s].at = IF s \in new THEN "typing" ELSE typing[s].at
    <2>1. CASE s \in all
      <3> DEFINE m == more \/ typing[s].mixed
      <3>1. typing'[s] = [at |-> "typing", mixed |-> m] /\ m \in BOOLEAN
        BY <1>1, <1>4, <2>1
      <3> HIDE DEF m
      <3> QED BY <1>3, <2>1, <3>1 DEF TypingRecords
    <2>2. CASE s \notin all
      <3>1. typing'[s] = typing[s]
        BY <1>1, <2>2
      <3> QED BY <1>2, <1>5, <2>2, <3>1
    <2> QED BY <2>1, <2>2
  <1> QED BY <1>1, <1>7

\* A sender is done with the box.
LEMMA TypingEnds ==
    ASSUME Shape, NEW t \in Typists, typing' = [typing EXCEPT ![t] = Quiet]
    PROVE  /\ typing' \in [Typists -> TypingRecords]
           /\ \A s \in Typists :
                typing'[s].at = IF s = t THEN "none" ELSE typing[s].at
  BY DEF Shape, Quiet, TypingRecords

-----------------------------------------------------------------------------
(* Types of the functions.                                                 *)

\* The listener, time and crashes.
LEMMA ListenerShape ==
    ASSUME Shape, Baseline \/ ScanBegins \/ Crashes
    PROVE  Shape'
  <1>1. CASE ScanBegins
    BY <1>1 DEF ScanBegins, Shape, page
  <1>2. CASE Baseline
    <2>1. row' \in [Rows -> TabEntries]
      <3>1. \A r \in Rows : row[r] \in TabEntries /\ MarkAbsorbed(row[r]) \in TabEntries
        BY Marks DEF Shape, Keeps
      <3>2. PICK spared : row' = [r \in Rows |-> IF r \in arrived \ spared
                                               THEN MarkAbsorbed(row[r]) ELSE row[r]]
        BY <1>2 DEF Baseline
      <3> QED BY <3>1, <3>2
    <2> QED BY <1>2, <2>1 DEF Baseline, Shape, page
  <1>3. CASE Crashes
    <2>1. row' \in [Rows -> TabEntries]
      <3>1. \A r \in Rows : Unstale(row[r]) \in TabEntries
        BY Marks DEF Shape, Keeps
      <3> QED BY <1>3, <3>1 DEF Crashes
    <2>2. /\ run' \in [Rows -> RunRecords] /\ rec' \in [Rows -> RecRecords]
          /\ typing' \in [Typists -> TypingRecords]
      BY <1>3 DEF Crashes, NoRun, NoRec, Quiet, RunRecords, RecRecords, TypingRecords
    <2>3. causes' \in [Rows -> Nat] /\ copies' = copies
      BY <1>3 DEF Crashes, Shape, page
    <2> QED BY <2>1, <2>2, <2>3 DEF Shape
  <1> QED BY <1>1, <1>2, <1>3

\* What a recovery's start makes of rec and typing.
LEMMA StartSets ==
    ASSUME Shape, NEW new \in SUBSET Rows, NEW by \in {"scan", "buffer"},
           StartsRecovery(new, by)
    PROVE  /\ rec' \in [Rows -> RecRecords]
           /\ typing' \in [Typists -> TypingRecords]
           /\ \A r \in Rows \ new : rec'[r] = rec[r]
           /\ \A r \in new : /\ rec'[r].by = by /\ rec'[r].text = row[r].reply
                             /\ rec'[r].over <=> Typing("run", r) # "none"
           /\ \A r \in Rows :
                /\ Typing("run", r)' = Typing("run", r)
                /\ Typing("rec", r)' = IF r \in new THEN "typing" ELSE Typing("rec", r)
  <1>1. \A r \in Rows : <<"run", r>> \in Typists /\ <<"rec", r>> \in Typists
    BY DEF Typists
  <1>2. {"rec"} \X new \in SUBSET Typists
    BY DEF Typists
  <1>3. /\ typing' \in [Typists -> TypingRecords]
        /\ \A s \in Typists :
             typing'[s].at = IF s \in {"rec"} \X new THEN "typing" ELSE typing[s].at
    BY <1>2, TypesSets DEF StartsRecovery
  <1>4. \A r \in Rows : /\ Typing("run", r)' = Typing("run", r)
                        /\ Typing("rec", r)' = IF r \in new THEN "typing"
                                               ELSE Typing("rec", r)
    BY <1>1, <1>3 DEF Typing
  <1>5. rec' = [r \in Rows |->
          IF r \in new
          THEN [by |-> by, text |-> row[r].reply, over |-> Typing("run", r) # "none"]
          ELSE rec[r]]
    BY DEF StartsRecovery, Typing
  <1>6. \A r \in Rows : row[r].reply \in Texts \union {Nothing}
    BY DEF Shape, TabEntries
  <1>7. ASSUME NEW r \in new
        PROVE  /\ rec'[r] \in RecRecords
               /\ rec'[r].by = by /\ rec'[r].text = row[r].reply
               /\ rec'[r].over <=> Typing("run", r) # "none"
    <2>1. CASE Typing("run", r) # "none"
      <3>1. rec'[r] = [by |-> by, text |-> row[r].reply, over |-> TRUE]
        BY <1>5, <2>1
      <3> QED BY <1>6, <2>1, <3>1 DEF RecRecords
    <2>2. CASE Typing("run", r) = "none"
      <3>1. rec'[r] = [by |-> by, text |-> row[r].reply, over |-> FALSE]
        BY <1>5, <2>2
      <3> QED BY <1>6, <2>2, <3>1 DEF RecRecords
    <2> QED BY <2>1, <2>2
  <1>8. \A r \in Rows \ new : rec'[r] = rec[r] /\ rec'[r] \in RecRecords
    BY <1>5 DEF Shape
  <1>9. rec' \in [Rows -> RecRecords]
    BY <1>5, <1>7, <1>8
  <1> QED BY <1>3, <1>4, <1>7, <1>8, <1>9
-----------------------------------------------------------------------------
(* The inductive invariant, row by row.                                    *)

IsSettled(r) == row[r].state \in Settled
Locked(r) == row[r].state = "outbound_locked"
Done(r) == row[r].state = "done"
Out(text) == text \in shown \union swallowed

\* A row waits, is run or is recovered for its waiting turn, and the listener
\* does not take it again meanwhile.
PlaceInv(r) ==
    /\ r \in waiting => r \in seen /\ run[r].at = "none" /\ baselined
    /\ run[r].at # "none" => r \in seen /\ baselined
    /\ rec[r].by = "buffer" => r \in seen \ waiting /\ run[r].at = "none" /\ baselined
    /\ Typing("run", r) # "none" => run[r].at = "sending"
    /\ Typing("rec", r) # "none" => rec[r].by # "none"

\* What runs and recoveries know of the ledger row.
TabRowInv(r) ==
    /\ run[r].again => Done(r)
    /\ run[r].at = "thinking" /\ ~run[r].again => ~IsSettled(r)
    /\ run[r].at \notin {"none", "thinking"} => IsSettled(r)
    /\ run[r].at = "sending" => run[r].text \in Texts
    /\ run[r].at = "sending" /\ Locked(r) => row[r].reply = run[r].text
    /\ rec[r].by # "none" =>
         IsSettled(r) /\ rec[r].text = row[r].reply /\ rec[r].text \in Texts
    /\ rec[r].by # "none" /\ Locked(r) => row[r].intent = "send_in_flight"
    /\ rec[r].by # "none" /\ ~rec[r].over => Typing("run", r) = "none" \/ run[r].again
    /\ r \in textSent => IsSettled(r)
    /\ row[r].intent = "provider_accepted" => Done(r)

\* Who may still type, without a cause, a reply of a row: no copy too many yet.
CopyInv(r) ==
    /\ copies[r] <= 1 + causes[r]
    /\ ~IsSettled(r) => copies[r] <= causes[r]
    /\ Typing("run", r) = "typing" /\ ~run[r].again => copies[r] <= causes[r]
    /\ Typing("rec", r) = "typing" /\ ~rec[r].over => copies[r] <= causes[r]
    /\ /\ Locked(r) /\ row[r].reply \notin registry /\ Typing("run", r) # "typed"
       /\ row[r].intent \notin Ledger!SendStarted \/ Typing("rec", r) = "typing"
       => copies[r] <= causes[r]

\* What was typed is out; a row that is done without its reply out was meant to
\* stay silent, and nobody works on it.
ReplyInv(r) ==
    /\ Typing("run", r) = "typed" => Out(run[r].text)
    /\ Typing("rec", r) = "typed" => Out(rec[r].text)
    /\ run[r].at \in {"media", "sent"} => Out(row[r].reply)
    /\ Done(r) /\ ~Out(row[r].reply) =>
         ~row[r].replySent /\ run[r].at = "none" /\ r \notin waiting /\ rec[r].by # "buffer"

RowsInv(r) == PlaceInv(r) /\ TabRowInv(r) /\ CopyInv(r) /\ ReplyInv(r)
TabInv ==
    /\ Shape
    /\ registry \subseteq shown \union swallowed
    /\ \A r \in Rows : RowsInv(r)

\* A step that leaves row r alone, but for its marks, places it leaves, its
\* admission by the scan, and the baseline, which starts the places anew.
Calm(r) ==
    /\ row'[r].intent = row[r].intent
    /\ row'[r].reply = row[r].reply
    /\ row'[r].replySent = row[r].replySent
    /\ row[r].state \in Settled => row'[r].state = row[r].state
    /\ row[r].state \notin Settled => row'[r].state \notin Settled
    /\ run'[r] = run[r] /\ rec'[r] = rec[r]
    /\ Typing("run", r)' = Typing("run", r) /\ Typing("rec", r)' = Typing("rec", r)
    /\ copies'[r] = copies[r] /\ causes'[r] = causes[r]
    /\ r \in seen /\ baselined => r \in seen'
    /\ r \in waiting' /\ r \notin waiting =>
         r \in seen' \ seen /\ baselined /\ row[r].state \notin Settled
    /\ r \in textSent' => r \in textSent
    /\ baselined => baselined'

\* What was typed stays out, and registered.
Grows ==
    /\ registry \subseteq registry'
    /\ shown \union swallowed \subseteq shown' \union swallowed'

\* A calm step keeps what holds of the row.
LEMMA CalmInv ==
    ASSUME NEW r, RowsInv(r), Calm(r), Grows
    PROVE  RowsInv(r)'
  <1> USE DEF Calm, Grows, IsSettled, Locked, Done, Out, Settled
  <1>1. PlaceInv(r)'
    BY DEF RowsInv, PlaceInv
  <1>2. TabRowInv(r)'
    BY DEF RowsInv, TabRowInv
  <1>3. CopyInv(r)'
    BY DEF RowsInv, CopyInv
  <1>4. ReplyInv(r)'
    BY DEF RowsInv, ReplyInv
  <1> QED BY <1>1, <1>2, <1>3, <1>4 DEF RowsInv

\* A mark on a row is calm.
LEMMA MarkCalm ==
    ASSUME Shape, NEW r \in Rows,
           row'[r] \in {row[r], MarkProcessing(row[r]), MarkFailed(row[r]),
                        MarkAbsorbed(row[r]), Unstale(row[r]),
                        MarkFailed(MarkProcessing(row[r]))}
    PROVE  /\ row'[r] \in TabEntries
           /\ row'[r].intent = row[r].intent
           /\ row'[r].reply = row[r].reply
           /\ row'[r].replySent = row[r].replySent
           /\ row[r].state \in Settled => row'[r].state = row[r].state
           /\ row[r].state \notin Settled => row'[r].state \notin Settled
  BY Marks DEF Shape, Keeps

\* The variables of a row's calm step.
Still(r) ==
    /\ run'[r] = run[r] /\ rec'[r] = rec[r]
    /\ Typing("run", r)' = Typing("run", r) /\ Typing("rec", r)' = Typing("rec", r)
    /\ copies'[r] = copies[r] /\ causes'[r] = causes[r]
    /\ (r \in seen' <=> r \in seen)
    /\ (r \in waiting' <=> r \in waiting)
    /\ (r \in textSent' <=> r \in textSent)
    /\ baselined' = baselined

\* Rows that a step does not touch keep their invariant.
LEMMA Others ==
    ASSUME TabInv, Grows, NEW q,
           \A r \in Rows \ {q} : row'[r] = row[r] /\ Still(r)
    PROVE  \A r \in Rows \ {q} : RowsInv(r)'
  <1> SUFFICES ASSUME NEW r \in Rows \ {q} PROVE RowsInv(r)'
    OBVIOUS
  <1>1. Calm(r)
    BY DEF Calm, Still
  <1>2. RowsInv(r)
    BY DEF TabInv
  <1> QED BY <1>1, <1>2, CalmInv

-----------------------------------------------------------------------------
(* Steps that are calm on every row.                                       *)

\* Arrivals, duplicates, time and marks are calm on every row.
LEMMA CalmSteps ==
    ASSUME TabInv, NEW q \in Rows,
           \/ RowArrives(q) \/ TakenForDuplicate(q) \/ TimesOut(q) \/ TimePasses(q)
           \/ ScanBegins
    PROVE  TabInv'
  <1>0. Shape
    BY DEF TabInv
  <1>1. /\ run' = run /\ rec' = rec /\ typing' = typing /\ copies' = copies
        /\ causes' = causes /\ seen' = seen /\ textSent' = textSent
        /\ baselined' = baselined /\ registry' = registry /\ shown' = shown
        /\ swallowed' = swallowed /\ waiting' \subseteq waiting
    BY DEF RowArrives, TakenForDuplicate, TimesOut, TimePasses, ScanBegins, page, memory
  <1>2. /\ row' \in [Rows -> TabEntries]
        /\ \A r \in Rows :
             /\ row'[r].intent = row[r].intent
             /\ row'[r].reply = row[r].reply
             /\ row'[r].replySent = row[r].replySent
             /\ row[r].state \in Settled => row'[r].state = row[r].state
             /\ row[r].state \notin Settled => row'[r].state \notin Settled
    <2>1. CASE row' = row
      BY <1>0, <2>1 DEF Shape
    <2>2. CASE TimesOut(q)
      <3>1. row' = [row EXCEPT ![q] = MarkFailed(row[q])]
        BY <2>2 DEF TimesOut
      <3>2. MarkFailed(row[q]) \in TabEntries
        BY <1>0, Marks DEF Shape, Keeps
      <3>3. row' \in [Rows -> TabEntries]
        BY <1>0, <3>1, <3>2 DEF Shape
      <3>4. \A r \in Rows : row'[r] \in {row[r], MarkFailed(row[r])}
        BY <1>0, <3>1 DEF Shape
      <3> QED BY <1>0, <3>3, <3>4, MarkCalm
    <2>3. CASE TimePasses(q)
      <3> DEFINE f == [row[q] EXCEPT !.procFresh = FALSE]
      <3>1. row' = [row EXCEPT ![q] = f]
        BY <2>3 DEF TimePasses
      <3>2. /\ f \in TabEntries /\ f.intent = row[q].intent /\ f.reply = row[q].reply
            /\ f.replySent = row[q].replySent /\ f.state = row[q].state
        <4>1. row[q] \in TabEntries
          BY <1>0 DEF Shape
        <4> QED BY <4>1 DEF TabEntries
      <3> HIDE DEF f
      <3> QED BY <1>0, <3>1, <3>2 DEF Shape
    <2>4. TimesOut(q) \/ TimePasses(q) \/ row' = row
      BY DEF RowArrives, TakenForDuplicate, ScanBegins
    <2> QED BY <2>1, <2>2, <2>3, <2>4
  <1>3. Shape'
    BY <1>0, <1>1, <1>2 DEF Shape
  <1>4. Grows /\ (registry \subseteq shown \union swallowed)'
    BY <1>1 DEF Grows, TabInv
  <1>5. ASSUME NEW r \in Rows PROVE RowsInv(r)'
    <2>1. Calm(r)
      BY <1>1, <1>2 DEF Calm, Typing
    <2> QED BY <1>4, <2>1, CalmInv DEF TabInv
  <1> QED BY <1>3, <1>4, <1>5 DEF TabInv

-----------------------------------------------------------------------------
(* A run, from its start to the reply.                                     *)

\* The waiting turn of a row becomes its run.
LEMMA RunBeginsInv ==
    ASSUME TabInv, NEW q \in Rows, RunBegins(q)
    PROVE  TabInv'
  <1>0. Shape /\ RowsInv(q)
    BY DEF TabInv
  <1>1. /\ rec' = rec /\ typing' = typing /\ copies' = copies
        /\ causes' = causes /\ seen' = seen /\ textSent' = textSent
        /\ baselined' = baselined /\ registry' = registry /\ shown' = shown
        /\ swallowed' = swallowed /\ waiting' = waiting \ {q}
        /\ q \in waiting /\ ~Locked(q)
        /\ row' = [row EXCEPT ![q] = Unstale(row[q])]
        /\ run' = [run EXCEPT ![q] = [NoRun EXCEPT !.at = "thinking",
                                                   !.again = row[q].state = "done"]]
    BY DEF RunBegins, page, Locked
  <1>2. Grows /\ (registry \subseteq shown \union swallowed)'
    BY <1>1 DEF Grows, TabInv
  <1>3. /\ row' \in [Rows -> TabEntries]
        /\ \A r \in Rows \ {q} : row'[r] = row[r]
        /\ row'[q].intent = row[q].intent
        /\ row'[q].reply = row[q].reply
        /\ row'[q].replySent = row[q].replySent
        /\ row[q].state \in Settled => row'[q].state = row[q].state
        /\ row[q].state \notin Settled => row'[q].state \notin Settled
    <2>1. row'[q] = Unstale(row[q]) /\ \A r \in Rows \ {q} : row'[r] = row[r]
      BY <1>0, <1>1 DEF Shape
    <2>2. Unstale(row[q]) \in TabEntries
      BY <1>0, Marks DEF Shape, Keeps
    <2>3. row' \in [Rows -> TabEntries]
      BY <1>0, <1>1, <2>2 DEF Shape
    <2> QED BY <1>0, <2>1, <2>3, MarkCalm
  <1>4. /\ run' \in [Rows -> RunRecords]
        /\ \A r \in Rows \ {q} : run'[r] = run[r]
        /\ run'[q].at = "thinking"
        /\ run'[q].again <=> Done(q)
    <2> DEFINE f == [NoRun EXCEPT !.at = "thinking", !.again = row[q].state = "done"]
    <2>1. f \in RunRecords /\ f.at = "thinking" /\ (f.again <=> Done(q))
      <3>1. CASE Done(q)
        <4>1. (row[q].state = "done") = TRUE
          BY <3>1 DEF Done
        <4>2. f = [NoRun EXCEPT !.at = "thinking", !.again = TRUE]
          BY <4>1, Zenon
        <4> QED BY <3>1, <4>2 DEF RunRecords, NoRun
      <3>2. CASE ~Done(q)
        <4>1. (row[q].state = "done") = FALSE
          BY <3>2 DEF Done
        <4>2. f = [NoRun EXCEPT !.at = "thinking", !.again = FALSE]
          BY <4>1, Zenon
        <4> QED BY <3>2, <4>2 DEF RunRecords, NoRun
      <3> QED BY <3>1, <3>2
    <2> HIDE DEF f
    <2>2. run' = [run EXCEPT ![q] = f]
      BY <1>1 DEF f
    <2> QED BY <1>0, <2>1, <2>2 DEF Shape
  <1>5. Shape'
    BY <1>0, <1>1, <1>3, <1>4 DEF Shape
  <1>6. \A r \in Rows \ {q} : RowsInv(r)'
    <2>1. \A r \in Rows \ {q} : row'[r] = row[r] /\ Still(r)
      BY <1>1, <1>3, <1>4 DEF Still, Typing
    <2> QED BY <1>2, <2>1, Others
  <1>7. RowsInv(q)'
    <2> USE DEF IsSettled, Locked, Done, Out, Settled, Typing
    <2>1. run[q].at = "none" /\ rec[q].by # "buffer"
      BY <1>0, <1>1 DEF RowsInv, PlaceInv
    <2>2. PlaceInv(q)'
      BY <1>0, <1>1, <1>4, <2>1 DEF RowsInv, PlaceInv
    <2>3. TabRowInv(q)'
      BY <1>0, <1>1, <1>3, <1>4, <2>1 DEF RowsInv, TabRowInv, PlaceInv
    <2>4. CopyInv(q)'
      BY <1>0, <1>1, <1>3, <1>4, <2>1 DEF RowsInv, CopyInv, PlaceInv
    <2>5. ReplyInv(q)'
      BY <1>0, <1>1, <1>3, <1>4, <2>1 DEF RowsInv, ReplyInv, PlaceInv
    <2> QED BY <2>2, <2>3, <2>4, <2>5 DEF RowsInv
  <1> QED BY <1>2, <1>5, <1>6, <1>7 DEF TabInv

\* What TextIsOut makes of the run.
LEMMA TextIsOutSets ==
    ASSUME Shape, NEW q \in Rows, TextIsOut(q)
    PROVE  /\ run' \in [Rows -> RunRecords]
           /\ \A r \in Rows \ {q} : run'[r] = run[r]
           /\ run'[q].at \in {"media", "sent"} /\ ~run'[q].again
           /\ textSent' \subseteq textSent \union {q}
           /\ textSent \ {q} \subseteq textSent'
  <1>1. PICK images \in BOOLEAN :
          /\ run' = [run EXCEPT ![q] = [NoRun EXCEPT !.at = IF images THEN "media" ELSE "sent"]]
          /\ textSent' = IF images THEN textSent \union {q} ELSE textSent \ {q}
    BY DEF TextIsOut
  <1>2. PICK at \in {"media", "sent"} : run' = [run EXCEPT ![q] = [NoRun EXCEPT !.at = at]]
    <2>1. CASE images
      BY <1>1, <2>1
    <2>2. CASE ~images
      BY <1>1, <2>2
    <2> QED BY <2>1, <2>2
  <1>3. /\ run' \in [Rows -> RunRecords]
        /\ \A r \in Rows \ {q} : run'[r] = run[r]
        /\ run'[q].at \in {"media", "sent"} /\ ~run'[q].again
    BY <1>2 DEF Shape, NoRun, RunRecords
  <1>4. textSent' \subseteq textSent \union {q} /\ textSent \ {q} \subseteq textSent'
    <2>1. CASE images
      BY <1>1, <2>1
    <2>2. CASE ~images
      BY <1>1, <2>2
    <2> QED BY <2>1, <2>2
  <1> QED BY <1>3, <1>4

\* A run locks its row with the reply and types it, or knows the text to be out.
LEMMA RunRepliesInv ==
    ASSUME TabInv, NEW q \in Rows, NEW text \in RepliesTo[q], RunReplies(q, text)
    PROVE  TabInv'
  <1>0. Shape /\ RowsInv(q) /\ text \in Texts
    BY DEF TabInv
  <1>1. /\ rec' = rec /\ copies' = copies
        /\ causes' = causes /\ seen' = seen /\ waiting' = waiting
        /\ baselined' = baselined /\ registry' = registry /\ shown' = shown
        /\ swallowed' = swallowed
        /\ run[q].at = "thinking"
        /\ row' = [row EXCEPT ![q] = Ledger!LockOutbound(row[q], text)]
    BY DEF RunReplies, page
  <1>2. Grows /\ (registry \subseteq shown \union swallowed)'
    BY <1>1 DEF Grows, TabInv
  <1>3. /\ row' \in [Rows -> TabEntries]
        /\ \A r \in Rows \ {q} : row'[r] = row[r]
        /\ Done(q) => row'[q] = row[q]
        /\ ~Done(q) =>
             /\ row'[q].state = "outbound_locked" /\ row'[q].reply = text
             /\ row[q].intent # "provider_accepted" => row'[q].intent # "provider_accepted"
    <2> DEFINE f == Ledger!LockOutbound(row[q], text)
    <2>1. /\ f \in TabEntries
          /\ Done(q) => f = row[q]
          /\ ~Done(q) =>
               /\ f.state = "outbound_locked" /\ f.reply = text
               /\ row[q].intent # "provider_accepted" => f.intent # "provider_accepted"
      BY <1>0, LockRow DEF Shape, Done
    <2> HIDE DEF f
    <2> QED BY <1>0, <1>1, <2>1 DEF Shape, f
  <1>4. /\ run[q].again \/ ~IsSettled(q)
        /\ run[q].again => Done(q)
        /\ q \notin waiting /\ q \in seen /\ baselined /\ rec[q].by # "buffer"
        /\ Typing("run", q) = "none"
    BY <1>0, <1>1 DEF RowsInv, PlaceInv, TabRowInv
  <1> USE DEF IsSettled, Locked, Done, Out, Settled
  <1>5. CASE q \notin textSent /\ Types({<<"run", q>>}) /\ textSent' = textSent
             /\ run' = [run EXCEPT ![q].at = "sending", ![q].text = text]
    <2>1. /\ run' \in [Rows -> RunRecords]
          /\ \A r \in Rows \ {q} : run'[r] = run[r]
          /\ run'[q].at = "sending" /\ run'[q].text = text
          /\ (run'[q].again <=> run[q].again)
      <3> DEFINE f == [run[q] EXCEPT !.at = "sending", !.text = text]
      <3>1. run[q] \in RunRecords
        BY <1>0 DEF Shape
      <3>2. /\ f \in RunRecords /\ f.at = "sending" /\ f.text = text
            /\ (f.again <=> run[q].again)
        BY <1>0, <3>1 DEF RunRecords
      <3>3. run' = [run EXCEPT ![q] = f]
        BY <1>0, <1>5 DEF Shape
      <3> HIDE DEF f
      <3> QED BY <1>0, <3>2, <3>3 DEF Shape
    <2>2. /\ typing' \in [Typists -> TypingRecords]
          /\ \A r \in Rows \ {q} : Typing("run", r)' = Typing("run", r)
          /\ \A r \in Rows : Typing("rec", r)' = Typing("rec", r)
          /\ Typing("run", q)' = "typing"
      <3>1. /\ {<<"run", q>>} \in SUBSET Typists
            /\ \A r \in Rows : <<"run", r>> \in Typists /\ <<"rec", r>> \in Typists
            /\ \A r \in Rows : <<"rec", r>> # <<"run", q>>
            /\ \A r \in Rows \ {q} : <<"run", r>> # <<"run", q>>
        BY DEF Typists
      <3>2. /\ typing' \in [Typists -> TypingRecords]
            /\ \A s \in Typists :
                 typing'[s].at = IF s \in {<<"run", q>>} THEN "typing" ELSE typing[s].at
        BY <1>0, <1>5, <3>1, TypesSets
      <3> QED BY <3>1, <3>2 DEF Typing
    <2>3. Shape'
      BY <1>0, <1>1, <1>3, <2>1, <2>2 DEF Shape
    <2>4. \A r \in Rows \ {q} : RowsInv(r)'
      <3>1. \A r \in Rows \ {q} : row'[r] = row[r] /\ Still(r)
        BY <1>1, <1>3, <1>5, <2>1, <2>2 DEF Still
      <3> QED BY <1>2, <3>1, Others
    <2>5. PlaceInv(q)'
      BY <1>0, <1>1, <1>4, <2>1, <2>2 DEF RowsInv, PlaceInv
    <2>6. TabRowInv(q)'
      BY <1>0, <1>1, <1>3, <1>4, <1>5, <2>1, <2>2 DEF RowsInv, TabRowInv
    <2>7. CopyInv(q)'
      BY <1>0, <1>1, <1>3, <1>4, <2>1, <2>2 DEF RowsInv, CopyInv, TabRowInv
    <2>8. ReplyInv(q)'
      BY <1>0, <1>1, <1>3, <1>4, <2>1, <2>2 DEF RowsInv, ReplyInv, TabRowInv
    <2> QED BY <1>2, <2>3, <2>4, <2>5, <2>6, <2>7, <2>8 DEF TabInv, RowsInv
  <1>6. CASE q \in textSent /\ TextIsOut(q) /\ typing' = typing
    <2>1. /\ run' \in [Rows -> RunRecords]
          /\ \A r \in Rows \ {q} : run'[r] = run[r]
          /\ run'[q].at \in {"media", "sent"} /\ ~run'[q].again
          /\ textSent' \subseteq textSent \union {q}
          /\ textSent \ {q} \subseteq textSent'
      BY <1>0, <1>6, TextIsOutSets
    <2>2. Done(q) /\ run[q].again /\ row'[q] = row[q]
      BY <1>0, <1>3, <1>4, <1>6 DEF RowsInv, TabRowInv
    <2>3. Shape'
      BY <1>0, <1>1, <1>3, <1>6, <2>1 DEF Shape
    <2>4. \A r \in Rows \ {q} : RowsInv(r)'
      <3>1. \A r \in Rows \ {q} : row'[r] = row[r] /\ Still(r)
        BY <1>1, <1>3, <1>6, <2>1 DEF Still, Typing
      <3> QED BY <1>2, <3>1, Others
    <2>5. PlaceInv(q)'
      BY <1>0, <1>1, <1>4, <1>6, <2>1 DEF RowsInv, PlaceInv, Typing
    <2>6. TabRowInv(q)'
      BY <1>0, <1>1, <1>4, <1>6, <2>1, <2>2 DEF RowsInv, TabRowInv, Typing
    <2>7. CopyInv(q)'
      BY <1>0, <1>1, <1>4, <1>6, <2>1, <2>2 DEF RowsInv, CopyInv, Typing
    <2>8. ReplyInv(q)'
      BY <1>0, <1>1, <1>4, <1>6, <2>1, <2>2 DEF RowsInv, ReplyInv, Typing
    <2> QED BY <1>2, <2>3, <2>4, <2>5, <2>6, <2>7, <2>8 DEF TabInv, RowsInv
  <1> QED BY <1>5, <1>6 DEF RunReplies

\* The end of a run or of its text that leaves no text in the box: what the
\* cases have in common.
LEMMA RunOver ==
    ASSUME Shape, NEW q \in Rows, run' = [run EXCEPT ![q] = NoRun]
    PROVE  /\ run' \in [Rows -> RunRecords]
           /\ \A r \in Rows \ {q} : run'[r] = run[r]
           /\ run'[q].at = "none" /\ ~run'[q].again
  BY DEF Shape, NoRun, RunRecords

\* The provider of the page confirms the text: it is registered.
LEMMA TextTypedInv ==
    ASSUME TabInv, NEW q \in Rows, TextTyped(q)
    PROVE  TabInv'
  <1> USE DEF IsSettled, Locked, Done, Out, Settled
  <1>0. Shape /\ RowsInv(q)
    BY DEF TabInv
  <1>1. /\ rec' = rec /\ copies' = copies /\ row' = row
        /\ causes' = causes /\ seen' = seen /\ waiting' = waiting
        /\ baselined' = baselined /\ shown' = shown
        /\ swallowed' = swallowed
        /\ run[q].at = "sending" /\ Typing("run", q) = "typed"
        /\ registry' = registry \union {run[q].text}
        /\ typing' = [typing EXCEPT ![<<"run", q>>] = Quiet]
        /\ TextIsOut(q)
    BY DEF TextTyped, page, Delivered, Typing, TextOf
  <1>2. /\ run' \in [Rows -> RunRecords]
        /\ \A r \in Rows \ {q} : run'[r] = run[r]
        /\ run'[q].at \in {"media", "sent"} /\ ~run'[q].again
        /\ textSent' \subseteq textSent \union {q}
        /\ textSent \ {q} \subseteq textSent'
    BY <1>0, <1>1, TextIsOutSets
  <1>3. /\ typing' \in [Typists -> TypingRecords]
        /\ \A r \in Rows \ {q} : Typing("run", r)' = Typing("run", r)
        /\ \A r \in Rows : Typing("rec", r)' = Typing("rec", r)
        /\ Typing("run", q)' = "none"
    BY <1>0, <1>1, TypingEnds DEF Typists, Typing
  <1>4. Grows /\ (registry \subseteq shown \union swallowed)'
    BY <1>0, <1>1 DEF Grows, TabInv, RowsInv, ReplyInv
  <1>5. Shape'
    BY <1>0, <1>1, <1>2, <1>3 DEF Shape
  <1>6. \A r \in Rows \ {q} : RowsInv(r)'
    <2>1. \A r \in Rows \ {q} : row'[r] = row[r] /\ Still(r)
      BY <1>1, <1>2, <1>3 DEF Still
    <2> QED BY <1>4, <2>1, Others
  <1>7. PlaceInv(q)'
    BY <1>0, <1>1, <1>2, <1>3 DEF RowsInv, PlaceInv
  <1>8. TabRowInv(q)'
    BY <1>0, <1>1, <1>2, <1>3 DEF RowsInv, TabRowInv
  <1>9. CopyInv(q)'
    BY <1>0, <1>1, <1>2, <1>3 DEF RowsInv, CopyInv, TabRowInv
  <1>10. ReplyInv(q)'
    BY <1>0, <1>1, <1>2, <1>3 DEF RowsInv, ReplyInv, TabRowInv
  <1> QED BY <1>4, <1>5, <1>6, <1>7, <1>8, <1>9, <1>10 DEF TabInv, RowsInv

\* A run ends with its reply out, or silent.
LEMMA RunSettlesInv ==
    ASSUME TabInv, NEW q \in Rows, Succeeds(q) \/ StaysSilent(q)
    PROVE  TabInv'
  <1> USE DEF IsSettled, Locked, Done, Out, Settled
  <1>0. Shape /\ RowsInv(q)
    BY DEF TabInv
  <1>1. PICK replied \in BOOLEAN :
          /\ row' = [row EXCEPT ![q] = MarkDone(row[q], replied)]
          /\ replied => run[q].at \in {"media", "sent"}
          /\ ~replied => run[q].at = "thinking"
    BY DEF Succeeds, StaysSilent
  <1>2. /\ rec' = rec /\ copies' = copies /\ typing' = typing
        /\ causes' = causes /\ seen' = seen /\ waiting' = waiting
        /\ baselined' = baselined /\ shown' = shown
        /\ swallowed' = swallowed /\ registry' = registry
        /\ run' = [run EXCEPT ![q] = NoRun]
        /\ textSent' = textSent \ {q}
        /\ run[q].at \in {"thinking", "media", "sent"}
    BY DEF Succeeds, StaysSilent, RunEnds, page
  <1>3. /\ run' \in [Rows -> RunRecords]
        /\ \A r \in Rows \ {q} : run'[r] = run[r]
        /\ run'[q].at = "none" /\ ~run'[q].again
    BY <1>0, <1>2, RunOver
  <1>4. /\ row' \in [Rows -> TabEntries]
        /\ \A r \in Rows \ {q} : row'[r] = row[r]
        /\ row'[q].state = "done" /\ row'[q].replySent = replied
        /\ row'[q].reply = row[q].reply
    <2> DEFINE f == MarkDone(row[q], replied)
    <2>1. /\ f \in TabEntries /\ f.state = "done" /\ f.replySent = replied
          /\ f.reply = row[q].reply
      BY <1>0, MarkDoneRow DEF Shape
    <2> HIDE DEF f
    <2>2. row' = [row EXCEPT ![q] = f]
      BY <1>1 DEF f
    <2> QED BY <1>0, <2>1, <2>2 DEF Shape
  <1>5. Grows /\ (registry \subseteq shown \union swallowed)'
    BY <1>2 DEF Grows, TabInv
  <1>6. Shape'
    BY <1>0, <1>2, <1>3, <1>4 DEF Shape
  <1>7. \A r \in Rows \ {q} : RowsInv(r)'
    <2>1. \A r \in Rows \ {q} : row'[r] = row[r] /\ Still(r)
      BY <1>2, <1>3, <1>4 DEF Still, Typing
    <2> QED BY <1>5, <2>1, Others
  <1>8. /\ q \notin waiting /\ rec[q].by # "buffer" /\ Typing("run", q) = "none"
        /\ ~replied => run[q].at = "thinking"
        /\ replied => Out(row[q].reply)
    BY <1>0, <1>1, <1>2 DEF RowsInv, PlaceInv, ReplyInv
  <1>9. PlaceInv(q)'
    BY <1>0, <1>2, <1>3, <1>8 DEF RowsInv, PlaceInv, Typing
  <1>10. TabRowInv(q)'
    BY <1>0, <1>2, <1>3, <1>4, <1>8 DEF RowsInv, TabRowInv, Typing
  <1>11. CopyInv(q)'
    BY <1>0, <1>2, <1>3, <1>4, <1>8 DEF RowsInv, CopyInv, Typing
  <1>12. ReplyInv(q)'
    BY <1>0, <1>2, <1>3, <1>4, <1>8 DEF RowsInv, ReplyInv, Typing
  <1> QED BY <1>5, <1>6, <1>7, <1>9, <1>10, <1>11, <1>12 DEF TabInv, RowsInv

\* A run fails, before its text, at it or after it, and its turn is restored.
LEMMA RunFailsInv ==
    ASSUME TabInv, NEW q \in Rows, RunFails(q) \/ TextRefused(q)
    PROVE  TabInv'
  <1> USE DEF IsSettled, Locked, Done, Out, Settled
  <1>0. Shape /\ RowsInv(q)
    BY DEF TabInv
  <1>1. /\ rec' = rec /\ copies' = copies
        /\ seen' = seen /\ waiting' \in {waiting, waiting \union {q}}
        /\ baselined' = baselined /\ shown' = shown /\ textSent' = textSent
        /\ swallowed' = swallowed /\ registry' = registry
        /\ run' = [run EXCEPT ![q] = NoRun]
        /\ row' = [row EXCEPT ![q] = MarkFailed(row[q])]
    BY DEF RunFails, TextRefused, RunEnds, Restores, Refused, page
  <1>2. /\ run' \in [Rows -> RunRecords]
        /\ \A r \in Rows \ {q} : run'[r] = run[r]
        /\ run'[q].at = "none" /\ ~run'[q].again
    BY <1>0, <1>1, RunOver
  <1>3. /\ row' \in [Rows -> TabEntries]
        /\ \A r \in Rows \ {q} : row'[r] = row[r]
        /\ row'[q].intent = row[q].intent
        /\ row'[q].reply = row[q].reply
        /\ row'[q].replySent = row[q].replySent
        /\ row[q].state \in Settled => row'[q].state = row[q].state
        /\ row[q].state \notin Settled => row'[q].state \notin Settled
    <2>1. row'[q] = MarkFailed(row[q]) /\ \A r \in Rows \ {q} : row'[r] = row[r]
      BY <1>0, <1>1 DEF Shape
    <2>2. MarkFailed(row[q]) \in TabEntries
      BY <1>0, Marks DEF Shape, Keeps
    <2>3. row' \in [Rows -> TabEntries]
      BY <1>0, <1>1, <2>2 DEF Shape
    <2> QED BY <1>0, <2>1, <2>3, MarkCalm
  <1>4. /\ typing' \in [Typists -> TypingRecords]
        /\ causes' \in [Rows -> Nat]
        /\ \A r \in Rows \ {q} : /\ Typing("run", r)' = Typing("run", r)
                                 /\ causes'[r] = causes[r]
        /\ \A r \in Rows : Typing("rec", r)' = Typing("rec", r)
        /\ Typing("run", q)' = "none"
        /\ \/ Typing("run", q) # "typed" /\ causes'[q] = causes[q]
           \/ Typing("run", q) = "typed" /\ causes'[q] = causes[q] + 1
        /\ run[q].at # "none"
    <2>1. CASE RunFails(q)
      <3>1. typing' = typing /\ causes' = causes /\ run[q].at \in {"thinking", "media"}
        BY <2>1 DEF RunFails
      <3>2. Typing("run", q) = "none"
        BY <1>0, <3>1 DEF RowsInv, PlaceInv
      <3> QED BY <1>0, <3>1, <3>2 DEF Shape, Typing
    <2>2. CASE TextRefused(q)
      <3>1. /\ typing' = [typing EXCEPT ![<<"run", q>>] = Quiet]
            /\ run[q].at = "sending"
            /\ \/ Typing("run", q) = "typing" /\ causes' = causes
               \/ Typing("run", q) = "typed" /\ causes' = [causes EXCEPT ![q] = causes[q] + 1]
        BY <2>2 DEF TextRefused, Refused, Typing
      <3>2. /\ <<"run", q>> \in Typists
            /\ \A r \in Rows : <<"run", r>> \in Typists /\ <<"rec", r>> \in Typists
            /\ \A r \in Rows : <<"rec", r>> # <<"run", q>>
            /\ \A r \in Rows \ {q} : <<"run", r>> # <<"run", q>>
        BY DEF Typists
      <3>3. /\ typing' \in [Typists -> TypingRecords]
            /\ \A s \in Typists :
                 typing'[s].at = IF s = <<"run", q>> THEN "none" ELSE typing[s].at
        BY <1>0, <3>1, <3>2, TypingEnds
      <3>4. /\ \A r \in Rows \ {q} : Typing("run", r)' = Typing("run", r)
            /\ \A r \in Rows : Typing("rec", r)' = Typing("rec", r)
            /\ Typing("run", q)' = "none"
        BY <3>2, <3>3 DEF Typing
      <3>5. /\ causes' \in [Rows -> Nat]
            /\ \A r \in Rows \ {q} : causes'[r] = causes[r]
            /\ \/ Typing("run", q) # "typed" /\ causes'[q] = causes[q]
               \/ Typing("run", q) = "typed" /\ causes'[q] = causes[q] + 1
        BY <1>0, <3>1 DEF Shape
      <3> QED BY <3>1, <3>3, <3>4, <3>5
    <2> QED BY <2>1, <2>2
  <1>5. Grows /\ (registry \subseteq shown \union swallowed)'
    BY <1>1 DEF Grows, TabInv
  <1>6. Shape'
    BY <1>0, <1>1, <1>2, <1>3, <1>4 DEF Shape
  <1>7. \A r \in Rows \ {q} : RowsInv(r)'
    <2>1. \A r \in Rows \ {q} : row'[r] = row[r] /\ Still(r)
      BY <1>1, <1>2, <1>3, <1>4 DEF Still
    <2> QED BY <1>5, <2>1, Others
  <1>8. q \in seen /\ baselined /\ rec[q].by # "buffer"
    BY <1>0, <1>4 DEF RowsInv, PlaceInv
  <1>9. PlaceInv(q)'
    BY <1>0, <1>1, <1>2, <1>4, <1>8 DEF RowsInv, PlaceInv
  <1>10. TabRowInv(q)'
    BY <1>0, <1>1, <1>2, <1>3, <1>4, <1>8 DEF RowsInv, TabRowInv
  <1>11. CopyInv(q)'
    <2>1. copies[q] \in Nat /\ causes[q] \in Nat
      BY <1>0 DEF Shape
    <2> QED BY <1>0, <1>1, <1>2, <1>3, <1>4, <1>8, <2>1 DEF RowsInv, CopyInv
  <1>12. ReplyInv(q)'
    BY <1>0, <1>1, <1>2, <1>3, <1>4, <1>8 DEF RowsInv, ReplyInv
  <1> QED BY <1>5, <1>6, <1>7, <1>9, <1>10, <1>11, <1>12 DEF TabInv, RowsInv

-----------------------------------------------------------------------------
(* Recoveries.                                                             *)

\* The end of a recovery's send, in what its cases have in common.
LEMMA RecOver ==
    ASSUME Shape, NEW q \in Rows, rec' = [rec EXCEPT ![q] = NoRec],
           typing' = [typing EXCEPT ![<<"rec", q>>] = Quiet]
    PROVE  /\ rec' \in [Rows -> RecRecords]
           /\ \A r \in Rows \ {q} : rec'[r] = rec[r]
           /\ rec'[q].by = "none" /\ ~rec'[q].over
           /\ typing' \in [Typists -> TypingRecords]
           /\ \A r \in Rows \ {q} : Typing("rec", r)' = Typing("rec", r)
           /\ \A r \in Rows : Typing("run", r)' = Typing("run", r)
           /\ Typing("rec", q)' = "none"
  <1>1. /\ rec' \in [Rows -> RecRecords]
        /\ \A r \in Rows \ {q} : rec'[r] = rec[r]
        /\ rec'[q].by = "none" /\ ~rec'[q].over
    BY DEF Shape, NoRec, RecRecords
  <1>2. /\ <<"rec", q>> \in Typists
        /\ \A r \in Rows : <<"run", r>> \in Typists /\ <<"rec", r>> \in Typists
        /\ \A r \in Rows : <<"run", r>> # <<"rec", q>>
        /\ \A r \in Rows \ {q} : <<"rec", r>> # <<"rec", q>>
    BY DEF Typists
  <1>3. /\ typing' \in [Typists -> TypingRecords]
        /\ \A s \in Typists :
             typing'[s].at = IF s = <<"rec", q>> THEN "none" ELSE typing[s].at
    BY <1>2, TypingEnds
  <1> QED BY <1>1, <1>2, <1>3 DEF Typing

\* The recovery's text is confirmed: the row is done.
LEMMA RecoverySentInv ==
    ASSUME TabInv, NEW q \in Rows, RecoverySent(q)
    PROVE  TabInv'
  <1> USE DEF IsSettled, Locked, Done, Out, Settled
  <1>0. Shape /\ RowsInv(q)
    BY DEF TabInv
  <1>1. /\ run' = run /\ copies' = copies /\ causes' = causes
        /\ seen' = seen /\ waiting' = waiting
        /\ baselined' = baselined /\ shown' = shown /\ textSent' = textSent \ {q}
        /\ swallowed' = swallowed /\ registry' = registry \union {rec[q].text}
        /\ rec' = [rec EXCEPT ![q] = NoRec]
        /\ typing' = [typing EXCEPT ![<<"rec", q>>] = Quiet]
        /\ row' = [row EXCEPT ![q] = Ledger!MarkSent(row[q])]
        /\ rec[q].by # "none" /\ Typing("rec", q) = "typed"
    BY DEF RecoverySent, Delivered, TextOf, page, Typing
  <1>2. /\ rec' \in [Rows -> RecRecords]
        /\ \A r \in Rows \ {q} : rec'[r] = rec[r]
        /\ rec'[q].by = "none" /\ ~rec'[q].over
        /\ typing' \in [Typists -> TypingRecords]
        /\ \A r \in Rows \ {q} : Typing("rec", r)' = Typing("rec", r)
        /\ \A r \in Rows : Typing("run", r)' = Typing("run", r)
        /\ Typing("rec", q)' = "none"
    BY <1>0, <1>1, RecOver
  <1>3. /\ row' \in [Rows -> TabEntries]
        /\ \A r \in Rows \ {q} : row'[r] = row[r]
        /\ row'[q].state = "done" /\ row'[q].reply = row[q].reply
    <2> DEFINE f == Ledger!MarkSent(row[q])
    <2>1. f \in TabEntries /\ f.state = "done" /\ f.reply = row[q].reply
      BY <1>0, SentRow DEF Shape
    <2> HIDE DEF f
    <2>2. row' = [row EXCEPT ![q] = f]
      BY <1>1 DEF f
    <2> QED BY <1>0, <2>1, <2>2 DEF Shape
  <1>4. Out(rec[q].text) /\ rec[q].text = row[q].reply /\ IsSettled(q)
    BY <1>0, <1>1 DEF RowsInv, TabRowInv, ReplyInv
  <1>5. Grows /\ (registry \subseteq shown \union swallowed)'
    BY <1>1, <1>4 DEF Grows, TabInv
  <1>6. Shape'
    BY <1>0, <1>1, <1>2, <1>3 DEF Shape
  <1>7. \A r \in Rows \ {q} : RowsInv(r)'
    <2>1. \A r \in Rows \ {q} : row'[r] = row[r] /\ Still(r)
      BY <1>1, <1>2, <1>3 DEF Still
    <2> QED BY <1>5, <2>1, Others
  <1>8. PlaceInv(q)'
    BY <1>0, <1>1, <1>2 DEF RowsInv, PlaceInv
  <1>9. TabRowInv(q)'
    BY <1>0, <1>1, <1>2, <1>3, <1>4 DEF RowsInv, TabRowInv
  <1>10. CopyInv(q)'
    BY <1>0, <1>1, <1>2, <1>3, <1>4 DEF RowsInv, CopyInv
  <1>11. ReplyInv(q)'
    BY <1>0, <1>1, <1>2, <1>3, <1>4 DEF RowsInv, ReplyInv
  <1> QED BY <1>5, <1>6, <1>7, <1>8, <1>9, <1>10, <1>11 DEF TabInv, RowsInv

\* It is refused: the row is given back, the waiting turn with it.
LEMMA RecoveryRefusedInv ==
    ASSUME TabInv, NEW q \in Rows, RecoveryRefused(q)
    PROVE  TabInv'
  <1> USE DEF IsSettled, Locked, Done, Out, Settled
  <1>0. Shape /\ RowsInv(q)
    BY DEF TabInv
  <1>1. /\ run' = run /\ copies' = copies
        /\ seen' = seen
        /\ \/ waiting' = waiting
           \/ waiting' = waiting \union {q} /\ rec[q].by = "buffer"
        /\ baselined' = baselined /\ shown' = shown /\ textSent' = textSent
        /\ swallowed' = swallowed /\ registry' = registry
        /\ rec' = [rec EXCEPT ![q] = NoRec]
        /\ typing' = [typing EXCEPT ![<<"rec", q>>] = Quiet]
        /\ row' = [row EXCEPT ![q] = Ledger!ReleaseSend(row[q], Recoverer, TRUE)]
        /\ rec[q].by # "none"
        /\ \/ Typing("rec", q) = "typing" /\ causes' = causes
           \/ Typing("rec", q) = "typed" /\ causes' = [causes EXCEPT ![q] = causes[q] + 1]
    BY DEF RecoveryRefused, Refused, page, Typing
  <1>2. /\ rec' \in [Rows -> RecRecords]
        /\ \A r \in Rows \ {q} : rec'[r] = rec[r]
        /\ rec'[q].by = "none" /\ ~rec'[q].over
        /\ typing' \in [Typists -> TypingRecords]
        /\ \A r \in Rows \ {q} : Typing("rec", r)' = Typing("rec", r)
        /\ \A r \in Rows : Typing("run", r)' = Typing("run", r)
        /\ Typing("rec", q)' = "none"
    BY <1>0, <1>1, RecOver
  <1>3. /\ row' \in [Rows -> TabEntries]
        /\ \A r \in Rows \ {q} : row'[r] = row[r]
        /\ row'[q].state = row[q].state /\ row'[q].reply = row[q].reply
        /\ row'[q].replySent = row[q].replySent
        /\ row'[q].intent \in {row[q].intent, "pending_send"}
    <2> DEFINE f == Ledger!ReleaseSend(row[q], Recoverer, TRUE)
    <2>1. /\ f \in TabEntries /\ f.state = row[q].state /\ f.reply = row[q].reply
          /\ f.replySent = row[q].replySent /\ f.intent \in {row[q].intent, "pending_send"}
      BY <1>0, ReleaseRow DEF Shape
    <2> HIDE DEF f
    <2>2. row' = [row EXCEPT ![q] = f]
      BY <1>1 DEF f
    <2> QED BY <1>0, <2>1, <2>2 DEF Shape
  <1>4. /\ causes' \in [Rows -> Nat]
        /\ \A r \in Rows \ {q} : causes'[r] = causes[r]
        /\ \/ Typing("rec", q) = "typing" /\ causes'[q] = causes[q]
           \/ Typing("rec", q) = "typed" /\ causes'[q] = causes[q] + 1
    BY <1>0, <1>1 DEF Shape
  <1>5. Grows /\ (registry \subseteq shown \union swallowed)'
    BY <1>1 DEF Grows, TabInv
  <1>6. Shape'
    BY <1>0, <1>1, <1>2, <1>3, <1>4 DEF Shape
  <1>7. \A r \in Rows \ {q} : RowsInv(r)'
    <2>1. \A r \in Rows \ {q} : row'[r] = row[r] /\ Still(r)
      BY <1>1, <1>2, <1>3, <1>4 DEF Still
    <2> QED BY <1>5, <2>1, Others
  <1>8. PlaceInv(q)'
    BY <1>0, <1>1, <1>2 DEF RowsInv, PlaceInv
  <1>9. TabRowInv(q)'
    BY <1>0, <1>1, <1>2, <1>3 DEF RowsInv, TabRowInv
  <1>10. CopyInv(q)'
    <2>1. copies[q] \in Nat /\ causes[q] \in Nat
      BY <1>0 DEF Shape
    <2>2. /\ row'[q].state = row[q].state /\ row'[q].reply = row[q].reply
          /\ registry' = registry /\ copies'[q] = copies[q] /\ run'[q] = run[q]
          /\ Typing("run", q)' = Typing("run", q) /\ Typing("rec", q)' = "none"
      BY <1>1, <1>2, <1>3
    <2>3. CopyInv(q)
      BY <1>0 DEF RowsInv
    <2>4. CASE Typing("rec", q) = "typed" /\ causes'[q] = causes[q] + 1
      <3>1. copies'[q] <= causes'[q] /\ copies'[q] <= 1 + causes'[q]
        BY <2>1, <2>2, <2>3, <2>4 DEF CopyInv
      <3> QED BY <2>2, <3>1 DEF CopyInv
    <2>5. CASE Typing("rec", q) = "typing" /\ causes'[q] = causes[q]
      BY <2>2, <2>3, <2>5 DEF CopyInv
    <2> QED BY <1>4, <2>4, <2>5
  <1>11. ReplyInv(q)'
    BY <1>0, <1>1, <1>2, <1>3 DEF RowsInv, ReplyInv
  <1> QED BY <1>5, <1>6, <1>7, <1>8, <1>9, <1>10, <1>11 DEF TabInv, RowsInv

\* A recovery of row r starts, if there is one to start: what the scan and the
\* buffer have in common.
RecoveryBegins(r, by) ==
    LET starts == Resumes(row[r]) IN
    /\ Locked(r) /\ rec[r].by = "none"
    /\ row'[r] = RecoveryWrites(row[r])
    /\ starts => /\ rec'[r].by = by /\ rec'[r].text = row[r].reply
                 /\ rec'[r].over <=> Typing("run", r) # "none"
    /\ ~starts => rec'[r] = rec[r]
    /\ run'[r] = run[r]
    /\ Typing("run", r)' = Typing("run", r)
    /\ Typing("rec", r)' = IF starts THEN "typing" ELSE Typing("rec", r)
    /\ copies'[r] = copies[r] /\ causes'[r] = causes[r]
    /\ r \in seen => r \in seen'
    /\ r \in waiting' => r \in waiting
    /\ by = "buffer" => r \in waiting /\ (starts => r \notin waiting')
    /\ r \in textSent' => r \in textSent
    /\ baselined' = baselined
    /\ registry' = registry /\ shown' = shown /\ swallowed' = swallowed

\* The start of a recovery, by the scan or for the buffered turn.
LEMMA RecoveryBeginsInv ==
    ASSUME Shape, registry \subseteq shown \union swallowed,
           NEW r \in Rows, RowsInv(r), NEW by \in {"scan", "buffer"},
           RecoveryBegins(r, by)
    PROVE  row'[r] \in TabEntries /\ RowsInv(r)'
  <1> USE DEF IsSettled, Locked, Done, Out, Settled
  <1>1. row[r] \in TabEntries /\ Locked(r) /\ row[r].intent # "provider_accepted"
    BY DEF Shape, RecoveryBegins, RowsInv, TabRowInv
  <1>2. /\ row'[r] \in TabEntries /\ row'[r].reply = row[r].reply
        /\ IsSettled(r)'
        /\ Done(r)' => row[r].reply \in registry
        /\ Locked(r)' =>
             row'[r].intent = IF Resumes(row[r]) THEN "send_in_flight" ELSE row[r].intent
        /\ Resumes(row[r]) => /\ Locked(r)'
                              /\ row[r].reply \in Texts \ registry
                              /\ row[r].intent \notin Ledger!SendStarted
    BY <1>1, RecoveryRow DEF RecoveryBegins
  <1>3. row[r].intent = "provider_accepted" => Done(r)
    BY <1>1
  <1>4. /\ Locked(r) /\ rec[r].by = "none" /\ Typing("rec", r) = "none"
        /\ run'[r] = run[r]
        /\ Typing("run", r)' = Typing("run", r)
        /\ copies'[r] = copies[r] /\ causes'[r] = causes[r]
        /\ r \in seen => r \in seen'
        /\ r \in waiting' => r \in waiting
        /\ r \in textSent' => r \in textSent
        /\ baselined' = baselined
        /\ registry' = registry /\ shown' = shown /\ swallowed' = swallowed
    BY DEF RecoveryBegins, RowsInv, PlaceInv
  <1>5. CASE Resumes(row[r])
    <2>1. /\ rec'[r].by = by /\ rec'[r].text = row[r].reply
          /\ rec'[r].over <=> Typing("run", r) # "none"
          /\ Typing("rec", r)' = "typing"
          /\ by = "buffer" => r \in waiting /\ r \notin waiting'
      BY <1>5 DEF RecoveryBegins
    <2>2. /\ Locked(r)' /\ row'[r].intent = "send_in_flight"
          /\ row[r].reply \in Texts \ registry
          /\ row[r].intent \notin Ledger!SendStarted
      BY <1>2, <1>5
    <2>3. PlaceInv(r)'
      BY <1>4, <2>1 DEF RowsInv, PlaceInv
    <2>4. TabRowInv(r)'
      BY <1>2, <1>4, <2>1, <2>2 DEF RowsInv, TabRowInv
    <2>5. CopyInv(r)'
      BY <1>2, <1>4, <2>1, <2>2 DEF RowsInv, CopyInv, TabRowInv
    <2>6. ReplyInv(r)'
      BY <1>2, <1>4, <2>1, <2>2 DEF RowsInv, ReplyInv, TabRowInv
    <2> QED BY <1>2, <2>3, <2>4, <2>5, <2>6 DEF RowsInv
  <1>6. CASE ~Resumes(row[r])
    <2>1. rec'[r] = rec[r] /\ Typing("rec", r)' = "none"
      BY <1>4, <1>6 DEF RecoveryBegins
    <2>2. Locked(r)' => row'[r].intent = row[r].intent
      BY <1>2, <1>6
    <2>3. PlaceInv(r)'
      BY <1>4, <2>1 DEF RowsInv, PlaceInv
    <2>4. TabRowInv(r)'
      BY <1>2, <1>4, <2>1, <2>2 DEF RowsInv, TabRowInv
    <2>5. CopyInv(r)'
      BY <1>2, <1>4, <2>1, <2>2 DEF RowsInv, CopyInv
    <2>6. ReplyInv(r)'
      BY <1>2, <1>4, <2>1, <2>2 DEF RowsInv, ReplyInv, TabRowInv
    <2> QED BY <1>2, <2>3, <2>4, <2>5, <2>6 DEF RowsInv
  <1> QED BY <1>5, <1>6

\* The buffered turn of a locked row.
LEMMA RunRecoversInv ==
    ASSUME TabInv, NEW q \in Rows, RunRecovers(q)
    PROVE  TabInv'
  <1>0. Shape /\ RowsInv(q)
    BY DEF TabInv
  <1> DEFINE new == IF Resumes(row[q]) THEN {q} ELSE {}
  <1>1. /\ run' = run /\ copies' = copies /\ causes' = causes
        /\ seen' = seen
        /\ baselined' = baselined /\ shown' = shown
        /\ swallowed' = swallowed /\ registry' = registry
        /\ textSent' \in {textSent, textSent \ {q}}
        /\ waiting' = IF Recovery(row[q]) = "uncertain_fail_closed" THEN waiting
                      ELSE waiting \ {q}
        /\ row' = [row EXCEPT ![q] = RecoveryWrites(row[q])]
        /\ q \in waiting /\ Locked(q) /\ rec[q].by = "none"
        /\ StartsRecovery(new, "buffer")
    BY DEF RunRecovers, page, Locked
  <1>2. new \in SUBSET Rows /\ (q \in new <=> Resumes(row[q])) /\ new \subseteq {q}
    OBVIOUS
  <1> HIDE DEF new
  <1>3. /\ rec' \in [Rows -> RecRecords]
        /\ typing' \in [Typists -> TypingRecords]
        /\ \A r \in Rows \ new : rec'[r] = rec[r]
        /\ \A r \in new : /\ rec'[r].by = "buffer" /\ rec'[r].text = row[r].reply
                          /\ rec'[r].over <=> Typing("run", r) # "none"
        /\ \A r \in Rows :
             /\ Typing("run", r)' = Typing("run", r)
             /\ Typing("rec", r)' = IF r \in new THEN "typing" ELSE Typing("rec", r)
    BY <1>0, <1>1, <1>2, StartSets
  <1>4. Grows /\ (registry \subseteq shown \union swallowed)'
    BY <1>1 DEF Grows, TabInv
  <1>5. row'[q] = RecoveryWrites(row[q]) /\ \A r \in Rows \ {q} : row'[r] = row[r]
    BY <1>0, <1>1 DEF Shape
  <1>6. Resumes(row[q]) => q \notin waiting'
    BY <1>1 DEF Resumes
  <1>7. RecoveryBegins(q, "buffer")
    BY <1>1, <1>2, <1>3, <1>5, <1>6 DEF RecoveryBegins
  <1>8. row'[q] \in TabEntries /\ RowsInv(q)'
    BY <1>0, <1>7, RecoveryBeginsInv DEF TabInv
  <1>9. Shape'
    <2>1. row' \in [Rows -> TabEntries]
      BY <1>0, <1>1, <1>5, <1>8 DEF Shape
    <2> QED BY <1>0, <1>1, <1>3, <2>1 DEF Shape
  <1>10. \A r \in Rows \ {q} : RowsInv(r)'
    <2>1. \A r \in Rows \ {q} : row'[r] = row[r] /\ Still(r)
      BY <1>1, <1>2, <1>3, <1>5 DEF Still
    <2> QED BY <1>4, <2>1, Others
  <1> QED BY <1>4, <1>8, <1>9, <1>10 DEF TabInv

-----------------------------------------------------------------------------
(* The Enter key.                                                          *)

\* What pressing it does, whoever does.
LEMMA EnterSets ==
    ASSUME Shape, NEW q \in Rows, NEW kind \in {"run", "rec"}, Enter(<<kind, q>>)
    PROVE  /\ Typing(kind, q) = "typing"
           /\ typing' \in [Typists -> TypingRecords]
           /\ Typing(kind, q)' = "typed"
           /\ \A k \in {"run", "rec"}, r \in Rows :
                <<k, r>> # <<kind, q>> => Typing(k, r)' = Typing(k, r)
           /\ Out(TextOf(<<kind, q>>))'
           /\ Grows /\ registry' = registry
           /\ copies' \in [Rows -> Nat] /\ causes' \in [Rows -> Nat]
           /\ \A r \in Rows \ {q} : copies'[r] = copies[r] /\ causes'[r] = causes[r]
           /\ copies'[q] \in {copies[q], copies[q] + 1}
           /\ causes'[q] = causes[q]
                + (IF (kind = "run" /\ run[q].again) \/ (kind = "rec" /\ rec[q].over)
                   THEN 1 ELSE 0)
           /\ row' = row /\ run' = run /\ rec' = rec /\ seen' = seen
           /\ waiting' = waiting /\ textSent' = textSent /\ baselined' = baselined
  <1> DEFINE s == <<kind, q>>
             caused == (kind = "run" /\ run[q].again) \/ (kind = "rec" /\ rec[q].over)
  <1>1. /\ typing[s].at = "typing"
        /\ typing' = [typing EXCEPT ![s] = [at |-> "typed", mixed |-> FALSE]]
        /\ \/ shown' = shown \union {TextOf(s)} /\ copies' = [copies EXCEPT ![q] = copies[q] + 1]
              /\ swallowed' = swallowed
           \/ swallowed' = swallowed \union {TextOf(s)} /\ copies' = copies /\ shown' = shown
        /\ causes' = [causes EXCEPT ![q] = causes[q] + (IF caused THEN 1 ELSE 0)]
        /\ row' = row /\ run' = run /\ rec' = rec /\ seen' = seen /\ registry' = registry
        /\ waiting' = waiting /\ textSent' = textSent /\ baselined' = baselined
    BY DEF Enter
  <1>2. TextOf(s)' = TextOf(s)
    BY <1>1 DEF TextOf
  <1>3. s \in Typists /\ \A k \in {"run", "rec"}, r \in Rows : <<k, r>> \in Typists
    BY DEF Typists
  <1>4. /\ typing' \in [Typists -> TypingRecords]
        /\ typing'[s].at = "typed"
        /\ \A t \in Typists : t # s => typing'[t] = typing[t]
    BY <1>1, <1>3 DEF Shape, TypingRecords
  <1>5. Out(TextOf(s))' /\ Grows
    BY <1>1, <1>2 DEF Out, Grows
  <1>6. /\ copies' \in [Rows -> Nat]
        /\ \A r \in Rows \ {q} : copies'[r] = copies[r]
        /\ copies'[q] \in {copies[q], copies[q] + 1}
    BY <1>1 DEF Shape
  <1> DEFINE n == IF caused THEN 1 ELSE 0
  <1>7. n \in Nat
    OBVIOUS
  <1>8. causes' = [causes EXCEPT ![q] = causes[q] + n]
    BY <1>1
  <1> HIDE DEF n
  <1>9. /\ causes' \in [Rows -> Nat]
        /\ \A r \in Rows \ {q} : causes'[r] = causes[r]
        /\ causes'[q] = causes[q] + n
    BY <1>7, <1>8 DEF Shape
  <1> QED BY <1>1, <1>3, <1>4, <1>5, <1>6, <1>9 DEF Typing, n

\* The Enter key keeps the invariant: a copy more only with a cause.
LEMMA EnterInv ==
    ASSUME TabInv, NEW s \in Typists, Enter(s)
    PROVE  TabInv'
  <1> USE DEF IsSettled, Locked, Done, Settled
  <1>1. PICK kind \in {"run", "rec"}, q \in Rows : s = <<kind, q>>
    BY DEF Typists
  <1>0. Shape /\ RowsInv(q)
    BY DEF TabInv
  <1>2. /\ Typing(kind, q) = "typing"
        /\ typing' \in [Typists -> TypingRecords]
        /\ Typing(kind, q)' = "typed"
        /\ \A k \in {"run", "rec"}, r \in Rows :
             <<k, r>> # <<kind, q>> => Typing(k, r)' = Typing(k, r)
        /\ Out(TextOf(<<kind, q>>))'
        /\ Grows /\ registry' = registry
        /\ copies' \in [Rows -> Nat] /\ causes' \in [Rows -> Nat]
        /\ \A r \in Rows \ {q} : copies'[r] = copies[r] /\ causes'[r] = causes[r]
        /\ copies'[q] \in {copies[q], copies[q] + 1}
        /\ causes'[q] = causes[q]
             + (IF (kind = "run" /\ run[q].again) \/ (kind = "rec" /\ rec[q].over)
                THEN 1 ELSE 0)
        /\ row' = row /\ run' = run /\ rec' = rec /\ seen' = seen
        /\ waiting' = waiting /\ textSent' = textSent /\ baselined' = baselined
    BY <1>0, <1>1, EnterSets
  <1>3. (registry \subseteq shown \union swallowed)'
    BY <1>2 DEF Grows, TabInv
  <1>4. Shape'
    BY <1>0, <1>2 DEF Shape
  <1>5. \A r \in Rows \ {q} : RowsInv(r)'
    <2>1. \A r \in Rows \ {q} : row'[r] = row[r] /\ Still(r)
      BY <1>2 DEF Still
    <2> QED BY <1>2, <2>1, Others
  <1>6. copies[q] \in Nat /\ causes[q] \in Nat
    BY <1>0 DEF Shape
  <1>7. IsSettled(q)
    BY <1>0, <1>1, <1>2 DEF RowsInv, PlaceInv, TabRowInv
  <1>10. /\ row' = row /\ run' = run /\ rec' = rec
         /\ (q \in waiting' <=> q \in waiting)
         /\ \A text : text \in shown \union swallowed => text \in shown' \union swallowed'
    BY <1>2 DEF Grows
  <1>8. ASSUME kind = "run" PROVE RowsInv(q)'
    <2>1. /\ Typing("run", q) = "typing" /\ Typing("run", q)' = "typed"
          /\ Typing("rec", q)' = Typing("rec", q)
          /\ Out(run[q].text)'
          /\ causes'[q] = causes[q] + (IF run[q].again THEN 1 ELSE 0)
      BY <1>2, <1>8 DEF TextOf
    <2>2. PlaceInv(q)'
      BY <1>0, <1>2, <2>1 DEF RowsInv, PlaceInv
    <2>3. TabRowInv(q)'
      BY <1>0, <1>2, <1>7, <2>1 DEF RowsInv, TabRowInv
    <2>4. CopyInv(q)'
      <3>1. CASE run[q].again
        BY <1>0, <1>2, <1>6, <1>7, <2>1, <3>1 DEF RowsInv, CopyInv, TabRowInv
      <3>2. CASE ~run[q].again
        BY <1>0, <1>2, <1>6, <1>7, <2>1, <3>2 DEF RowsInv, CopyInv, TabRowInv, PlaceInv
      <3> QED BY <3>1, <3>2
    <2>5. ReplyInv(q)'
      <3>1. ReplyInv(q)
        BY <1>0 DEF RowsInv
      <3>2. \A text : Out(text) => text \in shown' \union swallowed'
        BY <1>10 DEF Out
      <3>3. (Typing("run", q) = "typed" => Out(run[q].text))'
        BY <2>1
      <3>4. (Typing("rec", q) = "typed" => Out(rec[q].text))'
        BY <1>10, <2>1, <3>1, <3>2 DEF ReplyInv, Out
      <3>5. (run[q].at \in {"media", "sent"} => Out(row[q].reply))'
        BY <1>10, <3>1, <3>2 DEF ReplyInv, Out
      <3>6. (Done(q) /\ ~Out(row[q].reply) =>
               ~row[q].replySent /\ run[q].at = "none" /\ q \notin waiting
               /\ rec[q].by # "buffer")'
        BY <1>10, <3>1, <3>2 DEF ReplyInv, Out
      <3> QED BY <3>3, <3>4, <3>5, <3>6 DEF ReplyInv
    <2> QED BY <2>2, <2>3, <2>4, <2>5 DEF RowsInv
  <1>9. ASSUME kind = "rec" PROVE RowsInv(q)'
    <2>1. /\ Typing("rec", q) = "typing" /\ Typing("rec", q)' = "typed"
          /\ Typing("run", q)' = Typing("run", q)
          /\ Out(rec[q].text)'
          /\ causes'[q] = causes[q] + (IF rec[q].over THEN 1 ELSE 0)
      BY <1>2, <1>9 DEF TextOf
    <2>2. PlaceInv(q)'
      BY <1>0, <1>2, <2>1 DEF RowsInv, PlaceInv
    <2>3. TabRowInv(q)'
      BY <1>0, <1>2, <1>7, <2>1 DEF RowsInv, TabRowInv
    <2>4. CopyInv(q)'
      <3>1. rec[q].by # "none" /\ (Locked(q) => row[q].intent \in Ledger!SendStarted)
        BY <1>0, <2>1 DEF RowsInv, PlaceInv, TabRowInv, Ledger!SendStarted
      <3>2. CASE rec[q].over
        BY <1>0, <1>2, <1>6, <1>7, <2>1, <3>1, <3>2 DEF RowsInv, CopyInv, TabRowInv
      <3>3. CASE ~rec[q].over
        BY <1>0, <1>2, <1>6, <1>7, <2>1, <3>1, <3>3 DEF RowsInv, CopyInv, TabRowInv
      <3> QED BY <3>2, <3>3
    <2>5. ReplyInv(q)'
      <3>1. ReplyInv(q)
        BY <1>0 DEF RowsInv
      <3>2. \A text : Out(text) => text \in shown' \union swallowed'
        BY <1>10 DEF Out
      <3>3. (Typing("rec", q) = "typed" => Out(rec[q].text))'
        BY <2>1
      <3>4. (Typing("run", q) = "typed" => Out(run[q].text))'
        BY <1>10, <2>1, <3>1, <3>2 DEF ReplyInv, Out
      <3>5. (run[q].at \in {"media", "sent"} => Out(row[q].reply))'
        BY <1>10, <3>1, <3>2 DEF ReplyInv, Out
      <3>6. (Done(q) /\ ~Out(row[q].reply) =>
               ~row[q].replySent /\ run[q].at = "none" /\ q \notin waiting
               /\ rec[q].by # "buffer")'
        BY <1>10, <3>1, <3>2 DEF ReplyInv, Out
      <3> QED BY <3>3, <3>4, <3>5, <3>6 DEF ReplyInv
    <2> QED BY <2>2, <2>3, <2>4, <2>5 DEF RowsInv
  <1>11. RowsInv(q)'
    BY <1>8, <1>9
  <1> QED BY <1>3, <1>4, <1>5, <1>11 DEF TabInv

-----------------------------------------------------------------------------
(* Scans and crashes.                                                      *)

\* The first scan absorbs rows and starts the places anew.
LEMMA BaselineInv ==
    ASSUME TabInv, Baseline
    PROVE  TabInv'
  <1>0. Shape
    BY DEF TabInv
  <1>1. PICK spared :
          row' = [r \in Rows |-> IF r \in arrived \ spared
                                 THEN MarkAbsorbed(row[r]) ELSE row[r]]
    BY DEF Baseline
  <1>2. /\ run' = run /\ rec' = rec /\ typing' = typing /\ copies' = copies
        /\ causes' = causes /\ waiting' = waiting /\ textSent' = textSent
        /\ ~baselined /\ baselined' /\ registry' = registry /\ shown' = shown
        /\ swallowed' = swallowed
    BY DEF Baseline, page
  <1>3. Grows /\ (registry \subseteq shown \union swallowed)'
    BY <1>2 DEF Grows, TabInv
  <1>4. Shape'
    BY <1>0, ListenerShape
  <1>5. ASSUME NEW r \in Rows PROVE RowsInv(r)'
    <2>1. row'[r] \in {row[r], MarkAbsorbed(row[r])}
      BY <1>1
    <2>2. Calm(r)
      BY <1>0, <1>2, <2>1, MarkCalm DEF Calm, Typing
    <2> QED BY <1>3, <2>2, CalmInv DEF TabInv
  <1> QED BY <1>3, <1>4, <1>5 DEF TabInv

\* A crash ends runs and recoveries; what was typed stays out.
LEMMA CrashInv ==
    ASSUME TabInv, Crashes
    PROVE  TabInv'
  <1> USE DEF IsSettled, Locked, Done, Out, Settled
  <1>0. Shape
    BY DEF TabInv
  <1>1. /\ run' = [r \in Rows |-> NoRun] /\ rec' = [r \in Rows |-> NoRec]
        /\ typing' = [s \in Typists |-> Quiet]
        /\ copies' = copies /\ waiting' = {} /\ seen' = {} /\ textSent' = {}
        /\ registry' = registry /\ shown' = shown /\ swallowed' = swallowed
        /\ row' = [r \in Rows |-> Unstale(row[r])]
        /\ causes' = [r \in Rows |->
              IF typing[<<"run", r>>].at = "typed" THEN causes[r] + 1 ELSE causes[r]]
    BY DEF Crashes, page
  <1>2. Shape'
    BY <1>0, ListenerShape
  <1>3. (registry \subseteq shown \union swallowed)'
    BY <1>1 DEF TabInv
  <1>4. ASSUME NEW r \in Rows PROVE RowsInv(r)'
    <2>1. /\ run'[r].at = "none" /\ ~run'[r].again
          /\ rec'[r].by = "none" /\ ~rec'[r].over
          /\ copies'[r] = copies[r] /\ copies[r] \in Nat /\ causes[r] \in Nat
          /\ causes'[r] = IF Typing("run", r) = "typed" THEN causes[r] + 1 ELSE causes[r]
      BY <1>0, <1>1 DEF NoRun, NoRec, Shape, Typing
    <2>2. Typing("run", r)' = "none" /\ Typing("rec", r)' = "none"
      BY <1>1 DEF Typing, Typists, Quiet
    <2>3. /\ row'[r].intent = row[r].intent
          /\ row'[r].reply = row[r].reply
          /\ row'[r].replySent = row[r].replySent
          /\ row[r].state \in Settled => row'[r].state = row[r].state
          /\ row[r].state \notin Settled => row'[r].state \notin Settled
      <3>1. row'[r] = Unstale(row[r])
        BY <1>1
      <3> QED BY <1>0, <3>1, MarkCalm
    <2>4. RowsInv(r)
      BY DEF TabInv
    <2>5. PlaceInv(r)'
      BY <1>1, <2>1, <2>2 DEF PlaceInv
    <2>6. TabRowInv(r)'
      BY <1>1, <2>1, <2>2, <2>3, <2>4 DEF RowsInv, TabRowInv
    <2>7. CopyInv(r)'
      BY <1>1, <2>1, <2>2, <2>3, <2>4 DEF RowsInv, CopyInv
    <2>8. ReplyInv(r)'
      BY <1>1, <2>1, <2>2, <2>3, <2>4 DEF RowsInv, ReplyInv
    <2> QED BY <2>5, <2>6, <2>7, <2>8 DEF RowsInv
  <1> QED BY <1>2, <1>3, <1>4 DEF TabInv

\* One scan of the listener: every row is left alone, marked, admitted, or its
\* recovery begins.
LEMMA ScanReadsInv ==
    ASSUME TabInv, arrived \subseteq Rows, ScanReads
    PROVE  TabInv'
  <1>0. Shape
    BY DEF TabInv
  <1> DEFINE now == [r \in Rows |-> IF r \in arrived THEN Unstale(row[r]) ELSE row[r]]
             locked == {r \in arrived : row[r].state = "outbound_locked"
                                       /\ rec[r].by = "none"}
             open == {r \in arrived \ seen : now[r].state \in {"absent", "failed"}}
             new == {r \in locked : Resumes(row[r])}
  <1>1. PICK fate \in [open -> Fates] :
          /\ row' = [r \in Rows |->
                IF r \in locked THEN RecoveryWrites(row[r])
                ELSE IF r \in open THEN Admitted(now[r], fate[r])
                ELSE now[r]]
          /\ seen' = seen \union {r \in open : fate[r] \in {"forwarded", "absorbed"}}
          /\ waiting' = waiting \union {r \in open : fate[r] = "forwarded"}
          /\ StartsRecovery(new, "scan")
    BY DEF ScanReads
  <1>2. /\ run' = run /\ copies' = copies /\ causes' = causes
        /\ baselined' = baselined /\ baselined /\ shown' = shown
        /\ swallowed' = swallowed /\ registry' = registry /\ textSent' = textSent
    BY DEF ScanReads, page
  <1>3. \A r \in Rows : now[r] = IF r \in arrived THEN Unstale(row[r]) ELSE row[r]
    OBVIOUS
  <1>4. \A r \in open : r \in Rows \ seen /\ now[r].state \in {"absent", "failed"}
    OBVIOUS
  <1>5. /\ new \in SUBSET Rows
        /\ \A r \in new : r \in locked
        /\ \A r \in locked : /\ r \in new <=> Resumes(row[r])
                             /\ Locked(r) /\ rec[r].by = "none"
        /\ \A r \in open : r \notin locked
    BY <1>0, Marks DEF Locked, Shape, Settled
  <1> HIDE DEF now, locked, open, new
  <1>6. Grows /\ (registry \subseteq shown \union swallowed)'
    BY <1>2 DEF Grows, TabInv
  <1>7. /\ rec' \in [Rows -> RecRecords]
        /\ typing' \in [Typists -> TypingRecords]
        /\ \A r \in Rows \ new : rec'[r] = rec[r]
        /\ \A r \in new : /\ rec'[r].by = "scan" /\ rec'[r].text = row[r].reply
                          /\ rec'[r].over <=> Typing("run", r) # "none"
        /\ \A r \in Rows :
             /\ Typing("run", r)' = Typing("run", r)
             /\ Typing("rec", r)' = IF r \in new THEN "typing" ELSE Typing("rec", r)
    BY <1>0, <1>1, <1>5, StartSets
  <1>8. ASSUME NEW r \in Rows PROVE row'[r] \in TabEntries /\ RowsInv(r)'
    <2>0. row[r] \in TabEntries /\ RowsInv(r)
      BY <1>0 DEF TabInv, Shape
    <2>1. CASE r \in locked
      <3>1. /\ row'[r] = RecoveryWrites(row[r]) /\ Locked(r) /\ rec[r].by = "none"
            /\ r \in new <=> Resumes(row[r])
            /\ r \notin open
        BY <1>1, <1>5, <2>1
      <3>2. (r \in seen => r \in seen') /\ (r \in waiting' => r \in waiting)
        BY <1>1, <3>1
      <3>3. RecoveryBegins(r, "scan")
        BY <1>2, <1>7, <3>1, <3>2 DEF RecoveryBegins
      <3> QED BY <1>0, <2>0, <3>3, RecoveryBeginsInv DEF TabInv
    <2>2. CASE r \notin locked
      <3>1. rec'[r] = rec[r] /\ Typing("rec", r)' = Typing("rec", r)
        BY <1>5, <1>7, <2>2
      <3>2. /\ now[r] \in TabEntries /\ Keeps(row[r], now[r])
            /\ row[r].state \in Settled => now[r] = row[r]
            /\ row[r].state \notin Settled => now[r].state \notin Settled
        <4>1. now[r] \in {row[r], Unstale(row[r])}
          BY <1>3
        <4> QED BY <2>0, <4>1, Marks DEF Keeps
      <3>3. CASE r \in open
        <4>1. row'[r] = Admitted(now[r], fate[r]) /\ fate[r] \in Fates
          BY <1>1, <2>2, <3>3
        <4>2. row'[r] \in {now[r], MarkProcessing(now[r]), MarkAbsorbed(now[r]),
                           MarkFailed(MarkProcessing(now[r]))}
          BY <4>1 DEF Admitted, Fates
        <4>3. r \notin seen /\ now[r].state \notin Settled /\ row[r].state \notin Settled
          BY <1>4, <3>2, <3>3 DEF Settled
        <4>4. Keeps(row[r], row'[r]) /\ row'[r].state \notin Settled
          BY <3>2, <4>2, <4>3, Marks DEF Keeps
        <4>5. /\ r \in waiting' /\ r \notin waiting => r \in seen'
              /\ r \in seen => r \in seen'
          BY <1>1, <3>3
        <4>6. Calm(r)
          BY <1>2, <1>7, <3>1, <4>3, <4>4, <4>5 DEF Calm, Keeps
        <4> QED BY <1>6, <2>0, <4>4, <4>6, CalmInv DEF Keeps
      <3>4. CASE r \notin open
        <4>1. row'[r] = now[r]
          BY <1>1, <2>2, <3>4
        <4>2. (r \in waiting' => r \in waiting) /\ (r \in seen => r \in seen')
          BY <1>1, <3>4
        <4>3. Calm(r)
          BY <1>2, <1>7, <3>1, <3>2, <4>1, <4>2 DEF Calm, Keeps
        <4> QED BY <1>6, <2>0, <3>2, <4>1, <4>3, CalmInv
      <3> QED BY <3>3, <3>4
    <2> QED BY <2>1, <2>2
  <1>9. Shape'
    <2>1. row' \in [Rows -> TabEntries]
      BY <1>1, <1>8
    <2> QED BY <1>0, <1>2, <1>7, <2>1 DEF Shape
  <1> QED BY <1>6, <1>8, <1>9 DEF TabInv

-----------------------------------------------------------------------------
(* The theorems.                                                           *)

\* Only rows of the group stand on the page.
LEMMA Arrivals == TabSpec => [](arrived \subseteq Rows)
  <1>1. TabInit => arrived \subseteq Rows
    BY DEF TabInit
  <1>2. arrived \subseteq Rows /\ [TabNext]_tabVars => (arrived \subseteq Rows)'
    BY DEF TabNext, RowStep, tabVars, page, RowArrives, TakenForDuplicate, RunBegins,
       RunRecovers, TimesOut, TextTyped, Succeeds, StaysSilent, RunFails, TextRefused,
       RecoverySent, RecoveryRefused, TimePasses, RunReplies, Enter, ScanBegins,
       Baseline, ScanReads, Crashes
  <1> QED BY <1>1, <1>2, PTL DEF TabSpec

\* The first row of the ledger.
LEMMA FirstRow == Ledger!NoEntry \in TabEntries
  BY DEF TabEntries, Ledger!NoEntry, Ledger!States, Ledger!QueueStatuses, Ledger!Intents

\* Every step of the group's turns keeps the invariant.
LEMMA InvHolds == TabSpec => []TabInv
  <1>1. TabInit => TabInv
    <2> SUFFICES ASSUME TabInit PROVE TabInv
      OBVIOUS
    <2>1. Shape
      BY FirstRow DEF TabInit, Shape, NoRun, NoRec, Quiet, RunRecords, RecRecords,
         TypingRecords
    <2>2. ASSUME NEW r \in Rows PROVE RowsInv(r)
      <3>1. /\ row[r].state = "absent" /\ row[r].intent = "none"
            /\ run[r] = NoRun /\ rec[r] = NoRec
            /\ Typing("run", r) = "none" /\ Typing("rec", r) = "none"
            /\ copies[r] = 0 /\ causes[r] = 0
            /\ waiting = {} /\ textSent = {}
        BY DEF TabInit, Ledger!NoEntry, Typing, Typists, Quiet
      <3> QED BY <3>1 DEF RowsInv, PlaceInv, TabRowInv, CopyInv, ReplyInv, NoRun, NoRec,
              IsSettled, Locked, Done, Settled
    <2> QED BY <2>1, <2>2 DEF TabInit, TabInv
  <1>2. TabInv /\ arrived \subseteq Rows /\ [TabNext]_tabVars => TabInv'
    <2> SUFFICES ASSUME TabInv, arrived \subseteq Rows, [TabNext]_tabVars PROVE TabInv'
      OBVIOUS
    <2>1. ASSUME NEW r \in Rows, RowStep(r) PROVE TabInv'
      <3>1. ASSUME NEW text \in RepliesTo[r], RunReplies(r, text) PROVE TabInv'
        BY <3>1, RunRepliesInv
      <3> QED
        BY <2>1, <3>1, CalmSteps, RunBeginsInv, RunRecoversInv, TextTypedInv,
           RunSettlesInv, RunFailsInv, RecoverySentInv, RecoveryRefusedInv DEF RowStep
    <2>2. ASSUME NEW s \in Typists, Enter(s) PROVE TabInv'
      BY <2>2, EnterInv
    <2>3. CASE ScanBegins
      <3>1. CASE Rows = {}
        BY <2>3, <3>1 DEF ScanBegins, TabInv, Shape, page
      <3>2. CASE Rows # {}
        BY <2>3, <3>2, CalmSteps
      <3> QED BY <3>1, <3>2
    <2>4. CASE Baseline \/ ScanReads \/ Crashes
      BY <2>4, BaselineInv, ScanReadsInv, CrashInv
    <2>5. CASE UNCHANGED tabVars
      BY <2>5 DEF tabVars, page, memory, TabInv, Shape, RowsInv, PlaceInv, TabRowInv,
         CopyInv, ReplyInv, Typing, IsSettled, Locked, Done, Out
    <2> QED BY <2>1, <2>2, <2>3, <2>4, <2>5 DEF TabNext
  <1> QED BY <1>1, <1>2, Arrivals, PTL DEF TabSpec

\* A reply stands on the page once, and once more for every reason to repeat it.
THEOREM CopiesTheorem == TabSpec => []CopiesHaveCause
  <1>1. TabInv => CopiesHaveCause
    BY DEF TabInv, RowsInv, CopyInv, CopiesHaveCause
  <1> QED BY <1>1, InvHolds, PTL

\* A row is done with a reply only if that reply is out.
THEOREM DoneTheorem == TabSpec => []DoneHasReply
  <1>1. TabInv => DoneHasReply
    BY DEF TabInv, RowsInv, ReplyInv, DoneHasReply, Done, Out
  <1> QED BY <1>1, InvHolds, PTL

-----------------------------------------------------------------------------
(* Types of the other variables.                                           *)

Sets ==
    /\ arrived \subseteq Rows /\ tail \in Rows \union {Nothing}
    /\ shown \subseteq Texts /\ swallowed \subseteq Texts
    /\ scan \in {"idle", "reading"}
    /\ seen \subseteq Rows /\ waiting \subseteq Rows /\ textSent \subseteq Rows
    /\ baselined \in BOOLEAN /\ busy \in BOOLEAN /\ active \in BOOLEAN
    /\ mishaps \in 0..MaxMishaps

\* Whoever types, types a reply.
LEMMA TypedText ==
    ASSUME TabInv, NEW s \in Typists, typing[s].at # "none"
    PROVE  TextOf(s) \in Texts
  <1>1. PICK r \in Rows : s \in {<<"run", r>>, <<"rec", r>>} /\ r = s[2] /\ RowsInv(r)
    BY DEF Typists, TabInv
  <1>2. CASE s = <<"run", r>>
    <2>1. run[r].at = "sending"
      BY <1>1, <1>2 DEF RowsInv, PlaceInv, Typing
    <2> QED BY <1>1, <1>2, <2>1 DEF RowsInv, TabRowInv, TextOf
  <1>3. CASE s = <<"rec", r>>
    <2>1. rec[r].by # "none"
      BY <1>1, <1>3 DEF RowsInv, PlaceInv, Typing
    <2> QED BY <1>1, <1>3, <2>1 DEF RowsInv, TabRowInv, TextOf
  <1> QED BY <1>1, <1>2, <1>3

\* Mishaps are counted up to their bound.
LEMMA MishapCounted ==
    ASSUME mishaps \in 0..MaxMishaps,
           \/ mishaps' = mishaps
           \/ mishaps < MaxMishaps /\ mishaps' = mishaps + 1
    PROVE  mishaps' \in 0..MaxMishaps
  BY DEF TabAssumption

\* The pipeline and the recoveries.
LEMMA RowSets ==
    ASSUME Sets, NEW r \in Rows, RowStep(r)
    PROVE  Sets'
  <1> USE DEF Sets, page, memory
  <1>1. CASE RowArrives(r) \/ TakenForDuplicate(r) \/ TimesOut(r) \/ TimePasses(r)
    BY <1>1 DEF RowArrives, TakenForDuplicate, TimesOut, TimePasses
  <1>2. CASE RunBegins(r)
    BY <1>2 DEF RunBegins
  <1>3. CASE RunRecovers(r)
    <2>1. busy' \in BOOLEAN
      BY <1>3, Zenon DEF RunRecovers, StartsRecovery
    <2> QED BY <1>3, <2>1 DEF RunRecovers
  <1>4. CASE TextTyped(r)
    BY <1>4 DEF TextTyped, TextIsOut, Delivered
  <1>5. CASE Succeeds(r)
    <2>1. busy' \in BOOLEAN
      BY <1>5, Zenon DEF Succeeds
    <2> QED BY <1>5, <2>1 DEF Succeeds, RunEnds
  <1>6. CASE StaysSilent(r) \/ RunFails(r)
    BY <1>6 DEF StaysSilent, RunFails, RunEnds, Restores
  <1>7. CASE TextRefused(r) \/ RecoveryRefused(r)
    <2>1. PICK s : Refused(s)
      BY <1>7, Zenon DEF TextRefused, RecoveryRefused
    <2>2. \/ mishaps' = mishaps
          \/ mishaps < MaxMishaps /\ mishaps' = mishaps + 1
      BY <2>1, Zenon DEF Refused
    <2>3. mishaps' \in 0..MaxMishaps
      BY <2>2, MishapCounted
    <2> QED BY <1>7, <2>3 DEF TextRefused, RecoveryRefused, RunEnds, Restores
  <1>8. CASE RecoverySent(r)
    BY <1>8 DEF RecoverySent, Delivered
  <1>9. ASSUME NEW text \in RepliesTo[r], RunReplies(r, text) PROVE Sets'
    BY <1>9 DEF RunReplies, TextIsOut
  <1> QED BY <1>1, <1>2, <1>3, <1>4, <1>5, <1>6, <1>7, <1>8, <1>9 DEF RowStep

\* The compose box and the listener.
LEMMA OtherSets ==
    ASSUME TabInv, Sets,
           (\E s \in Typists : Enter(s)) \/ ScanBegins \/ Baseline \/ ScanReads \/ Crashes
    PROVE  Sets'
  <1> USE DEF Sets, page
  <1>1. ASSUME NEW s \in Typists, Enter(s) PROVE Sets'
    <2>1. TextOf(s) \in Texts
      BY <1>1, TypedText DEF Enter
    <2> QED BY <1>1, <2>1 DEF Enter
  <1>2. CASE ScanBegins \/ Baseline
    BY <1>2 DEF ScanBegins, Baseline
  <1>3. CASE ScanReads
    <2>1. busy' \in BOOLEAN
      BY <1>3, Zenon DEF ScanReads, StartsRecovery
    <2> DEFINE now == [r \in Rows |-> IF r \in arrived THEN Unstale(row[r]) ELSE row[r]]
               open == {r \in arrived \ seen : now[r].state \in {"absent", "failed"}}
    <2>2. PICK fate \in [open -> Fates] :
            /\ seen' = seen \union {r \in open : fate[r] \in {"forwarded", "absorbed"}}
            /\ waiting' = waiting \union {r \in open : fate[r] = "forwarded"}
      BY <1>3 DEF ScanReads
    <2> HIDE DEF now
    <2> QED BY <1>3, <2>1, <2>2 DEF ScanReads
  <1>4. CASE Crashes
    <2>1. mishaps < MaxMishaps /\ mishaps' = mishaps + 1
      BY <1>4, Zenon DEF Crashes
    <2>2. mishaps' \in 0..MaxMishaps
      BY <2>1, MishapCounted
    <2>3. /\ baselined' = FALSE /\ busy' = FALSE /\ active' = FALSE /\ scan' = "idle"
          /\ seen' = {} /\ waiting' = {} /\ textSent' = {}
          /\ UNCHANGED <<arrived, tail, shown, swallowed>>
      BY <1>4, Zenon DEF Crashes, page
    <2> QED BY <2>2, <2>3
  <1> QED BY <1>1, <1>2, <1>3, <1>4

\* Every variable of the tab's turns keeps its type.
THEOREM TabTypeCorrect == TabSpec => []TabTypeOK
  <1>1. TabInit => Sets
    <2> SUFFICES ASSUME TabInit PROVE Sets
      OBVIOUS
    <2>1. /\ arrived = {} /\ tail = Nothing /\ shown = {} /\ swallowed = {}
          /\ scan = "idle" /\ seen = {} /\ waiting = {} /\ textSent = {}
          /\ baselined = FALSE /\ busy = FALSE /\ active = FALSE
      BY Zenon DEF TabInit
    <2>2. mishaps \in 0..MaxMishaps
      <3>1. mishaps = 0
        BY Zenon DEF TabInit
      <3> QED BY <3>1 DEF TabAssumption
    <2> QED BY <2>1, <2>2 DEF Sets
  <1>2. TabInv /\ Sets /\ [TabNext]_tabVars => Sets'
    <2>1. CASE UNCHANGED tabVars
      BY <2>1 DEF tabVars, page, memory, Sets
    <2> QED BY <2>1, RowSets, OtherSets DEF TabNext
  <1>3. TabInv /\ Sets => TabTypeOK
    <2> SUFFICES ASSUME TabInv, Sets PROVE TabTypeOK
      OBVIOUS
    <2>1. ASSUME NEW r \in Rows
          PROVE  /\ row[r].state \in Ledger!States \union {"baseline_absorbed"}
                 /\ [row[r] EXCEPT !.state = "absent"] \in Ledger!Entries
      <3>1. row[r] \in TabEntries
        BY DEF TabInv, Shape
      <3> DEFINE e == row[r]
                 f == [e EXCEPT !.state = "absent"]
      <3> HIDE DEF e
      <3>2. e \in TabEntries
        BY <3>1 DEF e
      <3>3. /\ f.state \in Ledger!States
            /\ f \in [state : Ledger!States, procOwner : {Nothing}, procFresh : BOOLEAN,
                      origOwner : {Nothing}, queue : Ledger!QueueStatuses,
                      queueOwner : {Nothing}, retryCount : Nat, autoRetry : BOOLEAN,
                      scope : {Nothing}, intent : Ledger!Intents,
                      reply : Texts \union {Nothing}, sendOwner : {Recoverer, Nothing},
                      sendFresh : BOOLEAN, terminal : BOOLEAN, alert : BOOLEAN,
                      replySent : BOOLEAN]
        BY <3>2 DEF TabEntries, Ledger!States
      <3> HIDE DEF f
      <3>4. /\ {} \union {Nothing} = {Nothing}
            /\ {Recoverer} \union {Nothing} = {Recoverer, Nothing}
        OBVIOUS
      <3>5. f \in Ledger!Entries
        BY <3>3, <3>4, Zenon DEF Ledger!Entries
      <3>6. e.state \in Ledger!States \union {"baseline_absorbed"}
        BY <3>2 DEF TabEntries
      <3> QED BY <3>5, <3>6, Zenon DEF e, f
    <2>2. registry \subseteq Texts
      BY DEF TabInv, Sets
    <2> QED BY <2>1, <2>2 DEF TabInv, Shape, Sets, TabTypeOK, Fits, RunRecords,
            RecRecords, TypingRecords
  <1> QED BY <1>1, <1>2, <1>3, InvHolds, PTL DEF TabSpec
=============================================================================
