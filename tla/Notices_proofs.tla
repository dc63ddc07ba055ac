----------------------------- MODULE Notices_proofs -----------------------------
(***************************************************************************)
(* Proofs about the three documents that wait for the owner's answer, for  *)
(* every set of actors and every bound.  AvailabilityNotice: types with    *)
(* the number of look-ups, prompts, holders of claimed rows, and notices.  *)
(* BookingApproval: types, the number of private replies, the decision the *)
(* customer hears, and what reports about the prompt cannot take back.     *)
(* MissingInfo: types, the answer the customer gets once, the turn that    *)
(* holds it, and the question that somebody can always answer.             *)
(***************************************************************************)
EXTENDS AvailabilityNotice, BookingApproval, MissingInfo, TLAPS

USE AttemptAssumption, NoticeBounds, ApprovalBounds, QuestionBounds

-----------------------------------------------------------------------------
(* AvailabilityNotice: the notice of a decided availability request.       *)

Notices == {"not_started", "pending", "processing", "sent", "failed", "skipped",
            "manual"}
Phones == {"pending", "resolving", "resolved", "failed", "ambiguous"}
NoticeDocs ==
    [status : {"pending", "decided"}, owner : {"not_started", "sending", "sent", "failed"},
     notice : Notices, phone : Phones, tries : 0..(MaxAttempts + 1),
     trusted : BOOLEAN, missed : BOOLEAN, rescued : BOOLEAN]
Prompters == {"idle", "checked", "sending", "sent", "failed"}
Tellers == [at : {"idle", "fetched", "claimed", "accepted"}, phone : Phones]

\* The counters and the other actors; the document needs TriesOK as well.
RestOK ==
    /\ prompter \in [Runs -> Prompters]
    /\ teller \in [Processes -> Tellers]
    /\ lookup \in [at : {"idle", "looking"}, rescue : BOOLEAN]
    /\ refusals \in 0..MaxRefusals /\ stops \in 0..MaxStops
    /\ prompts \in Nat /\ doubts \in Nat /\ crowded \in BOOLEAN
    /\ notices \in Nat /\ shared \in BOOLEAN /\ cut \in SUBSET {"notice", "phone"}

\* The attempts stay below the maximum until the rescue, and the attempt of a
\* lookup in progress is counted.
TriesOK ==
    /\ ~avr.rescued => avr.tries <= MaxAttempts
    /\ lookup.at = "looking" => avr.tries >= 1

NoticeTypeInv == avr \in NoticeDocs /\ RestOK /\ TriesOK

\* The strengthened invariant gives the type invariant of the module.
LEMMA NoticeTypeInvGives == NoticeTypeInv => NoticeTypeOK
  BY DEF NoticeTypeInv, RestOK, NoticeDocs, Prompters, Tellers, Notices, Phones,
         NoticeTypeOK, Settled

\* It holds initially.
LEMMA NoticeInitType == NoticeInit => NoticeTypeInv
  <1> SUFFICES ASSUME NoticeInit PROVE NoticeTypeInv
    OBVIOUS
  <1>1. avr \in NoticeDocs /\ avr.tries = 0
    BY DEF NoticeInit, NoticeDocs, Notices, Phones
  <1>2. NoTeller \in Tellers
    BY DEF NoTeller, Tellers, Phones
  <1>3. teller \in [Processes -> Tellers]
    BY <1>2 DEF NoticeInit
  <1>4. lookup \in [at : {"idle", "looking"}, rescue : BOOLEAN] /\ lookup.at = "idle"
    BY DEF NoticeInit
  <1>5. RestOK
    <2>1. /\ prompter = [r \in Runs |-> "idle"] /\ refusals = 0 /\ stops = 0
          /\ prompts = 0 /\ doubts = 0 /\ crowded = FALSE
          /\ notices = 0 /\ shared = FALSE /\ cut = {}
      BY DEF NoticeInit
    <2>2. refusals \in 0..MaxRefusals /\ stops \in 0..MaxStops
      BY <2>1
    <2>3. prompts \in Nat /\ doubts \in Nat /\ notices \in Nat
      BY <2>1
    <2>4. /\ shared \in BOOLEAN /\ crowded \in BOOLEAN /\ cut \in SUBSET {"notice", "phone"}
          /\ prompter \in [Runs -> Prompters]
      BY <2>1 DEF Prompters
    <2> QED BY <1>3, <1>4, <2>2, <2>3, <2>4 DEF RestOK
  <1>6. TriesOK
    BY <1>1, <1>4 DEF TriesOK
  <1> QED BY <1>1, <1>5, <1>6 DEF NoticeTypeInv

\* The steps of a run that prompts the owner, and the owner's decision, keep
\* the types.
LEMMA PromptType ==
    ASSUME NoticeTypeInv, NEW r \in Runs, PromptStep(r)
    PROVE  NoticeTypeInv'
  <1> USE DEF NoticeTypeInv, RestOK, TriesOK, Prompters, promptTally
  <1>1. CASE PromptChecked(r)
    BY <1>1 DEF PromptChecked
  <1>2. CASE OwnerPhoneMissing(r)
    BY <1>2 DEF OwnerPhoneMissing, Refusal, NoticeDocs
  <1>3. CASE PromptOwner(r)
    BY <1>3 DEF PromptOwner, NoticeDocs
  <1>4. CASE PromptUnmarked(r)
    BY <1>4 DEF PromptUnmarked, Refusal
  <1>5. CASE PromptAccepted(r)
    BY <1>5 DEF PromptAccepted
  <1>6. CASE PromptRefused(r)
    BY <1>6 DEF PromptRefused, Refusal
  <1>7. CASE PromptMarked(r)
    BY <1>7 DEF PromptMarked, NoticeDocs
  <1>8. CASE PromptAborted(r)
    BY <1>8 DEF PromptAborted
  <1> QED BY <1>1, <1>2, <1>3, <1>4, <1>5, <1>6, <1>7, <1>8 DEF PromptStep

LEMMA DecidesType ==
    ASSUME NoticeTypeInv, OwnerDecides
    PROVE  NoticeTypeInv'
  BY DEF NoticeTypeInv, RestOK, TriesOK, promptTally, OwnerDecides, NoticeDocs, Notices

\* A poller's steps keep the types.
LEMMA TellerType ==
    ASSUME NoticeTypeInv, NEW p \in Processes, Telling(p)
    PROVE  NoticeTypeInv'
  <1> USE DEF NoticeTypeInv, RestOK, TriesOK, promptTally
  <1>1. NoTeller \in Tellers
    BY DEF NoTeller, Tellers, Phones
  <1>2. ASSUME NEW notice \in Notices, NoticeEnds(p, notice)
        PROVE  /\ avr' \in NoticeDocs /\ avr'.tries = avr.tries
               /\ avr'.rescued = avr.rescued
               /\ teller' \in [Processes -> Tellers]
    BY <1>1, <1>2 DEF NoticeEnds, NoticeDocs
  <1>3. CASE NoticeFetched(p)
    BY <1>3 DEF NoticeFetched, Tellers, NoticeDocs
  <1>4. CASE NoticeClaimed(p)
    BY <1>4 DEF NoticeClaimed, Tellers, NoticeDocs, Notices
  <1>5. CASE NoticeHeld(p)
    <2>1. HeldForPhone(teller[p].phone) \in Notices
      BY DEF HeldForPhone, Notices
    <2> QED BY <1>2, <1>5, <2>1 DEF NoticeHeld
  <1>6. CASE NoticeDropped(p)
    BY <1>2, <1>6 DEF NoticeDropped, Refusal, Notices
  <1>7. CASE NoticeRefused(p)
    BY <1>2, <1>7 DEF NoticeRefused, Refusal, Notices
  <1>8. CASE NoticeAccepted(p)
    BY <1>8 DEF NoticeAccepted, Tellers
  <1>9. CASE NoticeStored(p)
    BY <1>2, <1>9 DEF NoticeStored, Notices
  <1>10. CASE NoticeUnclaimed(p)
    BY <1>1, <1>10 DEF NoticeUnclaimed, Refusal
  <1>11. CASE NoticeCut(p)
    BY <1>1, <1>11 DEF NoticeCut, Refusal
  <1> QED BY <1>3, <1>4, <1>5, <1>6, <1>7, <1>8, <1>9, <1>10, <1>11 DEF Telling,
     TellerStep

\* The lookup's steps keep the types: it is here that the attempts count.
LEMMA LookupType ==
    ASSUME NoticeTypeInv, LookingUp
    PROVE  NoticeTypeInv'
  <1> USE DEF NoticeTypeInv, RestOK, TriesOK, promptTally
  <1>1. CASE LookupClaimed
    <2> DEFINE rescued == avr.rescued \/ Rescuable
               tries == avr.tries + 1
               rescue == avr.trusted /\ avr.notice = "manual"
    <2>1. rescued \in BOOLEAN /\ rescue \in BOOLEAN
      OBVIOUS
    <2>2. avr.tries \in Nat /\ avr.tries <= MaxAttempts
          /\ (~rescued => avr.tries < MaxAttempts)
          /\ tries \in 0..(MaxAttempts + 1) /\ tries >= 1
          /\ (~rescued => tries <= MaxAttempts)
      BY <1>1 DEF LookupClaimed, MayLookUp, Rescuable, NoticeDocs
    <2>3. /\ avr' = [avr EXCEPT !.phone = "resolving", !.missed = FALSE,
                                !.tries = tries, !.rescued = rescued]
          /\ lookup' = [at |-> "looking", rescue |-> rescue]
          /\ UNCHANGED <<prompter, teller, refusals, stops, promptTally, notices, shared,
                         cut>>
      BY <1>1 DEF LookupClaimed
    <2> HIDE DEF rescued, rescue, tries
    <2>4. avr' \in NoticeDocs /\ avr'.tries = tries /\ avr'.rescued = rescued
      BY <2>1, <2>2, <2>3 DEF NoticeDocs, Phones
    <2>5. lookup' \in [at : {"idle", "looking"}, rescue : BOOLEAN]
      BY <2>1, <2>3
    <2>6. RestOK'
      BY <2>3, <2>5
    <2> QED BY <2>2, <2>4, <2>6
  <1>2. CASE PhoneFound
    BY <1>2 DEF PhoneFound, LookupEnds, Found, NoticeDocs, Phones, Notices
  <1>3. ASSUME NEW doc \in NoticeDocs, LookupEnds(doc), ~doc.rescued => doc.tries <= MaxAttempts,
               refusals' \in 0..MaxRefusals
        PROVE  NoticeTypeInv'
    <2>1. lookup' \in [at : {"idle", "looking"}, rescue : BOOLEAN] /\ lookup'.at = "idle"
      BY <1>3 DEF LookupEnds
    <2>2. RestOK'
      BY <1>3, <2>1 DEF LookupEnds
    <2>3. avr' = doc
      BY <1>3 DEF LookupEnds
    <2> QED BY <1>3, <2>1, <2>2, <2>3
  <1>4. CASE PhoneDeferred
    <2> DEFINE tries == avr.tries - 1
               doc == [avr EXCEPT !.phone = "pending", !.tries = tries]
    <2>1. LookupEnds(doc) /\ lookup.at = "looking" /\ refusals' \in 0..MaxRefusals
      BY <1>4 DEF PhoneDeferred, LookupEnds, Refusal
    <2>2. tries \in 0..(MaxAttempts + 1) /\ (~avr.rescued => tries <= MaxAttempts)
      BY <2>1 DEF NoticeDocs
    <2> HIDE DEF tries
    <2>3. doc \in NoticeDocs /\ (~doc.rescued => doc.tries <= MaxAttempts)
      BY <2>2 DEF NoticeDocs, Phones
    <2> HIDE DEF doc
    <2> QED BY <1>3, <2>1, <2>3
  <1>5. CASE PhoneMissed
    <2>1. PICK missed \in BOOLEAN :
            LookupEnds(IF avr.tries < MaxAttempts
                       THEN [avr EXCEPT !.phone = "pending"]
                       ELSE [avr EXCEPT !.phone = "failed", !.missed = missed])
      BY <1>5 DEF PhoneMissed
    <2> DEFINE again == [avr EXCEPT !.phone = "pending"]
               over == [avr EXCEPT !.phone = "failed", !.missed = missed]
               doc == IF avr.tries < MaxAttempts THEN again ELSE over
    <2>2. again \in NoticeDocs /\ (~again.rescued => again.tries <= MaxAttempts)
      BY DEF NoticeDocs, Phones
    <2>3. over \in NoticeDocs /\ (~over.rescued => over.tries <= MaxAttempts)
      BY DEF NoticeDocs, Phones
    <2>4. doc \in NoticeDocs /\ (~doc.rescued => doc.tries <= MaxAttempts)
      BY <2>2, <2>3
    <2>5. refusals' \in 0..MaxRefusals
      BY <1>5 DEF PhoneMissed
    <2>6. LookupEnds(doc)
      BY <2>1
    <2> HIDE DEF doc
    <2> QED BY <1>3, <2>4, <2>5, <2>6
  <1>6. CASE PhoneUnknown
    <2>1. PICK phone \in {"failed", "ambiguous"}, missed \in BOOLEAN :
            LookupEnds([avr EXCEPT !.phone = phone, !.missed = missed])
      BY <1>6 DEF PhoneUnknown
    <2> DEFINE doc == [avr EXCEPT !.phone = phone, !.missed = missed]
    <2>2. doc \in NoticeDocs /\ (~doc.rescued => doc.tries <= MaxAttempts)
      BY DEF NoticeDocs, Phones
    <2>3. refusals' \in 0..MaxRefusals
      BY <1>6 DEF PhoneUnknown
    <2> HIDE DEF doc
    <2> QED BY <1>3, <2>1, <2>2, <2>3 DEF doc
  <1>7. CASE PhoneCut
    BY <1>7 DEF PhoneCut, Refusal
  <1> QED BY <1>1, <1>2, <1>4, <1>5, <1>6, <1>7 DEF LookingUp, LookupStep

\* A stop of a process keeps the types.
LEMMA StopType ==
    ASSUME NoticeTypeInv, NoticeServerStop \/ NoticeTabStop
    PROVE  NoticeTypeInv'
  <1> USE DEF NoticeTypeInv, RestOK, TriesOK, promptTally
  <1>1. NoTeller \in Tellers
    BY DEF NoTeller, Tellers, Phones
  <1>2. CASE NoticeServerStop
    <2>1. teller' \in [Processes -> Tellers]
      BY <1>1, <1>2 DEF NoticeServerStop
    <2>2. stops' \in 0..MaxStops
      BY <1>2 DEF NoticeServerStop
    <2>3. cut' \in SUBSET {"notice", "phone"}
      BY <1>2 DEF NoticeServerStop, Leaves
    <2>4. prompter' \in [Runs -> Prompters]
      BY <1>2 DEF NoticeServerStop, Prompters
    <2> QED BY <1>2, <2>1, <2>2, <2>3, <2>4 DEF NoticeServerStop
  <1>3. CASE NoticeTabStop
    <2>1. teller' \in [Processes -> Tellers]
      BY <1>1, <1>3 DEF NoticeTabStop
    <2>2. lookup' \in [at : {"idle", "looking"}, rescue : BOOLEAN] /\ lookup'.at = "idle"
      BY <1>3 DEF NoticeTabStop
    <2>3. stops' \in 0..MaxStops
      BY <1>3 DEF NoticeTabStop
    <2>4. cut' \in SUBSET {"notice", "phone"}
      <3>1. \A at, part : Leaves(at, part) \subseteq {part}
        BY DEF Leaves
      <3>2. Leaves(lookup.at, "phone") \subseteq {"phone"}
        BY <3>1
      <3>3. UNION {Leaves(teller[p].at, "notice") : p \in Processes \ {WebServer}}
            \subseteq {"notice"}
        BY <3>1
      <3> QED BY <1>3, <3>2, <3>3 DEF NoticeTabStop
    <2> QED BY <1>3, <2>1, <2>2, <2>3, <2>4 DEF NoticeTabStop
  <1> QED BY <1>2, <1>3

\* Every step keeps the types.
LEMMA NoticeNextType == NoticeTypeInv /\ [NoticeNext]_noticeVars => NoticeTypeInv'
  <1> SUFFICES ASSUME NoticeTypeInv, [NoticeNext]_noticeVars PROVE NoticeTypeInv'
    OBVIOUS
  <1>1. CASE UNCHANGED noticeVars
    BY <1>1 DEF NoticeTypeInv, RestOK, TriesOK, noticeVars
  <1>2. CASE NoticeNext
    BY <1>2, PromptType, DecidesType, TellerType, LookupType, StopType DEF NoticeNext
  <1> QED BY <1>1, <1>2

\* The types of every reachable state: the attempts to find the phone number
\* never exceed the maximum by more than the one rescue.
THEOREM NoticeTypeCorrect == NoticeSpec => []NoticeTypeOK
  BY NoticeInitType, NoticeNextType, NoticeTypeInvGives, PTL DEF NoticeSpec
-----------------------------------------------------------------------------
(* The owner's prompts.                                                    *)

\* Two runs that prompt at the same time are on record.
AloneInv ==
    ~crowded => \A q, r \in Runs : prompter[q] # "idle" /\ prompter[r] # "idle" => q = r

\* Of a single run: a document that lets the owner be prompted, and a run that
\* has not had its answer yet, stand for prompts the code does not count as
\* sent; and a prompt under way without its mark has been counted as a doubt.
NoticePromptInv ==
    ~crowded =>
       /\ prompts <= doubts + 1
       /\ MayPrompt => prompts <= doubts
       /\ \A r \in Runs :
             /\ prompter[r] = "checked" => MayPrompt
             /\ prompter[r] \in {"sending", "failed"} => prompts <= doubts
             /\ prompter[r] = "sending" /\ MayPrompt => prompts < doubts

\* Both hold initially.
LEMMA NoticeInitPrompt == NoticeInit => AloneInv /\ NoticePromptInv
  BY DEF NoticeInit, AloneInv, NoticePromptInv, MayPrompt

\* A run that is not alone makes the record; one that is not idle stays the
\* same run.
LEMMA PromptAlone ==
    ASSUME NoticeTypeInv, AloneInv, NEW r \in Runs, PromptStep(r)
    PROVE  /\ AloneInv'
           /\ ~crowded' => ~crowded /\ \A q \in Runs \ {r} : prompter[q] = "idle" /\ prompter'[q] = "idle"
  <1> DEFINE Moved == \E at \in Prompters : prompter' = [prompter EXCEPT ![r] = at]
  <1>1. prompter \in [Runs -> Prompters]
    BY DEF NoticeTypeInv, RestOK
  <1>2. CASE PromptChecked(r)
    BY <1>1, <1>2 DEF PromptChecked, AloneInv, Prompters
  <1>3. CASE ~PromptChecked(r)
    <2>1. Moved
      BY <1>1, <1>3 DEF PromptStep, OwnerPhoneMissing, PromptOwner, PromptUnmarked,
                   PromptAccepted, PromptRefused, PromptMarked, PromptAborted, Prompters
    <2>2. prompter[r] # "idle"
      BY <1>3 DEF PromptStep, OwnerPhoneMissing, PromptOwner, PromptUnmarked,
                   PromptAccepted, PromptRefused, PromptMarked, PromptAborted
    <2>3. crowded' = crowded
      BY <1>3 DEF PromptStep, OwnerPhoneMissing, PromptOwner, PromptUnmarked,
         promptTally,
                   PromptAccepted, PromptRefused, PromptMarked, PromptAborted
    <2> QED BY <1>1, <2>1, <2>2, <2>3 DEF AloneInv
  <1> QED BY <1>2, <1>3

\* Every step of a run keeps the count.
LEMMA PromptCount ==
    ASSUME NoticeTypeInv, AloneInv, NoticePromptInv, NEW r \in Runs, PromptStep(r)
    PROVE  NoticePromptInv'
  <1> USE DEF NoticePromptInv, MayPrompt
  <1>1. /\ prompts \in Nat /\ doubts \in Nat /\ avr \in NoticeDocs
        /\ prompter \in [Runs -> Prompters]
    BY DEF NoticeTypeInv, RestOK
  <1>2. SUFFICES ASSUME ~crowded'
                 PROVE  /\ (prompts <= doubts + 1)'
                        /\ MayPrompt' => (prompts <= doubts)'
                        /\ (prompter'[r] = "checked") => MayPrompt'
                        /\ prompter'[r] \in {"sending", "failed"} => (prompts <= doubts)'
                        /\ prompter'[r] = "sending" /\ MayPrompt' => (prompts < doubts)'
    BY PromptAlone
  <1>3. ~crowded
    BY <1>2, PromptAlone
  <1>4. CASE PromptChecked(r)
    BY <1>1, <1>3, <1>4 DEF PromptChecked, Prompters
  <1>5. CASE OwnerPhoneMissing(r)
    BY <1>1, <1>3, <1>5 DEF OwnerPhoneMissing, NoticeDocs, promptTally, Prompters
  <1>6. CASE PromptOwner(r)
    BY <1>1, <1>3, <1>6 DEF PromptOwner, NoticeDocs, promptTally, Prompters
  <1>7. CASE PromptUnmarked(r)
    BY <1>1, <1>3, <1>7 DEF PromptUnmarked, Prompters
  <1>8. CASE PromptAccepted(r)
    BY <1>1, <1>3, <1>8 DEF PromptAccepted, Prompters
  <1>9. CASE PromptRefused(r)
    BY <1>1, <1>3, <1>9 DEF PromptRefused, Prompters
  <1>10. CASE PromptMarked(r)
    <2>1. /\ avr'.owner = prompter[r] /\ prompter[r] \in {"sent", "failed"}
          /\ prompter'[r] = "idle" /\ UNCHANGED <<prompts, doubts>>
      BY <1>1, <1>10 DEF PromptMarked, NoticeDocs, promptTally
    <2>2. prompts <= doubts + 1 /\ (prompter[r] = "failed" => prompts <= doubts)
      BY <1>3
    <2>3. MayPrompt' => prompter[r] = "failed"
      BY <2>1
    <2> QED BY <2>1, <2>2, <2>3
  <1>11. CASE PromptAborted(r)
    BY <1>1, <1>3, <1>11 DEF PromptAborted, promptTally, Prompters
  <1> QED BY <1>4, <1>5, <1>6, <1>7, <1>8, <1>9, <1>10, <1>11 DEF PromptStep

\* Every step keeps both.
LEMMA NextPrompt ==
    NoticeTypeInv /\ AloneInv /\ NoticePromptInv /\ [NoticeNext]_noticeVars
    => AloneInv' /\ NoticePromptInv'
  <1> SUFFICES ASSUME NoticeTypeInv, AloneInv, NoticePromptInv, [NoticeNext]_noticeVars
               PROVE  AloneInv' /\ NoticePromptInv'
    OBVIOUS
  <1>1. avr \in NoticeDocs /\ prompts \in Nat /\ doubts \in Nat
    BY DEF NoticeTypeInv, RestOK
  <1>2. ASSUME UNCHANGED <<prompter, prompts, doubts, crowded>>, avr'.owner = avr.owner
        PROVE  AloneInv' /\ NoticePromptInv'
    BY <1>2 DEF AloneInv, NoticePromptInv, MayPrompt
  <1>3. CASE \E r \in Runs : PromptStep(r)
    BY <1>3, PromptAlone, PromptCount
  <1>4. CASE OwnerDecides
    BY <1>1, <1>2, <1>4 DEF OwnerDecides, NoticeDocs, promptTally
  <1>5. ASSUME NEW p \in Processes, Telling(p) PROVE AloneInv' /\ NoticePromptInv'
    <2>1. UNCHANGED <<prompter, prompts, doubts, crowded>>
      BY <1>5 DEF Telling, TellerStep, NoticeFetched, NoticeClaimed, NoticeUnclaimed,
                  NoticeHeld, NoticeDropped, NoticeRefused, NoticeAccepted,
                  NoticeStored, NoticeCut, promptTally
    <2>2. avr'.owner = avr.owner
      BY <1>1, <1>5
         DEF Telling, TellerStep, NoticeFetched, NoticeClaimed, NoticeUnclaimed,
             NoticeHeld, NoticeDropped, NoticeRefused, NoticeAccepted, NoticeStored,
             NoticeCut, NoticeEnds, NoticeDocs
    <2> QED BY <1>2, <2>1, <2>2
  <1>6. CASE LookingUp
    <2>1. UNCHANGED <<prompter, prompts, doubts, crowded>>
      BY <1>6 DEF LookingUp, LookupStep, LookupClaimed, PhoneFound, PhoneDeferred,
                  PhoneMissed, PhoneUnknown, PhoneCut, LookupEnds, promptTally
    <2>2. avr'.owner = avr.owner
      BY <1>1, <1>6
         DEF LookingUp, LookupStep, LookupClaimed, PhoneFound, PhoneDeferred,
             PhoneMissed, PhoneUnknown, PhoneCut, LookupEnds, Found, NoticeDocs
    <2> QED BY <1>2, <2>1, <2>2
  <1>7. CASE NoticeServerStop
    BY <1>1, <1>7 DEF NoticeServerStop, AloneInv, NoticePromptInv, MayPrompt,
       promptTally
  <1>8. CASE NoticeTabStop
    BY <1>2, <1>8 DEF NoticeTabStop, promptTally
  <1>9. CASE UNCHANGED noticeVars
    BY <1>2, <1>9 DEF noticeVars
  <1> QED BY <1>3, <1>4, <1>5, <1>6, <1>7, <1>8, <1>9 DEF NoticeNext

\* A replayed turn, an aborted run and a stop at any step never let the owner
\* receive more prompts than one, those of which the code saw a failure and
\* those whose mark was lost, unless two runs prompt at the same time.
THEOREM PromptsLicensed == NoticeSpec => []PromptLicence
  <1>1. NoticePromptInv => PromptLicence
    BY DEF NoticePromptInv, PromptLicence
  <1> QED BY <1>1, NoticeInitType, NoticeNextType, NoticeInitPrompt, NextPrompt,
     PTL DEF NoticeSpec

-----------------------------------------------------------------------------
(* Who holds a claimed row.                                                *)

\* The holders are there initially: nothing is claimed.
LEMMA InitHolders == NoticeInit => ClaimsHaveHolders
  BY DEF NoticeInit, ClaimsHaveHolders

\* Every step of a poller keeps them: the row leaves "processing" in the step
\* in which its last holder lets it go.
LEMMA TellerHolders ==
    ASSUME NoticeTypeInv, ClaimsHaveHolders, NEW p \in Processes, Telling(p)
    PROVE  ClaimsHaveHolders'
  <1>1. avr \in NoticeDocs /\ teller \in [Processes -> Tellers]
    BY DEF NoticeTypeInv, RestOK
  <1>2. lookup' = lookup /\ avr'.phone = avr.phone /\ cut \subseteq cut'
    <2>1. lookup' = lookup /\ cut \subseteq cut'
      BY DEF Telling, TellerStep, NoticeFetched, NoticeClaimed, NoticeUnclaimed,
             NoticeHeld, NoticeDropped, NoticeRefused, NoticeAccepted, NoticeStored,
             NoticeCut
    <2>2. avr'.phone = avr.phone
      BY <1>1
         DEF Telling, TellerStep, NoticeFetched, NoticeClaimed, NoticeUnclaimed,
             NoticeHeld, NoticeDropped, NoticeRefused, NoticeAccepted, NoticeStored,
             NoticeCut, NoticeEnds, NoticeDocs
    <2> QED BY <2>1, <2>2
  <1>3. SUFFICES ASSUME "notice" \notin cut', avr'.notice = "processing"
                 PROVE  \E q \in Processes : teller'[q].at \in {"claimed", "accepted"}
    BY <1>2 DEF ClaimsHaveHolders
  <1>4. CASE NoticeClaimed(p)
    BY <1>1, <1>4 DEF NoticeClaimed, Tellers
  <1>5. CASE NoticeAccepted(p)
    BY <1>1, <1>5 DEF NoticeAccepted, Tellers
  <1>6. CASE NoticeFetched(p) \/ NoticeUnclaimed(p)
    <2>1. avr' = avr /\ teller[p].at \notin {"claimed", "accepted"}
      BY <1>6 DEF NoticeFetched, NoticeUnclaimed
    <2>2. PICK q \in Processes : teller[q].at \in {"claimed", "accepted"}
      BY <1>2, <1>3, <2>1 DEF ClaimsHaveHolders
    <2>3. teller'[q] = teller[q]
      BY <1>1, <1>6, <2>1, <2>2 DEF NoticeFetched, NoticeUnclaimed
    <2> QED BY <2>2, <2>3
  <1>7. ASSUME NEW notice \in Notices \ {"processing"}, NoticeEnds(p, notice)
        PROVE  FALSE
    BY <1>1, <1>3, <1>7 DEF NoticeEnds, NoticeDocs
  <1>8. CASE NoticeHeld(p)
    <2>1. HeldForPhone(teller[p].phone) \in Notices \ {"processing"}
      BY DEF HeldForPhone, Notices
    <2> QED BY <1>7, <1>8, <2>1 DEF NoticeHeld
  <1>9. CASE NoticeDropped(p)
    BY <1>7, <1>9 DEF NoticeDropped, Notices
  <1>10. CASE NoticeRefused(p)
    BY <1>7, <1>10 DEF NoticeRefused, Notices
  <1>11. CASE NoticeStored(p)
    BY <1>7, <1>11 DEF NoticeStored, Notices
  <1>12. CASE NoticeCut(p)
    BY <1>3, <1>12 DEF NoticeCut
  <1> QED BY <1>4, <1>5, <1>6, <1>8, <1>9, <1>10, <1>11, <1>12 DEF Telling, TellerStep

\* So does every step of the lookup.
LEMMA LookupHolders ==
    ASSUME NoticeTypeInv, ClaimsHaveHolders, LookingUp
    PROVE  ClaimsHaveHolders'
  <1>1. avr \in NoticeDocs
    BY DEF NoticeTypeInv
  <1>2. cut \subseteq cut' /\ teller' = teller
    BY DEF LookingUp, LookupStep, LookupClaimed, PhoneFound, PhoneDeferred,
           PhoneMissed, PhoneUnknown, PhoneCut, LookupEnds
  <1>3. avr'.notice = "processing" => avr.notice = "processing"
    BY <1>1 DEF LookingUp, LookupStep, LookupClaimed, PhoneFound, PhoneDeferred,
           PhoneMissed, PhoneUnknown, PhoneCut, LookupEnds, Found, NoticeDocs
  <1>4. CASE LookupClaimed
    BY <1>2, <1>3, <1>4 DEF LookupClaimed, ClaimsHaveHolders
  <1>5. CASE PhoneCut
    BY <1>2, <1>3, <1>5 DEF PhoneCut, ClaimsHaveHolders
  <1>6. CASE LookupStep /\ ~PhoneCut
    <2>1. avr'.phone # "resolving"
      BY <1>1, <1>6 DEF LookupStep, PhoneFound, PhoneDeferred, PhoneMissed,
                        PhoneUnknown, LookupEnds, Found, NoticeDocs
    <2> QED BY <1>2, <1>3, <2>1 DEF ClaimsHaveHolders
  <1> QED BY <1>4, <1>5, <1>6 DEF LookingUp

\* And a stop puts on record what it takes out of a process's hands.
LEMMA StopHolders ==
    ASSUME NoticeTypeInv, ClaimsHaveHolders, NoticeServerStop \/ NoticeTabStop
    PROVE  ClaimsHaveHolders'
  <1>1. teller \in [Processes -> Tellers] /\ avr' = avr
    BY DEF NoticeTypeInv, RestOK, NoticeServerStop, NoticeTabStop
  <1>2. cut \subseteq cut'
    BY DEF NoticeServerStop, NoticeTabStop
  <1>3. lookup.at = "looking" => lookup'.at = "looking" \/ "phone" \in cut'
    BY DEF NoticeServerStop, NoticeTabStop, Leaves
  <1>4. ASSUME NEW p \in Processes, teller[p].at \in {"claimed", "accepted"}
        PROVE  teller'[p].at \in {"claimed", "accepted"} \/ "notice" \in cut'
    <2>1. Leaves(teller[p].at, "notice") = {"notice"}
      BY <1>4 DEF Leaves
    <2>2. CASE NoticeServerStop
      BY <1>1, <1>4, <2>1, <2>2 DEF NoticeServerStop
    <2>3. CASE NoticeTabStop /\ p = WebServer
      BY <1>4, <2>3 DEF NoticeTabStop
    <2>4. CASE NoticeTabStop /\ p # WebServer
      <3>1. "notice" \in UNION {Leaves(teller[q].at, "notice") : q \in Processes \ {WebServer}}
        BY <2>1, <2>4
      <3> QED BY <2>4, <3>1 DEF NoticeTabStop
    <2> QED BY <2>2, <2>3, <2>4
  <1> QED BY <1>1, <1>2, <1>3, <1>4 DEF ClaimsHaveHolders

\* A row in "processing" is in the hands of a poller, and a number being
\* looked up in those of the lookup, unless a holder was cut off from it by a
\* stop, an exception or a lost write.
THEOREM HoldersTheorem == NoticeSpec => []ClaimsHaveHolders
  <1>1. NoticeTypeInv /\ ClaimsHaveHolders /\ [NoticeNext]_noticeVars => ClaimsHaveHolders'
    <2> SUFFICES ASSUME NoticeTypeInv, ClaimsHaveHolders, [NoticeNext]_noticeVars
                 PROVE  ClaimsHaveHolders'
      OBVIOUS
    <2>1. avr \in NoticeDocs
      BY DEF NoticeTypeInv
    <2>2. ASSUME NEW r \in Runs, PromptStep(r) PROVE ClaimsHaveHolders'
      <3>1. UNCHANGED <<teller, lookup, cut>>
        BY <2>2 DEF PromptStep, PromptChecked, OwnerPhoneMissing, PromptOwner,
                    PromptUnmarked, PromptAccepted, PromptRefused, PromptMarked,
                    PromptAborted
      <3>2. avr'.notice = avr.notice /\ avr'.phone = avr.phone
        BY <2>1, <2>2 DEF PromptStep, PromptChecked, OwnerPhoneMissing, PromptOwner,
                    PromptUnmarked, PromptAccepted, PromptRefused, PromptMarked,
                    PromptAborted, NoticeDocs
      <3> QED BY <3>1, <3>2 DEF ClaimsHaveHolders
    <2>3. CASE OwnerDecides
      BY <2>1, <2>3 DEF OwnerDecides, NoticeDocs, ClaimsHaveHolders
    <2>4. CASE UNCHANGED noticeVars
      BY <2>4 DEF noticeVars, ClaimsHaveHolders
    <2> QED BY <2>2, <2>3, <2>4, TellerHolders, LookupHolders,
       StopHolders DEF NoticeNext
  <1> QED BY <1>1, NoticeInitType, NoticeNextType, InitHolders, PTL DEF NoticeSpec

-----------------------------------------------------------------------------
(* What the customer hears, as long as no two pollers met over the row.    *)

\* The row's state says who has it in hand: nobody before the decision, one
\* poller at most after it, and after a notice no poller that could send
\* another; a rescue of the lookup starts from a row no poller takes.
SoleInv ==
    ~shared =>
    /\ \A p, q \in Processes : teller[p].at # "idle" /\ teller[q].at # "idle" => p = q
    /\ \A p \in Processes :
          /\ teller[p].at = "fetched" => avr.notice = "pending"
          /\ teller[p].at \in {"claimed", "accepted"} => avr.notice = "processing"
          /\ notices >= 1 => teller[p].at \in {"idle", "accepted"}
          /\ avr.status = "pending" => teller[p].at = "idle"
    /\ notices <= 1
    /\ notices >= 1 => avr.notice \in {"processing", "sent", "failed"}
    /\ lookup.at = "looking" /\ lookup.rescue => avr.notice = "manual"
    /\ avr.status = "pending" => avr.notice = "not_started"

\* It holds initially.
LEMMA InitSole == NoticeInit => SoleInv
  BY DEF NoticeInit, SoleInv, NoTeller

\* A poller that takes the row from the queue is alone with it, or the row is
\* shared from then on.
LEMMA FetchSole ==
    ASSUME NoticeTypeInv, SoleInv, NEW p \in Processes, NoticeFetched(p)
    PROVE  SoleInv'
  <1>1. SUFFICES ASSUME ~shared' PROVE SoleInv'
    BY DEF SoleInv
  <1>2. ~shared /\ \A q \in Processes \ {p} : teller[q].at = "idle"
    BY <1>1 DEF NoticeFetched
  <1>3. \A q \in Processes : teller'[q].at = IF q = p THEN "fetched" ELSE "idle"
    BY <1>2 DEF NoticeFetched, NoticeTypeInv, RestOK, Tellers
  <1>4. avr.notice = "pending" /\ avr.status = "decided" /\ notices < 1
    BY <1>2 DEF NoticeFetched, SoleInv, NoticeTypeInv, RestOK
  <1>5. UNCHANGED <<avr, lookup, notices>>
    BY DEF NoticeFetched
  <1> QED BY <1>2, <1>3, <1>4, <1>5 DEF SoleInv

\* So does each later step of the poller that has the row.
LEMMA TellerSole ==
    ASSUME NoticeTypeInv, SoleInv, NEW p \in Processes, TellerStep(p)
    PROVE  SoleInv'
  <1>1. /\ shared' = shared /\ lookup' = lookup
        /\ avr \in NoticeDocs /\ teller \in [Processes -> Tellers] /\ notices \in Nat
    BY DEF NoticeTypeInv, RestOK, TellerStep, NoticeClaimed, NoticeUnclaimed,
       NoticeHeld,
           NoticeDropped, NoticeRefused, NoticeAccepted, NoticeStored, NoticeCut
  <1>2. SUFFICES ASSUME ~shared PROVE SoleInv'
    BY <1>1 DEF SoleInv
  <1>3. teller[p].at # "idle"
    BY DEF TellerStep, NoticeClaimed, NoticeUnclaimed, NoticeHeld,
           NoticeDropped, NoticeRefused, NoticeAccepted, NoticeStored, NoticeCut
  <1>4. avr.status # "pending" /\ \A q \in Processes \ {p} : teller[q].at = "idle"
    BY <1>2, <1>3 DEF SoleInv
  <1>5. avr.notice \in {"pending", "processing"}
        /\ ~(lookup.at = "looking" /\ lookup.rescue)
    BY <1>1, <1>2, <1>3 DEF SoleInv, Tellers
  <1>6. CASE NoticeClaimed(p)
    <2>1. \A q \in Processes : teller'[q].at = IF q = p THEN "claimed" ELSE "idle"
      BY <1>1, <1>4, <1>6 DEF NoticeClaimed, Tellers
    <2>2. /\ avr'.notice = "processing" /\ avr'.status = avr.status
          /\ notices' = notices /\ notices < 1
      BY <1>1, <1>2, <1>6 DEF NoticeClaimed, NoticeDocs, SoleInv
    <2> QED BY <1>1, <1>4, <1>5, <2>1, <2>2 DEF SoleInv
  <1>7. CASE NoticeAccepted(p)
    <2>1. \A q \in Processes : teller'[q].at = IF q = p THEN "accepted" ELSE "idle"
      BY <1>1, <1>4, <1>7 DEF NoticeAccepted, Tellers
    <2>2. avr' = avr /\ avr.notice = "processing" /\ notices' = 1
      BY <1>1, <1>2, <1>7 DEF NoticeAccepted, SoleInv
    <2> QED BY <1>1, <1>4, <1>5, <2>1, <2>2 DEF SoleInv
  <1>8. ASSUME NEW notice \in Notices, NoticeEnds(p, notice),
               notices' <= 1, notices' \in Nat,
               notices' >= 1 => notice \in {"sent", "failed"}
        PROVE  SoleInv'
    <2>1. \A q \in Processes : teller'[q].at = "idle"
      BY <1>1, <1>4, <1>8 DEF NoticeEnds, NoTeller
    <2>2. avr'.notice = notice /\ avr'.status = avr.status
      BY <1>1, <1>8 DEF NoticeEnds, NoticeDocs
    <2> QED BY <1>1, <1>4, <1>5, <1>8, <2>1, <2>2 DEF SoleInv
  <1>9. CASE NoticeHeld(p)
    <2>1. HeldForPhone(teller[p].phone) \in Notices
      BY DEF HeldForPhone, Notices
    <2>2. notices' = notices /\ notices < 1
      BY <1>1, <1>2, <1>9 DEF NoticeHeld, SoleInv
    <2> QED BY <1>1, <1>8, <1>9, <2>1, <2>2 DEF NoticeHeld
  <1>10. CASE NoticeDropped(p)
    <2>1. notices' = notices /\ notices < 1
      BY <1>1, <1>2, <1>10 DEF NoticeDropped, SoleInv
    <2> QED BY <1>1, <1>8, <1>10, <2>1 DEF NoticeDropped, Notices
  <1>11. CASE NoticeRefused(p)
    <2>1. notices < 1 /\ \E out \in {0, 1} : notices' = notices + out
      BY <1>1, <1>2, <1>11 DEF NoticeRefused, SoleInv
    <2> QED BY <1>1, <1>8, <1>11, <2>1 DEF NoticeRefused, Notices
  <1>12. CASE NoticeStored(p)
    <2>1. notices' = notices /\ notices <= 1
      BY <1>1, <1>2, <1>12 DEF NoticeStored, SoleInv
    <2> QED BY <1>1, <1>8, <1>12, <2>1 DEF NoticeStored, Notices
  <1>13. CASE NoticeUnclaimed(p) \/ NoticeCut(p)
    <2>1. \A q \in Processes : teller'[q].at = "idle"
      BY <1>1, <1>4, <1>13 DEF NoticeUnclaimed, NoticeCut, NoTeller
    <2>2. UNCHANGED <<avr, notices>>
      BY <1>13 DEF NoticeUnclaimed, NoticeCut
    <2> QED BY <1>1, <1>2, <2>1, <2>2 DEF SoleInv
  <1> QED BY <1>6, <1>7, <1>9, <1>10, <1>11, <1>12, <1>13 DEF TellerStep

\* And each step of the lookup: the rescue hands back a row nobody had.
LEMMA LookupSole ==
    ASSUME NoticeTypeInv, SoleInv, LookingUp
    PROVE  SoleInv'
  <1>1. /\ UNCHANGED <<shared, teller, notices>>
        /\ avr \in NoticeDocs /\ teller \in [Processes -> Tellers] /\ notices \in Nat
        /\ lookup \in [at : {"idle", "looking"}, rescue : BOOLEAN]
    BY DEF NoticeTypeInv, RestOK, LookingUp, LookupStep, LookupClaimed, PhoneFound,
           PhoneDeferred, PhoneMissed, PhoneUnknown, PhoneCut, LookupEnds
  <1>2. avr'.status = avr.status
    BY <1>1 DEF LookingUp, LookupStep, LookupClaimed, PhoneFound, PhoneDeferred,
           PhoneMissed, PhoneUnknown, PhoneCut, LookupEnds, Found, NoticeDocs
  <1>3. CASE avr'.notice = avr.notice
    <2>1. lookup'.at = "looking" /\ lookup'.rescue => avr.notice = "manual"
      <3>1. CASE LookupClaimed
        <4>1. lookup'.rescue => avr.notice = "manual"
          BY <3>1 DEF LookupClaimed
        <4> QED BY <4>1
      <3>2. CASE LookupStep
        <4>1. lookup' = [at |-> "idle", rescue |-> FALSE]
          <5> DEFINE ended == lookup' = [at |-> "idle", rescue |-> FALSE]
          <5>1. ASSUME NEW doc, LookupEnds(doc) PROVE ended
            BY <5>1 DEF LookupEnds
          <5> HIDE DEF ended
          <5>2. PhoneFound \/ PhoneMissed \/ PhoneUnknown => ended
            BY <5>1 DEF PhoneFound, PhoneMissed, PhoneUnknown
          <5>3. PhoneDeferred => ended
            BY <5>1 DEF PhoneDeferred
          <5>4. PhoneCut => ended
            BY DEF PhoneCut, ended
          <5> QED BY <3>2, <5>2, <5>3, <5>4 DEF LookupStep, ended
        <4> QED BY <4>1
      <3> QED BY <3>1, <3>2 DEF LookingUp
    <2> QED BY <1>1, <1>2, <1>3, <2>1 DEF SoleInv
  <1>4. CASE avr'.notice # avr.notice
    <2>1. PhoneFound /\ lookup.rescue /\ avr'.notice = "pending"
      BY <1>1, <1>4 DEF LookingUp, LookupStep, LookupClaimed, PhoneFound, PhoneDeferred,
           PhoneMissed, PhoneUnknown, PhoneCut, LookupEnds, Found, NoticeDocs
    <2>2. lookup.at = "looking" /\ lookup'.at = "idle"
      BY <2>1 DEF PhoneFound, LookupEnds
    <2>3. ASSUME ~shared
          PROVE  /\ avr.notice = "manual" /\ avr.status # "pending" /\ notices < 1
                 /\ \A p \in Processes : teller[p].at = "idle"
      BY <1>1, <2>1, <2>2, <2>3 DEF SoleInv, Tellers
    <2> QED BY <1>1, <1>2, <2>1, <2>2, <2>3 DEF SoleInv
  <1> QED BY <1>3, <1>4

\* And each step that lets go of the row: a stop; the others do not touch it.
LEMMA OtherSole ==
    ASSUME NoticeTypeInv, SoleInv,
           \/ \E r \in Runs : PromptStep(r)
           \/ OwnerDecides \/ NoticeServerStop \/ NoticeTabStop
    PROVE  SoleInv'
  <1>1. UNCHANGED <<shared, notices>> /\ avr \in NoticeDocs
    BY DEF NoticeTypeInv, PromptStep, PromptChecked, OwnerPhoneMissing, PromptOwner,
           PromptUnmarked, PromptAccepted, PromptRefused, PromptMarked, PromptAborted,
           OwnerDecides, NoticeServerStop, NoticeTabStop
  <1>2. ASSUME NEW r \in Runs, PromptStep(r) PROVE SoleInv'
    <2>1. UNCHANGED <<teller, lookup>>
      BY <1>2 DEF PromptStep, PromptChecked, OwnerPhoneMissing, PromptOwner,
         PromptUnmarked,
                  PromptAccepted, PromptRefused, PromptMarked, PromptAborted
    <2>2. avr'.notice = avr.notice /\ avr'.status = avr.status
      BY <1>1, <1>2 DEF PromptStep, PromptChecked, OwnerPhoneMissing, PromptOwner,
                  PromptUnmarked, PromptAccepted, PromptRefused, PromptMarked,
                  PromptAborted, NoticeDocs
    <2> QED BY <1>1, <2>1, <2>2 DEF SoleInv
  <1>3. CASE OwnerDecides
    <2>1. UNCHANGED <<teller, lookup>> /\ avr.status = "pending"
          /\ avr'.status = "decided" /\ avr'.notice = "pending"
      BY <1>1, <1>3 DEF OwnerDecides, NoticeDocs
    <2> QED BY <1>1, <2>1 DEF SoleInv
  <1>4. CASE NoticeServerStop \/ NoticeTabStop
    <2>1. avr' = avr /\ (lookup' = lookup \/ lookup'.at = "idle")
      BY <1>4 DEF NoticeServerStop, NoticeTabStop
    <2>2. \A p \in Processes : teller'[p] = teller[p] \/ teller'[p].at = "idle"
      BY <1>4 DEF NoticeServerStop, NoticeTabStop, NoticeTypeInv, RestOK, NoTeller
    <2> QED BY <1>1, <2>1, <2>2 DEF SoleInv
  <1> QED BY <1>2, <1>3, <1>4

\* The customer is told once, wherever processes stop and whatever the lookup
\* of the number does meanwhile, unless two pollers had the row in hand.
THEOREM NoticeTheorem == NoticeSpec => []ToldOnce
  <1>1. NoticeTypeInv /\ SoleInv /\ [NoticeNext]_noticeVars => SoleInv'
    <2>1. ASSUME SoleInv, UNCHANGED noticeVars PROVE SoleInv'
      BY <2>1 DEF noticeVars, SoleInv
    <2> QED BY <2>1, FetchSole, TellerSole, LookupSole, OtherSole
            DEF NoticeNext, Telling
  <1>2. NoticeTypeInv /\ SoleInv => ToldOnce
    BY DEF NoticeTypeInv, RestOK, SoleInv, ToldOnce
  <1> QED BY <1>1, <1>2, NoticeInitType, NoticeNextType, InitSole, PTL DEF NoticeSpec

-----------------------------------------------------------------------------
(* BookingApproval: the booking that waits for a tap of the owner.         *)

Statuses == {"pending_approval", "completed", "notification_failed", "approved",
             "rejected"}
Bookings == [status : Statuses, asked : BOOLEAN, promptId : 0..MaxAsks,
             notice : {"none", "pending", "processing", "failed", "sent"},
             retries : 0..MaxRetries, terminal : BOOLEAN, attempted : BOOLEAN,
             told : BOOLEAN, anchored : BOOLEAN]
Clerks == {"waiting", "marking", "closing", "done", "cut", "approved", "rejected"}
Couriers == [at : {"idle", "fetched", "claimed", "sent", "doubted", "missed",
                   "hopeless"},
             says : {"none", "approved", "rejected"}]

AskTypes ==
    /\ asker \in {"idle", "sending", "accepted", "failed"} /\ asks \in 0..MaxAsks
    /\ fate \in [1..MaxAsks -> {"none", "flying", "read", "lost"}]

TapTypes == clerk \in [Taps -> Clerks] /\ itemTaken \in BOOLEAN /\ split \in BOOLEAN

CourierTypes ==
    /\ courier \in Couriers /\ (courier.at # "idle" => courier.says \in Decisions)
    /\ dms \in Nat /\ unseen \in Nat /\ heard \in SUBSET Decisions

FaultTypes == faults \in 0..MaxFaults /\ halts \in 0..MaxHalts

ApprovalTypeInv == bkg \in Bookings /\ AskTypes /\ TapTypes /\ CourierTypes /\ FaultTypes

\* The parts give the type invariant of the module.
LEMMA ApprovalTypeInvGives == ApprovalTypeInv => ApprovalTypeOK
  BY DEF ApprovalTypeInv, AskTypes, TapTypes, CourierTypes, FaultTypes, Bookings,
     Statuses,
         Clerks, Couriers, ApprovalTypeOK, Decisions, InHand, Outcomes

\* The types hold initially.
LEMMA ApprovalInitType == ApprovalInit => ApprovalTypeInv
  <1> SUFFICES ASSUME ApprovalInit PROVE ApprovalTypeInv
    OBVIOUS
  <1>1. bkg \in Bookings
    BY DEF ApprovalInit, Bookings, Statuses
  <1>2. AskTypes
    BY DEF ApprovalInit, AskTypes
  <1>3. TapTypes
    BY DEF ApprovalInit, TapTypes, Clerks
  <1>4. CourierTypes
    BY DEF ApprovalInit, CourierTypes, NoCourier, Couriers
  <1>5. FaultTypes
    BY DEF ApprovalInit, FaultTypes
  <1> QED BY <1>1, <1>2, <1>3, <1>4, <1>5 DEF ApprovalTypeInv

\* The prompts to the owner, and the provider's reports, keep the types.
LEMMA AskType ==
    ASSUME ApprovalTypeInv,
           AskerStep \/ \E n \in 1..MaxAsks : Reported(n)
    PROVE  ApprovalTypeInv'
  <1>1. UNCHANGED <<clerk, itemTaken, split, courier, dms, unseen, heard, halts>>
    BY DEF AskerStep, AskOwner, AskOwnerUnread, OwnerUnknown, AskAccepted,
       AskFailed, AskRecorded, AskUnrecorded, AskGivenUp, Reported, PromptDelivered,
       PromptLost, LossUnrecorded
  <1>2. TapTypes' /\ CourierTypes'
    BY <1>1 DEF ApprovalTypeInv, TapTypes, CourierTypes
  <1>3. FaultTypes'
    BY <1>1 DEF ApprovalTypeInv, FaultTypes, AskerStep, AskOwner, AskOwnerUnread,
       OwnerUnknown, AskAccepted, AskFailed, AskRecorded, AskUnrecorded, AskGivenUp,
       Reported, PromptDelivered, PromptLost, LossUnrecorded, Fault
  <1>4. bkg' \in Bookings
    <2>1. bkg \in Bookings /\ asks \in 0..MaxAsks
      BY DEF ApprovalTypeInv, AskTypes
    <2>2. \/ bkg' = bkg \/ NotificationFailed
          \/ bkg' = [bkg EXCEPT !.asked = TRUE, !.promptId = asks]
          \/ bkg' = [bkg EXCEPT !.asked = TRUE]
          \/ bkg' = [bkg EXCEPT !.promptId = asks]
      BY DEF AskerStep, AskOwner, AskOwnerUnread, OwnerUnknown, AskAccepted,
         AskFailed, AskRecorded, AskUnrecorded, AskGivenUp, Reported,
         PromptDelivered, PromptLost, LossUnrecorded
    <2> QED BY <2>1, <2>2 DEF NotificationFailed, Bookings, Statuses
  <1>5. AskTypes'
    <2>1. AskTypes
      BY DEF ApprovalTypeInv
    <2>2. PromptOut => asks' \in 0..MaxAsks
                       /\ fate' \in [1..MaxAsks -> {"none", "flying", "read", "lost"}]
      BY <2>1 DEF PromptOut, AskTypes
    <2>3. CASE AskerStep
      <3>1. asker' \in {"idle", "sending", "accepted", "failed"}
        BY <2>1, <2>3 DEF AskTypes, AskerStep, AskOwner, AskOwnerUnread,
           OwnerUnknown, AskAccepted, AskFailed, AskRecorded, AskUnrecorded,
           AskGivenUp
      <3>2. PromptOut \/ UNCHANGED <<asks, fate>>
        BY <2>3 DEF AskerStep, AskOwner, AskOwnerUnread, OwnerUnknown, AskAccepted,
           AskFailed, AskRecorded, AskUnrecorded, AskGivenUp
      <3> QED BY <2>1, <2>2, <3>1, <3>2 DEF AskTypes
    <2>4. ASSUME NEW n \in 1..MaxAsks, Reported(n)
          PROVE  AskTypes'
      BY <2>1, <2>4 DEF AskTypes, Reported, PromptDelivered, PromptLost,
         LossUnrecorded
    <2> QED BY <2>3, <2>4
  <1> QED BY <1>2, <1>3, <1>4, <1>5 DEF ApprovalTypeInv

\* The owner's taps keep the types.
LEMMA TapType ==
    ASSUME ApprovalTypeInv, NEW t \in Taps, TapReceived(t) \/ ClerkStep(t)
    PROVE  ApprovalTypeInv'
  <1>1. UNCHANGED <<asker, asks, fate, courier, dms, unseen, heard, halts>>
    BY DEF TapReceived, ClerkStep, TapDecided, ItemMarked, TapClosed, TapFails
  <1>2. AskTypes' /\ CourierTypes'
    BY <1>1 DEF ApprovalTypeInv, AskTypes, CourierTypes
  <1>3. FaultTypes'
    BY <1>1 DEF ApprovalTypeInv, FaultTypes, TapReceived, ClerkStep, TapDecided,
       ItemMarked,
           TapClosed, TapFails, Fault
  <1>4. bkg \in Bookings /\ clerk \in [Taps -> Clerks] /\ itemTaken \in BOOLEAN
        /\ split \in BOOLEAN
    BY DEF ApprovalTypeInv, TapTypes
  <1>5. bkg' \in Bookings
    BY <1>4 DEF TapReceived, ClerkStep, TapDecided, ItemMarked, TapClosed, TapFails,
           InHand, Bookings, Statuses
  <1>6. itemTaken' \in BOOLEAN
    BY <1>4 DEF TapReceived, ClerkStep, TapDecided, ItemMarked, TapClosed, TapFails
  <1>7. split' \in BOOLEAN
    BY <1>4 DEF TapReceived, ClerkStep, TapDecided, ItemMarked, TapClosed, TapFails
  <1>8. clerk' \in [Taps -> Clerks]
    <2>1. CASE TapReceived(t)
      BY <1>4, <2>1 DEF TapReceived, Clerks, Decisions
    <2>2. CASE ClerkStep(t)
      BY <1>4, <2>2 DEF ClerkStep, TapDecided, ItemMarked, TapClosed, TapFails, Clerks
    <2> QED BY <2>1, <2>2
  <1> QED BY <1>2, <1>3, <1>5, <1>6, <1>7, <1>8 DEF ApprovalTypeInv, TapTypes

\* The poller keeps the types: a claim counts a retry while there are any.
LEMMA CourierType ==
    ASSUME ApprovalTypeInv, Couriering
    PROVE  ApprovalTypeInv'
  <1>1. UNCHANGED <<asker, asks, fate, clerk, itemTaken, split, halts>>
    BY DEF Couriering, DmFetched, RetriesExhausted, CourierStep, NothingToReplyTo,
           DmClaimed, DmVerified, DmUnverified, DmNotSent, DmRecorded, DmRecordFails
  <1>2. AskTypes' /\ TapTypes'
    BY <1>1 DEF ApprovalTypeInv, AskTypes, TapTypes
  <1>3. FaultTypes'
    BY <1>1 DEF ApprovalTypeInv, FaultTypes, Couriering, DmFetched, RetriesExhausted,
           CourierStep, NothingToReplyTo, DmClaimed, DmVerified, DmUnverified,
           DmNotSent, DmRecorded, DmRecordFails, Fault
  <1>4. bkg \in Bookings /\ courier \in Couriers /\ dms \in Nat /\ unseen \in Nat
        /\ heard \in SUBSET Decisions
        /\ (courier.at # "idle" => courier.says \in Decisions)
    BY DEF ApprovalTypeInv, CourierTypes
  <1>5. NoCourier \in Couriers
    BY DEF NoCourier, Couriers
  <1>6. courier' \in Couriers /\ (courier'.at # "idle" => courier'.says \in Decisions)
    <2>1. courier' = NoCourier => NoCourier.at = "idle"
      BY DEF NoCourier
    <2>2. CASE DmFetched
      BY <2>2 DEF DmFetched, Couriers, Decisions
    <2>3. CASE RetriesExhausted
      BY <1>4, <2>3 DEF RetriesExhausted
    <2>4. CASE courier' = NoCourier
      BY <1>5, <2>1, <2>4
    <2>5. ASSUME NEW at \in {"claimed", "sent", "doubted", "missed", "hopeless"},
                 courier.at # "idle", courier' = [courier EXCEPT !.at = at]
          PROVE  courier' \in Couriers /\ courier'.says \in Decisions
      BY <1>4, <2>5 DEF Couriers, Decisions
    <2>6. CASE CourierStep
      BY <2>1, <2>4, <2>5, <2>6 DEF CourierStep, NothingToReplyTo, DmClaimed,
             DmVerified, DmUnverified, DmNotSent, DmRecorded, DmRecordFails
    <2> QED BY <2>2, <2>3, <2>6 DEF Couriering
  <1>7. unseen' \in Nat
    BY <1>4 DEF Couriering, DmFetched, RetriesExhausted, CourierStep,
           NothingToReplyTo, DmClaimed, DmVerified, DmUnverified, DmNotSent, DmRecorded,
           DmRecordFails, Unrecorded
  <1>8. dms' \in Nat /\ heard' \in SUBSET Decisions
    <2>1. CASE Delivered /\ courier.says \in Decisions
      BY <1>4, <2>1 DEF Delivered
    <2>2. CASE UNCHANGED <<dms, heard>>
      BY <1>4, <2>2
    <2> QED BY <1>4, <2>1, <2>2 DEF Couriering, DmFetched, RetriesExhausted,
           CourierStep, NothingToReplyTo, DmClaimed, DmVerified, DmUnverified,
           DmNotSent, DmRecorded, DmRecordFails
  <1>9. bkg' \in Bookings
    <2>1. CASE DmFetched \/ DmVerified \/ DmUnverified \/ DmNotSent
      BY <1>4, <2>1 DEF DmFetched, DmVerified, DmUnverified, DmNotSent
    <2>2. CASE RetriesExhausted \/ NothingToReplyTo
      BY <1>4, <2>2 DEF RetriesExhausted, NothingToReplyTo, Bookings
    <2>3. CASE DmClaimed
      <3> DEFINE retries == IF bkg.notice = "failed" THEN bkg.retries + 1 ELSE bkg.retries
                 terminal == bkg.terminal /\ bkg.notice # "failed"
      <3>1. \/ bkg' = bkg
            \/ Claimable /\ bkg' = [bkg EXCEPT !.notice = "processing",
                                               !.retries = retries, !.terminal = terminal]
        BY <2>3 DEF DmClaimed
      <3>2. Claimable => retries \in 0..MaxRetries
        BY <1>4 DEF Claimable, Retryable, Bookings
      <3>3. terminal \in BOOLEAN
        OBVIOUS
      <3> HIDE DEF retries, terminal
      <3> QED BY <1>4, <3>1, <3>2, <3>3 DEF Bookings
    <2>4. CASE DmRecorded
      <3> DEFINE notice == IF courier.at = "sent" THEN "sent" ELSE "failed"
                 terminal == courier.at \in {"doubted", "hopeless"}
                 attempted == courier.at \in {"sent", "doubted"}
                 told == courier.at = "sent"
      <3>1. bkg' = [bkg EXCEPT !.notice = notice, !.terminal = terminal,
                               !.attempted = attempted, !.told = told]
        BY <2>4 DEF DmRecorded
      <3>2. notice \in {"sent", "failed"} /\ terminal \in BOOLEAN
            /\ attempted \in BOOLEAN /\ told \in BOOLEAN
        OBVIOUS
      <3> HIDE DEF notice, terminal, attempted, told
      <3> QED BY <1>4, <3>1, <3>2 DEF Bookings
    <2>5. CASE DmRecordFails
      BY <1>4, <2>5 DEF DmRecordFails, Bookings
    <2> QED BY <2>1, <2>2, <2>3, <2>4, <2>5 DEF Couriering, CourierStep
  <1> QED BY <1>2, <1>3, <1>6, <1>7, <1>8, <1>9 DEF ApprovalTypeInv, CourierTypes

\* Every step keeps the types.
LEMMA ApprovalNextType == ApprovalTypeInv /\ [ApprovalNext]_approvalVars => ApprovalTypeInv'
  <1> SUFFICES ASSUME ApprovalTypeInv, [ApprovalNext]_approvalVars PROVE ApprovalTypeInv'
    OBVIOUS
  <1>1. CASE ServerHalts
    <2>1. bkg' \in Bookings /\ CourierTypes' /\ FaultTypes'
      BY <1>1 DEF ApprovalTypeInv, ServerHalts, CourierTypes, FaultTypes
    <2>2. AskTypes'
      BY <1>1 DEF ApprovalTypeInv, ServerHalts, AskTypes
    <2>3. TapTypes'
      BY <1>1 DEF ApprovalTypeInv, ServerHalts, TapTypes, Clerks
    <2> QED BY <2>1, <2>2, <2>3 DEF ApprovalTypeInv
  <1>2. CASE TabHalts
    <2>1. bkg' \in Bookings /\ TapTypes' /\ AskTypes' /\ FaultTypes'
      BY <1>2 DEF ApprovalTypeInv, TabHalts, TapTypes, AskTypes, FaultTypes
    <2>2. CourierTypes'
      BY <1>2 DEF ApprovalTypeInv, TabHalts, CourierTypes, Unrecorded, NoCourier,
         Couriers
    <2> QED BY <2>1, <2>2 DEF ApprovalTypeInv
  <1>3. CASE Completed
    <2>1. bkg' \in Bookings
      BY <1>3 DEF ApprovalTypeInv, Completed, Bookings, Statuses
    <2>2. TapTypes' /\ AskTypes' /\ FaultTypes' /\ CourierTypes'
      BY <1>3 DEF ApprovalTypeInv, Completed, TapTypes, AskTypes, FaultTypes,
         CourierTypes
    <2> QED BY <2>1, <2>2 DEF ApprovalTypeInv
  <1>4. CASE UNCHANGED approvalVars
    BY <1>4 DEF approvalVars, ApprovalTypeInv, TapTypes, AskTypes, FaultTypes,
       CourierTypes
  <1> QED BY <1>1, <1>2, <1>3, <1>4, AskType, TapType, CourierType DEF ApprovalNext

\* The types of every reachable state.
THEOREM ApprovalTypeCorrect == ApprovalSpec => []ApprovalTypeOK
  BY ApprovalInitType, ApprovalNextType, ApprovalTypeInvGives, PTL DEF ApprovalSpec

-----------------------------------------------------------------------------
(* The number of private replies.                                          *)

\* A reply more than the unrecorded ones is one that the booking has marked,
\* or that the poller is about to mark; a booking without a source to reply
\* to, whose marks are taken back, never gets as far as a reply.
DmInv ==
    /\ dms <= unseen + 1
    /\ ~bkg.told /\ ~bkg.attempted /\ courier.at \notin {"sent", "doubted"} => dms <= unseen
    /\ courier.at \in {"claimed", "missed", "hopeless"} => ~bkg.told /\ ~bkg.attempted
    /\ ~bkg.anchored => courier.at \in {"idle", "fetched"} /\ dms <= unseen

\* It holds initially.
LEMMA InitDm == ApprovalInit => DmInv
  BY DEF ApprovalInit, NoCourier, DmInv

\* The other actors leave the marks alone.
LEMMA OthersDm ==
    ASSUME ApprovalTypeInv, DmInv,
           \/ AskerStep \/ \E n \in 1..MaxAsks : Reported(n)
           \/ \E t \in Taps : TapReceived(t) \/ ClerkStep(t)
           \/ Completed \/ ServerHalts
    PROVE  DmInv'
  <1>1. UNCHANGED <<courier, dms, unseen>>
    BY DEF AskerStep, AskOwner, AskOwnerUnread, OwnerUnknown, AskAccepted,
       AskFailed, AskRecorded, AskUnrecorded, AskGivenUp, Reported, PromptDelivered,
       PromptLost, LossUnrecorded, TapReceived, ClerkStep, TapDecided, ItemMarked,
       TapClosed, TapFails, Completed, ServerHalts
  <1>2. /\ bkg'.told = bkg.told /\ bkg'.attempted = bkg.attempted
        /\ bkg'.anchored = bkg.anchored
    <2>1. bkg \in Bookings
      BY DEF ApprovalTypeInv
    <2>2. CASE AskerStep \/ \E n \in 1..MaxAsks : Reported(n)
      BY <2>1, <2>2 DEF AskerStep, AskOwner, AskOwnerUnread, OwnerUnknown,
         AskAccepted, AskFailed, AskRecorded, AskUnrecorded, AskGivenUp, Reported,
         PromptDelivered, PromptLost, LossUnrecorded, NotificationFailed, Bookings
    <2>3. CASE \E t \in Taps : TapReceived(t) \/ ClerkStep(t)
      BY <2>1, <2>3 DEF TapReceived, ClerkStep, TapDecided, ItemMarked, TapClosed,
         TapFails, Bookings
    <2>4. CASE Completed \/ ServerHalts
      BY <2>1, <2>4 DEF Completed, ServerHalts, Bookings
    <2> QED BY <2>2, <2>3, <2>4
  <1> QED BY <1>1, <1>2 DEF DmInv

\* The poller keeps it.
LEMMA CourierDm ==
    ASSUME ApprovalTypeInv, DmInv, Couriering \/ TabHalts
    PROVE  DmInv'
  <1> USE DEF DmInv
  <1>1. /\ bkg \in Bookings /\ courier \in Couriers /\ dms \in Nat /\ unseen \in Nat
    BY DEF ApprovalTypeInv, CourierTypes
  <1>2. CASE DmFetched
    BY <1>1, <1>2 DEF DmFetched, Couriers
  <1>3. CASE RetriesExhausted
    BY <1>1, <1>3 DEF RetriesExhausted, Bookings
  <1>4. CASE NothingToReplyTo
    BY <1>1, <1>4 DEF NothingToReplyTo, NoCourier, Bookings
  <1>5. CASE DmClaimed
    <2>1. CASE Claimable
      <3>1. /\ bkg'.told = bkg.told /\ bkg'.attempted = bkg.attempted
            /\ bkg'.anchored = bkg.anchored /\ courier'.at = "claimed"
            /\ UNCHANGED <<dms, unseen>>
        BY <1>1, <1>5, <2>1 DEF DmClaimed, Bookings, Couriers
      <3>2. ~bkg.told /\ ~bkg.attempted /\ bkg.anchored /\ courier.at = "fetched"
        BY <1>5, <2>1 DEF DmClaimed, Claimable
      <3> QED BY <3>1, <3>2
    <2>2. CASE ~Claimable
      BY <1>5, <2>2 DEF DmClaimed, NoCourier
    <2> QED BY <2>1, <2>2
  <1>6. CASE DmVerified
    <2>1. /\ courier.at = "claimed" /\ courier'.at = "sent" /\ bkg' = bkg
          /\ dms' = dms + 1 /\ unseen' = unseen
      BY <1>1, <1>6 DEF DmVerified, Delivered, Couriers
    <2> QED BY <1>1, <2>1
  <1>7. CASE DmUnverified
    <2>1. /\ courier.at = "claimed" /\ courier'.at = "doubted" /\ bkg' = bkg
          /\ dms' = dms + 1 \/ dms' = dms
          /\ unseen' = unseen
      BY <1>1, <1>7 DEF DmUnverified, Delivered, Couriers
    <2> QED BY <1>1, <2>1
  <1>8. CASE DmNotSent
    <2>1. /\ courier.at = "claimed" /\ courier'.at \in {"missed", "hopeless"}
          /\ UNCHANGED <<bkg, dms, unseen>>
      BY <1>1, <1>8 DEF DmNotSent, Couriers
    <2> QED BY <1>1, <2>1
  <1>9. CASE DmRecorded
    <2>1. /\ courier.at \in Outcomes /\ courier'.at = "idle" /\ UNCHANGED <<dms, unseen>>
          /\ bkg'.anchored = bkg.anchored
          /\ (~bkg'.told /\ ~bkg'.attempted) => courier.at \in {"missed", "hopeless"}
      BY <1>1, <1>9 DEF DmRecorded, Outcomes, NoCourier, Bookings
    <2> QED BY <1>1, <2>1 DEF Outcomes
  <1>10. CASE DmRecordFails
    <2>1. /\ courier.at \in Outcomes /\ courier'.at = "idle" /\ dms' = dms
          /\ bkg'.anchored = bkg.anchored
          /\ unseen' = unseen + IF courier.at \in {"sent", "doubted"} THEN 1 ELSE 0
      BY <1>1, <1>10 DEF DmRecordFails, Unrecorded, NoCourier, Bookings
    <2> QED BY <1>1, <2>1 DEF Outcomes
  <1>11. CASE TabHalts
    <2>1. /\ courier'.at = "idle" /\ dms' = dms /\ bkg' = bkg
          /\ unseen' = unseen + IF courier.at \in {"sent", "doubted"} THEN 1 ELSE 0
      BY <1>11 DEF TabHalts, Unrecorded, NoCourier
    <2> QED BY <1>1, <2>1
  <1> QED BY <1>2, <1>3, <1>4, <1>5, <1>6, <1>7, <1>8, <1>9, <1>10, <1>11
          DEF Couriering, CourierStep

\* The customer gets at most one private reply more than the sends whose
\* outcome was never recorded, whatever taps, retries and stops do.
THEOREM DmTheorem == ApprovalSpec => []OneDm
  <1>1. ApprovalTypeInv /\ DmInv /\ [ApprovalNext]_approvalVars => DmInv'
    <2>1. ASSUME DmInv, UNCHANGED approvalVars PROVE DmInv'
      BY <2>1 DEF DmInv, approvalVars
    <2> QED BY <2>1, OthersDm, CourierDm DEF ApprovalNext
  <1>2. DmInv => OneDm
    BY DEF DmInv, OneDm
  <1> QED BY <1>1, <1>2, ApprovalInitType, ApprovalNextType, InitDm,
     PTL DEF ApprovalSpec

-----------------------------------------------------------------------------
(* One decision.                                                           *)

\* As long as no two taps were in hand at once: one tap at most is to write
\* its decision, and before it has, nothing was decided, told or taken; then
\* everything told, being told, or taken agrees with the booking.
DecisionInv ==
    ~split =>
    /\ \A t, u \in Taps : clerk[t] \in Decisions /\ clerk[u] \in Decisions => t = u
    /\ (bkg.status = "pending_approval" \/ \E t \in Taps : clerk[t] \in Decisions) =>
          /\ bkg.status \in {"pending_approval", "notification_failed"}
          /\ courier.at = "idle" /\ heard = {} /\ ~itemTaken
    /\ bkg.status \in Decisions =>
          /\ heard \subseteq {bkg.status}
          /\ courier.at # "idle" => courier.says = bkg.status
    /\ bkg.status = "rejected" => ~itemTaken

\* It holds initially.
LEMMA InitDecision == ApprovalInit => DecisionInv
  BY DEF ApprovalInit, DecisionInv, NoCourier, Decisions

\* The prompts and the provider's reports decide nothing.
LEMMA AskDecision ==
    ASSUME ApprovalTypeInv, DecisionInv,
           AskerStep \/ \E n \in 1..MaxAsks : Reported(n)
    PROVE  DecisionInv'
  <1>1. UNCHANGED <<clerk, itemTaken, split, courier, heard>>
    BY DEF AskerStep, AskOwner, AskOwnerUnread, OwnerUnknown, AskAccepted,
       AskFailed, AskRecorded, AskUnrecorded, AskGivenUp, Reported, PromptDelivered,
       PromptLost, LossUnrecorded
  <1>2. bkg'.status \in {bkg.status, "notification_failed"}
    BY DEF ApprovalTypeInv, AskerStep, AskOwner, AskOwnerUnread, OwnerUnknown,
       AskAccepted, AskFailed, AskRecorded, AskUnrecorded, AskGivenUp, Reported,
       PromptDelivered, PromptLost, LossUnrecorded, NotificationFailed, Bookings
  <1> QED BY <1>1, <1>2 DEF DecisionInv, Decisions

\* A tap is received while nothing is decided, or does nothing.
LEMMA ReceivedDecision ==
    ASSUME ApprovalTypeInv, DecisionInv, NEW t \in Taps, TapReceived(t)
    PROVE  DecisionInv'
  <1>1. UNCHANGED <<bkg, itemTaken, courier, heard>> /\ clerk \in [Taps -> Clerks]
    BY DEF TapReceived, ApprovalTypeInv, TapTypes
  <1>2. CASE Undecided
    <2>1. SUFFICES ASSUME ~split' PROVE DecisionInv'
      BY DEF DecisionInv
    <2>2. ~split /\ \A u \in Taps \ {t} : clerk[u] \notin Decisions
      BY <1>2, <2>1 DEF TapReceived, InHand, Decisions
    <2>3. \A u \in Taps \ {t} : clerk'[u] \notin Decisions
      BY <1>1, <2>2 DEF TapReceived
    <2> QED BY <1>1, <1>2, <2>2, <2>3 DEF DecisionInv, Undecided, Decisions
  <1>3. CASE ~Undecided
    <2>1. split' = split
      BY <1>3 DEF TapReceived, ApprovalTypeInv, TapTypes
    <2>2. \A u \in Taps : clerk'[u] \in Decisions => clerk[u] \in Decisions
      BY <1>1, <1>3 DEF TapReceived, Decisions
    <2> QED BY <1>1, <2>1, <2>2 DEF DecisionInv
  <1> QED BY <1>2, <1>3

\* A tap writes the only decision there is.
LEMMA TapDecision ==
    ASSUME ApprovalTypeInv, DecisionInv, NEW t \in Taps, ClerkStep(t)
    PROVE  DecisionInv'
  <1>1. /\ UNCHANGED <<courier, heard, split>> /\ clerk \in [Taps -> Clerks]
        /\ bkg \in Bookings
    BY DEF ClerkStep, TapDecided, ItemMarked, TapClosed, TapFails, ApprovalTypeInv,
       TapTypes
  <1>2. SUFFICES ASSUME ~split PROVE DecisionInv'
    BY <1>1 DEF DecisionInv
  <1>3. \A u \in Taps : clerk'[u] \in Decisions => clerk[u] \in Decisions
    BY <1>1 DEF ClerkStep, TapDecided, ItemMarked, TapClosed, TapFails, Decisions
  <1>4. CASE TapDecided(t)
    <2>1. clerk[t] \in Decisions /\ bkg'.status = clerk[t] /\ itemTaken' = itemTaken
      BY <1>1, <1>4 DEF TapDecided, InHand, Decisions, Bookings
    <2>2. courier.at = "idle" /\ heard = {} /\ ~itemTaken
      BY <1>2, <2>1 DEF DecisionInv
    <2>3. \A u \in Taps : clerk'[u] \notin Decisions
      <3>1. clerk'[t] \notin Decisions
        BY <1>1, <1>4 DEF TapDecided, Decisions
      <3>2. ASSUME NEW u \in Taps, clerk'[u] \in Decisions PROVE FALSE
        <4>1. u = t
          BY <1>2, <1>3, <2>1, <3>2 DEF DecisionInv
        <4> QED BY <3>1, <3>2, <4>1
      <3> QED BY <3>2
    <2> QED BY <1>1, <2>1, <2>2, <2>3 DEF DecisionInv, Decisions
  <1>5. CASE ItemMarked(t)
    <2>1. bkg' = bkg /\ itemTaken' = (itemTaken \/ bkg.status = "approved")
      BY <1>5 DEF ItemMarked
    <2> QED BY <1>1, <1>2, <1>3, <2>1 DEF DecisionInv
  <1>6. CASE TapClosed(t) \/ TapFails(t)
    <2>1. bkg'.status = bkg.status /\ itemTaken' = itemTaken
      BY <1>1, <1>6 DEF TapClosed, TapFails, Bookings
    <2> QED BY <1>1, <1>2, <1>3, <2>1 DEF DecisionInv
  <1> QED BY <1>4, <1>5, <1>6 DEF ClerkStep

\* The poller tells what it read, which the booking still says.
LEMMA CourierDecision ==
    ASSUME ApprovalTypeInv, DecisionInv, Couriering
    PROVE  DecisionInv'
  <1>1. /\ UNCHANGED <<clerk, itemTaken, split>>
        /\ bkg \in Bookings /\ courier \in Couriers
    BY DEF ApprovalTypeInv, CourierTypes, Couriering, DmFetched, RetriesExhausted,
       CourierStep,
           NothingToReplyTo, DmClaimed, DmVerified, DmUnverified, DmNotSent, DmRecorded,
           DmRecordFails
  <1>2. SUFFICES ASSUME ~split PROVE DecisionInv'
    BY <1>1 DEF DecisionInv
  <1>3. bkg'.status = bkg.status
    BY <1>1 DEF Couriering, DmFetched, RetriesExhausted, CourierStep,
           NothingToReplyTo, DmClaimed, DmVerified, DmUnverified, DmNotSent, DmRecorded,
           DmRecordFails, Bookings
  <1>4. CASE DmFetched
    <2>1. bkg.status \in Decisions /\ courier'.says = bkg.status /\ heard' = heard
      BY <1>4 DEF DmFetched
    <2>2. bkg.status # "pending_approval" /\ \A t \in Taps : clerk[t] \notin Decisions
      BY <1>2, <2>1 DEF DecisionInv, Decisions
    <2> QED BY <1>1, <1>2, <1>3, <2>1, <2>2 DEF DecisionInv
  <1>5. ASSUME courier'.at = "idle" \/ courier.at # "idle",
               courier'.at = "idle" \/ courier'.says = courier.says,
               \/ heard' = heard
               \/ courier.at # "idle" /\ heard' = heard \union {courier.says}
        PROVE  DecisionInv'
    BY <1>1, <1>2, <1>3, <1>5 DEF DecisionInv
  <1>6. CASE RetriesExhausted
    <2>1. courier.at = "idle" /\ courier' = courier /\ heard' = heard
      BY <1>6 DEF RetriesExhausted
    <2>2. courier'.at = "idle"
      BY <2>1
    <2> QED BY <1>5, <2>1, <2>2
  <1>7. CASE CourierStep
    <2>1. courier.at # "idle"
      BY <1>7 DEF CourierStep, NothingToReplyTo, DmClaimed, DmVerified,
           DmUnverified, DmNotSent, DmRecorded, DmRecordFails, Outcomes
    <2>2. courier'.at = "idle" \/ courier'.says = courier.says
      <3> DEFINE Kept == courier'.at = "idle" \/ courier'.says = courier.says
      <3>1. courier' = NoCourier => Kept
        BY DEF NoCourier
      <3>2. ASSUME NEW at, courier' = [courier EXCEPT !.at = at]
            PROVE  Kept
        BY <1>1, <3>2 DEF Couriers
      <3> HIDE DEF Kept
      <3>3. NothingToReplyTo \/ DmRecorded \/ DmRecordFails => Kept
        BY <3>1 DEF NothingToReplyTo, DmRecorded, DmRecordFails
      <3>4. DmClaimed \/ DmVerified \/ DmUnverified \/ DmNotSent => Kept
        BY <3>1, <3>2 DEF DmClaimed, DmVerified, DmUnverified, DmNotSent
      <3> QED BY <1>7, <3>3, <3>4 DEF CourierStep, Kept
    <2>3. heard' = heard \/ heard' = heard \union {courier.says}
      <3>1. CASE Delivered
        BY <3>1 DEF Delivered
      <3>2. CASE ~Delivered
        BY <1>7, <3>2 DEF CourierStep, NothingToReplyTo, DmClaimed, DmVerified,
             DmUnverified, DmNotSent, DmRecorded, DmRecordFails
      <3> QED BY <3>1, <3>2
    <2> QED BY <1>5, <2>1, <2>2, <2>3
  <1> QED BY <1>4, <1>6, <1>7 DEF Couriering

\* What the customer was told, and the item taken off the market, agree with
\* the booking unless two taps were handled at the same time.
THEOREM DecisionTheorem == ApprovalSpec => []OneDecision
  <1>1. ApprovalTypeInv /\ DecisionInv /\ [ApprovalNext]_approvalVars => DecisionInv'
    <2> SUFFICES ASSUME ApprovalTypeInv, DecisionInv, [ApprovalNext]_approvalVars
                 PROVE  DecisionInv'
      OBVIOUS
    <2>1. CASE Completed
      <3>1. /\ UNCHANGED <<itemTaken, clerk, courier, heard, split>>
            /\ bkg.status = "approved" /\ bkg'.status = "completed"
        BY <2>1 DEF Completed, ApprovalTypeInv, Bookings
      <3> QED BY <3>1 DEF DecisionInv, Decisions
    <2>2. CASE ServerHalts
      <3>1. UNCHANGED <<bkg, itemTaken, courier, heard, split>>
        BY <2>2 DEF ServerHalts
      <3>2. \A t \in Taps : clerk'[t] \notin Decisions \/ clerk'[t] = clerk[t]
        BY <2>2 DEF ServerHalts, Decisions
      <3> QED BY <3>1, <3>2 DEF DecisionInv
    <2>3. CASE TabHalts
      <3>1. UNCHANGED <<bkg, itemTaken, clerk, heard, split>> /\ courier'.at = "idle"
        BY <2>3 DEF TabHalts, NoCourier
      <3> QED BY <3>1 DEF DecisionInv
    <2>4. CASE UNCHANGED approvalVars
      BY <2>4 DEF approvalVars, DecisionInv
    <2> QED BY <2>1, <2>2, <2>3, <2>4, AskDecision, ReceivedDecision, TapDecision,
               CourierDecision DEF ApprovalNext
  <1>2. ApprovalTypeInv /\ DecisionInv => OneDecision
    BY DEF ApprovalTypeInv, CourierTypes, Bookings, Statuses, DecisionInv, OneDecision,
           Decisions
  <1> QED BY <1>1, <1>2, ApprovalInitType, ApprovalNextType, InitDecision,
     PTL DEF ApprovalSpec

-----------------------------------------------------------------------------
(* Reports about the prompt, as long as nothing fails and nothing stops.   *)

\* There is one prompt at most, it is in the index, and the owner can tap
\* only when it was delivered, after which it is not reported lost.
ApprovalPromptInv ==
    faults = 0 /\ halts = 0 =>
    /\ asker # "failed"
    /\ asker \in {"idle", "sending"} /\ ~bkg.asked => asks = 0
    /\ asker = "accepted" \/ bkg.asked => asks = 1
    /\ asker # "idle" => ~bkg.asked
    /\ \A n \in 1..MaxAsks : fate[n] # "none" => n <= asks
    /\ (\E t \in Taps : clerk[t] # "waiting") => \E n \in 1..MaxAsks : fate[n] = "read"
    /\ bkg.promptId # 0 => bkg.asked
    /\ bkg.status = "notification_failed" =>
          bkg.asked /\ \A n \in 1..MaxAsks : fate[n] \notin {"flying", "read"}

\* It holds initially.
LEMMA ApprovalInitPrompt == ApprovalInit => ApprovalPromptInv
  BY DEF ApprovalInit, ApprovalPromptInv

\* The asker keeps it: every way to a second prompt passes a failure or a stop.
LEMMA AskPrompt ==
    ASSUME ApprovalTypeInv, ApprovalPromptInv, AskerStep
    PROVE  ApprovalPromptInv'
  <1>1. bkg \in Bookings /\ AskTypes /\ faults \in Nat /\ halts' = halts /\ clerk' = clerk
    BY DEF ApprovalTypeInv, FaultTypes, AskerStep, AskOwner, AskOwnerUnread,
       OwnerUnknown, AskAccepted, AskFailed, AskRecorded, AskUnrecorded, AskGivenUp
  <1>2. CASE AskOwnerUnread \/ OwnerUnknown \/ AskFailed \/ AskUnrecorded
    BY <1>1, <1>2 DEF AskOwnerUnread, OwnerUnknown, AskFailed, AskUnrecorded, Fault,
       ApprovalPromptInv
  <1>3. CASE AskGivenUp
    BY <1>3 DEF AskGivenUp, ApprovalPromptInv
  <1>4. CASE AskOwner
    BY <1>1, <1>4 DEF AskOwner, MayAsk, ApprovalPromptInv
  <1>5. CASE AskRecorded
    <2>1. /\ bkg'.asked /\ bkg'.status = bkg.status /\ asker = "accepted"
          /\ asker' = "idle" /\ UNCHANGED <<asks, fate, faults>>
      BY <1>1, <1>5 DEF AskRecorded, Bookings
    <2> QED BY <1>1, <2>1 DEF ApprovalPromptInv
  <1>6. CASE AskAccepted
    <2>1. SUFFICES ASSUME faults = 0, halts = 0 PROVE ApprovalPromptInv'
      BY <1>1, <1>6 DEF AskAccepted, ApprovalPromptInv
    <2>2. asks = 0 /\ ~bkg.asked /\ asker = "sending"
      BY <1>6, <2>1 DEF AskAccepted, ApprovalPromptInv
    <2>3. \A n \in 1..MaxAsks : fate[n] = "none"
      BY <2>1, <2>2 DEF ApprovalPromptInv
    <2>4. asks' = 1 /\ asker' = "accepted" /\ bkg' = bkg /\ MaxAsks >= 1
      BY <1>6, <2>2 DEF AskAccepted, PromptOut
    <2>5. \A n \in 1..MaxAsks : fate'[n] = IF n = 1 THEN "flying" ELSE "none"
      BY <1>1, <1>6, <2>2, <2>3 DEF AskAccepted, PromptOut, AskTypes
    <2> QED BY <1>1, <2>1, <2>2, <2>3, <2>4, <2>5 DEF ApprovalPromptInv
  <1> QED BY <1>2, <1>3, <1>4, <1>5, <1>6 DEF AskerStep

\* So do the provider's reports: the one prompt is read or lost, never both.
LEMMA ReportPrompt ==
    ASSUME ApprovalTypeInv, ApprovalPromptInv, NEW n \in 1..MaxAsks, Reported(n)
    PROVE  ApprovalPromptInv'
  <1>1. /\ bkg \in Bookings /\ AskTypes /\ fate[n] = "flying"
        /\ UNCHANGED <<asker, asks, halts, clerk>>
        /\ LossUnrecorded(n) \/ faults' = faults
        /\ LossUnrecorded(n) => faults' = faults + 1
        /\ faults \in Nat
    BY DEF ApprovalTypeInv, FaultTypes, Reported, PromptDelivered, PromptLost,
       LossUnrecorded, Fault
  <1>2. SUFFICES ASSUME faults = 0, halts = 0, ~LossUnrecorded(n)
                 PROVE  ApprovalPromptInv'
    BY <1>1 DEF ApprovalPromptInv
  <1>3. asks \in Nat /\ asks <= 1 /\ \A m \in 1..MaxAsks : fate[m] # "none" => m <= asks
    BY <1>1, <1>2 DEF ApprovalPromptInv, AskTypes
  <1>4. \A m \in 1..MaxAsks \ {n} : fate[m] = "none" /\ fate'[m] = "none"
    <2> SUFFICES ASSUME NEW m \in 1..MaxAsks, m # n
                 PROVE  fate[m] = "none" /\ fate'[m] = "none"
      OBVIOUS
    <2>1. n = 1
      BY <1>1, <1>3
    <2>2. fate[m] = "none"
      BY <1>3, <2>1
    <2>3. fate'[m] = fate[m]
      BY <1>1, <1>2 DEF Reported, PromptDelivered, PromptLost, AskTypes
    <2> QED BY <2>2, <2>3
  <1>5. \A t \in Taps : clerk[t] = "waiting"
    <2>1. \A m \in 1..MaxAsks : fate[m] # "read"
      BY <1>1, <1>4
    <2> QED BY <1>2, <2>1 DEF ApprovalPromptInv
  <1>6. bkg'.asked = bkg.asked
    BY <1>1, <1>2 DEF Reported, PromptDelivered, PromptLost, NotificationFailed,
       Bookings
  <1>7. CASE PromptLost(n)
    <2>1. fate'[n] = "lost"
      BY <1>1, <1>7 DEF PromptLost, AskTypes
    <2>2. \A m \in 1..MaxAsks : fate'[m] \notin {"flying", "read"}
                                  /\ (fate'[m] # "none" => m <= asks)
      BY <1>1, <1>3, <1>4, <2>1
    <2>3. bkg'.promptId = bkg.promptId
      BY <1>1, <1>7 DEF PromptLost, NotificationFailed, Bookings
    <2>4. bkg'.status = "notification_failed" => bkg'.asked
      <3>1. bkg.promptId = n => bkg.asked
        BY <1>2 DEF ApprovalPromptInv
      <3>2. bkg.status = "notification_failed" => bkg.asked
        BY <1>2 DEF ApprovalPromptInv
      <3> QED BY <1>6, <1>7, <3>1, <3>2 DEF PromptLost
    <2> QED BY <1>1, <1>2, <1>5, <1>6, <2>2, <2>3, <2>4 DEF ApprovalPromptInv
  <1>8. CASE PromptDelivered(n)
    <2>1. fate'[n] = "read" /\ bkg' = bkg /\ bkg.status # "notification_failed"
      BY <1>1, <1>2, <1>8 DEF PromptDelivered, AskTypes, ApprovalPromptInv
    <2> QED BY <1>1, <1>2, <1>3, <1>4, <1>5, <2>1 DEF ApprovalPromptInv
  <1> QED BY <1>2, <1>7, <1>8 DEF Reported

\* A tap needs a prompt that was delivered.
LEMMA TapPrompt ==
    ASSUME ApprovalTypeInv, ApprovalPromptInv, NEW t \in Taps, TapReceived(t) \/ ClerkStep(t)
    PROVE  ApprovalPromptInv'
  <1>1. /\ bkg \in Bookings /\ clerk \in [Taps -> Clerks] /\ faults \in Nat
        /\ UNCHANGED <<asker, asks, fate, halts>>
    BY DEF ApprovalTypeInv, TapTypes, FaultTypes, TapReceived, ClerkStep, TapDecided,
           ItemMarked, TapClosed, TapFails
  <1>2. bkg'.asked = bkg.asked /\ bkg'.promptId = bkg.promptId
    BY <1>1 DEF TapReceived, ClerkStep, TapDecided, ItemMarked, TapClosed, TapFails,
           Bookings
  <1>3. bkg'.status # "notification_failed" \/ bkg'.status = bkg.status
    BY <1>1 DEF TapReceived, ClerkStep, TapDecided, ItemMarked, TapClosed, TapFails,
           InHand, Bookings
  <1>4. CASE TapReceived(t)
    BY <1>1, <1>2, <1>3, <1>4 DEF TapReceived, ApprovalPromptInv
  <1>5. CASE ClerkStep(t)
    <2>1. clerk[t] # "waiting"
      BY <1>5 DEF ClerkStep, TapDecided, ItemMarked, TapClosed, TapFails, InHand
    <2>2. \A u \in Taps : clerk'[u] # "waiting" => clerk[u] # "waiting"
      BY <1>1, <1>5, <2>1 DEF ClerkStep, TapDecided, ItemMarked, TapClosed, TapFails
    <2>3. faults' = 0 => faults = 0
      BY <1>1, <1>5 DEF ClerkStep, TapDecided, ItemMarked, TapClosed, TapFails, Fault
    <2> QED BY <1>1, <1>2, <1>3, <2>2, <2>3 DEF ApprovalPromptInv
  <1> QED BY <1>4, <1>5

\* The poller has no part in it.
LEMMA CourierPrompt ==
    ASSUME ApprovalTypeInv, ApprovalPromptInv, Couriering \/ Completed
    PROVE  ApprovalPromptInv'
  <1>1. /\ bkg \in Bookings /\ faults \in Nat
        /\ UNCHANGED <<asker, asks, fate, halts, clerk>>
    BY DEF ApprovalTypeInv, FaultTypes, Completed, Couriering, DmFetched,
       RetriesExhausted,
           CourierStep, NothingToReplyTo, DmClaimed, DmVerified, DmUnverified,
           DmNotSent, DmRecorded, DmRecordFails
  <1>2. /\ bkg'.asked = bkg.asked /\ bkg'.promptId = bkg.promptId
        /\ bkg'.status = bkg.status \/ bkg'.status = "completed"
    BY <1>1 DEF Completed, Couriering, DmFetched, RetriesExhausted,
           CourierStep, NothingToReplyTo, DmClaimed, DmVerified, DmUnverified,
           DmNotSent, DmRecorded, DmRecordFails, Bookings
  <1>3. faults' = 0 => faults = 0
    BY <1>1 DEF Completed, Couriering, DmFetched, RetriesExhausted,
           CourierStep, NothingToReplyTo, DmClaimed, DmVerified, DmUnverified,
           DmNotSent, DmRecorded, DmRecordFails, Fault
  <1> QED BY <1>1, <1>2, <1>3 DEF ApprovalPromptInv

\* As long as no call fails and no process stops, no report takes a decision
\* back.
THEOREM StandsTheorem == ApprovalSpec => []DecisionStands
  <1>1. ApprovalTypeInv /\ ApprovalPromptInv /\ [ApprovalNext]_approvalVars => ApprovalPromptInv'
    <2> SUFFICES ASSUME ApprovalTypeInv, ApprovalPromptInv, [ApprovalNext]_approvalVars
                 PROVE  ApprovalPromptInv'
      OBVIOUS
    <2>1. CASE ServerHalts \/ TabHalts
      BY <2>1 DEF ServerHalts, TabHalts, ApprovalTypeInv, FaultTypes, ApprovalPromptInv
    <2>2. CASE UNCHANGED approvalVars
      BY <2>2 DEF approvalVars, ApprovalPromptInv
    <2> QED BY <2>1, <2>2, AskPrompt, ReportPrompt, TapPrompt, CourierPrompt
            DEF ApprovalNext
  <1>2. ApprovalTypeInv /\ ApprovalPromptInv => DecisionStands
    BY DEF ApprovalTypeInv, FaultTypes, ApprovalPromptInv, DecisionStands
  <1> QED BY <1>1, <1>2, ApprovalInitType, ApprovalNextType, ApprovalInitPrompt,
     PTL DEF ApprovalSpec

-----------------------------------------------------------------------------
(* MissingInfo: the question that waits for the owner's answer.            *)

MiDocs ==
    [status : {"none"} \union Open \union PostAnswer,
     notify : {"not_started", "sending", "sent", "failed"},
     wamid : Nat, answer : OwnerMsgs \union {NoMsg},
     asked : OwnerMsgs \union {NoMsg}, unasked : BOOLEAN,
     explained : CustMsgs \union {NoMsg},
     relay : {"none", "sent", "failed"}, expired : BOOLEAN]
TurnRecs == [at : Steps \union {"idle"},
             msg : OwnerMsgs \union CustMsgs \union {NoMsg}, id : Nat]

PostTypes ==
    /\ mail \in Nat /\ board \subseteq 1..mail
    /\ quoted \in [OwnerMsgs -> Nat]
    /\ written \subseteq OwnerMsgs \union CustMsgs /\ inbox \subseteq written

CountTypes ==
    /\ questions \in 0..MaxQuestions /\ failures \in 0..MaxFailures
    /\ steals \in 0..MaxSteals /\ restarts \in 0..MaxRestarts
    /\ followups \in Nat /\ dropped \in BOOLEAN

\* A turn works on a message of the one who wrote it.
TurnTypes ==
    /\ turn \in [Turns -> TurnRecs]
    /\ \A t \in Turns :
          /\ turn[t].at \in {"classifying", "final", "answering", "clarification",
                             "clarifying"} => turn[t].msg \in OwnerMsgs
          /\ turn[t].at = "explaining" => turn[t].msg \in CustMsgs

MiTypeInv == mi \in MiDocs /\ TurnTypes /\ PostTypes /\ CountTypes

\* The parts give the type invariant of the module.
LEMMA MiTypeInvGives == MiTypeInv => MiTypeOK
  BY DEF MiTypeInv, TurnTypes, PostTypes, CountTypes, MiDocs, TurnRecs, MiTypeOK

\* The types hold initially.
LEMMA MiInitType == MiInit => MiTypeInv
  <1> SUFFICES ASSUME MiInit PROVE MiTypeInv
    OBVIOUS
  <1>1. mi \in MiDocs
    BY DEF MiInit, MiDocs
  <1>2. TurnTypes
    BY DEF MiInit, TurnTypes, TurnRecs, NoTurn
  <1>3. PostTypes
    BY DEF MiInit, PostTypes
  <1>4. CountTypes
    <2>1. dropped \in BOOLEAN
      BY Zenon DEF MiInit
    <2> QED BY <2>1, QuestionBounds DEF MiInit, CountTypes
  <1> QED BY <1>1, <1>2, <1>3, <1>4 DEF MiTypeInv

\* What a step does to its own turn.
LEMMA MovesType ==
    ASSUME MiTypeInv, NEW t \in Turns, NEW at \in Steps, Moves(t, at),
           at \in {"final", "answering", "clarification", "clarifying"} =>
               turn[t].msg \in OwnerMsgs,
           at \notin {"classifying", "explaining"}
    PROVE  TurnTypes'
  <1>1. turn \in [Turns -> TurnRecs]
    BY DEF MiTypeInv, TurnTypes
  <1>2. turn' = [turn EXCEPT ![t] = [turn[t] EXCEPT !.at = at]]
    BY <1>1 DEF Moves
  <1>3. turn' \in [Turns -> TurnRecs]
    BY <1>1, <1>2 DEF TurnRecs
  <1>4. turn'[t].at = at /\ turn'[t].msg = turn[t].msg
    BY <1>1, <1>2 DEF TurnRecs
  <1>5. \A u \in Turns \ {t} : turn'[u] = turn[u]
    BY <1>1, <1>2
  <1> QED BY <1>3, <1>4, <1>5 DEF MiTypeInv, TurnTypes

\* A turn that ends is idle.
LEMMA EndsType ==
    ASSUME MiTypeInv, NEW t \in Turns, Ends(t)
    PROVE  TurnTypes'
  <1>1. turn \in [Turns -> TurnRecs] /\ NoTurn \in TurnRecs /\ NoTurn.at = "idle"
    BY DEF MiTypeInv, TurnTypes, TurnRecs, NoTurn
  <1> QED BY <1>1 DEF Ends, MiTypeInv, TurnTypes

\* A turn that begins knows the message it is about.
LEMMA BeginsType ==
    ASSUME MiTypeInv, NEW t \in Turns,
           NEW at \in {"found", "classifying", "relaying", "explaining"},
           NEW msg \in OwnerMsgs \union CustMsgs \union {NoMsg}, Begins(t, at, msg),
           at = "classifying" => msg \in OwnerMsgs,
           at = "explaining" => msg \in CustMsgs
    PROVE  TurnTypes' /\ steals' \in 0..MaxSteals
  <1> DEFINE new == [at |-> at, msg |-> msg, id |-> 0]
  <1>1. turn \in [Turns -> TurnRecs] /\ turn' = [turn EXCEPT ![t] = new]
    BY DEF MiTypeInv, TurnTypes, Begins
  <1>2. new \in TurnRecs
    BY DEF TurnRecs, Steps
  <1>3. new.at = at /\ new.msg = msg
    OBVIOUS
  <1> HIDE DEF new
  <1>4. TurnTypes'
    BY <1>1, <1>2, <1>3 DEF MiTypeInv, TurnTypes
  <1>5. steals' \in 0..MaxSteals
    BY DEF Begins, MiTypeInv, CountTypes
  <1> QED BY <1>4, <1>5

\* A message to the owner gets the next id.
LEMMA MailsType ==
    ASSUME MiTypeInv, NEW t \in Turns, NEW at \in {"notified", "relayed"}, Mails(t, at),
           UNCHANGED <<quoted, written, inbox>>
    PROVE  TurnTypes' /\ PostTypes'
  <1> DEFINE id == mail + 1
             new == [turn[t] EXCEPT !.at = at, !.id = id]
  <1>1. turn \in [Turns -> TurnRecs] /\ id \in Nat
    BY DEF MiTypeInv, TurnTypes, PostTypes
  <1>2. turn' = [turn EXCEPT ![t] = new]
    BY <1>1 DEF Mails
  <1> HIDE DEF id
  <1>3. new \in TurnRecs /\ new.at = at
    BY <1>1 DEF TurnRecs, Steps
  <1> HIDE DEF new
  <1>4. TurnTypes'
    BY <1>1, <1>2, <1>3 DEF MiTypeInv, TurnTypes
  <1>5. PostTypes'
    BY DEF MiTypeInv, PostTypes, Mails
  <1> QED BY <1>4, <1>5

\* One that fails may be out or not.
LEMMA MailFailsType ==
    ASSUME MiTypeInv, NEW t \in Turns, NEW at \in {"notified", "unrelayed"},
           MailFails(t, at), UNCHANGED <<quoted, written, inbox>>
    PROVE  TurnTypes' /\ PostTypes' /\ failures' \in 0..MaxFailures
  <1>1. TurnTypes'
    BY MovesType DEF MailFails, Steps
  <1>2. PostTypes'
    <2>1. mail \in Nat /\ board \subseteq 1..mail
      BY DEF MiTypeInv, PostTypes
    <2>2. mail' \in Nat /\ board' \subseteq 1..mail'
      <3>1. CASE mail' = mail + 1 /\ board' = board \union {mail + 1}
        BY <2>1, <3>1
      <3>2. CASE UNCHANGED <<mail, board>>
        BY <2>1, <3>2
      <3> QED BY <3>1, <3>2 DEF MailFails
    <2> QED BY <2>2 DEF MiTypeInv, PostTypes
  <1>3. failures' \in 0..MaxFailures
    BY DEF MiTypeInv, CountTypes, MailFails, Failure
  <1> QED BY <1>1, <1>2, <1>3

\* The document stays typed under what one field takes.
LEMMA DocType ==
    ASSUME mi \in MiDocs
    PROVE  /\ \A s \in Open \union PostAnswer : [mi EXCEPT !.status = s] \in MiDocs
           /\ \A n \in {"not_started", "sending", "sent", "failed"} :
                 [mi EXCEPT !.notify = n] \in MiDocs
           /\ \A s \in Open \union PostAnswer, o \in OwnerMsgs :
                 [mi EXCEPT !.status = s, !.answer = o] \in MiDocs
           /\ \A o \in OwnerMsgs : [mi EXCEPT !.asked = o, !.unasked = FALSE] \in MiDocs
           /\ [mi EXCEPT !.status = "awaiting", !.explained = NoMsg, !.relay = "none"]
                 \in MiDocs
           /\ [mi EXCEPT !.status = "owner_notified", !.unasked = TRUE] \in MiDocs
           /\ \A c \in CustMsgs : [mi EXCEPT !.explained = c, !.relay = "none"] \in MiDocs
           /\ [mi EXCEPT !.status = "awaiting", !.relay = "failed"] \in MiDocs
           /\ [mi EXCEPT !.status = "failed", !.notify = "failed"] \in MiDocs
           /\ [mi EXCEPT !.expired = TRUE] \in MiDocs
           /\ \A id \in Nat :
                 /\ [mi EXCEPT !.status = "owner_notified", !.notify = "sent",
                               !.wamid = id] \in MiDocs
                 /\ [mi EXCEPT !.status = "owner_notified", !.notify = "sent",
                               !.wamid = id, !.relay = "sent"] \in MiDocs
  <1>1. \A s \in Open \union PostAnswer : [mi EXCEPT !.status = s] \in MiDocs
    BY DEF MiDocs
  <1>2. \A n \in {"not_started", "sending", "sent", "failed"} :
           [mi EXCEPT !.notify = n] \in MiDocs
    BY DEF MiDocs
  <1>3. \A s \in Open \union PostAnswer, o \in OwnerMsgs :
           [mi EXCEPT !.status = s, !.answer = o] \in MiDocs
    BY DEF MiDocs
  <1>4. \A o \in OwnerMsgs : [mi EXCEPT !.asked = o, !.unasked = FALSE] \in MiDocs
    BY DEF MiDocs
  <1>5. {"awaiting", "failed", "owner_notified"} \subseteq Open
    BY DEF Open, OpenForAnswer
  <1>6. [mi EXCEPT !.status = "awaiting", !.explained = NoMsg, !.relay = "none"] \in MiDocs
    BY <1>5 DEF MiDocs
  <1>7. [mi EXCEPT !.status = "owner_notified", !.unasked = TRUE] \in MiDocs
    BY <1>5 DEF MiDocs
  <1>8. \A c \in CustMsgs : [mi EXCEPT !.explained = c, !.relay = "none"] \in MiDocs
    BY DEF MiDocs
  <1>9. [mi EXCEPT !.status = "awaiting", !.relay = "failed"] \in MiDocs
    BY <1>5 DEF MiDocs
  <1>10. [mi EXCEPT !.status = "failed", !.notify = "failed"] \in MiDocs
    BY <1>5 DEF MiDocs
  <1>11. [mi EXCEPT !.expired = TRUE] \in MiDocs
    BY DEF MiDocs
  <1>12. ASSUME NEW id \in Nat
         PROVE  /\ [mi EXCEPT !.status = "owner_notified", !.notify = "sent",
                              !.wamid = id] \in MiDocs
                /\ [mi EXCEPT !.status = "owner_notified", !.notify = "sent",
                              !.wamid = id, !.relay = "sent"] \in MiDocs
    BY <1>5 DEF MiDocs
  <1> QED BY <1>1, <1>2, <1>3, <1>4, <1>6, <1>7, <1>8, <1>9, <1>10, <1>11, <1>12

\* The steps of the question keep the types.
LEMMA QuestionType ==
    ASSUME MiTypeInv, NEW t \in Turns,
           \/ CustomerAsks(t) \/ NoOwnerPhone(t) \/ NotifyStarted(t) \/ NotifySent(t)
           \/ NotifyRefused(t) \/ NotifyStored(t) \/ NotifyStoreFails(t)
    PROVE  MiTypeInv'
  <1>1. mi \in MiDocs /\ turn[t].id \in Nat
    BY DEF MiTypeInv, TurnTypes, TurnRecs
  <1>2. CASE CustomerAsks(t)
    <2>1. TurnTypes' /\ steals' \in 0..MaxSteals
      BY <1>2, BeginsType DEF CustomerAsks
    <2>2. mi' \in MiDocs
      <3> DEFINE s == IF mi.status = "none" THEN "open" ELSE mi.status
      <3>1. s \in Open /\ mi' = [mi EXCEPT !.status = s]
        BY <1>2 DEF CustomerAsks, Open, OpenForAnswer
      <3> HIDE DEF s
      <3> QED BY <1>1, <3>1, DocType
    <2>3. PostTypes' /\ CountTypes'
      BY <1>2, <2>1 DEF CustomerAsks, MiTypeInv, PostTypes, CountTypes
    <2> QED BY <2>1, <2>2, <2>3 DEF MiTypeInv
  <1>3. CASE NoOwnerPhone(t)
    <2>1. TurnTypes' /\ mi' \in MiDocs
      BY <1>1, <1>3, EndsType, DocType DEF NoOwnerPhone
    <2>2. PostTypes' /\ CountTypes'
      BY <1>3 DEF NoOwnerPhone, Failure, MiTypeInv, PostTypes, CountTypes
    <2> QED BY <2>1, <2>2 DEF MiTypeInv
  <1>4. CASE NotifyStarted(t)
    <2>1. TurnTypes' /\ mi' \in MiDocs
      BY <1>1, <1>4, MovesType, DocType DEF NotifyStarted, Steps
    <2>2. PostTypes' /\ CountTypes'
      BY <1>4 DEF NotifyStarted, MiTypeInv, PostTypes, CountTypes
    <2> QED BY <2>1, <2>2 DEF MiTypeInv
  <1>5. CASE NotifySent(t)
    <2>1. TurnTypes' /\ PostTypes'
      BY <1>5, MailsType DEF NotifySent
    <2>2. mi' \in MiDocs /\ CountTypes'
      BY <1>1, <1>5 DEF NotifySent, MiTypeInv, CountTypes
    <2> QED BY <2>1, <2>2 DEF MiTypeInv
  <1>6. CASE NotifyRefused(t)
    <2>1. TurnTypes' /\ PostTypes' /\ failures' \in 0..MaxFailures
      BY <1>6, MailFailsType DEF NotifyRefused
    <2>2. mi' \in MiDocs /\ CountTypes'
      BY <1>1, <1>6, <2>1 DEF NotifyRefused, MiTypeInv, CountTypes
    <2> QED BY <2>1, <2>2 DEF MiTypeInv
  <1>7. CASE NotifyStored(t)
    <2>1. TurnTypes' /\ mi' \in MiDocs
      BY <1>1, <1>7, EndsType, DocType DEF NotifyStored
    <2>2. PostTypes' /\ CountTypes'
      BY <1>7 DEF NotifyStored, MiTypeInv, PostTypes, CountTypes
    <2> QED BY <2>1, <2>2 DEF MiTypeInv
  <1>8. CASE NotifyStoreFails(t)
    <2>1. TurnTypes' /\ mi' \in MiDocs
      BY <1>1, <1>8, EndsType, DocType DEF NotifyStoreFails
    <2>2. PostTypes' /\ CountTypes'
      BY <1>8 DEF NotifyStoreFails, Failure, MiTypeInv, PostTypes, CountTypes
    <2> QED BY <2>1, <2>2 DEF MiTypeInv
  <1> QED BY <1>2, <1>3, <1>4, <1>5, <1>6, <1>7, <1>8

\* So do the steps of an owner's reply, up to the answer in the document.
LEMMA ReplyType ==
    ASSUME MiTypeInv, NEW t \in Turns,
           \/ \E o \in OwnerMsgs : ReplyTaken(t, o)
           \/ Classified(t) \/ AnswerRead(t) \/ AnswerWritten(t)
    PROVE  MiTypeInv'
  <1>1. mi \in MiDocs
    BY DEF MiTypeInv
  <1>2. ASSUME NEW o \in OwnerMsgs, ReplyTaken(t, o) PROVE MiTypeInv'
    <2>1. TurnTypes' /\ steals' \in 0..MaxSteals
      <3>1. CASE Begins(t, "classifying", o)
        BY <3>1, BeginsType
      <3>2. CASE UNCHANGED <<turn, steals>>
        BY <3>2 DEF MiTypeInv, TurnTypes, CountTypes
      <3> QED BY <1>2, <3>1, <3>2 DEF ReplyTaken
    <2>2. mi' \in MiDocs /\ PostTypes' /\ CountTypes'
      BY <1>2, <2>1 DEF ReplyTaken, MiTypeInv, PostTypes, CountTypes
    <2> QED BY <2>1, <2>2 DEF MiTypeInv
  <1>3. CASE Classified(t)
    <2>1. turn[t].msg \in OwnerMsgs
      BY <1>3 DEF Classified, MiTypeInv, TurnTypes
    <2>2. TurnTypes'
      BY <1>3, <2>1, MovesType, EndsType DEF Classified, Steps
    <2>3. mi' \in MiDocs /\ PostTypes' /\ CountTypes'
      BY <1>3 DEF Classified, MiTypeInv, PostTypes, CountTypes
    <2> QED BY <2>2, <2>3 DEF MiTypeInv
  <1>4. CASE AnswerRead(t)
    <2>1. turn[t].msg \in OwnerMsgs
      BY <1>4 DEF AnswerRead, MiTypeInv, TurnTypes
    <2>2. TurnTypes'
      BY <1>4, <2>1, MovesType, EndsType DEF AnswerRead, Steps
    <2>3. mi' \in MiDocs /\ PostTypes' /\ CountTypes'
      BY <1>4 DEF AnswerRead, MiTypeInv, PostTypes, CountTypes
    <2> QED BY <2>2, <2>3 DEF MiTypeInv
  <1>5. CASE AnswerWritten(t)
    <2>1. turn[t].msg \in OwnerMsgs
      BY <1>5 DEF AnswerWritten, MiTypeInv, TurnTypes
    <2>2. TurnTypes'
      BY <1>5, MovesType DEF AnswerWritten, Steps
    <2>3. mi' \in MiDocs
      BY <1>1, <1>5, <2>1, DocType DEF AnswerWritten, PostAnswer
    <2>4. PostTypes' /\ CountTypes'
      BY <1>5 DEF AnswerWritten, MiTypeInv, PostTypes, CountTypes
    <2> QED BY <2>2, <2>3, <2>4 DEF MiTypeInv
  <1> QED BY <1>2, <1>3, <1>4, <1>5

\* And those of the follow-up.
LEMMA FollowupType ==
    ASSUME MiTypeInv, NEW t \in Turns,
           \/ FollowupSent(t) \/ FollowupFailed(t) \/ FollowupStored(t)
           \/ FollowupStoreFails(t)
    PROVE  MiTypeInv'
  <1>1. mi \in MiDocs /\ followups \in Nat
    BY DEF MiTypeInv, CountTypes
  <1>2. CASE FollowupSent(t)
    <2>1. TurnTypes'
      BY <1>2, MovesType DEF FollowupSent, Steps
    <2>2. mi' \in MiDocs /\ PostTypes' /\ CountTypes'
      BY <1>2 DEF FollowupSent, MiTypeInv, PostTypes, CountTypes
    <2> QED BY <2>1, <2>2 DEF MiTypeInv
  <1>3. CASE FollowupFailed(t)
    <2>1. TurnTypes'
      BY <1>3, MovesType DEF FollowupFailed, Steps
    <2>2. mi' \in MiDocs /\ PostTypes'
      BY <1>3 DEF FollowupFailed, MiTypeInv, PostTypes
    <2>3. followups' \in Nat /\ failures' \in 0..MaxFailures
      BY <1>1, <1>3 DEF FollowupFailed, Failure, MiTypeInv, CountTypes
    <2>4. CountTypes'
      BY <1>3, <2>3 DEF FollowupFailed, MiTypeInv, CountTypes
    <2> QED BY <2>1, <2>2, <2>4 DEF MiTypeInv
  <1>4. CASE FollowupStored(t)
    <2>1. TurnTypes'
      BY <1>4, EndsType DEF FollowupStored
    <2>2. mi' \in MiDocs
      BY <1>1, <1>4, DocType DEF FollowupStored, PostAnswer
    <2>3. PostTypes' /\ CountTypes'
      BY <1>4 DEF FollowupStored, MiTypeInv, PostTypes, CountTypes
    <2> QED BY <2>1, <2>2, <2>3 DEF MiTypeInv
  <1>5. CASE FollowupStoreFails(t)
    <2>1. TurnTypes'
      BY <1>5, MovesType DEF FollowupStoreFails, Steps
    <2>2. mi' \in MiDocs /\ PostTypes'
      BY <1>5 DEF FollowupStoreFails, MiTypeInv, PostTypes
    <2>3. CountTypes'
      BY <1>5 DEF FollowupStoreFails, Failure, MiTypeInv, CountTypes
    <2> QED BY <2>1, <2>2, <2>3 DEF MiTypeInv
  <1> QED BY <1>2, <1>3, <1>4, <1>5

\* And those of the owner's own question.
LEMMA ClarificationType ==
    ASSUME MiTypeInv, NEW t \in Turns,
           \/ ClarificationRead(t) \/ ClarificationWritten(t) \/ ClarificationSent(t)
           \/ ClarificationStored(t) \/ ClarificationStoreFails(t)
    PROVE  MiTypeInv'
  <1>1. mi \in MiDocs
    BY DEF MiTypeInv
  <1>2. CASE ClarificationRead(t)
    <2>1. turn[t].msg \in OwnerMsgs
      BY <1>2 DEF ClarificationRead, MiTypeInv, TurnTypes
    <2>2. TurnTypes'
      BY <1>2, <2>1, MovesType, EndsType DEF ClarificationRead, Steps
    <2>3. mi' \in MiDocs /\ PostTypes' /\ CountTypes'
      BY <1>2 DEF ClarificationRead, MiTypeInv, PostTypes, CountTypes
    <2> QED BY <2>2, <2>3 DEF MiTypeInv
  <1>3. CASE ClarificationWritten(t)
    <2>1. turn[t].msg \in OwnerMsgs
      BY <1>3 DEF ClarificationWritten, MiTypeInv, TurnTypes
    <2>2. TurnTypes' /\ mi' \in MiDocs
      BY <1>1, <1>3, <2>1, MovesType, DocType DEF ClarificationWritten, Steps
    <2>3. PostTypes' /\ CountTypes'
      BY <1>3 DEF ClarificationWritten, MiTypeInv, PostTypes, CountTypes
    <2> QED BY <2>2, <2>3 DEF MiTypeInv
  <1>4. CASE ClarificationSent(t)
    <2>1. TurnTypes'
      BY <1>4, MovesType DEF ClarificationSent, Steps
    <2>2. mi' \in MiDocs /\ PostTypes'
      BY <1>4 DEF ClarificationSent, MiTypeInv, PostTypes
    <2>3. CountTypes'
      BY <1>4 DEF ClarificationSent, Failure, MiTypeInv, CountTypes
    <2> QED BY <2>1, <2>2, <2>3 DEF MiTypeInv
  <1>5. CASE ClarificationStored(t)
    <2>1. TurnTypes' /\ mi' \in MiDocs
      BY <1>1, <1>5, EndsType, DocType DEF ClarificationStored
    <2>2. PostTypes' /\ CountTypes'
      BY <1>5 DEF ClarificationStored, MiTypeInv, PostTypes, CountTypes
    <2> QED BY <2>1, <2>2 DEF MiTypeInv
  <1>6. CASE ClarificationStoreFails(t)
    <2>1. TurnTypes'
      BY <1>6, MovesType DEF ClarificationStoreFails, Steps
    <2>2. mi' \in MiDocs /\ PostTypes'
      BY <1>6 DEF ClarificationStoreFails, MiTypeInv, PostTypes
    <2>3. CountTypes'
      BY <1>6 DEF ClarificationStoreFails, Failure, MiTypeInv, CountTypes
    <2> QED BY <2>1, <2>2, <2>3 DEF MiTypeInv
  <1> QED BY <1>2, <1>3, <1>4, <1>5, <1>6

\* And a turn that throws.
LEMMA ThrowType ==
    ASSUME MiTypeInv, NEW t \in Turns, TurnThrows(t)
    PROVE  MiTypeInv'
  <1>1. TurnTypes'
    BY EndsType DEF TurnThrows
  <1>2. mi' \in MiDocs /\ PostTypes'
    BY DEF TurnThrows, MiTypeInv, PostTypes
  <1>3. dropped' \in BOOLEAN
    <2>1. dropped' = (dropped \/ HoldsAnswer(t))
      BY DEF TurnThrows
    <2> QED BY <2>1, Zenon
  <1>4. CountTypes'
    BY <1>3 DEF TurnThrows, Failure, MiTypeInv, CountTypes
  <1> QED BY <1>1, <1>2, <1>4 DEF MiTypeInv

\* And those of the customer's explanation.
LEMMA ExplanationType ==
    ASSUME MiTypeInv, NEW t \in Turns,
           \/ \E c \in CustMsgs : ExplanationTaken(t, c)
           \/ ExplanationWritten(t) \/ RelaySent(t) \/ RelayRefused(t) \/ RelayStored(t)
    PROVE  MiTypeInv'
  <1>1. mi \in MiDocs /\ turn[t].id \in Nat
    BY DEF MiTypeInv, TurnTypes, TurnRecs
  <1>2. ASSUME NEW c \in CustMsgs, ExplanationTaken(t, c) PROVE MiTypeInv'
    <2>1. TurnTypes' /\ steals' \in 0..MaxSteals
      <3>1. CASE Begins(t, "relaying", c)
        BY <3>1, BeginsType
      <3>2. CASE Begins(t, "explaining", c)
        BY <3>2, BeginsType
      <3>3. CASE UNCHANGED <<turn, steals>>
        BY <3>3 DEF MiTypeInv, TurnTypes, CountTypes
      <3> QED BY <1>2, <3>1, <3>2, <3>3 DEF ExplanationTaken
    <2>2. mi' \in MiDocs /\ PostTypes' /\ CountTypes'
      BY <1>2, <2>1 DEF ExplanationTaken, MiTypeInv, PostTypes, CountTypes
    <2> QED BY <2>1, <2>2 DEF MiTypeInv
  <1>3. CASE ExplanationWritten(t)
    <2>1. turn[t].msg \in CustMsgs
      BY <1>3 DEF ExplanationWritten, MiTypeInv, TurnTypes
    <2>2. TurnTypes' /\ mi' \in MiDocs
      BY <1>1, <1>3, <2>1, MovesType, DocType DEF ExplanationWritten, Steps
    <2>3. PostTypes' /\ CountTypes'
      BY <1>3 DEF ExplanationWritten, MiTypeInv, PostTypes, CountTypes
    <2> QED BY <2>2, <2>3 DEF MiTypeInv
  <1>4. CASE RelaySent(t)
    <2>1. TurnTypes' /\ PostTypes'
      BY <1>4, MailsType DEF RelaySent
    <2>2. mi' \in MiDocs /\ CountTypes'
      BY <1>1, <1>4 DEF RelaySent, MiTypeInv, CountTypes
    <2> QED BY <2>1, <2>2 DEF MiTypeInv
  <1>5. CASE RelayRefused(t)
    <2>1. TurnTypes' /\ PostTypes' /\ failures' \in 0..MaxFailures
      BY <1>5, MailFailsType DEF RelayRefused
    <2>2. mi' \in MiDocs /\ CountTypes'
      BY <1>1, <1>5, <2>1 DEF RelayRefused, MiTypeInv, CountTypes
    <2> QED BY <2>1, <2>2 DEF MiTypeInv
  <1>6. CASE RelayStored(t)
    <2>1. TurnTypes' /\ mi' \in MiDocs
      BY <1>1, <1>6, EndsType, DocType DEF RelayStored
    <2>2. PostTypes' /\ CountTypes'
      BY <1>6 DEF RelayStored, MiTypeInv, PostTypes, CountTypes
    <2> QED BY <2>1, <2>2 DEF MiTypeInv
  <1> QED BY <1>2, <1>3, <1>4, <1>5, <1>6

\* And what the people write, time, and a restart.
LEMMA WorldType ==
    ASSUME MiTypeInv,
           \/ \E o \in OwnerMsgs : OwnerWrites(o)
           \/ \E c \in CustMsgs : CustomerWrites(c)
           \/ Expires \/ ServerRestarts
    PROVE  MiTypeInv'
  <1>1. mi \in MiDocs /\ PostTypes
    BY DEF MiTypeInv
  <1>2. ASSUME NEW o \in OwnerMsgs, OwnerWrites(o) PROVE MiTypeInv'
    <2>1. PostTypes'
      <3>1. PICK n \in board \union {0} : quoted' = [quoted EXCEPT ![o] = n]
        BY <1>2 DEF OwnerWrites
      <3>2. n \in Nat
        BY <1>1, <3>1 DEF PostTypes
      <3>3. quoted' \in [OwnerMsgs -> Nat]
        BY <1>1, <3>1, <3>2 DEF PostTypes
      <3> QED BY <1>1, <1>2, <3>3 DEF OwnerWrites, PostTypes
    <2>2. mi' \in MiDocs /\ TurnTypes' /\ CountTypes'
      BY <1>2 DEF OwnerWrites, MiTypeInv, TurnTypes, CountTypes
    <2> QED BY <2>1, <2>2 DEF MiTypeInv
  <1>3. ASSUME NEW c \in CustMsgs, CustomerWrites(c) PROVE MiTypeInv'
    <2>1. PostTypes'
      BY <1>1, <1>3 DEF CustomerWrites, PostTypes
    <2>2. mi' \in MiDocs /\ TurnTypes' /\ CountTypes'
      BY <1>3 DEF CustomerWrites, MiTypeInv, TurnTypes, CountTypes
    <2> QED BY <2>1, <2>2 DEF MiTypeInv
  <1>4. CASE Expires
    <2>1. mi' \in MiDocs
      BY <1>1, <1>4, DocType DEF Expires
    <2>2. PostTypes' /\ TurnTypes' /\ CountTypes'
      BY <1>4 DEF Expires, MiTypeInv, PostTypes, TurnTypes, CountTypes
    <2> QED BY <2>1, <2>2 DEF MiTypeInv
  <1>5. CASE ServerRestarts
    <2>1. TurnTypes'
      BY <1>5 DEF ServerRestarts, NoTurn, TurnTypes, TurnRecs
    <2>2. PostTypes'
      BY <1>1, <1>5 DEF ServerRestarts, PostTypes
    <2>3. dropped' \in BOOLEAN
      <3>1. dropped' = (dropped \/ \E t \in Turns : HoldsAnswer(t))
        BY <1>5 DEF ServerRestarts
      <3> QED BY <3>1, Zenon
    <2>4. mi' \in MiDocs /\ CountTypes'
      BY <1>5, <2>3 DEF ServerRestarts, MiTypeInv, CountTypes
    <2> QED BY <2>1, <2>2, <2>4 DEF MiTypeInv
  <1> QED BY <1>2, <1>3, <1>4, <1>5

\* Every step keeps the types.
LEMMA MiNextType == MiTypeInv /\ [MiNext]_miVars => MiTypeInv'
  <1> SUFFICES ASSUME MiTypeInv, [MiNext]_miVars PROVE MiTypeInv'
    OBVIOUS
  <1>1. CASE UNCHANGED miVars
    BY <1>1 DEF miVars, MiTypeInv, TurnTypes, PostTypes, CountTypes
  <1>2. CASE MiNext
    BY <1>2, QuestionType, ReplyType, FollowupType, ClarificationType, ThrowType,
       ExplanationType, WorldType DEF MiNext, TurnStep
  <1> QED BY <1>1, <1>2

\* The types of every reachable state.
THEOREM MiTypeCorrect == MiSpec => []MiTypeOK
  BY MiInitType, MiNextType, MiTypeInvGives, PTL DEF MiSpec

-----------------------------------------------------------------------------
(* What the steps of a turn do to the turns.                               *)

Others(t) == \A u \in Turns \ {t} : turn'[u] = turn[u]

\* A turn that moves keeps its id.
LEMMA MovesFact ==
    ASSUME MiTypeInv, NEW t \in Turns, NEW at, Moves(t, at)
    PROVE  turn'[t].at = at /\ turn'[t].id = turn[t].id /\ Others(t)
  BY DEF MiTypeInv, TurnTypes, Moves, TurnRecs, Others

\* A turn that ends is idle.
LEMMA EndsFact ==
    ASSUME MiTypeInv, NEW t \in Turns, Ends(t)
    PROVE  turn'[t].at = "idle" /\ Others(t)
  BY DEF MiTypeInv, TurnTypes, Ends, NoTurn, Others

\* A turn that begins finds no other, or takes the lock from it.
LEMMA BeginsFact ==
    ASSUME MiTypeInv, NEW t \in Turns, NEW at, NEW msg, Begins(t, at, msg)
    PROVE  /\ turn[t].at = "idle" /\ turn'[t].at = at /\ Others(t)
           /\ \/ steals' = steals /\ \A u \in Turns : turn[u].at = "idle"
              \/ steals' = steals + 1
  BY DEF MiTypeInv, TurnTypes, Begins, Others

\* A message that leaves gets the next id.
LEMMA MailsFact ==
    ASSUME MiTypeInv, NEW t \in Turns, NEW at, Mails(t, at)
    PROVE  /\ turn'[t].at = at /\ turn'[t].id = mail + 1 /\ Others(t)
           /\ board' = board \union {mail + 1}
  <1> DEFINE id == mail + 1
  <1>1. /\ turn' = [turn EXCEPT ![t].at = at, ![t].id = id]
        /\ board' = board \union {id} /\ turn \in [Turns -> TurnRecs]
    BY DEF MiTypeInv, TurnTypes, Mails
  <1> HIDE DEF id
  <1>2. turn'[t].at = at /\ turn'[t].id = id /\ Others(t)
    BY <1>1 DEF TurnRecs, Others
  <1> QED BY <1>1, <1>2 DEF id

Hand == {"composing", "followed", "unfollowed"}

Quiet(t) ==
    \/ NoOwnerPhone(t) \/ NotifyStarted(t) \/ NotifySent(t)
    \/ NotifyRefused(t) \/ NotifyStored(t) \/ NotifyStoreFails(t)
    \/ Classified(t) \/ AnswerRead(t)
    \/ ClarificationRead(t) \/ ClarificationWritten(t) \/ ClarificationSent(t)
    \/ ClarificationStored(t) \/ ClarificationStoreFails(t)
    \/ ExplanationWritten(t) \/ RelaySent(t) \/ RelayRefused(t) \/ RelayStored(t)

\* The steps that have no part in an answer.
LEMMA QuietStep ==
    ASSUME MiTypeInv, NEW t \in Turns, Quiet(t)
    PROVE  /\ turn[t].at \notin Hand \union {"idle"} /\ turn'[t].at \notin Hand
           /\ Others(t)
           /\ mi'.status = mi.status \/ mi'.status \notin PostAnswer
           /\ UNCHANGED <<followups, steals, restarts, dropped>>
  <1>1. /\ turn[t].at \notin Hand \union {"idle"}
        /\ UNCHANGED <<followups, steals, restarts, dropped>>
    BY DEF Quiet, NoOwnerPhone, NotifyStarted, NotifySent, NotifyRefused, NotifyStored,
           NotifyStoreFails, Classified, AnswerRead, ClarificationRead,
           ClarificationWritten, ClarificationSent, ClarificationStored,
           ClarificationStoreFails,
           ExplanationWritten, RelaySent, RelayRefused, RelayStored, Hand
  <1>2. mi'.status = mi.status \/ mi'.status \notin PostAnswer
    <2>1. mi \in MiDocs
      BY DEF MiTypeInv
    <2>2. CASE NoOwnerPhone(t) \/ NotifyStarted(t) \/ NotifyStored(t) \/ NotifyStoreFails(t)
      BY <2>1, <2>2 DEF NoOwnerPhone, NotifyStarted, NotifyStored, NotifyStoreFails,
         MiDocs, PostAnswer
    <2>3. CASE ClarificationWritten(t) \/ ClarificationStored(t)
      BY <2>1, <2>3 DEF ClarificationWritten, ClarificationStored, MiDocs, PostAnswer
    <2>4. CASE ExplanationWritten(t) \/ RelayStored(t)
      BY <2>1, <2>4 DEF ExplanationWritten, RelayStored, MiDocs, PostAnswer
    <2>5. CASE UNCHANGED mi
      BY <2>5
    <2> QED BY <2>2, <2>3, <2>4, <2>5 DEF Quiet, NotifySent, NotifyRefused, Classified,
           AnswerRead, ClarificationRead, ClarificationSent, ClarificationStoreFails,
           RelaySent, RelayRefused
  <1>3. ASSUME NEW at, at \notin Hand, Moves(t, at) PROVE turn'[t].at \notin Hand /\ Others(t)
    BY <1>3, MovesFact
  <1>4. ASSUME NEW at, at \notin Hand, Mails(t, at) PROVE turn'[t].at \notin Hand /\ Others(t)
    BY <1>4, MailsFact
  <1>5. Ends(t) => turn'[t].at \notin Hand /\ Others(t)
    BY EndsFact DEF Hand
  <1>6. turn'[t].at \notin Hand /\ Others(t)
    <2>1. CASE \/ NoOwnerPhone(t) \/ NotifyStored(t) \/ NotifyStoreFails(t)
               \/ ClarificationStored(t) \/ RelayStored(t)
      BY <1>5, <2>1 DEF NoOwnerPhone, NotifyStored, NotifyStoreFails,
         ClarificationStored, RelayStored
    <2>2. CASE \/ NotifyStarted(t) \/ NotifyRefused(t) \/ ClarificationWritten(t)
               \/ ClarificationStoreFails(t) \/ ExplanationWritten(t) \/ RelayRefused(t)
      BY <1>3, <2>2 DEF NotifyStarted, NotifyRefused, ClarificationWritten,
         ClarificationStoreFails, ExplanationWritten, RelayRefused, MailFails, Hand
    <2>3. CASE NotifySent(t) \/ RelaySent(t)
      BY <1>4, <2>3 DEF NotifySent, RelaySent, Hand
    <2>4. CASE Classified(t) \/ AnswerRead(t) \/ ClarificationRead(t) \/ ClarificationSent(t)
      BY <1>3, <1>5, <2>4 DEF Classified, AnswerRead, ClarificationRead,
         ClarificationSent, Hand
    <2> QED BY <2>1, <2>2, <2>3, <2>4 DEF Quiet
  <1> QED BY <1>1, <1>2, <1>6

Opening(t) ==
    \/ CustomerAsks(t)
    \/ \E o \in OwnerMsgs : ReplyTaken(t, o)
    \/ \E c \in CustMsgs : ExplanationTaken(t, c)

\* The steps that begin a turn, or take a message without one.
LEMMA OpeningStep ==
    ASSUME MiTypeInv, NEW t \in Turns, Opening(t)
    PROVE  /\ UNCHANGED <<followups, restarts, dropped>>
           /\ \/ UNCHANGED <<turn, steals, mi>>
              \/ /\ mi.status \notin PostAnswer /\ mi'.status \notin PostAnswer
                 /\ turn[t].at = "idle" /\ turn'[t].at \notin Hand /\ Others(t)
                 /\ \/ steals' = steals /\ \A u \in Turns : turn[u].at = "idle"
                    \/ steals' = steals + 1
  <1>1. UNCHANGED <<followups, restarts, dropped>>
    BY DEF Opening, CustomerAsks, ReplyTaken, ExplanationTaken
  <1>2. CASE CustomerAsks(t)
    <2>1. mi.status \notin PostAnswer /\ mi'.status \notin PostAnswer
      BY <1>2 DEF CustomerAsks, MiTypeInv, MiDocs, Open, OpenForAnswer, PostAnswer
    <2> QED BY <1>1, <1>2, <2>1, BeginsFact DEF CustomerAsks, Hand
  <1>3. CASE \E o \in OwnerMsgs : ReplyTaken(t, o)
    <2>1. PICK o \in OwnerMsgs : ReplyTaken(t, o)
      BY <1>3
    <2>2. CASE Begins(t, "classifying", o) /\ mi.status \in OpenForAnswer
      BY <1>1, <2>1, <2>2, BeginsFact DEF ReplyTaken, Hand, OpenForAnswer, PostAnswer
    <2> QED BY <1>1, <2>1, <2>2 DEF ReplyTaken
  <1>4. CASE \E c \in CustMsgs : ExplanationTaken(t, c)
    <2>1. PICK c \in CustMsgs : ExplanationTaken(t, c)
      BY <1>4
    <2>2. ASSUME NEW at \in {"relaying", "explaining"}, Begins(t, at, c),
                 mi.status = "awaiting"
          PROVE  /\ mi.status \notin PostAnswer /\ mi'.status \notin PostAnswer
                 /\ turn[t].at = "idle" /\ turn'[t].at \notin Hand /\ Others(t)
                 /\ \/ steals' = steals /\ \A u \in Turns : turn[u].at = "idle"
                    \/ steals' = steals + 1
      BY <2>1, <2>2, BeginsFact DEF ExplanationTaken, Hand, PostAnswer
    <2> QED BY <1>1, <2>1, <2>2 DEF ExplanationTaken
  <1> QED BY <1>2, <1>3, <1>4 DEF Opening

\* The steps of people, of time and of a restart.
LEMMA WorldStep ==
    ASSUME MiTypeInv,
           \/ \E o \in OwnerMsgs : OwnerWrites(o)
           \/ \E c \in CustMsgs : CustomerWrites(c)
           \/ Expires \/ ServerRestarts
    PROVE  /\ UNCHANGED <<followups, steals, board, mail, failures>>
           /\ mi'.status = mi.status /\ mi'.notify = mi.notify /\ mi'.wamid = mi.wamid
           /\ \/ turn' = turn /\ restarts' = restarts /\ dropped' = dropped
              \/ /\ restarts' = restarts + 1 /\ \A t \in Turns : turn'[t].at = "idle"
                 /\ dropped' = (dropped \/ \E t \in Turns : HoldsAnswer(t))
  <1>1. mi \in MiDocs
    BY DEF MiTypeInv
  <1>2. CASE \E o \in OwnerMsgs : OwnerWrites(o)
    BY <1>2 DEF OwnerWrites
  <1>3. CASE \E c \in CustMsgs : CustomerWrites(c)
    BY <1>3 DEF CustomerWrites
  <1>4. CASE Expires
    BY <1>1, <1>4 DEF Expires, MiDocs
  <1>5. CASE ServerRestarts
    BY <1>5 DEF ServerRestarts, NoTurn
  <1> QED BY <1>2, <1>3, <1>4, <1>5

-----------------------------------------------------------------------------
(* An answer in hand.                                                      *)

\* Nothing is answered initially.
LEMMA InitHand == MiInit => AnswerInHand
  BY DEF MiInit, AnswerInHand

\* The turn that recorded the answer holds it until it stores the outcome, or
\* an exception or a restart cuts it off.
THEOREM HandTheorem == MiSpec => []AnswerInHand
  <1>1. MiTypeInv /\ AnswerInHand /\ [MiNext]_miVars => AnswerInHand'
    <2> SUFFICES ASSUME MiTypeInv, AnswerInHand, [MiNext]_miVars
                 PROVE  AnswerInHand'
      OBVIOUS
    <2> USE DEF AnswerInHand, HoldsAnswer
    <2>1. "answered" \in PostAnswer
      BY DEF PostAnswer
    <2>2. ASSUME NEW t \in Turns, Quiet(t) PROVE AnswerInHand'
      <3>1. /\ turn[t].at \notin Hand /\ Others(t) /\ dropped' = dropped
            /\ mi'.status = mi.status \/ mi'.status \notin PostAnswer
        BY <2>2, QuietStep
      <3> QED BY <2>1, <3>1 DEF Others, Hand
    <2>3. ASSUME NEW t \in Turns, Opening(t) PROVE AnswerInHand'
      <3>1. /\ dropped' = dropped
            /\ \/ UNCHANGED <<turn, mi>>
               \/ mi'.status \notin PostAnswer
        BY <2>3, OpeningStep
      <3> QED BY <2>1, <3>1
    <2>4. ASSUME NEW t \in Turns, AnswerWritten(t) PROVE AnswerInHand'
      <3>1. turn'[t].at = "composing"
        BY <2>4, MovesFact DEF AnswerWritten
      <3> QED BY <3>1
    <2>5. ASSUME NEW t \in Turns,
                 FollowupSent(t) \/ FollowupFailed(t) \/ FollowupStoreFails(t)
          PROVE  AnswerInHand'
      <3>1. turn'[t].at \in {"followed", "unfollowed"}
        BY <2>5, MovesFact DEF FollowupSent, FollowupFailed, FollowupStoreFails
      <3> QED BY <3>1
    <2>6. ASSUME NEW t \in Turns, FollowupStored(t) PROVE AnswerInHand'
      BY <2>6 DEF FollowupStored, MiTypeInv, MiDocs
    <2>7. CASE \/ \E o \in OwnerMsgs : OwnerWrites(o)
               \/ \E c \in CustMsgs : CustomerWrites(c)
               \/ Expires \/ ServerRestarts
      <3>1. CASE turn' = turn /\ dropped' = dropped /\ mi'.status = mi.status
        BY <3>1
      <3>2. CASE dropped' = (dropped \/ \E t \in Turns : HoldsAnswer(t)) /\ mi'.status = mi.status
        <4>1. mi'.status = "answered" => dropped'
          BY <3>2, Zenon
        <4> QED BY <4>1
      <3> QED BY <2>7, <3>1, <3>2, WorldStep
    <2>8. ASSUME NEW t \in Turns, TurnThrows(t) PROVE AnswerInHand'
      <3>1. Others(t) /\ mi' = mi
        BY <2>8, EndsFact DEF TurnThrows
      <3>2. CASE dropped \/ HoldsAnswer(t)
        <4>1. dropped'
          BY <2>8, <3>2, Zenon DEF TurnThrows
        <4> QED BY <4>1
      <3>3. CASE ~dropped /\ ~HoldsAnswer(t)
        BY <3>1, <3>3 DEF Others
      <3> QED BY <3>2, <3>3
    <2>9. CASE UNCHANGED miVars
      BY <2>9 DEF miVars
    <2> QED BY <2>2, <2>3, <2>4, <2>5, <2>6, <2>7, <2>8, <2>9
            DEF MiNext, TurnStep, Quiet, Opening
  <1> QED BY <1>1, MiInitType, MiNextType, InitHand, PTL DEF MiSpec

-----------------------------------------------------------------------------
(* One answer.                                                             *)

\* Without an overlap there is one turn at a time; the request is answered
\* exactly from the step in which that turn records the answer, no other turn
\* begins after it, and the turn that sends the answer leaves "composing".
OnceInv ==
    steals = 0 =>
    /\ \A t, u \in Turns : turn[t].at # "idle" /\ turn[u].at # "idle" => t = u
    /\ \A t \in Turns :
          /\ turn[t].at \in Hand => mi.status \in PostAnswer
          /\ mi.status \in PostAnswer => turn[t].at \in Hand \union {"idle"}
          /\ followups >= 1 => turn[t].at # "composing"
    /\ followups >= 1 => mi.status \in PostAnswer
    /\ followups <= 1

\* It holds initially.
LEMMA InitOnce == MiInit => OnceInv
  BY DEF MiInit, OnceInv, NoTurn, Hand, PostAnswer

\* The turn that answers keeps it.
LEMMA AnswerOnce ==
    ASSUME MiTypeInv, OnceInv, NEW t \in Turns,
           \/ AnswerWritten(t) \/ FollowupSent(t) \/ FollowupFailed(t)
           \/ FollowupStored(t) \/ FollowupStoreFails(t) \/ TurnThrows(t)
    PROVE  OnceInv'
  <1>1. /\ steals' = steals /\ turn[t].at # "idle" /\ Others(t)
        /\ mi \in MiDocs /\ followups \in Nat
    BY MovesFact, EndsFact DEF AnswerWritten, FollowupSent, FollowupFailed,
       FollowupStored,
       FollowupStoreFails, TurnThrows, MiTypeInv, CountTypes
  <1>2. SUFFICES ASSUME steals = 0 PROVE OnceInv'
    BY <1>1 DEF OnceInv
  <1>3. \A u \in Turns \ {t} : turn[u].at = "idle" /\ turn'[u].at = "idle"
    BY <1>1, <1>2 DEF OnceInv, Others
  <1>4. CASE AnswerWritten(t)
    <2>1. turn'[t].at = "composing" /\ mi'.status = "answered" /\ followups' = followups
      BY <1>1, <1>4, MovesFact DEF AnswerWritten, MiDocs
    <2>2. followups = 0
      BY <1>1, <1>2, <1>4 DEF AnswerWritten, OnceInv, Hand
    <2> QED BY <1>1, <1>3, <2>1, <2>2 DEF OnceInv, Hand, PostAnswer
  <1>5. CASE FollowupSent(t) \/ FollowupFailed(t)
    <2>1. /\ turn[t].at = "composing" /\ mi' = mi
          /\ turn'[t].at \in {"followed", "unfollowed"}
          /\ followups' = followups \/ followups' = followups + 1
      BY <1>1, <1>5, MovesFact DEF FollowupSent, FollowupFailed
    <2>2. followups = 0 /\ mi.status \in PostAnswer
      BY <1>1, <1>2, <2>1 DEF OnceInv, Hand
    <2> QED BY <1>1, <1>3, <2>1, <2>2 DEF OnceInv, Hand
  <1>6. CASE FollowupStored(t)
    <2>1. /\ turn'[t].at = "idle" /\ followups' = followups
          /\ mi'.status \in {"closed", "followup_failed"}
      BY <1>1, <1>6, EndsFact DEF FollowupStored, MiDocs
    <2> QED BY <1>1, <1>2, <1>3, <2>1 DEF OnceInv, Hand, PostAnswer
  <1>7. CASE FollowupStoreFails(t)
    <2>1. /\ turn[t].at = "followed" /\ mi' = mi /\ followups' = followups
          /\ turn'[t].at = "unfollowed"
      BY <1>1, <1>7, MovesFact DEF FollowupStoreFails
    <2> QED BY <1>1, <1>2, <1>3, <2>1 DEF OnceInv, Hand
  <1>8. CASE TurnThrows(t)
    <2>1. turn'[t].at = "idle" /\ followups' = followups /\ mi' = mi
      BY <1>1, <1>8, EndsFact DEF TurnThrows
    <2> QED BY <1>1, <1>2, <1>3, <2>1 DEF OnceInv, Hand
  <1> QED BY <1>4, <1>5, <1>6, <1>7, <1>8

\* As long as no turn loses the lock, the customer gets one answer, however
\* often the owner's messages are handled.
THEOREM OnceTheorem == MiSpec => []FollowupOnce
  <1>1. MiTypeInv /\ OnceInv /\ [MiNext]_miVars => OnceInv'
    <2> SUFFICES ASSUME MiTypeInv, OnceInv, [MiNext]_miVars PROVE OnceInv'
      OBVIOUS
    <2>1. steals \in Nat /\ followups \in Nat
      BY DEF MiTypeInv, CountTypes
    <2>2. ASSUME NEW t \in Turns, Quiet(t) PROVE OnceInv'
      <3>1. /\ turn[t].at \notin Hand \union {"idle"} /\ turn'[t].at \notin Hand
            /\ Others(t)
            /\ mi'.status = mi.status \/ mi'.status \notin PostAnswer
            /\ UNCHANGED <<followups, steals>>
        BY <2>2, QuietStep
      <3>2. SUFFICES ASSUME steals = 0 PROVE OnceInv'
        BY <3>1 DEF OnceInv
      <3>3. mi.status \notin PostAnswer /\ followups < 1
            /\ \A u \in Turns \ {t} : turn[u].at = "idle" /\ turn'[u].at = "idle"
        BY <2>1, <3>1, <3>2 DEF OnceInv, Others
      <3> QED BY <2>1, <3>1, <3>3 DEF OnceInv, Hand
    <2>3. ASSUME NEW t \in Turns, Opening(t) PROVE OnceInv'
      <3>1. followups' = followups
        BY <2>3, OpeningStep
      <3>2. CASE UNCHANGED <<turn, steals, mi>>
        BY <3>1, <3>2 DEF OnceInv
      <3>3. CASE ~UNCHANGED <<turn, steals, mi>>
        <4>1. /\ mi.status \notin PostAnswer /\ mi'.status \notin PostAnswer
              /\ turn'[t].at \notin Hand /\ Others(t)
              /\ \/ steals' = steals /\ \A u \in Turns : turn[u].at = "idle"
                 \/ steals' = steals + 1
          BY <2>3, <3>3, OpeningStep
        <4>2. SUFFICES ASSUME steals' = 0 PROVE OnceInv'
          BY DEF OnceInv
        <4>3. steals = 0 /\ \A u \in Turns \ {t} : turn'[u].at = "idle"
          BY <2>1, <4>1, <4>2 DEF Others
        <4> QED BY <2>1, <3>1, <4>1, <4>3 DEF OnceInv, Hand
      <3> QED BY <3>2, <3>3
    <2>4. CASE \/ \E o \in OwnerMsgs : OwnerWrites(o)
               \/ \E c \in CustMsgs : CustomerWrites(c)
               \/ Expires \/ ServerRestarts
      BY <2>1, <2>4, WorldStep DEF OnceInv, Hand
    <2>5. CASE UNCHANGED miVars
      BY <2>5 DEF miVars, OnceInv
    <2> QED BY <2>2, <2>3, <2>4, <2>5, AnswerOnce DEF MiNext, TurnStep, Quiet, Opening
  <1>2. MiTypeInv /\ OnceInv => FollowupOnce
    BY DEF MiTypeInv, CountTypes, OnceInv, FollowupOnce, Overlap
  <1> QED BY <1>1, <1>2, MiInitType, MiNextType, InitOnce, PTL DEF MiSpec

-----------------------------------------------------------------------------
(* Somebody can answer.                                                    *)

Asking == {"notifying", "notified"}

\* Until something fails: an open request has a turn that asks the owner, and
\* so has one that says it is being sent; a notified one names a message the
\* owner has, and the ids turns are about to store are of such messages.
Clean == failures = 0 /\ restarts = 0

StrandInv ==
    Clean =>
    /\ mi.status = "open" => \E t \in Turns : turn[t].at \in Asking \union {"found"}
    /\ mi.notify = "sending" => \E t \in Turns : turn[t].at \in Asking
    /\ mi.status = "owner_notified" => mi.wamid \in board /\ mi.notify \in {"sending", "sent"}
    /\ mi.status # "failed"
    /\ \A t \in Turns :
          /\ turn[t].at \in {"notified", "relayed"} => turn[t].id \in board
          /\ turn[t].at \notin {"unasked", "unrelayed"}

\* It holds initially.
LEMMA InitStrand == MiInit => StrandInv
  BY DEF MiInit, StrandInv, NoTurn

\* It survives a step that leaves what it reads of the document, and lets its
\* turn go where nothing is asked of it.
LEMMA CalmStrand ==
    ASSUME MiTypeInv, StrandInv, NEW t \in Turns, Others(t),
           Clean' => Clean,
           board \subseteq board',
           mi'.status \in {mi.status, "awaiting"} \union PostAnswer,
           mi'.notify = mi.notify, mi'.wamid = mi.wamid,
           turn[t].at \notin Asking \union {"found"},
           turn'[t].at \notin {"notified", "relayed", "unasked", "unrelayed"}
    PROVE  StrandInv'
  BY DEF StrandInv, Others, PostAnswer

\* The steps of the question keep it.
LEMMA QuestionStrand ==
    ASSUME MiTypeInv, StrandInv, NEW t \in Turns,
           \/ CustomerAsks(t) \/ NotifyStarted(t) \/ NotifySent(t) \/ NotifyStored(t)
    PROVE  StrandInv'
  <1>1. mi \in MiDocs /\ UNCHANGED <<failures, restarts>>
    BY DEF MiTypeInv, CustomerAsks, NotifyStarted, NotifySent, NotifyStored
  <1>2. SUFFICES ASSUME Clean PROVE StrandInv'
    BY <1>1 DEF StrandInv, Clean
  <1>3. CASE CustomerAsks(t)
    <2>1. /\ turn[t].at = "idle" /\ turn'[t].at = "found" /\ Others(t)
          /\ UNCHANGED board
      BY <1>3, BeginsFact DEF CustomerAsks
    <2>2. /\ mi'.status \in {mi.status, "open"}
          /\ mi'.notify = mi.notify /\ mi'.wamid = mi.wamid
      BY <1>1, <1>3 DEF CustomerAsks, MiDocs
    <2> QED BY <1>2, <2>1, <2>2 DEF StrandInv, Others, Asking
  <1>4. CASE NotifyStarted(t)
    <2>1. /\ turn[t].at = "found" /\ turn'[t].at = "notifying" /\ Others(t)
          /\ UNCHANGED board
      BY <1>4, MovesFact DEF NotifyStarted
    <2>2. mi'.status = mi.status /\ mi'.notify = "sending" /\ mi'.wamid = mi.wamid
      BY <1>1, <1>4 DEF NotifyStarted, MiDocs
    <2> QED BY <1>2, <2>1, <2>2 DEF StrandInv, Others, Asking
  <1>5. CASE NotifySent(t)
    <2>1. /\ turn[t].at = "notifying" /\ turn'[t].at = "notified" /\ Others(t)
          /\ turn'[t].id \in board' /\ board \subseteq board' /\ mi' = mi
      BY <1>5, MailsFact DEF NotifySent
    <2> QED BY <1>2, <2>1 DEF StrandInv, Others, Asking
  <1>6. CASE NotifyStored(t)
    <2>1. /\ turn[t].at = "notified" /\ turn'[t].at = "idle" /\ Others(t)
          /\ board' = board /\ turn[t].id \in board
      BY <1>2, <1>6, EndsFact DEF NotifyStored, StrandInv
    <2>2. /\ mi'.status = "owner_notified" /\ mi'.notify = "sent"
          /\ mi'.wamid = turn[t].id
      BY <1>1, <1>6 DEF NotifyStored, MiDocs
    <2> QED BY <1>2, <2>1, <2>2 DEF StrandInv, Others
  <1> QED BY <1>3, <1>4, <1>5, <1>6

\* So do those of the relay.
LEMMA RelayStrand ==
    ASSUME MiTypeInv, StrandInv, NEW t \in Turns, RelaySent(t) \/ RelayStored(t)
    PROVE  StrandInv'
  <1>1. mi \in MiDocs /\ UNCHANGED <<failures, restarts>>
    BY DEF MiTypeInv, RelaySent, RelayStored
  <1>2. SUFFICES ASSUME Clean PROVE StrandInv'
    BY <1>1 DEF StrandInv, Clean
  <1>3. CASE RelaySent(t)
    <2>1. /\ turn[t].at = "relaying" /\ turn'[t].at = "relayed" /\ Others(t)
          /\ turn'[t].id \in board' /\ board \subseteq board' /\ mi' = mi
      BY <1>3, MailsFact DEF RelaySent
    <2> QED BY <1>2, <2>1 DEF StrandInv, Others, Asking
  <1>4. CASE RelayStored(t)
    <2>1. /\ turn[t].at = "relayed" /\ turn'[t].at = "idle" /\ Others(t)
          /\ board' = board /\ turn[t].id \in board
      BY <1>2, <1>4, EndsFact DEF RelayStored, StrandInv
    <2>2. /\ mi'.status = "owner_notified" /\ mi'.notify = "sent"
          /\ mi'.wamid = turn[t].id
      BY <1>1, <1>4, <2>1 DEF RelayStored, MiDocs
    <2> QED BY <1>2, <2>1, <2>2 DEF StrandInv, Others
  <1> QED BY <1>3, <1>4

\* So do those of the owner's answer or question.
LEMMA OwnerStrand ==
    ASSUME MiTypeInv, StrandInv, NEW t \in Turns,
           \/ Classified(t) \/ AnswerRead(t) \/ AnswerWritten(t)
           \/ FollowupSent(t) \/ FollowupStored(t)
           \/ ClarificationRead(t) \/ ClarificationWritten(t) \/ ClarificationSent(t)
           \/ ClarificationStored(t) \/ ExplanationWritten(t)
    PROVE  StrandInv'
  <1> DEFINE Free(at) == at \notin {"notified", "relayed", "unasked", "unrelayed"}
  <1>1. /\ mi \in MiDocs /\ failures \in Nat /\ UNCHANGED <<board, restarts>>
        /\ turn[t].at \notin Asking \union {"found"}
    BY DEF MiTypeInv, CountTypes, Classified, AnswerRead, AnswerWritten, FollowupSent,
       FollowupStored, ClarificationRead, ClarificationWritten, ClarificationSent,
       ClarificationStored, ExplanationWritten, Asking
  <1>2. failures' = failures \/ failures' = failures + 1
    BY DEF Classified, AnswerRead, AnswerWritten, FollowupSent,
       FollowupStored, ClarificationRead, ClarificationWritten, ClarificationSent,
       ClarificationStored, ExplanationWritten, Failure
  <1>3. Clean' => Clean /\ failures' = failures
    BY <1>1, <1>2 DEF Clean
  <1>4. SUFFICES ASSUME Clean', Clean PROVE StrandInv'
    BY <1>3 DEF StrandInv
  <1>5. mi'.notify = mi.notify /\ mi'.wamid = mi.wamid
    BY <1>1 DEF Classified, AnswerRead, AnswerWritten, FollowupSent,
       FollowupStored, ClarificationRead, ClarificationWritten, ClarificationSent,
       ClarificationStored, ExplanationWritten, MiDocs
  <1>6. mi'.status \in {mi.status, "awaiting"} \union PostAnswer
    <2>1. turn[t].at # "unasked"
      BY <1>4 DEF StrandInv
    <2> QED BY <1>1, <2>1 DEF Classified, AnswerRead, AnswerWritten, FollowupSent,
       FollowupStored, ClarificationRead, ClarificationWritten, ClarificationSent,
       ClarificationStored, ExplanationWritten, MiDocs, PostAnswer
  <1>7. ASSUME NEW at, Free(at), Moves(t, at) PROVE Free(turn'[t].at) /\ Others(t)
    BY <1>7, MovesFact
  <1>8. Ends(t) => Free(turn'[t].at) /\ Others(t)
    BY EndsFact
  <1>9. Free(turn'[t].at) /\ Others(t)
    <2>1. CASE \/ AnswerWritten(t) \/ FollowupSent(t) \/ ClarificationWritten(t)
               \/ ExplanationWritten(t)
      BY <1>7, <2>1 DEF AnswerWritten, FollowupSent, ClarificationWritten,
         ExplanationWritten
    <2>2. CASE FollowupStored(t) \/ ClarificationStored(t)
      BY <1>8, <2>2 DEF FollowupStored, ClarificationStored
    <2>3. CASE Classified(t) \/ AnswerRead(t) \/ ClarificationRead(t)
      BY <1>7, <1>8, <2>3 DEF Classified, AnswerRead, ClarificationRead
    <2>4. CASE ClarificationSent(t)
      <3>1. Moves(t, "asked")
        BY <1>1, <1>3, <1>4, <2>4 DEF ClarificationSent, Failure
      <3> QED BY <1>7, <3>1
    <2> QED BY <2>1, <2>2, <2>3, <2>4
  <1> QED BY <1>1, <1>3, <1>5, <1>6, <1>9, CalmStrand

\* So does a message that is taken up.
LEMMA TakenStrand ==
    ASSUME MiTypeInv, StrandInv, NEW t \in Turns,
           \/ \E o \in OwnerMsgs : ReplyTaken(t, o)
           \/ \E c \in CustMsgs : ExplanationTaken(t, c)
    PROVE  StrandInv'
  <1>1. UNCHANGED <<mi, board, failures, restarts>>
    BY DEF ReplyTaken, ExplanationTaken
  <1>2. ASSUME NEW at \in {"classifying", "explaining", "relaying"}, NEW msg,
               Begins(t, at, msg)
        PROVE  StrandInv'
    <2>1. turn[t].at = "idle" /\ turn'[t].at = at /\ Others(t)
      BY <1>2, BeginsFact
    <2> QED BY <1>1, <2>1, CalmStrand DEF Clean, Asking
  <1>3. CASE UNCHANGED turn
    BY <1>1, <1>3 DEF StrandInv, Clean
  <1> QED BY <1>2, <1>3 DEF ReplyTaken, ExplanationTaken

\* When nothing fails or restarts, an unanswered request can be answered,
\* also while turns take the lock from each other.
THEOREM StrandTheorem == MiSpec => []NeverStranded
  <1>1. MiTypeInv /\ StrandInv /\ [MiNext]_miVars => StrandInv'
    <2> SUFFICES ASSUME MiTypeInv, StrandInv, [MiNext]_miVars PROVE StrandInv'
      OBVIOUS
    <2>1. failures \in Nat /\ restarts \in Nat
      BY DEF MiTypeInv, CountTypes
    <2>2. ASSUME NEW t \in Turns,
                 \/ NoOwnerPhone(t) \/ NotifyRefused(t) \/ NotifyStoreFails(t)
                 \/ FollowupFailed(t) \/ FollowupStoreFails(t)
                 \/ ClarificationStoreFails(t) \/ RelayRefused(t) \/ TurnThrows(t)
          PROVE  StrandInv'
      <3>1. failures' = failures + 1
        BY <2>2 DEF NoOwnerPhone, NotifyRefused, NotifyStoreFails, FollowupFailed,
           FollowupStoreFails, ClarificationStoreFails, RelayRefused, MailFails,
           TurnThrows, Failure
      <3> QED BY <2>1, <3>1 DEF StrandInv, Clean
    <2>3. CASE \/ \E o \in OwnerMsgs : OwnerWrites(o)
               \/ \E c \in CustMsgs : CustomerWrites(c)
               \/ Expires \/ ServerRestarts
      <3>1. /\ UNCHANGED <<board, failures>>
            /\ mi'.status = mi.status /\ mi'.notify = mi.notify /\ mi'.wamid = mi.wamid
            /\ \/ turn' = turn /\ restarts' = restarts
               \/ restarts' = restarts + 1
        BY <2>3, WorldStep
      <3> QED BY <2>1, <3>1 DEF StrandInv, Clean
    <2>4. CASE UNCHANGED miVars
      BY <2>4 DEF miVars, StrandInv, Clean
    <2> QED BY <2>2, <2>3, <2>4, QuestionStrand, RelayStrand, OwnerStrand, TakenStrand
            DEF MiNext, TurnStep
  <1>2. MiTypeInv /\ StrandInv => NeverStranded
    BY DEF MiTypeInv, CountTypes, MiDocs, Open, OpenForAnswer, StrandInv, Clean, Asking,
           NeverStranded
  <1> QED BY <1>1, <1>2, MiInitType, MiNextType, InitStrand, PTL DEF MiSpec
=============================================================================
