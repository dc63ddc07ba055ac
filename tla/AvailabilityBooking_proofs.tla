----------------------- MODULE AvailabilityBooking_proofs -----------------------
(***************************************************************************)
(* Proofs about AvailabilityBooking, for every set of requests, messages,  *)
(* taps and pollers: types, the claim and the link of a confirmation, and  *)
(* that the documents implement BookingPromise.                            *)
(***************************************************************************)
EXTENDS AvailabilityBooking, TLAPS

USE NoneAssumption, ItemAssumption, FaultAssumption

TapRecs == [at : {"idle", "read", "done"}, request : Requests \union {None},
            answer : Answers]
PollRecs == [at : {"idle", "fetched", "accepted", "superseding"},
             request : Requests \union {None}, status : Answers,
             rest : SUBSET Requests]
TurnRecs == [at : {"idle", "yes", "no", "claimed", "gated", "booked", "refused",
                   "declining", "done", "lost_yes", "lost_no"},
             request : Requests \union {None}]

DocTypes ==
    /\ req \in [Requests -> Document]
    /\ bookings \subseteq [request : Requests, turn : Messages]

\* An actor that is at something is at it for a request.
TapTypes ==
    /\ tap \in [Taps -> TapRecs]
    /\ \A t \in Taps : tap[t].at = "read" => tap[t].request \in Requests
PollTypes ==
    /\ poll \in [Pollers -> PollRecs]
    /\ \A p \in Pollers : poll[p].at # "idle" => poll[p].request \in Requests
TurnTypes ==
    /\ turn \in [Messages -> TurnRecs]
    /\ \A m \in Messages : turn[m].at # "idle" => turn[m].request \in Requests
SeenTypes ==
    /\ faults \in 0..MaxFaults
    /\ said \subseteq Requests \X Answers /\ told \subseteq Requests \X Answers
    /\ accepted \subseteq Requests /\ cut \subseteq Requests

TypeInv == DocTypes /\ TapTypes /\ PollTypes /\ TurnTypes /\ SeenTypes

\* The parts give the type invariant of the module.
LEMMA TypeInvGives == TypeInv => TypeOK
  BY DEF TypeInv, DocTypes, TapTypes, PollTypes, TurnTypes, SeenTypes, TapRecs,
         PollRecs, TurnRecs, TypeOK

\* The types hold initially.
LEMMA InitType == Init => TypeInv
  <1> SUFFICES ASSUME Init PROVE TypeInv
    OBVIOUS
  <1>1. NewDocument \in Document
    BY DEF NewDocument, Document
  <1>2. DocTypes
    BY <1>1 DEF Init, DocTypes
  <1>3. TapTypes
    BY DEF Init, TapTypes, TapRecs, NoTap, Answers
  <1>4. PollTypes
    BY DEF Init, PollTypes, PollRecs, NoPoll, Answers
  <1>5. TurnTypes
    BY DEF Init, TurnTypes, TurnRecs, NoTurn
  <1>6. SeenTypes
    BY DEF Init, SeenTypes
  <1> QED BY <1>2, <1>3, <1>4, <1>5, <1>6 DEF TypeInv

-----------------------------------------------------------------------------
(* The patches of the document.                                            *)

\* A request that is created.
LEMMA AskedPatch ==
    ASSUME NEW d \in Document
    PROVE  /\ Asked(d) \in Document
           /\ Asked(d).status = "pending"
           /\ Asked(d).confirm = d.confirm
           /\ Asked(d).linked = d.linked
           /\ Asked(d).processing = d.processing
  BY DEF Document, Asked

\* The owner's answer.
LEMMA DecisionPatch ==
    ASSUME NEW d \in Document, NEW answer \in Answers
    PROVE  /\ WithDecision(d, answer) \in Document
           /\ WithDecision(d, answer).status = answer
           /\ WithDecision(d, answer).confirm = d.confirm
           /\ WithDecision(d, answer).linked = d.linked
           /\ WithDecision(d, answer).processing = d.processing
  BY DEF Document, WithDecision

\* The state of the notice.
LEMMA NoticePatch ==
    ASSUME NEW d \in Document, NEW notice \in {"processing", "sent", "skipped", "failed"}
    PROVE  /\ WithNotice(d, notice) \in Document
           /\ WithNotice(d, notice).status = d.status
           /\ WithNotice(d, notice).confirm = d.confirm
           /\ WithNotice(d, notice).linked = d.linked
           /\ WithNotice(d, notice).processing = d.processing
  BY DEF Document, WithNotice

\* An offer that a later one replaces.
LEMMA SupersededPatch ==
    ASSUME NEW d \in Document, NEW r \in Requests
    PROVE  /\ Superseded(d, r) \in Document
           /\ Superseded(d, r).confirm = "superseded"
           /\ Superseded(d, r).status = d.status
           /\ Superseded(d, r).linked = d.linked
           /\ Superseded(d, r).processing = d.processing
  BY DEF Document, Superseded

\* The claim of a confirmation.
LEMMA ClaimedPatch ==
    ASSUME NEW d \in Document
    PROVE  /\ Claimed(d) \in Document
           /\ Claimed(d).status = d.status
           /\ Claimed(d).confirm = d.confirm
           /\ Claimed(d).linked = d.linked
  BY DEF Document, Claimed

\* The claim given back.
LEMMA ReopenedPatch ==
    ASSUME NEW d \in Document
    PROVE  /\ Reopened(d) \in Document
           /\ Reopened(d).processing = "idle"
           /\ Reopened(d).status = d.status
           /\ Reopened(d).linked = d.linked
  BY DEF Document, Reopened

\* The customer's no.
LEMMA DeclinedPatch ==
    ASSUME NEW d \in Document
    PROVE  /\ Declined(d) \in Document
           /\ Declined(d).confirm = "declined"
           /\ Declined(d).processing = "done"
           /\ Declined(d).status = d.status
           /\ Declined(d).linked = d.linked
  BY DEF Document, Declined

\* The end of an offer's time.
LEMMA ExpiredPatch ==
    ASSUME NEW d \in Document
    PROVE  /\ Expired(d) \in Document
           /\ Expired(d).status = d.status
           /\ Expired(d).confirm = d.confirm
           /\ Expired(d).linked = d.linked
           /\ Expired(d).processing = d.processing
  BY DEF Document, Expired

\* The booking.
LEMMA LinkedPatch ==
    ASSUME NEW d \in Document, NEW m \in Messages
    PROVE  /\ Linked(d, m) \in Document
           /\ Linked(d, m).confirm = "confirmed"
           /\ Linked(d, m).linked = m
           /\ Linked(d, m).processing = "done"
           /\ Linked(d, m).status = d.status
  BY DEF Document, Linked

\* The notice that was sent: an offer opens the document for the customer.
LEMMA AnswerPatch ==
    ASSUME NEW d \in Document, NEW answer \in Answers
    PROVE  /\ WithAnswer(d, answer) \in Document
           /\ WithAnswer(d, answer).processing = "idle"
           /\ WithAnswer(d, answer).status = d.status
           /\ WithAnswer(d, answer).linked = d.linked
           /\ WithAnswer(d, answer).confirm = "waiting_confirm" => answer = "approved"
           /\ WithAnswer(d, answer).confirm \in {"waiting_confirm", "unavailable"}
  <1>1. /\ WithOffer(d) \in Document /\ WithOffer(d).processing = "idle"
        /\ WithOffer(d).status = d.status /\ WithOffer(d).linked = d.linked
        /\ WithOffer(d).confirm = "waiting_confirm"
    BY DEF Document, WithOffer
  <1>2. /\ WithRegret(d) \in Document /\ WithRegret(d).processing = "idle"
        /\ WithRegret(d).status = d.status /\ WithRegret(d).linked = d.linked
        /\ WithRegret(d).confirm = "unavailable"
    BY DEF Document, WithRegret
  <1> QED BY <1>1, <1>2 DEF WithAnswer

\* A stop or a failed call within the bound.
LEMMA FaultFacts ==
    ASSUME Fault, faults \in 0..MaxFaults
    PROVE  faults' \in 0..MaxFaults
  BY DEF Fault

\* An update changes one document.
LEMMA UpdateFacts ==
    ASSUME req \in [Requests -> Document], NEW r \in Requests, NEW d \in Document,
           Update(r, d)
    PROVE  /\ req' \in [Requests -> Document] /\ req'[r] = d
           /\ \A s \in Requests \ {r} : req'[s] = req[s]
  BY DEF Update

-----------------------------------------------------------------------------
(* What a step does to the documents.                                      *)

\* The owner's answer comes from a tap, an open offer from a notice or a
\* booking that was refused, a link from the turn whose booking it is, and a
\* claim from a turn that holds it or never learns of it.
DocStep ==
    /\ req' \in [Requests -> Document]
    /\ \A r \in Requests :
          /\ \/ req'[r].status \in {req[r].status, "pending"}
             \/ <<r, req'[r].status>> \in said'
          /\ req'[r].confirm = "waiting_confirm" =>
                \/ req[r].confirm = "waiting_confirm"
                \/ \E p \in Pollers : /\ poll[p].at = "accepted" /\ poll[p].request = r
                                      /\ poll[p].status = "approved"
                \/ \E m \in Messages : turn[m].at = "refused" /\ turn[m].request = r
          /\ \/ req'[r].linked = req[r].linked
             \/ \E m \in Messages : /\ turn[m].at = "booked" /\ turn[m].request = r
                                    /\ req'[r].linked = m
          /\ req'[r].processing = "processing" =>
                \/ req[r].processing = "processing"
                \/ \E m \in Messages : turn'[m].at = "claimed" /\ turn'[m].request = r
                \/ r \in cut'

\* A step that stores nothing.
LEMMA DocKept ==
    ASSUME TypeInv, UNCHANGED req
    PROVE  DocStep
  BY DEF TypeInv, DocTypes, DocStep

\* A step that stores a patch which concerns none of these.
LEMMA DocPatched ==
    ASSUME TypeInv, NEW r \in Requests, NEW d \in Document, Update(r, d),
           d.status \in {req[r].status, "pending"},
           d.confirm \in {req[r].confirm, "superseded", "declined", "unavailable"},
           d.linked = req[r].linked,
           d.processing \in {req[r].processing, "idle", "done"}
    PROVE  DocStep
  <1>1. /\ req' \in [Requests -> Document] /\ req'[r] = d
        /\ \A s \in Requests \ {r} : req'[s] = req[s]
    BY UpdateFacts DEF TypeInv, DocTypes
  <1>2. ASSUME NEW s \in Requests, s # r
        PROVE  /\ req'[s].status \in {req[s].status, "pending"}
               /\ req'[s].confirm = req[s].confirm /\ req'[s].linked = req[s].linked
               /\ req'[s].processing = req[s].processing
    BY <1>1, <1>2
  <1>3. /\ req'[r].status \in {req[r].status, "pending"}
        /\ req'[r].confirm = "waiting_confirm" => req[r].confirm = "waiting_confirm"
        /\ req'[r].linked = req[r].linked
        /\ req'[r].processing = "processing" => req[r].processing = "processing"
    BY <1>1
  <1> QED BY <1>1, <1>2, <1>3 DEF DocStep

\* The owner's tap.
LEMMA TapSteps ==
    ASSUME TypeInv, NEW t \in Taps,
           \/ TapWrite(t) \/ TapLost(t)
           \/ \E r \in Requests, answer \in Answers : TapRead(t, r, answer)
    PROVE  TypeInv' /\ DocStep
  <1>1. /\ UNCHANGED <<bookings, poll, turn, told, accepted, cut>>
        /\ tap \in [Taps -> TapRecs] /\ req \in [Requests -> Document]
        /\ faults' \in 0..MaxFaults
    BY FaultFacts DEF TapWrite, TapLost, TapRead, TypeInv, TapTypes, DocTypes, SeenTypes
  <1>2. PollTypes' /\ TurnTypes'
    BY <1>1 DEF TypeInv, PollTypes, TurnTypes
  <1>3. ASSUME NEW r \in Requests, NEW answer \in Answers, TapRead(t, r, answer)
        PROVE  TypeInv' /\ DocStep
    <2> DEFINE new == [at |-> "read", request |-> r, answer |-> answer]
    <2>1. new \in TapRecs /\ new.request \in Requests
      BY DEF TapRecs
    <2>2. tap' = [tap EXCEPT ![t] = new] /\ UNCHANGED <<req, said>>
      BY <1>3 DEF TapRead
    <2> HIDE DEF new
    <2>3. TapTypes'
      BY <1>1, <2>1, <2>2 DEF TypeInv, TapTypes
    <2>4. DocTypes' /\ SeenTypes'
      BY <1>1, <2>2 DEF TypeInv, DocTypes, SeenTypes
    <2> QED BY <1>2, <2>2, <2>3, <2>4, DocKept DEF TypeInv
  <1>4. CASE TapWrite(t)
    <2> DEFINE r == tap[t].request
               answer == tap[t].answer
               d == WithDecision(req[r], answer)
    <2>1. r \in Requests /\ answer \in Answers
      BY <1>1, <1>4 DEF TapWrite, TypeInv, TapTypes, TapRecs
    <2>2. req[r] \in Document
      BY <1>1, <2>1
    <2>3. /\ d \in Document /\ d.status = answer /\ d.confirm = req[r].confirm
          /\ d.linked = req[r].linked /\ d.processing = req[r].processing
      BY <2>1, <2>2, DecisionPatch
    <2>4. Update(r, d) /\ said' = said \union {<<r, answer>>}
          /\ tap' = [tap EXCEPT ![t].at = "done"]
      BY <1>4 DEF TapWrite
    <2> HIDE DEF r, answer, d
    <2>5. /\ req' \in [Requests -> Document] /\ req'[r] = d
          /\ \A s \in Requests \ {r} : req'[s] = req[s]
      BY <1>1, <2>1, <2>3, <2>4, UpdateFacts
    <2>6. DocStep
      BY <2>3, <2>4, <2>5 DEF DocStep
    <2>7. TapTypes'
      BY <1>1, <2>4 DEF TypeInv, TapTypes, TapRecs
    <2>8. SeenTypes'
      BY <1>1, <2>1, <2>4 DEF TypeInv, SeenTypes
    <2>9. DocTypes'
      BY <1>1, <2>5 DEF TypeInv, DocTypes
    <2> QED BY <1>2, <2>6, <2>7, <2>8, <2>9 DEF TypeInv
  <1>5. CASE TapLost(t)
    <2>1. tap[t].at = "read" /\ tap' = [tap EXCEPT ![t].at = "done"] /\ UNCHANGED <<req, said>>
      BY <1>5 DEF TapLost
    <2>2. TapTypes'
      BY <1>1, <2>1 DEF TypeInv, TapTypes, TapRecs
    <2>3. DocTypes' /\ SeenTypes'
      BY <1>1, <2>1 DEF TypeInv, DocTypes, SeenTypes
    <2> QED BY <1>2, <2>1, <2>2, <2>3, DocKept DEF TypeInv
  <1> QED BY <1>3, <1>4, <1>5

\* The pollers.
LEMMA PollSteps ==
    ASSUME TypeInv, NEW p \in Pollers, PollStep(p)
    PROVE  TypeInv' /\ DocStep
  <1> DEFINE r == poll[p].request
  <1>1. /\ UNCHANGED <<bookings, tap, turn, said, accepted, cut>>
        /\ poll \in [Pollers -> PollRecs] /\ req \in [Requests -> Document]
        /\ NoPoll \in PollRecs /\ NoPoll.at = "idle"
    BY DEF PollStep, PollFetch, NoticeAccepted, NoticeDropped, NoticeStranded,
           NoticePatched, PatchLost, Leaves, Supersede, SupersedeLost,
           TabStop, TypeInv, PollTypes, DocTypes, NoPoll, PollRecs, Answers
  <1>0. faults' \in 0..MaxFaults
    BY FaultFacts DEF PollStep, PollFetch, NoticeAccepted, NoticeDropped, NoticeStranded,
           NoticePatched, PatchLost, Leaves, Supersede, SupersedeLost, TabStop, TypeInv,
           SeenTypes
  <1>2. TapTypes' /\ TurnTypes'
    BY <1>1 DEF TypeInv, TapTypes, TurnTypes
  <1>3. poll[p].at # "idle" =>
           r \in Requests /\ poll[p].status \in Answers /\ req[r] \in Document
    BY <1>1 DEF TypeInv, PollTypes, PollRecs
  <1>4. ASSUME poll' = [poll EXCEPT ![p] = NoPoll] PROVE PollTypes'
    BY <1>1, <1>4 DEF TypeInv, PollTypes
  <1>5. ASSUME DocStep, PollTypes', told' \subseteq Requests \X Answers
        PROVE  TypeInv' /\ DocStep
    <2>1. DocTypes' /\ SeenTypes'
      BY <1>0, <1>1, <1>5 DEF TypeInv, DocTypes, SeenTypes, DocStep
    <2> QED BY <1>2, <1>5, <2>1 DEF TypeInv
  <1>6. told \subseteq Requests \X Answers
    BY DEF TypeInv, SeenTypes
  <1>7. ASSUME NEW s \in Requests, PollFetch(p, s) PROVE TypeInv' /\ DocStep
    <2> DEFINE new == [NoPoll EXCEPT !.at = "fetched", !.request = s,
                                     !.status = req[s].status]
    <2>1. new \in PollRecs /\ new.request \in Requests
      BY <1>1, <1>7 DEF PollFetch, Decided, PollRecs
    <2>2. poll' = [poll EXCEPT ![p] = new] /\ UNCHANGED <<req, told>>
      BY <1>7 DEF PollFetch
    <2> HIDE DEF new
    <2>3. PollTypes'
      BY <1>1, <2>1, <2>2 DEF TypeInv, PollTypes
    <2> QED BY <1>5, <1>6, <2>2, <2>3, DocKept
  <1>8. ASSUME NEW notice \in {"processing", "sent", "skipped", "failed"},
               poll[p].at # "idle", Update(r, WithNotice(req[r], notice))
        PROVE  DocStep
    <2> DEFINE d == WithNotice(req[r], notice)
    <2>1. /\ d \in Document /\ d.status = req[r].status /\ d.confirm = req[r].confirm
          /\ d.linked = req[r].linked /\ d.processing = req[r].processing
      BY <1>3, <1>8, NoticePatch
    <2>2. Update(r, d)
      BY <1>8
    <2> HIDE DEF d
    <2> QED BY <1>3, <1>8, <2>1, <2>2, DocPatched
  <1>9. CASE NoticeAccepted(p)
    <2>1. poll[p].at = "fetched" /\ Update(r, WithNotice(req[r], "processing"))
          /\ told' = told \union {<<r, poll[p].status>>}
          /\ poll' = [poll EXCEPT ![p].at = "accepted"]
      BY <1>9 DEF NoticeAccepted
    <2>2. DocStep
      BY <1>8, <2>1
    <2>3. PollTypes'
      BY <1>1, <2>1 DEF TypeInv, PollTypes, PollRecs
    <2>4. told' \subseteq Requests \X Answers
      BY <1>3, <1>6, <2>1
    <2> QED BY <1>5, <2>2, <2>3, <2>4
  <1>10. CASE NoticeDropped(p)
    <2> DEFINE notice == IF Conflict(p) THEN "skipped" ELSE "failed"
    <2>1. poll[p].at = "fetched" /\ Update(r, WithNotice(req[r], notice)) /\ told' = told
          /\ poll' = [poll EXCEPT ![p] = NoPoll]
      BY <1>10 DEF NoticeDropped
    <2>2. notice \in {"processing", "sent", "skipped", "failed"}
      OBVIOUS
    <2> HIDE DEF notice
    <2>3. DocStep
      BY <1>8, <2>1, <2>2
    <2> QED BY <1>4, <1>5, <1>6, <2>1, <2>3
  <1>11. CASE NoticeStranded(p)
    <2>1. poll[p].at = "fetched" /\ Update(r, WithNotice(req[r], "processing"))
          /\ told' = told /\ poll' = [poll EXCEPT ![p] = NoPoll]
      BY <1>11 DEF NoticeStranded
    <2>2. DocStep
      BY <1>8, <2>1
    <2> QED BY <1>4, <1>5, <1>6, <2>1, <2>2
  <1>12. ASSUME GoesOn(p), poll[p].at = "accepted" PROVE PollTypes'
    <2> DEFINE rest == Siblings(r)
    <2>1. \/ poll' = [poll EXCEPT ![p].at = "superseding", ![p].rest = rest]
          \/ poll' = [poll EXCEPT ![p] = NoPoll]
      BY <1>12 DEF GoesOn
    <2>2. rest \in SUBSET Requests
      BY DEF Siblings
    <2> HIDE DEF rest
    <2>3. ASSUME poll' = [poll EXCEPT ![p].at = "superseding", ![p].rest = rest]
          PROVE  PollTypes'
      BY <1>1, <1>3, <1>12, <2>2, <2>3 DEF TypeInv, PollTypes, PollRecs
    <2> QED BY <1>4, <2>1, <2>3
  <1>13. CASE NoticePatched(p)
    <2> DEFINE d == WithAnswer(req[r], poll[p].status)
    <2>1. poll[p].at = "accepted" /\ Update(r, d) /\ GoesOn(p) /\ told' = told
      BY <1>13 DEF NoticePatched
    <2>2. /\ d \in Document /\ d.status = req[r].status
          /\ d.linked = req[r].linked /\ d.processing = "idle"
          /\ d.confirm = "waiting_confirm" => poll[p].status = "approved"
      BY <1>3, <2>1, AnswerPatch
    <2> HIDE DEF d
    <2>3. /\ req' \in [Requests -> Document] /\ req'[r] = d
          /\ \A s \in Requests \ {r} : req'[s] = req[s]
      BY <1>1, <1>3, <2>1, <2>2, UpdateFacts
    <2>4. DocStep
      BY <1>3, <2>1, <2>2, <2>3 DEF DocStep
    <2> QED BY <1>5, <1>6, <1>12, <2>1, <2>4
  <1>14. CASE PatchLost(p)
    <2>1. /\ poll[p].at = "accepted" /\ GoesOn(p) /\ told' = told
          /\ Update(r, WithNotice(req[r], "sent")) \/ UNCHANGED req
      BY <1>14 DEF PatchLost
    <2>2. DocStep
      BY <1>8, <2>1, DocKept
    <2> QED BY <1>5, <1>6, <1>12, <2>1, <2>2
  <1>15. ASSUME NEW s \in Requests, Leaves(p, s) PROVE PollTypes' /\ told' = told
    <2> DEFINE rest == poll[p].rest \ {s}
    <2>1. /\ poll[p].at = "superseding" /\ told' = told
          /\ \/ poll' = [poll EXCEPT ![p] = NoPoll]
             \/ poll' = [poll EXCEPT ![p].rest = rest]
      BY <1>15 DEF Leaves
    <2>2. rest \in SUBSET Requests
      BY <1>1 DEF PollRecs
    <2> HIDE DEF rest
    <2>3. ASSUME poll' = [poll EXCEPT ![p].rest = rest]
          PROVE  PollTypes'
      BY <1>1, <2>2, <2>3 DEF TypeInv, PollTypes, PollRecs
    <2> QED BY <1>4, <2>1, <2>3
  <1>16. ASSUME NEW s \in Requests, Supersede(p, s) PROVE TypeInv' /\ DocStep
    <2> DEFINE d == Superseded(req[s], r)
    <2>1. /\ poll[p].at = "superseding" /\ Update(s, d) /\ Leaves(p, s)
      BY <1>16 DEF Supersede, Leaves
    <2>2. req[s] \in Document
      BY <1>1
    <2>3. /\ d \in Document /\ d.status = req[s].status /\ d.confirm = "superseded"
          /\ d.linked = req[s].linked /\ d.processing = req[s].processing
      BY <1>3, <2>1, <2>2, SupersededPatch
    <2> HIDE DEF d
    <2>4. DocStep
      BY <2>1, <2>3, DocPatched
    <2> QED BY <1>5, <1>6, <1>15, <2>1, <2>4
  <1>17. ASSUME NEW s \in Requests, SupersedeLost(p, s) PROVE TypeInv' /\ DocStep
    BY <1>5, <1>6, <1>15, <1>17, DocKept DEF SupersedeLost
  <1>18. CASE TabStop(p)
    BY <1>4, <1>5, <1>6, <1>18, DocKept DEF TabStop
  <1> QED BY <1>7, <1>9, <1>10, <1>11, <1>13, <1>14, <1>16, <1>17, <1>18 DEF PollStep

\* What a turn does to itself.
LEMMA TurnGoes ==
    ASSUME TypeInv, NEW m \in Messages, NEW at,
           at \in {"yes", "no", "claimed", "gated", "booked", "refused", "declining",
                   "done", "lost_yes", "lost_no"},
           turn' = [turn EXCEPT ![m].at = at], turn[m].at # "idle"
    PROVE  /\ TurnTypes' /\ turn'[m].at = at /\ turn'[m].request = turn[m].request
           /\ \A n \in Messages \ {m} : turn'[n] = turn[n]
  BY DEF TypeInv, TurnTypes, TurnRecs

\* The turns of the customer's messages that store nothing in the document.
LEMMA ReadSteps ==
    ASSUME TypeInv, NEW m \in Messages,
           \/ \E r \in Requests, answer \in {"yes", "no"} : Answer(m, r, answer)
           \/ ConfirmGate(m) \/ CreateBooking(m) \/ DeclineRead(m)
           \/ Redeliver(m) \/ Resume(m)
    PROVE  TypeInv' /\ DocStep
  <1>1. UNCHANGED <<req, tap, poll, faults, said, told, cut>>
    BY DEF Answer, ConfirmGate, CreateBooking, DeclineRead, Redeliver, Resume
  <1>2. TapTypes' /\ PollTypes' /\ DocStep
    BY <1>1, DocKept DEF TypeInv, TapTypes, PollTypes
  <1>3. ASSUME NEW r \in Requests, NEW answer \in {"yes", "no"}, Answer(m, r, answer)
        PROVE  TypeInv'
    <2> DEFINE new == [at |-> answer, request |-> r]
    <2>1. new \in TurnRecs /\ new.request \in Requests
      BY DEF TurnRecs
    <2>2. turn' = [turn EXCEPT ![m] = new]
      BY <1>3 DEF Answer
    <2> HIDE DEF new
    <2>3. TurnTypes'
      BY <2>1, <2>2 DEF TypeInv, TurnTypes
    <2>4. DocTypes' /\ SeenTypes'
      BY <1>1, <1>3 DEF Answer, TypeInv, DocTypes, SeenTypes
    <2> QED BY <1>2, <2>3, <2>4 DEF TypeInv
  <1>4. CASE ConfirmGate(m) \/ DeclineRead(m) \/ Resume(m)
    <2>1. TurnTypes'
      BY <1>4, TurnGoes DEF ConfirmGate, DeclineRead, Resume
    <2>2. DocTypes' /\ SeenTypes'
      BY <1>1, <1>4 DEF ConfirmGate, DeclineRead, Resume, TypeInv, DocTypes, SeenTypes
    <2> QED BY <1>2, <2>1, <2>2 DEF TypeInv
  <1>5. CASE CreateBooking(m)
    <2>1. TurnTypes'
      BY <1>5, TurnGoes DEF CreateBooking
    <2>2. turn[m].request \in Requests
      BY <1>5 DEF CreateBooking, TypeInv, TurnTypes
    <2>3. DocTypes'
      BY <1>1, <1>5, <2>2 DEF CreateBooking, Books, TypeInv, DocTypes
    <2>4. SeenTypes'
      BY <1>1, <1>5 DEF CreateBooking, TypeInv, SeenTypes
    <2> QED BY <1>2, <2>1, <2>3, <2>4 DEF TypeInv
  <1>6. CASE Redeliver(m)
    <2>1. CASE turn' = [turn EXCEPT ![m].at = "done"]
      <3>1. TurnTypes'
        BY <1>6, <2>1, TurnGoes DEF Redeliver
      <3> QED BY <1>1, <1>2, <1>6, <3>1 DEF Redeliver, TypeInv, DocTypes, SeenTypes
    <2>2. CASE turn' = [turn EXCEPT ![m] = NoTurn]
      <3>1. TurnTypes'
        BY <2>2 DEF TypeInv, TurnTypes, TurnRecs, NoTurn
      <3> QED BY <1>1, <1>2, <1>6, <3>1 DEF Redeliver, TypeInv, DocTypes, SeenTypes
    <2>3. \/ turn' = [turn EXCEPT ![m] = [turn[m] EXCEPT !.at = "done"]]
          \/ turn' = [turn EXCEPT ![m] = NoTurn]
      BY <1>6 DEF Redeliver
    <2>4. [turn EXCEPT ![m] = [turn[m] EXCEPT !.at = "done"]]
             = [turn EXCEPT ![m].at = "done"]
      BY DEF TypeInv, TurnTypes
    <2> QED BY <2>1, <2>2, <2>3, <2>4
  <1> QED BY <1>2, <1>3, <1>4, <1>5, <1>6

\* The calls of a turn that fail.
LEMMA FailSteps ==
    ASSUME TypeInv, NEW m \in Messages,
           ClaimFails(m) \/ ReadThrows(m) \/ BookingFails(m) \/ WriteLost(m)
    PROVE  TypeInv' /\ DocStep
  <1> DEFINE r == turn[m].request
  <1>1. /\ UNCHANGED <<tap, poll, said, told, accepted>>
        /\ turn[m].at # "idle" /\ Fault
        /\ cut' = cut \/ cut' = cut \union {r}
    BY DEF ClaimFails, ReadThrows, BookingFails, WriteLost
  <1>2. /\ r \in Requests /\ req \in [Requests -> Document] /\ req[r] \in Document
    BY <1>1 DEF TypeInv, TurnTypes, DocTypes
  <1>3. TapTypes' /\ PollTypes' /\ SeenTypes'
    <2>1. faults' \in 0..MaxFaults
      BY <1>1, FaultFacts DEF TypeInv, SeenTypes
    <2>2. cut' \subseteq Requests
      BY <1>1, <1>2 DEF TypeInv, SeenTypes
    <2> QED BY <1>1, <2>1, <2>2 DEF TypeInv, TapTypes, PollTypes, SeenTypes
  <1>4. TurnTypes'
    BY <1>1, TurnGoes DEF ClaimFails, ReadThrows, BookingFails, WriteLost
  <1>5. bookings' \subseteq [request : Requests, turn : Messages]
    BY <1>2 DEF ClaimFails, ReadThrows, BookingFails, WriteLost, Books, TypeInv, DocTypes
  <1>6. DocStep
    <2>1. CASE UNCHANGED req
      BY <2>1, DocKept
    <2>2. CASE Update(r, Claimed(req[r])) /\ r \in cut'
      <3> DEFINE d == Claimed(req[r])
      <3>1. d \in Document /\ d.status = req[r].status /\ d.confirm = req[r].confirm
            /\ d.linked = req[r].linked
        BY <1>2, ClaimedPatch
      <3> HIDE DEF d
      <3>2. /\ req' \in [Requests -> Document] /\ req'[r] = d
            /\ \A s \in Requests \ {r} : req'[s] = req[s]
        BY <1>2, <2>2, <3>1, UpdateFacts DEF d
      <3> QED BY <1>2, <2>2, <3>1, <3>2 DEF DocStep
    <2> QED BY <2>1, <2>2 DEF ClaimFails, ReadThrows, BookingFails, WriteLost
  <1>7. DocTypes'
    BY <1>5, <1>6 DEF DocTypes, DocStep
  <1> QED BY <1>3, <1>4, <1>6, <1>7 DEF TypeInv

\* And those that store something in the document.
LEMMA WriteSteps ==
    ASSUME TypeInv, NEW m \in Messages,
           \/ ConfirmClaim(m) \/ ConfirmLink(m) \/ ConfirmRefused(m) \/ DeclineWrite(m)
    PROVE  TypeInv' /\ DocStep
  <1> DEFINE r == turn[m].request
  <1>1. /\ UNCHANGED <<bookings, tap, poll, faults, said, told, accepted, cut>>
        /\ turn[m].at # "idle"
    BY DEF ConfirmClaim, ConfirmLink, ConfirmRefused, DeclineWrite
  <1>2. TapTypes' /\ PollTypes' /\ SeenTypes'
    BY <1>1 DEF TypeInv, TapTypes, PollTypes, SeenTypes
  <1>3. TurnTypes'
    BY TurnGoes DEF ConfirmClaim, ConfirmLink, ConfirmRefused, DeclineWrite
  <1>4. r \in Requests /\ req \in [Requests -> Document] /\ req[r] \in Document
    BY <1>1 DEF TypeInv, TurnTypes, DocTypes
  <1>5. ASSUME DocStep PROVE TypeInv' /\ DocStep
    <2>1. DocTypes'
      BY <1>1, <1>5 DEF TypeInv, DocTypes, DocStep
    <2> QED BY <1>2, <1>3, <1>5, <2>1 DEF TypeInv
  <1>6. CASE ConfirmClaim(m)
    <2>1. CASE UNCHANGED req
      BY <1>5, <2>1, DocKept
    <2>2. CASE Update(r, Claimed(req[r])) /\ turn' = [turn EXCEPT ![m].at = "claimed"]
      <3> DEFINE d == Claimed(req[r])
      <3>1. d \in Document /\ d.status = req[r].status /\ d.confirm = req[r].confirm
            /\ d.linked = req[r].linked
        BY <1>4, ClaimedPatch
      <3>2. turn'[m].at = "claimed" /\ turn'[m].request = r
        BY <1>1, <2>2, TurnGoes
      <3> HIDE DEF d
      <3>3. /\ req' \in [Requests -> Document] /\ req'[r] = d
            /\ \A s \in Requests \ {r} : req'[s] = req[s]
        BY <1>4, <2>2, <3>1, UpdateFacts DEF d
      <3>4. DocStep
        BY <1>4, <3>1, <3>2, <3>3 DEF DocStep
      <3> QED BY <1>5, <3>4
    <2> QED BY <1>6, <2>1, <2>2 DEF ConfirmClaim
  <1>7. CASE ConfirmLink(m)
    <2> DEFINE d == Linked(req[r], m)
    <2>1. Update(r, d) /\ turn[m].at = "booked"
      BY <1>7 DEF ConfirmLink
    <2>2. d \in Document /\ d.status = req[r].status /\ d.confirm = "confirmed"
          /\ d.linked = m /\ d.processing = "done"
      BY <1>4, LinkedPatch
    <2> HIDE DEF d
    <2>3. /\ req' \in [Requests -> Document] /\ req'[r] = d
          /\ \A s \in Requests \ {r} : req'[s] = req[s]
      BY <1>4, <2>1, <2>2, UpdateFacts
    <2>4. DocStep
      BY <1>4, <2>1, <2>2, <2>3 DEF DocStep
    <2> QED BY <1>5, <2>4
  <1>8. CASE ConfirmRefused(m)
    <2> DEFINE d == Reopened(req[r])
    <2>1. Update(r, d) /\ turn[m].at = "refused"
      BY <1>8 DEF ConfirmRefused
    <2>2. d \in Document /\ d.status = req[r].status
          /\ d.linked = req[r].linked /\ d.processing = "idle"
      BY <1>4, ReopenedPatch
    <2> HIDE DEF d
    <2>3. /\ req' \in [Requests -> Document] /\ req'[r] = d
          /\ \A s \in Requests \ {r} : req'[s] = req[s]
      BY <1>4, <2>1, <2>2, UpdateFacts
    <2>4. DocStep
      BY <1>4, <2>1, <2>2, <2>3 DEF DocStep
    <2> QED BY <1>5, <2>4
  <1>9. CASE DeclineWrite(m)
    <2> DEFINE d == Declined(req[r])
    <2>1. Update(r, d)
      BY <1>9 DEF DeclineWrite
    <2>2. d \in Document /\ d.status = req[r].status /\ d.confirm = "declined"
          /\ d.linked = req[r].linked /\ d.processing = "done"
      BY <1>4, DeclinedPatch
    <2> HIDE DEF d
    <2>3. DocStep
      BY <1>4, <2>1, <2>2, DocPatched
    <2> QED BY <1>5, <2>3
  <1> QED BY <1>6, <1>7, <1>8, <1>9

\* A new request, and the end of an offer's time.
LEMMA RequestSteps ==
    ASSUME TypeInv, NEW r \in Requests, Create(r) \/ Expire(r)
    PROVE  TypeInv' /\ DocStep
  <1>1. UNCHANGED <<bookings, tap, poll, turn, faults, said, told, accepted, cut>>
    BY DEF Create, Expire
  <1>2. TapTypes' /\ PollTypes' /\ TurnTypes' /\ SeenTypes'
    BY <1>1 DEF TypeInv, TapTypes, PollTypes, TurnTypes, SeenTypes
  <1>3. req[r] \in Document
    BY DEF TypeInv, DocTypes
  <1>4. DocStep
    <2>1. CASE Create(r)
      BY <1>3, <2>1, AskedPatch, DocPatched DEF Create
    <2>2. CASE Expire(r)
      BY <1>3, <2>2, ExpiredPatch, DocPatched DEF Expire
    <2> QED BY <2>1, <2>2
  <1>5. DocTypes'
    BY <1>1, <1>4 DEF TypeInv, DocTypes, DocStep
  <1> QED BY <1>2, <1>4, <1>5 DEF TypeInv

\* A stop of the server.
LEMMA StopSteps ==
    ASSUME TypeInv, ServerStop
    PROVE  /\ TypeInv' /\ DocStep
           /\ \A m \in Messages : turn'[m].at = Lost(turn[m].at)
                                  /\ turn'[m].request = turn[m].request
           /\ \A p \in Pollers : poll'[p] = poll[p] \/ poll'[p].at = "idle"
  <1>1. /\ UNCHANGED <<req, bookings, said, told, accepted>>
        /\ faults' \in 0..MaxFaults
        /\ cut' = cut \union {turn[m].request : m \in {n \in Messages : InFlight(n)}}
        /\ tap' = [t \in Taps |-> IF tap[t].at = "read" THEN NoTap ELSE tap[t]]
        /\ poll' = [poll EXCEPT ![Server] = NoPoll]
        /\ turn' = [m \in Messages |-> [turn[m] EXCEPT !.at = Lost(@)]]
    BY FaultFacts DEF ServerStop, TypeInv, SeenTypes
  <1>2. NoPoll \in PollRecs /\ NoPoll.at = "idle" /\ NoTap \in TapRecs /\ NoTap.at = "idle"
    BY DEF NoPoll, PollRecs, NoTap, TapRecs, Answers
  <1>3. TapTypes'
    BY <1>1, <1>2 DEF TypeInv, TapTypes
  <1>4. PollTypes' /\ \A p \in Pollers : poll'[p] = poll[p] \/ poll'[p].at = "idle"
    BY <1>1, <1>2 DEF TypeInv, PollTypes
  <1>5. ASSUME NEW m \in Messages
        PROVE  /\ turn'[m] \in TurnRecs /\ turn'[m].at = Lost(turn[m].at)
               /\ turn'[m].request = turn[m].request
    <2> DEFINE at == Lost(turn[m].at)
    <2>1. turn[m] \in TurnRecs
      BY DEF TypeInv, TurnTypes
    <2>2. at \in {"idle", "done", "lost_no", "lost_yes"}
      BY DEF Lost
    <2>3. turn'[m] = [turn[m] EXCEPT !.at = at]
      BY <1>1
    <2> HIDE DEF at
    <2>4. turn'[m] \in TurnRecs /\ turn'[m].at = at /\ turn'[m].request = turn[m].request
      BY <2>1, <2>2, <2>3 DEF TurnRecs
    <2> QED BY <2>4 DEF at
  <1>6. TurnTypes'
    <2>1. turn' \in [Messages -> TurnRecs]
      BY <1>1, <1>5
    <2>2. \A m \in Messages : turn'[m].at # "idle" => turn[m].at # "idle"
      BY <1>5 DEF Lost
    <2> QED BY <1>5, <2>1, <2>2 DEF TypeInv, TurnTypes
  <1>7. DocTypes' /\ SeenTypes'
    <2>1. cut' \subseteq Requests
      BY <1>1 DEF InFlight, TypeInv, TurnTypes, SeenTypes
    <2> QED BY <1>1, <2>1 DEF TypeInv, DocTypes, SeenTypes
  <1> QED BY <1>1, <1>3, <1>4, <1>5, <1>6, <1>7, DocKept DEF TypeInv

\* Every step keeps the types, and is one of those DocStep describes.
LEMMA NextType == TypeInv /\ [Next]_vars => TypeInv' /\ DocStep
  <1> SUFFICES ASSUME TypeInv, [Next]_vars PROVE TypeInv' /\ DocStep
    OBVIOUS
  <1>1. CASE UNCHANGED vars
    BY <1>1, DocKept DEF vars, TypeInv, DocTypes, TapTypes, PollTypes, TurnTypes, SeenTypes
  <1> QED BY <1>1, TapSteps, PollSteps, ReadSteps, WriteSteps, FailSteps, RequestSteps, StopSteps
          DEF Next, Decide, TurnStep

\* The types of every reachable state.
THEOREM TypeCorrect == Spec => []TypeOK
  BY InitType, NextType, TypeInvGives, PTL DEF Spec

-----------------------------------------------------------------------------
(* What a step does to the actors.                                         *)

\* A turn moves along its handler, or is lost; one that is lost or whose write
\* is lost between its claim and its end leaves the request cut.
TurnMove(m) ==
    LET at == turn[m].at  next == turn'[m].at  r == turn[m].request IN
    \/ turn'[m] = turn[m]
    \/ /\ at = "idle" /\ next \in {"yes", "no"}
       /\ next = "yes" => turn'[m].request \in accepted'
    \/ /\ turn'[m].request = r
       /\ \/ at = "yes" /\ next \in {"claimed", "done"}
          \/ at = "claimed" /\ next \in {"gated", "refused"}
          \/ at = "gated" /\ next = "refused"
          \/ /\ at = "gated" /\ next = "booked"
             /\ \/ [request |-> r, turn |-> m] \in bookings'
                \/ Known(m)
          \/ at = "booked" /\ next = "done" /\ req'[r].linked = m
             /\ req'[r].processing = "done"
          \/ at = "refused" /\ next = "done" /\ req'[r].processing = "idle"
          \/ at \in {"no", "declining"} /\ next \in {"declining", "done"}
          \/ at = "lost_yes" /\ next \in {"yes", "done"}
          \/ at = "lost_no" /\ next \in {"no", "done"}
          \/ at \in {"booked", "refused"} /\ next = "done" /\ r \in cut'
          \/ next = Lost(at) /\ (InFlight(m) => r \in cut')
    \/ at \in {"lost_yes", "lost_no"} /\ next = "idle"

\* A poller goes on with the row it fetched.
PollMove(p) ==
    \/ poll'[p] = poll[p]
    \/ poll'[p].at = "idle"
    \/ /\ poll'[p].at = "fetched" /\ poll'[p].request \in Requests
       /\ poll'[p].status = req[poll'[p].request].status
    \/ /\ poll[p].at # "idle"
       /\ poll'[p].request = poll[p].request /\ poll'[p].status = poll[p].status
       /\ \/ poll[p].at \in {"accepted", "superseding"}
          \/ <<poll[p].request, poll[p].status>> \in told'

\* A booking is that of a turn whose item was free and that had made none.
BookMove ==
    \/ bookings' = bookings
    \/ \E m \in Messages :
          /\ turn[m].at = "gated"
          /\ \/ turn'[m].at = "booked" /\ turn'[m].request = turn[m].request
             \/ turn[m].request \in cut'
          /\ ~Known(m) /\ ~Booked(ItemOf[turn[m].request])
          /\ bookings' = bookings \union {[request |-> turn[m].request, turn |-> m]}

Moves ==
    /\ \A m \in Messages : TurnMove(m)
    /\ \A p \in Pollers : PollMove(p)
    /\ BookMove
    /\ cut \subseteq cut'
    /\ said \subseteq said' /\ told \subseteq told' /\ accepted \subseteq accepted'

\* The pollers' steps.
LEMMA PollMoves ==
    ASSUME TypeInv, NEW p \in Pollers, PollStep(p)
    PROVE  Moves
  <1>1. UNCHANGED <<bookings, turn, said, accepted, cut>> /\ told \subseteq told'
    BY DEF PollStep, PollFetch, NoticeAccepted, NoticeDropped, NoticeStranded,
           NoticePatched, PatchLost, Leaves, Supersede, SupersedeLost, TabStop
  <1>2. BookMove /\ \A m \in Messages : TurnMove(m)
    BY <1>1 DEF BookMove, TurnMove
  <1>3. poll \in [Pollers -> PollRecs] /\ NoPoll.at = "idle"
    BY DEF TypeInv, PollTypes, NoPoll
  <1>4. ASSUME poll' = [poll EXCEPT ![p] = NoPoll] PROVE \A q \in Pollers : PollMove(q)
    BY <1>3, <1>4 DEF PollMove
  <1>5. ASSUME NEW s \in Requests, PollFetch(p, s) PROVE \A q \in Pollers : PollMove(q)
    <2> DEFINE new == [NoPoll EXCEPT !.at = "fetched", !.request = s,
                                     !.status = req[s].status]
    <2>1. new.at = "fetched" /\ new.request = s /\ new.status = req[s].status
      BY DEF NoPoll
    <2>2. poll' = [poll EXCEPT ![p] = new]
      BY <1>5 DEF PollFetch
    <2> HIDE DEF new
    <2> QED BY <1>3, <2>1, <2>2 DEF PollMove
  <1>6. ASSUME NoticeAccepted(p) PROVE \A q \in Pollers : PollMove(q)
    <2>1. /\ poll[p].at = "fetched" /\ poll' = [poll EXCEPT ![p].at = "accepted"]
          /\ <<poll[p].request, poll[p].status>> \in told'
      BY <1>6 DEF NoticeAccepted
    <2>2. /\ poll'[p].request = poll[p].request /\ poll'[p].status = poll[p].status
          /\ \A q \in Pollers \ {p} : poll'[q] = poll[q]
      BY <1>3, <2>1 DEF PollRecs
    <2> QED BY <2>1, <2>2 DEF PollMove
  <1>7. ASSUME NoticePatched(p) \/ PatchLost(p)
        PROVE  \A q \in Pollers : PollMove(q)
    <2> DEFINE rest == Siblings(poll[p].request)
    <2>1. /\ poll[p].at = "accepted"
          /\ \/ poll' = [poll EXCEPT ![p].at = "superseding", ![p].rest = rest]
             \/ poll' = [poll EXCEPT ![p] = NoPoll]
      BY <1>7 DEF NoticePatched, PatchLost, GoesOn
    <2> HIDE DEF rest
    <2>2. ASSUME poll' = [poll EXCEPT ![p].at = "superseding", ![p].rest = rest]
          PROVE  \A q \in Pollers : PollMove(q)
      <3>1. /\ poll'[p].request = poll[p].request /\ poll'[p].status = poll[p].status
            /\ \A q \in Pollers \ {p} : poll'[q] = poll[q]
        BY <1>3, <2>2 DEF PollRecs
      <3> QED BY <2>1, <3>1 DEF PollMove
    <2> QED BY <1>4, <2>1, <2>2
  <1>9. ASSUME NEW s \in Requests, Leaves(p, s)
        PROVE  \A q \in Pollers : PollMove(q)
    <2> DEFINE rest == poll[p].rest \ {s}
    <2>1. /\ poll[p].at = "superseding"
          /\ \/ poll' = [poll EXCEPT ![p] = NoPoll]
             \/ poll' = [poll EXCEPT ![p].rest = rest]
      BY <1>9 DEF Leaves
    <2> HIDE DEF rest
    <2>2. ASSUME poll' = [poll EXCEPT ![p].rest = rest]
          PROVE  \A q \in Pollers : PollMove(q)
      <3>1. /\ poll'[p].request = poll[p].request /\ poll'[p].status = poll[p].status
            /\ \A q \in Pollers \ {p} : poll'[q] = poll[q]
        BY <1>3, <2>2 DEF PollRecs
      <3> QED BY <2>1, <3>1 DEF PollMove
    <2> QED BY <1>4, <2>1, <2>2
  <1>8. \A q \in Pollers : PollMove(q)
    BY <1>4, <1>5, <1>6, <1>7, <1>9
       DEF PollStep, NoticeDropped, NoticeStranded, Supersede, SupersedeLost, TabStop
  <1> QED BY <1>1, <1>2, <1>8 DEF Moves

\* The turns' steps.
LEMMA TurnMoves ==
    ASSUME TypeInv, NEW m \in Messages, TurnStep(m)
    PROVE  Moves
  <1>1. /\ UNCHANGED <<poll, said, told>>
        /\ accepted \subseteq accepted' /\ cut \subseteq cut'
    BY DEF TurnStep, Answer, ConfirmClaim, ConfirmGate, CreateBooking, ConfirmLink,
           ConfirmRefused, DeclineRead, DeclineWrite, Redeliver, Resume, ClaimFails,
           ReadThrows, BookingFails, WriteLost
  <1>2. turn \in [Messages -> TurnRecs]
    BY DEF TypeInv, TurnTypes
  <1>3. \A p \in Pollers : PollMove(p)
    BY <1>1 DEF PollMove
  <1>4. ASSUME TurnMove(m), \A n \in Messages \ {m} : turn'[n] = turn[n], BookMove
        PROVE  Moves
    BY <1>1, <1>2, <1>3, <1>4 DEF Moves, TurnMove
  <1>5. ASSUME NEW r \in Requests, NEW answer \in {"yes", "no"}, Answer(m, r, answer)
        PROVE  Moves
    <2> DEFINE new == [at |-> answer, request |-> r]
    <2>1. /\ turn[m].at = "idle" /\ turn' = [turn EXCEPT ![m] = new]
          /\ bookings' = bookings
          /\ answer = "yes" => r \in accepted'
      BY <1>5 DEF Answer
    <2>2. new.at = answer /\ new.request = r
      OBVIOUS
    <2> HIDE DEF new
    <2>3. turn'[m] = new /\ \A n \in Messages \ {m} : turn'[n] = turn[n]
      BY <1>2, <2>1
    <2>4. TurnMove(m)
      BY <2>1, <2>2, <2>3 DEF TurnMove
    <2> QED BY <1>4, <2>1, <2>3, <2>4 DEF BookMove
  <1>6. ASSUME NEW at,
               at \in {"yes", "no", "claimed", "gated", "booked", "refused",
                       "declining", "done", "lost_yes", "lost_no"},
               turn' = [turn EXCEPT ![m].at = at], turn[m].at # "idle"
        PROVE  /\ turn'[m].at = at /\ turn'[m].request = turn[m].request
               /\ \A n \in Messages \ {m} : turn'[n] = turn[n]
    BY <1>6, TurnGoes
  <1>7. CASE ConfirmClaim(m) \/ ConfirmGate(m) \/ DeclineRead(m) \/ DeclineWrite(m)
             \/ Resume(m)
    <2>1. TurnMove(m) /\ \A n \in Messages \ {m} : turn'[n] = turn[n]
      BY <1>6, <1>7 DEF ConfirmClaim, ConfirmGate, DeclineRead, DeclineWrite, Resume,
                        TurnMove
    <2>2. bookings' = bookings
      BY <1>7 DEF ConfirmClaim, ConfirmGate, DeclineRead, DeclineWrite, Resume
    <2> QED BY <1>4, <2>1, <2>2 DEF BookMove
  <1>11. ASSUME Books(m), turn[m].at = "gated",
                \/ turn'[m].at = "booked" /\ turn'[m].request = turn[m].request
                \/ turn[m].request \in cut'
                \/ Known(m) \/ Booked(ItemOf[turn[m].request])
         PROVE  BookMove
    <2>1. CASE ~Known(m) /\ ~Booked(ItemOf[turn[m].request])
      BY <1>11, <2>1 DEF Books, BookMove
    <2>2. CASE Known(m) \/ Booked(ItemOf[turn[m].request])
      BY <1>11, <2>2 DEF Books, BookMove
    <2> QED BY <2>1, <2>2
  <1>8. CASE CreateBooking(m)
    <2> DEFINE r == turn[m].request
               free == ~Booked(ItemOf[r])
    <2>1. /\ turn[m].at = "gated" /\ Books(m)
          /\ turn' = [turn EXCEPT ![m].at = IF Known(m) \/ free THEN "booked"
                                                              ELSE "refused"]
      BY <1>8 DEF CreateBooking
    <2>2. /\ turn'[m].at = IF Known(m) \/ free THEN "booked" ELSE "refused"
          /\ turn'[m].request = r /\ \A n \in Messages \ {m} : turn'[n] = turn[n]
      BY <1>6, <2>1
    <2>3. BookMove
      BY <1>11, <2>1, <2>2
    <2>4. TurnMove(m)
      <3>1. CASE Known(m)
        BY <2>1, <2>2, <3>1 DEF TurnMove
      <3>2. CASE ~Known(m) /\ free
        <4>1. [request |-> r, turn |-> m] \in bookings' /\ turn'[m].at = "booked"
          BY <2>1, <2>2, <3>2 DEF Books
        <4> QED BY <2>1, <2>2, <4>1 DEF TurnMove
      <3>3. CASE ~Known(m) /\ ~free
        BY <2>1, <2>2, <3>3 DEF TurnMove
      <3> QED BY <3>1, <3>2, <3>3
    <2> QED BY <1>4, <2>2, <2>3, <2>4
  <1>12. CASE ClaimFails(m) \/ ReadThrows(m) \/ BookingFails(m) \/ WriteLost(m)
    <2>1. turn[m].at # "idle"
      BY <1>12 DEF ClaimFails, ReadThrows, BookingFails, WriteLost
    <2>2. TurnMove(m) /\ \A n \in Messages \ {m} : turn'[n] = turn[n]
      <3>1. CASE ClaimFails(m)
        BY <1>6, <2>1, <3>1 DEF ClaimFails, TurnMove
      <3>2. CASE ReadThrows(m)
        BY <1>6, <2>1, <3>2 DEF ReadThrows, TurnMove, InFlight, Lost
      <3>3. CASE BookingFails(m)
        BY <1>6, <2>1, <3>3 DEF BookingFails, TurnMove
      <3>4. CASE WriteLost(m)
        <4>1. CASE turn' = [turn EXCEPT ![m].at = "done"]
          BY <1>6, <2>1, <3>4, <4>1 DEF WriteLost, TurnMove
        <4>2. CASE turn[m].at = "booked" /\ turn' = [turn EXCEPT ![m].at = "lost_yes"]
          BY <1>6, <2>1, <3>4, <4>2 DEF WriteLost, TurnMove, Lost
        <4> QED BY <3>4, <4>1, <4>2 DEF WriteLost
      <3> QED BY <1>12, <3>1, <3>2, <3>3, <3>4
    <2>3. BookMove
      BY <1>11, <1>12 DEF ClaimFails, ReadThrows, BookingFails, WriteLost, BookMove
    <2> QED BY <1>4, <2>2, <2>3
  <1>9. CASE ConfirmLink(m) \/ ConfirmRefused(m)
    <2> DEFINE r == turn[m].request
    <2>1. turn[m].at # "idle" /\ turn' = [turn EXCEPT ![m].at = "done"]
          /\ bookings' = bookings
      BY <1>9 DEF ConfirmLink, ConfirmRefused
    <2>2. r \in Requests /\ req \in [Requests -> Document] /\ req[r] \in Document
      BY <2>1 DEF TypeInv, TurnTypes, DocTypes
    <2>3. \/ /\ turn[m].at = "booked" /\ req'[r].linked = m
             /\ req'[r].processing = "done"
          \/ turn[m].at = "refused" /\ req'[r].processing = "idle"
      <3>1. CASE ConfirmLink(m)
        BY <2>2, <3>1, LinkedPatch, UpdateFacts DEF ConfirmLink
      <3>2. CASE ConfirmRefused(m)
        BY <2>2, <3>2, ReopenedPatch, UpdateFacts DEF ConfirmRefused
      <3> QED BY <1>9, <3>1, <3>2
    <2>4. /\ turn'[m].at = "done" /\ turn'[m].request = r
          /\ \A n \in Messages \ {m} : turn'[n] = turn[n]
      BY <1>6, <2>1
    <2> QED BY <1>4, <2>1, <2>3, <2>4 DEF TurnMove, BookMove
  <1>10. CASE Redeliver(m)
    <2>1. /\ turn[m].at \in {"lost_yes", "lost_no"} /\ bookings' = bookings
          /\ \/ turn' = [turn EXCEPT ![m] = [turn[m] EXCEPT !.at = "done"]]
             \/ turn' = [turn EXCEPT ![m] = NoTurn]
      BY <1>10 DEF Redeliver
    <2>2. \A n \in Messages \ {m} : turn'[n] = turn[n]
      BY <1>2, <2>1
    <2>3. \/ turn'[m].at = "done" /\ turn'[m].request = turn[m].request
          \/ turn'[m].at = "idle"
      BY <1>2, <2>1 DEF TurnRecs, NoTurn
    <2> QED BY <1>4, <2>1, <2>2, <2>3 DEF TurnMove, BookMove
  <1> QED BY <1>5, <1>7, <1>8, <1>9, <1>10, <1>12 DEF TurnStep

\* Every step.
LEMMA NextMoves == TypeInv /\ [Next]_vars => Moves
  <1> SUFFICES ASSUME TypeInv, [Next]_vars PROVE Moves
    OBVIOUS
  <1>1. ASSUME UNCHANGED <<bookings, poll, turn, told, accepted, cut>>,
               said \subseteq said'
        PROVE  Moves
    BY <1>1 DEF Moves, TurnMove, PollMove, BookMove
  <1>2. CASE UNCHANGED vars
    BY <1>1, <1>2 DEF vars
  <1>3. CASE Decide \/ \E r \in Requests : Create(r) \/ Expire(r)
    BY <1>1, <1>3 DEF Decide, TapRead, TapWrite, TapLost, Create, Expire
  <1>4. CASE ServerStop
    <2>1. /\ UNCHANGED <<bookings, said, told, accepted>> /\ cut \subseteq cut'
          /\ \A m \in Messages : InFlight(m) => turn[m].request \in cut'
      BY <1>4 DEF ServerStop
    <2>2. /\ \A m \in Messages : turn'[m].at = Lost(turn[m].at)
                                  /\ turn'[m].request = turn[m].request
          /\ \A p \in Pollers : poll'[p] = poll[p] \/ poll'[p].at = "idle"
      BY <1>4, StopSteps
    <2>3. \A m \in Messages : TurnMove(m)
      BY <2>1, <2>2 DEF TurnMove
    <2> QED BY <2>1, <2>2, <2>3 DEF Moves, PollMove, BookMove
  <1> QED BY <1>2, <1>3, <1>4, PollMoves, TurnMoves DEF Next

-----------------------------------------------------------------------------
(* The claim of a confirmation.                                            *)

\* A turn in flight stays so, uses the claim of its request up or is cut off.
LEMMA ClaimStep == TypeInv /\ ClaimHasTurn /\ [Next]_vars => ClaimHasTurn'
  <1> SUFFICES ASSUME TypeInv, ClaimHasTurn, [Next]_vars,
                      NEW r \in Requests, req'[r].processing = "processing"
               PROVE  r \in cut' \/ \E m \in Messages : InFlight(m)' /\ turn'[m].request = r
    BY DEF ClaimHasTurn
  <1>1. DocStep /\ Moves
    BY NextType, NextMoves
  <1>2. CASE \E m \in Messages : turn'[m].at = "claimed" /\ turn'[m].request = r
    BY <1>2 DEF InFlight
  <1>3. CASE req[r].processing = "processing"
    <2>1. CASE r \in cut
      BY <1>1, <2>1 DEF Moves
    <2>2. ASSUME NEW m \in Messages, InFlight(m), turn[m].request = r
          PROVE  r \in cut' \/ (InFlight(m)' /\ turn'[m].request = r)
      <3>1. TurnMove(m)
        BY <1>1 DEF Moves
      <3> QED BY <2>2, <3>1 DEF TurnMove, InFlight
    <2> QED BY <1>3, <2>1, <2>2 DEF ClaimHasTurn
  <1> QED BY <1>1, <1>2, <1>3 DEF DocStep

\* A claim that is "processing" is held by a turn still in the executor, or a
\* confirmation of the same request was cut off by a stop, an exception or a
\* lost write: no other way out of the executor keeps the claim.
THEOREM ClaimTheorem == Spec => []ClaimHasTurn
  <1>1. Init => ClaimHasTurn
    BY DEF Init, NewDocument, ClaimHasTurn
  <1> QED BY <1>1, InitType, NextType, ClaimStep, PTL DEF Spec

-----------------------------------------------------------------------------
(* The booking and its link.                                               *)

Rec(r, m) == [request |-> r, turn |-> m]

\* A booking is linked or its turn is about to do it, unless its confirmation
\* was cut off; the link may be one to the booking of an estranged message.
Owned(b) ==
    b.request \in cut \/
    /\ turn[b.turn].request = b.request
    /\ \/ turn[b.turn].at = "booked"
       \/ /\ turn[b.turn].at = "done"
          /\ req[b.request].linked = b.turn \/ Estranged(req[b.request].linked)

\* The message has a booking for the request, or is estranged.
HasBooking(m, r) == Rec(r, m) \in bookings \/ Estranged(m)

LinkInv ==
    /\ \A b \in bookings : Owned(b)
    /\ \A b, c \in bookings : ItemOf[b.request] = ItemOf[c.request] => b = c
    /\ \A m \in Messages : turn[m].at = "booked" => HasBooking(m, turn[m].request)
    /\ \A r \in Requests : req[r].linked # None => HasBooking(req[r].linked, r)

\* The records that name a booking.
LEMMA RecFacts ==
    ASSUME NEW r \in Requests, NEW m \in Messages
    PROVE  /\ Rec(r, m).request = r /\ Rec(r, m).turn = m
           /\ Rec(r, m) \in [request : Requests, turn : Messages]
  BY DEF Rec

\* Bookings and cuts are never taken back.
LEMMA Grows ==
    ASSUME TypeInv, [Next]_vars
    PROVE  /\ bookings \subseteq bookings' /\ cut \subseteq cut'
           /\ \A m : Estranged(m) => \E b \in bookings' : b.turn = m /\ b.request \in cut'
           /\ \A m, r : HasBooking(m, r) =>
                 \/ Rec(r, m) \in bookings'
                 \/ \E b \in bookings' : b.turn = m /\ b.request \in cut'
  <1>1. bookings \subseteq bookings' /\ cut \subseteq cut'
    BY NextMoves DEF Moves, BookMove
  <1> QED BY <1>1 DEF Estranged, HasBooking

\* A link that is stored stays, unless an estranged message is part of it: the
\* turn that writes one made the booking of the request, and an item is booked
\* once.
LEMMA LinkKept ==
    ASSUME TypeInv, LinkInv, [Next]_vars, NEW r \in Requests
    PROVE  /\ req[r].linked # None =>
                 \/ req'[r].linked = req[r].linked
                 \/ Estranged(req[r].linked) \/ Estranged(req'[r].linked)
           /\ req'[r].linked # None => HasBooking(req'[r].linked, r)
  <1>1. \/ req'[r].linked = req[r].linked
        \/ \E m \in Messages : /\ turn[m].at = "booked" /\ turn[m].request = r
                               /\ req'[r].linked = m
    BY NextType DEF DocStep
  <1>2. CASE req'[r].linked = req[r].linked
    BY <1>2 DEF LinkInv
  <1>3. ASSUME NEW m \in Messages, turn[m].at = "booked", turn[m].request = r,
               req'[r].linked = m
        PROVE  /\ req[r].linked # None =>
                     req[r].linked = m \/ Estranged(req[r].linked) \/ Estranged(m)
               /\ HasBooking(m, r)
    <2>1. HasBooking(m, r)
      BY <1>3 DEF LinkInv
    <2>2. ASSUME NEW n \in Messages, req[r].linked = n, ~Estranged(n), ~Estranged(m)
          PROVE  n = m
      <3>1. Rec(r, n) \in bookings /\ Rec(r, m) \in bookings
        BY <2>1, <2>2 DEF LinkInv, HasBooking
      <3>2. /\ Rec(r, n).request = r /\ Rec(r, n).turn = n
            /\ Rec(r, m).request = r /\ Rec(r, m).turn = m
        BY RecFacts
      <3>3. Rec(r, n) = Rec(r, m)
        BY <3>1, <3>2 DEF LinkInv
      <3> QED BY <3>2, <3>3
    <2>3. req[r].linked \in Messages \union {None}
      BY DEF TypeInv, DocTypes, Document
    <2> QED BY <2>1, <2>2, <2>3
  <1> QED BY <1>1, <1>2, <1>3

\* A booking stays owned.
LEMMA OwnedStep ==
    ASSUME TypeInv, LinkInv, [Next]_vars, NEW b \in bookings
    PROVE  Owned(b)'
  <1>1. b.turn \in Messages /\ b.request \in Requests
    BY DEF TypeInv, DocTypes
  <1>2. Moves /\ TurnMove(b.turn) /\ Owned(b) /\ cut \subseteq cut'
    BY <1>1, NextMoves DEF Moves, LinkInv
  <1>3. CASE b.request \in cut
    BY <1>2, <1>3 DEF Owned
  <1>4. CASE b.request \notin cut /\ turn[b.turn].request = b.request
             /\ turn[b.turn].at = "booked"
    BY <1>2, <1>4 DEF TurnMove, Owned, Lost, InFlight
  <1>5. CASE /\ b.request \notin cut /\ turn[b.turn].request = b.request
             /\ turn[b.turn].at = "done"
             /\ req[b.request].linked = b.turn \/ Estranged(req[b.request].linked)
    <2>1. turn'[b.turn].at = "done" /\ turn'[b.turn].request = b.request
      BY <1>2, <1>5 DEF TurnMove, Lost
    <2>2. \/ req'[b.request].linked = req[b.request].linked
          \/ \E m \in Messages : /\ turn[m].at = "booked" /\ turn[m].request = b.request
                                 /\ req'[b.request].linked = m
      BY <1>1, NextType DEF DocStep
    <2>3. CASE req'[b.request].linked = req[b.request].linked
      BY <1>5, <2>1, <2>3, Grows DEF Owned, Estranged
    <2>4. ASSUME NEW m \in Messages, turn[m].at = "booked", turn[m].request = b.request,
                 req'[b.request].linked = m
          PROVE  Owned(b)'
      <3>1. HasBooking(m, b.request)
        BY <2>4 DEF LinkInv
      <3>2. Estranged(m)
        <4>1. ASSUME Rec(b.request, m) \in bookings PROVE FALSE
          <5>1. Rec(b.request, m).request = b.request /\ Rec(b.request, m).turn = m
            BY <1>1, RecFacts
          <5>2. Rec(b.request, m) = b
            BY <4>1, <5>1 DEF LinkInv
          <5> QED BY <1>5, <2>4, <5>1, <5>2
        <4> QED BY <3>1, <4>1 DEF HasBooking
      <3> QED BY <2>1, <2>4, <3>2, Grows DEF Owned, Estranged
    <2> QED BY <2>2, <2>3, <2>4
  <1> QED BY <1>2, <1>3, <1>4, <1>5 DEF Owned

\* Every step keeps the invariant.
LEMMA LinkStep == TypeInv /\ LinkInv /\ [Next]_vars => LinkInv'
  <1> SUFFICES ASSUME TypeInv, LinkInv, [Next]_vars
               PROVE  LinkInv'
    OBVIOUS
  <1>1. TypeInv' /\ DocStep /\ Moves
    BY NextType, NextMoves
  <1>2. \/ bookings' = bookings
        \/ \E m \in Messages :
              /\ turn[m].at = "gated"
              /\ \/ turn'[m].at = "booked" /\ turn'[m].request = turn[m].request
                 \/ turn[m].request \in cut'
              /\ ~Booked(ItemOf[turn[m].request])
              /\ bookings' = bookings \union {Rec(turn[m].request, m)}
    BY <1>1 DEF Moves, BookMove, Rec
  <1>3. ASSUME NEW m \in Messages, NEW r \in Requests, turn[m].request = r,
               \/ turn'[m].at = "booked" /\ turn'[m].request = r
               \/ r \in cut',
               ~Booked(ItemOf[r]), bookings' = bookings \union {Rec(r, m)}
        PROVE  /\ \A b \in bookings' : Owned(b)'
               /\ \A b, c \in bookings' :
                     ItemOf[b.request] = ItemOf[c.request] => b = c
    <2> DEFINE new == Rec(r, m)
    <2>2. new.request = r /\ new.turn = m
      BY RecFacts
    <2>3. Owned(new)'
      BY <1>3, <2>2 DEF Owned
    <2>4. \A b \in bookings : ItemOf[b.request] # ItemOf[new.request]
      BY <1>3, <2>2 DEF Booked
    <2>5. \A b, c \in bookings : ItemOf[b.request] = ItemOf[c.request] => b = c
      BY DEF LinkInv
    <2>6. bookings' = bookings \union {new}
      BY <1>3
    <2> HIDE DEF new
    <2>7. ASSUME NEW b \in bookings' PROVE Owned(b)'
      BY OwnedStep, <2>3, <2>6
    <2> QED BY <2>4, <2>5, <2>6, <2>7
  <1>4. /\ \A b \in bookings' : Owned(b)'
        /\ \A b, c \in bookings' : ItemOf[b.request] = ItemOf[c.request] => b = c
    <2>1. CASE bookings' = bookings
      BY OwnedStep, <2>1 DEF LinkInv
    <2>2. \A m \in Messages : turn[m].at = "gated" => turn[m].request \in Requests
      BY DEF TypeInv, TurnTypes
    <2> QED BY <1>2, <1>3, <2>1, <2>2
  <1>5. ASSUME NEW m \in Messages
        PROVE  (turn[m].at = "booked" => HasBooking(m, turn[m].request))'
    <2> DEFINE has == \/ Rec(turn'[m].request, m) \in bookings'
                      \/ \E b \in bookings' : b.turn = m /\ b.request \in cut'
    <2> SUFFICES ASSUME turn'[m].at = "booked" PROVE has
      BY DEF HasBooking, Estranged, Rec
    <2>1. CASE turn'[m] = turn[m]
      <3>1. HasBooking(m, turn[m].request)
        BY <2>1 DEF LinkInv
      <3> QED BY <2>1, <3>1, Grows
    <2>2. CASE /\ turn[m].at = "gated" /\ turn'[m].request = turn[m].request
               /\ Rec(turn[m].request, m) \in bookings'
      BY <2>2
    <2>3. CASE turn[m].at = "gated" /\ Known(m)
      <3>1. PICK b \in bookings : b.turn = m
        BY <2>3 DEF Known
      <3>2. b.request \in cut
        BY <2>3, <3>1 DEF LinkInv, Owned
      <3> QED BY <3>1, <3>2, Grows
    <2>4. TurnMove(m)
      BY <1>1 DEF Moves
    <2> HIDE DEF has
    <2> QED BY <2>1, <2>2, <2>3, <2>4 DEF TurnMove, Rec, Lost
  <1>6. ASSUME NEW r \in Requests
        PROVE  (req[r].linked # None => HasBooking(req[r].linked, r))'
    <2>1. ASSUME req'[r].linked # None
          PROVE  \/ Rec(r, req'[r].linked) \in bookings'
                 \/ \E b \in bookings' : b.turn = req'[r].linked /\ b.request \in cut'
      <3>1. HasBooking(req'[r].linked, r)
        BY <2>1, LinkKept
      <3> QED BY <3>1, Grows
    <2> QED BY <2>1 DEF HasBooking, Estranged, Rec
  <1> QED BY <1>4, <1>5, <1>6 DEF LinkInv

\* The invariant of the booking and its link.
LEMMA LinkInvariant == Spec => [](TypeInv /\ LinkInv)
  <1>1. Init => LinkInv
    BY DEF Init, NewDocument, NoTurn, LinkInv
  <1> QED BY <1>1, InitType, NextType, LinkStep, PTL DEF Spec

\* No booking loses its request, unless the confirmation that made it, or that
\* of the message whose booking the request has instead, was cut off.
THEOREM OrphanTheorem == Spec => []OrphanNeedsCut
  <1>1. TypeInv /\ LinkInv => OrphanNeedsCut
    BY DEF LinkInv, Owned, OrphanNeedsCut
  <1> QED BY <1>1, LinkInvariant, PTL

\* A request keeps its booking, whatever late patch reopens it, unless one of
\* the two messages is estranged.
THEOREM LinkTheorem == Spec => LinkStays
  <1>1. TypeInv /\ LinkInv /\ [Next]_vars =>
           [\A r \in Requests : req[r].linked # None =>
               \/ req'[r].linked = req[r].linked
               \/ Estranged(req[r].linked) \/ Estranged(req'[r].linked)]_vars
    BY LinkKept
  <1> QED BY <1>1, LinkInvariant, PTL DEF Spec, LinkStays

-----------------------------------------------------------------------------
(* The documents implement BookingPromise.                                 *)

Confirming == {"yes", "claimed", "gated", "booked", "refused", "lost_yes"}

\* What the documents, the pollers and the turns know of the people.
PromiseInv ==
    /\ \A r \in Requests :
          /\ req[r].status = "approved" => <<r, "approved">> \in said
          /\ req[r].confirm = "waiting_confirm" => <<r, "approved">> \in told
    /\ \A p \in Pollers :
          poll[p].at # "idle" /\ poll[p].status = "approved" =>
             /\ <<poll[p].request, "approved">> \in said
             /\ poll[p].at \in {"accepted", "superseding"} =>
                   <<poll[p].request, "approved">> \in told
    /\ \A m \in Messages : turn[m].at \in Confirming => turn[m].request \in accepted
    /\ \A r \in accepted : <<r, "approved">> \in told

\* A customer accepts an offer that waits for the answer.
LEMMA AcceptFrom ==
    ASSUME TypeInv, [Next]_vars
    PROVE  \/ accepted' = accepted
           \/ \E r \in Requests : /\ accepted' = accepted \union {r}
                                 /\ req[r].confirm = "waiting_confirm"
  <1>1. CASE UNCHANGED vars
    BY <1>1 DEF vars
  <1>2. CASE \E m \in Messages : TurnStep(m)
    BY <1>2 DEF TurnStep, Answer, CloudEligible, Reusable, ConfirmClaim, ConfirmGate,
                CreateBooking, ConfirmLink, ConfirmRefused, DeclineRead, DeclineWrite,
                Redeliver, Resume, ClaimFails, ReadThrows, BookingFails, WriteLost
  <1>3. CASE \E p \in Pollers : PollStep(p)
    BY <1>3 DEF PollStep, PollFetch, NoticeAccepted, NoticeDropped, NoticeStranded,
                NoticePatched, PatchLost, Leaves, Supersede, SupersedeLost, TabStop
  <1>4. CASE Decide \/ ServerStop \/ \E r \in Requests : Create(r) \/ Expire(r)
    BY <1>4 DEF Decide, TapRead, TapWrite, TapLost, ServerStop, Create, Expire
  <1> QED BY <1>1, <1>2, <1>3, <1>4 DEF Next

\* Every step keeps the invariant.
LEMMA PromiseInvStep == TypeInv /\ PromiseInv /\ [Next]_vars => PromiseInv'
  <1> SUFFICES ASSUME TypeInv, PromiseInv, [Next]_vars PROVE PromiseInv'
    OBVIOUS
  <1>1. TypeInv' /\ DocStep /\ Moves
    BY NextType, NextMoves
  <1>2. said \subseteq said' /\ told \subseteq told' /\ accepted \subseteq accepted'
    BY <1>1 DEF Moves
  <1>3. ASSUME NEW r \in Requests, req'[r].status = "approved"
        PROVE  <<r, "approved">> \in said'
    BY <1>1, <1>2, <1>3 DEF DocStep, PromiseInv
  <1>4. ASSUME NEW r \in Requests, req'[r].confirm = "waiting_confirm"
        PROVE  <<r, "approved">> \in told'
    <2>1. CASE req[r].confirm = "waiting_confirm"
      BY <1>2, <2>1 DEF PromiseInv
    <2>2. ASSUME NEW p \in Pollers, poll[p].at = "accepted", poll[p].request = r,
                 poll[p].status = "approved"
          PROVE  <<r, "approved">> \in told'
      BY <1>2, <2>2 DEF PromiseInv
    <2>3. ASSUME NEW m \in Messages, turn[m].at = "refused", turn[m].request = r
          PROVE  <<r, "approved">> \in told'
      BY <1>2, <2>3 DEF PromiseInv, Confirming
    <2> QED BY <1>1, <1>4, <2>1, <2>2, <2>3 DEF DocStep
  <1>5. ASSUME NEW p \in Pollers, poll'[p].at # "idle", poll'[p].status = "approved"
        PROVE  /\ <<poll'[p].request, "approved">> \in said'
               /\ poll'[p].at \in {"accepted", "superseding"} =>
                     <<poll'[p].request, "approved">> \in told'
    <2>1. PollMove(p)
      BY <1>1 DEF Moves
    <2>2. CASE poll'[p] = poll[p]
      BY <1>2, <1>5, <2>2 DEF PromiseInv
    <2>3. CASE /\ poll'[p].at = "fetched" /\ poll'[p].request \in Requests
               /\ poll'[p].status = req[poll'[p].request].status
      BY <1>2, <1>5, <2>3 DEF PromiseInv
    <2>4. CASE /\ poll[p].at # "idle"
               /\ poll'[p].request = poll[p].request /\ poll'[p].status = poll[p].status
               /\ \/ poll[p].at \in {"accepted", "superseding"}
                  \/ <<poll[p].request, poll[p].status>> \in told'
      BY <1>2, <1>5, <2>4 DEF PromiseInv
    <2> QED BY <1>5, <2>1, <2>2, <2>3, <2>4 DEF PollMove
  <1>6. ASSUME NEW m \in Messages, turn'[m].at \in Confirming
        PROVE  turn'[m].request \in accepted'
    <2>1. TurnMove(m) /\ (turn[m].at \in Confirming => turn[m].request \in accepted')
      BY <1>1, <1>2 DEF Moves, PromiseInv
    <2>2. turn[m] \in TurnRecs
      BY DEF TypeInv, TurnTypes
    <2>3. Lost(turn[m].at) \in Confirming => turn[m].at \in Confirming
      BY <2>2 DEF TurnRecs, Lost, Confirming
    <2> QED BY <1>6, <2>1, <2>3 DEF TurnMove, Confirming
  <1>7. ASSUME NEW r \in accepted' PROVE <<r, "approved">> \in told'
    BY <1>2, <1>7, AcceptFrom DEF PromiseInv
  <1> QED BY <1>3, <1>4, <1>5, <1>6, <1>7 DEF PromiseInv

\* The invariant of the promise.
LEMMA PromiseInvariant == Spec => [](TypeInv /\ PromiseInv)
  <1>1. Init => PromiseInv
    BY DEF Init, NewDocument, NoPoll, NoTurn, Confirming, PromiseInv
  <1> QED BY <1>1, InitType, NextType, PromiseInvStep, PTL DEF Spec

\* At most one of the four things the promise speaks of changes in a step.
LEMMA Witnessed ==
    ASSUME TypeInv, PromiseInv, [Next]_vars
    PROVE  \/ UNCHANGED <<said, told, accepted, bookings>>
           \/ /\ UNCHANGED <<told, accepted, bookings>>
              /\ \E r \in Requests, answer \in Answers : said' = said \union {<<r, answer>>}
           \/ /\ UNCHANGED <<said, accepted, bookings>>
              /\ \E r \in Requests, answer \in Answers :
                    /\ told' = told \union {<<r, answer>>}
                    /\ answer = "approved" => <<r, "approved">> \in said
           \/ /\ UNCHANGED <<said, told, bookings>>
              /\ \E r \in Requests :
                    /\ accepted' = accepted \union {r}
                    /\ <<r, "approved">> \in told
           \/ /\ UNCHANGED <<said, told, accepted>>
              /\ \E r \in Requests, m \in Messages :
                    /\ bookings' = bookings \union {[request |-> r, turn |-> m]}
                    /\ r \in accepted /\ ~Booked(ItemOf[r])
  <1>1. CASE UNCHANGED vars
    BY <1>1 DEF vars
  <1>2. ASSUME NEW t \in Taps, TapWrite(t)
        PROVE  /\ UNCHANGED <<told, accepted, bookings>>
               /\ \E r \in Requests, answer \in Answers :
                     said' = said \union {<<r, answer>>}
    BY <1>2 DEF TapWrite, TypeInv, TapTypes, TapRecs
  <1>3. ASSUME NEW p \in Pollers, NoticeAccepted(p)
        PROVE  /\ UNCHANGED <<said, accepted, bookings>>
               /\ \E r \in Requests, answer \in Answers :
                     /\ told' = told \union {<<r, answer>>}
                     /\ answer = "approved" => <<r, "approved">> \in said
    <2>1. /\ poll[p].request \in Requests /\ poll[p].status \in Answers
          /\ poll[p].status = "approved" => <<poll[p].request, "approved">> \in said
      BY <1>3 DEF NoticeAccepted, TypeInv, PollTypes, PollRecs, PromiseInv
    <2> QED BY <1>3, <2>1 DEF NoticeAccepted
  <1>4. ASSUME NEW p \in Pollers, PollStep(p), ~NoticeAccepted(p)
        PROVE  UNCHANGED <<said, told, accepted, bookings>>
    BY <1>4 DEF PollStep, PollFetch, NoticeDropped, NoticeStranded, NoticePatched,
                PatchLost, Leaves, Supersede, SupersedeLost, TabStop
  <1>5. ASSUME NEW m \in Messages, NEW r \in Requests, NEW answer \in {"yes", "no"},
               Answer(m, r, answer)
        PROVE  /\ UNCHANGED <<said, told, bookings>>
               /\ accepted' = accepted \/ accepted' = accepted \union {r}
               /\ <<r, "approved">> \in told
    BY <1>5 DEF Answer, CloudEligible, Reusable, PromiseInv
  <1>6. ASSUME NEW m \in Messages, CreateBooking(m) \/ BookingFails(m)
        PROVE  /\ UNCHANGED <<said, told, accepted>>
               /\ \/ bookings' = bookings
                  \/ \E r \in Requests :
                        /\ bookings' = bookings \union {[request |-> r, turn |-> m]}
                        /\ r \in accepted /\ ~Booked(ItemOf[r])
    <2> DEFINE r == turn[m].request
    <2>1. r \in Requests /\ r \in accepted
      BY <1>6 DEF CreateBooking, BookingFails, TypeInv, TurnTypes, PromiseInv, Confirming
    <2>2. /\ UNCHANGED <<said, told, accepted>>
          /\ \/ bookings' = bookings
             \/ /\ bookings' = bookings \union {[request |-> r, turn |-> m]}
                /\ ~Booked(ItemOf[r])
      BY <1>6 DEF CreateBooking, BookingFails, Books
    <2> QED BY <2>1, <2>2
  <1>7. ASSUME NEW m \in Messages,
               \/ ConfirmClaim(m) \/ ConfirmGate(m) \/ ConfirmLink(m)
               \/ ConfirmRefused(m) \/ DeclineRead(m) \/ DeclineWrite(m)
               \/ Redeliver(m) \/ Resume(m)
               \/ ClaimFails(m) \/ ReadThrows(m) \/ WriteLost(m)
        PROVE  UNCHANGED <<said, told, accepted, bookings>>
    BY <1>7 DEF ClaimFails, ReadThrows, WriteLost, ConfirmClaim, ConfirmGate, ConfirmLink, ConfirmRefused, DeclineRead,
                DeclineWrite, Redeliver, Resume
  <1>8. CASE ServerStop \/ (\E r \in Requests : Create(r) \/ Expire(r))
             \/ (\E t \in Taps : TapLost(t))
             \/ \E t \in Taps, r \in Requests, answer \in Answers : TapRead(t, r, answer)
    BY <1>8 DEF ServerStop, Create, Expire, TapLost, TapRead
  <1>9. CASE \E p \in Pollers : PollStep(p)
    BY <1>3, <1>4, <1>9
  <1>10. CASE \E m \in Messages : TurnStep(m)
    <2>1. ASSUME NEW m \in Messages, TurnStep(m)
          PROVE  \/ CreateBooking(m) \/ BookingFails(m)
                 \/ \E r \in Requests, answer \in {"yes", "no"} : Answer(m, r, answer)
                 \/ UNCHANGED <<said, told, accepted, bookings>>
      BY <1>7, <2>1 DEF TurnStep
    <2> QED BY <1>5, <1>6, <1>10, <2>1
  <1> QED BY <1>1, <1>2, <1>8, <1>9, <1>10 DEF Next, Decide

\* Every step is one of the promise or none.
LEMMA PromiseStep ==
    ASSUME TypeInv, PromiseInv, [Next]_vars
    PROVE  [Promise!Next]_(Promise!vars)
  <1> DEFINE A == {r \in Requests : <<r, "approved">> \in said}
             O == {r \in Requests : <<r, "approved">> \in told}
             B == {b.request : b \in bookings}
  <1>1. CASE UNCHANGED <<said, told, accepted, bookings>>
    BY <1>1 DEF Promise!vars
  <1>2. ASSUME UNCHANGED <<told, accepted, bookings>>, NEW r \in Requests,
               NEW answer \in Answers, said' = said \union {<<r, answer>>}
        PROVE  [Promise!Next]_(Promise!vars)
    <2>1. /\ O' = O /\ B' = B
          /\ A' = A \/ A' = A \union {r}
      BY <1>2 DEF Answers
    <2> QED BY <1>2, <2>1 DEF Promise!Next, Promise!Approve, Promise!vars
  <1>3. ASSUME UNCHANGED <<said, accepted, bookings>>, NEW r \in Requests,
               NEW answer \in Answers, told' = told \union {<<r, answer>>},
               answer = "approved" => <<r, "approved">> \in said
        PROVE  [Promise!Next]_(Promise!vars)
    <2>1. /\ A' = A /\ B' = B
          /\ O' = O \/ (O' = O \union {r} /\ r \in A)
      BY <1>3 DEF Answers
    <2> QED BY <1>3, <2>1 DEF Promise!Next, Promise!Offer, Promise!vars
  <1>4. ASSUME UNCHANGED <<said, told, bookings>>, NEW r \in Requests,
               accepted' = accepted \union {r}, <<r, "approved">> \in told
        PROVE  [Promise!Next]_(Promise!vars)
    BY <1>4 DEF Promise!Next, Promise!Accept
  <1>5. ASSUME UNCHANGED <<said, told, accepted>>, NEW r \in Requests,
               NEW m \in Messages, r \in accepted, ~Booked(ItemOf[r]),
               bookings' = bookings \union {[request |-> r, turn |-> m]}
        PROVE  [Promise!Next]_(Promise!vars)
    <2> DEFINE new == [request |-> r, turn |-> m]
    <2>1. A' = A /\ O' = O
      BY <1>5
    <2>2. B' = B \union {r}
      <3>1. new.request = r /\ bookings' = bookings \union {new}
        BY <1>5
      <3> HIDE DEF new
      <3> QED BY <3>1
    <2>3. \A s \in B : ItemOf[s] # ItemOf[r]
      BY <1>5 DEF Booked
    <2> QED BY <1>5, <2>1, <2>2, <2>3 DEF Promise!Next, Promise!Book
  <1> QED BY <1>1, <1>2, <1>3, <1>4, <1>5, Witnessed

\* Whatever the interleaving, the stops and the failed calls, a booking follows the
\* owner's yes, the notice and the customer's yes, and an item is booked once.
THEOREM PromiseKept == Spec => KeepsPromise
  <1>1. Init => Promise!Init
    BY DEF Init, Promise!Init
  <1> QED BY <1>1, PromiseInvariant, PromiseStep, PTL DEF Spec, KeepsPromise, Promise!Spec
=============================================================================
