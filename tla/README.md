# Emily: verification of the inbound turn and of the documents that wait for the owner

Emily answers WhatsApp messages for businesses that rent and sell. A customer
message enters by Meta's Cloud API webhook or is read from a WhatsApp Web tab by
a Playwright listener; it is debounced, gated by one global lock, answered by a
lane of the conversation logic, and sent. Everything that makes this hard is in
between: redelivered webhooks, a retry timer, parked messages, a startup sweep, a
provider whose "not sent" may be wrong, and a process that may die anywhere.

Some turns end in a document that waits for a person: an availability request, a
booking that needs the owner's approval, a question only the owner can answer.
Those documents live for hours, in Firestore, and are written by handlers of
webhooks and by pollers of two processes (the hosted server and the one with the
WhatsApp Web tab), hardly ever in a transaction.

These modules model both. `src/...` below means the repository; the server's code
is under `src/src/`.

## 1. Inventory

| Component | State | Operations | Interacts with |
|---|---|---|---|
| Inbound turn ledger (`inboundTurnLedger.js`) | one JSON row per turn: state, processing lease, queue marker, semantic scope, outbound intent, reply, send claim, retry count, alert | claim, lane and queue markers, decision, failure bookkeeping, outbound lock, send claim / in flight / sent / released / uncertain, done, startup listing | written by every pipeline run and both recoveries |
| Cloud turn pipeline (`whatsappInboundBuffer.js: executeWhatsAppAiPipeline`) | a run per call, suspended at awaits; retry timers | admission, gate, ownership model, lane, outbound lock, send, failure | ledger, active job, lanes, provider |
| Recovery (`cloudInboundRecovery.js`) | one timer per recoverable row | send-only recovery of a locked row; startup sweep | ledger, pipeline, provider |
| Active-job lock and queues (`whatsappInboundBuffer.js`, reset in `playwrightListener/listener.js`) | `__activeJob`, `__forceProcessing`, `__messageQueue`, a pending queue per tab session | flush, gate, park, finally block, drain, stale release, listener reset | all pipelines of all conversations |
| Debounce buffer (`whatsappInboundBuffer.js`) | fragments, timers, the state of a canonical group turn | schedule, observe, confirm, freeze, flush, settle | listener, active job, pipeline |
| Playwright turn ledger, registry, cursor, guarantee bridge | rows of tab turns, typed-message registry, the last message read | received, baseline, lock, send, release | listener, buffer |
| Availability requests (`availability*.js`, `executors/createBookingExecutor.js`) | a document: status, prompt, notice, confirmation claim, linked booking, phone look-up | create or reuse, prompt the owner, decide, notify the customer, look up the phone number, confirm, decline, supersede, expire | pollers, pipeline, providers, inventory |
| Booking approval, notification, completion (`bookingApprovalService.js`, `bookingNotificationState.js`, `bookingCompletionService.js`) | the booking's status and notification state, the item's availability | prompt the owner, take the provider's report, decide, tell the customer by private reply, complete | pollers, scheduler, webhook |
| Missing-information requests (`paMissingInfo*.js`) | a document: status, message id of the question, answer, clarification, relay | ask the owner, take the answer, ask back, take the explanation, follow up with the customer | pipeline |
| Local pollers | none of their own | claim rows of the three above and continue them in a tab | the tab |
| Listener and outbound bridges | chat locks, DOM | admit, observe, type, click, read | buffer, registry |
| Providers (`whatsappCloud.js`, `messagingService.js`, `twilioMessaging.js`) | none | send | pipeline, recovery |
| Conversation brain, inventory, pricing | none of the turn's | pure functions around a language model and a catalog | lanes |
| HTTP server, configuration, scripts, tests | - | routes, set-up | - |

What is hard, and what makes each modelled component correct:

* **One turn, many runs.** A redelivery, the retry timer, the drained queue and
  the sweep can all enter the same turn; each run reads the row, awaits, and acts
  on what the row is by then. Correct: a request to the provider is licensed by
  the verdict on the one before (`SendLicence`), no two run at once
  (`OneSendAtATime`), and the lane that executes is the one the ledger records
  (`LaneFollowsDecision`).
* **A verdict that may be wrong.** `ok:false` also stands for a lost answer.
  Correct: the customer gets a second message only when the provider denied one
  it had accepted (`DeliveryLicence`).
* **Crashes.** Only the row survives. Correct: a row in flight with nobody left
  to hear the verdict is neither sent again nor freed (`UncertainNeverResent`), a
  row that says "sent" is right (`ReplySentMeansDelivered`), and a locked or done
  turn is never worked on again (`KeepsPromise`).
* **Retries.** Correct: a failed turn is retried or given up with an alert, and a
  committed reply is settled (`FailedTurnIsRetried`, `CommittedReplyIsSettled`).
* **A lock that many reset.** The active job is a plain global that the gate, the
  flush, the listener and every finally block reset, whoever holds it. Correct:
  beyond the holder, at most one pipeline runs per force release
  (`ExclusiveUnlessForced`), the force flag never lets a message pass beside a
  holder (`ForceOnlyWhenFree`, proved), a parked message is in its queue exactly once
  (`ParkedExactlyOnce`), and a leaked lock is reclaimed (`LeakedLockReclaimed`).

* **A turn that is read, not received.** The tab's messages are polled from a page.
  Which rows make one customer turn is decided by what later scans do *not* see.
  Correct: a turn closes only on such evidence (`FreezeNeedsQuiet`), a row that was
  handed over is in one place at a time, however often its turn fails, is restored,
  parked or blocked (`HeldExactlyOnce`), a closed turn stays as it is until it is
  answered or dropped as a whole (`GroupTurnBuffer!KeepsPromise`), a restored turn
  runs again (`RestoredTurnRunsAgain`), and the chat's flags outlive its turns only
  where one was skipped as a duplicate (`LockHasTurn`).
* **A provider that is a page.** The tab's reply is typed into the one compose box
  of the page, by a run, or by the recovery of a row that was locked before a crash.
  The lock, the page, the registry of typed texts and the ledger change one after
  the other. Correct: a reply is repeated only for the reasons the code has to
  accept (`CopiesHaveCause`), and a row that is done has its reply on the page
  (`DoneHasReply`).
* **Late writes.** A handler reads a document, sends something, and writes what it
  had planned, whatever the document says by then. Correct: links and claims survive
  the late writes of others, as long as nothing cuts their writer off (`LinkStays`,
  `ClaimHasTurn`, `OrphanNeedsCut`), and a booking still comes only from the owner's
  yes, the notice and the customer's yes, in this order (`KeepsPromise` of `AvailabilityBooking`).
* **Messages to people that cannot be taken back.** Correct: the owner and the
  customer are told once, up to sends whose outcome the code never saw and to actors
  that had the document in hand together (`PromptLicence`, `ToldOnce`, `OneDm`,
  `FollowupOnce`), and what they were told
  stays what the document says (`OneDecision`, `DecisionStands`).
* **Nobody left to go on.** Correct: a decided request is settled and a decision
  reported (`DecidedIsSettled`, `DecisionReported`), a claim or an answer is in
  somebody's hands (`ClaimsHaveHolders`, `AnswerInHand`), a question can be answered
  (`NeverStranded`), each up to the stops and failures it names.

`PROJECT.json` lists every component with its status, and the hazards line by
line.

## 2. Modules

| Module | Models | Correspondence |
|---|---|---|
| `InboundTurnLedger` | the Cloud row | one operator per exported function that changes a row, from the old row to the new one. Each function writes the file before it returns, so a row is durable at every step. Clock comparisons are booleans of the row: `procFresh` (PROCESSING_STALE_MS) and `sendFresh` (RECOVERY_CLAIM_TTL_MS) |
| `CloudTurn` | `executeWhatsAppAiPipeline` for one Cloud direct message, `tryRecoverCloudOutboundLockedTurn`, the sweep, the retry timer | `pc[r]` is the await that run `r` is suspended at; an action is the code between two awaits, which Node runs without interruption. `view[r]` is what the run read before the await. `Next` interleaves runs, starts, the provider, lapses of leases and restarts |
| `DeliveryPromise` | what the ledger promises about one reply | the abstract specification; `CloudTurn!KeepsPromise` is the refinement, with `Stage` as the mapping |
| `ActiveJob` | the lock and the two kinds of queue, all conversations | `pc[j]` is where message `j` is; `lock`, `force`, `msgQueue`, `tabQueue` are the globals; `drains` counts scheduled drains |
| `GroupTurnBuffer` | the turns of one WhatsApp group, from the page to the settlement | `page` is what people see; `scan` is the running iteration of `runChatLoop` and its phase the await it is suspended at; `entry[p]` is the buffer entry of participant p; `flight` and `parked` are the turns after the flush; `chatLocked`, `responding` and `pinned` are `__processingChats`, `__chatResponding` and `__activeChatLock` |
| `TurnPromise` | what the group buffer promises about the messages of a group: taken up once, closed into turns that neither grow nor open again, answered or dropped as a whole | the abstract specification; `GroupTurnBuffer!KeepsPromise` is the refinement, with `Waiting` and `Closed` as the mapping |
| `TabTurn` | the rows of one group from the scan to the typed reply: the tab's part of `inboundTurnLedger.js`, `playwrightOutboundRegistry.js`, `adapters/playwrightAdapter.js`, `outboundLockedRecovery.js`, the scan's admission | `row[r]` is the ledger row (the operators of `InboundTurnLedger` where the code shares them), `run[r]` and `rec[r]` the pipeline run and the recovery of row r, `typing` who types into the compose box; an action is the code between two awaits. `busy`, `active` are `__OUTBOUND_BUSY__`, `__ACTIVE_PIPELINE__` |
| `AvailabilityRequest` | the availabilityRequests document | its fields, the predicates the code reads it through, one operator per writer's patch |
| `AvailabilityBooking` | from the owner's tap to the linked booking | `tap`, `poll`, `turn` are handlers of taps, of customer messages, and one notice poller per process; each step is what lies between two awaits; only the confirmation's claim and `createBooking` are transactions |
| `BookingPromise` | what a request promises before anything is booked | the abstract specification; `AvailabilityBooking!KeepsPromise` is the refinement |
| `AvailabilityNotice` | the prompt to the owner, the notice to the customer and the look-up of the customer's phone number | `avr` is the document as these see it; `prompter`, `teller[p]`, `lookup` are the three senders |
| `BookingApproval` | a booking that waits for the owner | `bkg` is the booking with its notification state; `asker` prompts, `clerk[t]` handles tap t, `courier` is the approval poller that sends the private reply |
| `MissingInfo` | one question to the owner | `mi` is the document, `turn[t]` the pipeline's turns (of the customer or the owner), `board` the questions the owner has on his phone |
| `MCCloudTurn`, `MCActiveJob`, `MCGroupTurnBuffer`, `MCAvailabilityBooking` | instances for TLC | |
| `MCTurns` | `CloudTurn` and `TabTurn` in one run | the two lanes work on different rows of the ledger, so a behaviour runs one of them (`lane`) and their states add up |
| `MCNotices` | `AvailabilityNotice`, `BookingApproval`, `MissingInfo` in one run | the three documents share no state; a behaviour runs one (`scenario`) |
| `CloudTurn_proofs` | what each ledger function does to a legal row, as lemmas; then types, the safety properties and the refinement | |
| `GroupTurnBuffer_proofs` | types and all safety properties of the group's turns, and that `TurnPromise` is implemented | |
| `TabTurn_proofs` | types and both safety properties of the tab's turns | |
| `ActiveJob_proofs` | types and all safety invariants of `ActiveJob` | |
| `Notices_proofs` | types and all safety properties of `AvailabilityNotice`, `BookingApproval` and `MissingInfo` | |
| `MCTurns_proofs`, `MCNotices_proofs` | that the composed runs are made of steps of their parts, and keep the parts' types | |
| `AvailabilityBooking_proofs` | types, claim, orphan, link, and that `BookingPromise` is implemented | |

`CloudTurn` EXTENDS `InboundTurnLedger` and INSTANCEs `DeliveryPromise`. Whether the
active job is held is an input of `CloudTurn` (`GatePasses` or `GateQueues`): the
lock depends on all conversations and is the subject of `ActiveJob`, which in turn
leaves open what a running pipeline does.

`GroupTurnBuffer` is one group and its listener. A row is its position on the page,
which only grows: an index that WhatsApp reuses when it re-renders the list, and the
admission path for that case, are left out. Reading the page, admitting rows, the scan
notification and the freezes it causes are one synchronous stretch of code, hence one
action `Read`; `FinalCheck` and `EndScan` are the loop's finally block, which awaits
the flush of each turn it freezes. A row that may not join a locked chat is skipped
without an await, so skipping is part of the step before (`GoesOn`). `busy` is the
active job as far as this group's turns hold it; other conversations, and a lock that
goes stale, are the subject of `ActiveJob`. A failed attempt is one that fails before
or while it sends. The pipeline's duplicate check goes by owner and text, over all
rows, customers, chats and sources of the last five seconds; texts are abstract, so
any turn may be skipped by it (`Skipped`). A row whose handoff failed is passed over
(its one retry counts as used) until its state is forgotten (`Forgets`). `cleanReads`,
`answered`, `dropped` and `skipped` observe and are read by properties only.

`TabTurn` is the same path for what `GroupTurnBuffer` leaves out, the row's ledger
entry and the reply's way onto the page. Each row is a turn of its own; the buffer is
the set `waiting`. Runs overlap freely, since a run older than ten seconds loses the
active-job lock. Two senders that type at once (`mixed`) may lose either text
(`swallowed`). `causes[r]` counts what may repeat a reply: a text that was typed and
reported as not typed, a crash between Enter and the registration, a recovery that
began while the run was typing, a turn that was answered again.

The documents. A step that sends something is split into the send and the write
after it, with the provider's verdict in between; `doubts`, `unseen` and the like
count sends whose outcome the code never saw, `shared`, `crowded`, `split` and
`Overlap` say that two actors had a document in hand at once, and are read by
properties only. A stop clears the actors of one process; what a claim in the document
says then stays.

A call of the database may fail wherever the code makes one, and what follows is what
the code does about it, which differs. An update of an availability request that fails
is logged and its caller goes on as if it had been written
(`updateAvailabilityRequestFields` returns false and its callers do not look): the
link of a confirmation and its release, the marks of the prompt, of the notice and of
the phone look-up have such a branch each. A read that fails throws, and between a
claim and its outcome nothing catches that; a failed transaction, the claim of a
confirmation or `createBooking`, may have been committed. A question's update throws
(`patchPaMissingInfoRequest`): in a turn that follows up an answer it ends the turn,
in one that asks back the surrounding catch writes another status. The notification
state of a booking has its own swallowed updates. `faults`, `refusals` and `failures`
bound these together with the calls to providers. A claim left behind in one of these
ways, or by a stop, is recorded in `cut` (by request in `AvailabilityBooking`, by kind
of claim in `AvailabilityNotice`) or `dropped` (`MissingInfo`), so that the properties
say how a claim may lose its holder, and that nothing else makes it.
`AvailabilityRequest` merges values no modelled path tells apart (its header says
which). What the language model makes of a message is an input.

A definition whose comment begins with "Mutant" is not part of the model: it is a
plausible bug, used to show that a property notices it.

The environment of `CloudTurn`: a lane may reply, stay silent or fail; the model
that decides ownership may answer, fail or return something unusable; the provider
may accept a request and the caller may still be told ok:false or get an
exception. `started`, `refused`, `misreported` and `outbox` observe the provider and
are read by properties only.

## 3. Runs

| Run | Shows | Bounds |
|---|---|---|
| `cloud_turn` | all safety properties of `CloudTurn`, and that it implements `DeliveryPromise`; in other behaviours, those of `TabTurn` | two run slots, two deliveries, one restart, one retry, two scopes (two lanes), one reply text; two rows with a reply each, one mishap (a crash, or a text typed but reported as not typed) |
| `cloud_turn_live` | failed turns are retried, committed replies settled | one delivery, one restart, two retries, three scopes (all lanes) |
| `cloud_turn_twice` | violation: the customer gets the reply twice after a lost answer | as `cloud_turn`, one delivery |
| `cloud_turn_lease` | violation: the queue token takes another owner's live lease | two deliveries |
| `cloud_turn_sweep` | violation: the sweep drops a locked row that kept its queue marker | one delivery |
| `active_job` | exclusion up to force releases, intact queues, leaked locks reclaimed | two Cloud messages, two tab messages of one session, one frozen group turn of another; queue bound and deferral bound 1 |
| `active_job_stranded` | violation: a tab message parked behind another conversation's job is never started | the same |
| `group_turn` | rows held once, evidence for every close, flags with an owner, restored turns run again, and that `TurnPromise` is implemented | two participants, two rows of theirs, one of the assistant or the owner, one failure (read, handoff or attempt), any turn skipped as a duplicate; 0.15 million states |
| `group_turn_skipped` | violation: the anchor passes a row that was skipped | three rows, no reply, no failure |
| `group_turn_stuck` | violation: an open turn is never closed after the pin was given up | two rows, no reply, no failure |
| `availability` | bookings come from three yeses, are linked, and items booked once, whatever late writes do | two requests of one customer for one item, two taps, two customer messages, two pollers, two faults (stops, failed reads, lost writes); 2.4 million states |
| `notices` | people are told once, decisions are kept and reported, questions are not lost | prompt: two runs of the turn, two refusals, one stop. Notice: one run, two pollers, two look-up attempts, two refusals, one stop. Approval: two taps, two prompts, one retry, one failing call, one stop. Question: two turns at once, two owner messages, one explanation, two turns that ask, one failure, one lost lock, one restart. 1.1 million states together |

Why the bounds are enough. Two run slots are where every race of the turn lives:
a race is between a run that holds something and one that does not know, and a
third run repeats the second. Slots are reused, so more than two runs occur in a
behaviour (both deliveries, the timer, the queue, the sweep). One restart splits
the behaviour into "before" and "after", and every crash point occurs. The retry
bound 1 makes the terminal failure reachable next to the retry; the live run uses
2 so that the timer fires from a retry as well. In `ActiveJob`, one more message
than the bound reaches the dropping of the oldest message. In `GroupTurnBuffer`, two rows
are two fragments of one turn, a fragment behind a frozen turn, or two turns that
compete for the job; the assistant's row is a reply boundary; the failure restores a
turn. The theorems of section 5 do not depend on these bounds.

For the documents two of each actor is where a race lives: two taps read the same
status, two pollers fetch the same row, a second request supersedes the first, a second
message confirms while the first is being linked. One stop splits a behaviour at every
await. A refusal in the notice is a send not confirmed, a busy tab, or a failed read or
write, so two of them are one of each kind in any order; likewise two faults in
`AvailabilityBooking`, where the second may hit the request that was given the first
one's booking. The prompt and the notice are two scenarios of one document because each
writes fields the other does not read: what a run of the prompt needs of the notice's
part is its stops, and the notice needs one prompt to be decided on. Two attempts are
the first look-up and the last; two prompts are the one whose report comes late and the
one that overwrote its id; one retry is one more than none, and its exhaustion is
reached. In `TabTurn` two rows are what types at once, and what a scan takes for
evidence of another row; one mishap is a crash at each step. With a second reply for one
row (3.3 million states) and with both rows answered by the same text the properties
hold as well. That every property holds for any number of actors is what the theorems
add.

Run slots are symmetric in `cloud_turn` (no action tells them apart, `Dead` is not
permuted); in the same run the two rows of `TabTurn` are exchanged together with
their replies. Requests, taps and messages are symmetric in `availability`. Liveness
runs use no symmetry. Deadlock is not checked: a turn that is
done, with deliveries and restarts used up, stops, and so does a set of messages
that all ended.

Time. `ProcessingLeaseLapses` has a guard for what the clock rules out: a retry
timer waits 8 s at most (500 ms doubled per retry) and a sweep 30 s, less than
PROCESSING_STALE_MS, so a lease claimed after they were armed does not lapse before
they fire. `SendLeaseLapses` does not happen while a run is between its claim and
its in-flight mark, a dynamic import of a module that is already loaded.

Fairness. Every await settles (`WF` of a run's steps) and an armed timer fires; in
`ActiveJob`, runs make progress, scheduled drains are polled, a lock's age passes
the limit and the listener loops. In `GroupTurnBuffer` the poll comes round, awaits
settle, timers fire, and the page is read again and again when the chat was not
processed in the last 1.5 s (`SF` of `Read(FALSE)`: a poll interval is longer, but a
single scan may fall into that window). Nothing is assumed of the provider's acceptance,
of lapses, of redeliveries or of the message queue
(`CloudTurn`), nor of people and stops in the documents: there, pollers are intervals
of a running process, so each gets its turn (`WF` of a poller's and the look-up's
steps), and a handler that was woken goes on (`WF` of a tap's steps; nothing is assumed
of the prompt's, as no liveness property needs it).
`AvailabilityBooking` and `MissingInfo` wait for people and state no fairness; of
`TabTurn` only safety is checked. In `CloudTurn`, a parked message is started by the
finally block of some other pipeline, and nothing in the code makes that happen.

## 4. What the runs found

Six statements of the repository do not hold (PROJECT.json, `findings`): a reply
can reach the customer twice, because a lost answer is reported as ok:false and
ok:false frees the row for a retry; the queue token crosses a lease that another
owner holds; the startup sweep drops a locked row with a leftover queue marker; a
tab message parked behind another conversation's job has nothing that starts it; a
row skipped because its chat is locked does not stay pending, since the anchor passes
it with the next row of the pass; after the navigation pin was given up, a new row of
the participant keeps the open turn, and itself, from ever being handled.

Things the code does not promise, and no property claims: a losing run's lock may
replace the recorded text of a reply in flight; a silent completion may overtake a
send in flight; a stale run can lock a turn that had failed for good; after a
restart, a row whose send claim is still fresh is not looked at again until the
next restart; a reply refused until the retries are used up stays `pending_send`; a
failed group turn whose participant has opened a new one is dropped; fragments
deferred behind a failed turn may follow later ones.

Of the tab's turns (`TabTurn` has these behaviours; its properties name them as
causes or exclude them):

* A failed turn that the buffer restored is answered again when the scan's recovery
  completed its row meanwhile: the gate turns back locked rows and duplicates, not
  rows that are done, so the model is asked again and the customer may get two
  replies. `whatsappInboundBuffer.js:2131` says of that gate "never re-run
  Brain/actions".
* After a crash between the Enter key and the registration, the run's row is locked
  and not in flight (the tab's runs do not mark it), so the recovery types the reply
  once more.
* A text that is out with images that failed is completed by the recovery as sent,
  without its images.
* Rows that were in processing at a crash are absorbed by the next startup baseline
  and never answered.
* A scan starts recoveries of several rows at once; they and a run may type into the
  compose box at the same time, and `__OUTBOUND_BUSY__` is one boolean that the first
  of them to finish releases. Texts can then be cut or lost while both are recorded
  as sent.
* The evidence that a reply is out is its text in the chat: the same text, typed for
  another row, completes a recovery.
* A turn that is taken for a duplicate of its own row (`TakenForDuplicate`) leaves
  the buffer without being settled.

Of the group's turns (`skipped` in `GroupTurnBuffer`):

* The duplicate check of `whatsappInboundBuffer.js:1612-1629` returns without settling
  the turn or freeing the chat. Two participants of one group who write the same "hi"
  within five seconds share a key; the second turn is gone and, if the chat was locked
  for it, `__chatResponding` and `__processingChats` stay set until a later turn of the
  chat ends.

Of the documents:

* A question whose send was answered with ok:false is stored as sent, without a
  message id: no reply of the owner can match it and the next question counts as a
  duplicate, until it expires after 48 hours. (A comment at
  `customerBusinessPaAgentService.js:485` keeps the holding reply for a notification
  that succeeded.)
* A stop leaves the claims it meets, a notice in processing, a number in resolving,
  a confirmation in processing, for ever: nothing gives them back. So do failures
  without a stop: an update that is swallowed when the outcome was to be written
  (`availabilityRequestService.js:1674-1678`), and an exception after the claim, which
  neither the poller (`localAvailabilityContinuationPoller.js:115-161`, a try with a
  finally and no catch) nor the executor of the confirmation takes as a reason to
  release it.
* The link of a booking is such an update: when it fails,
  `availabilityCustomerConfirmService.js:852-864` does not look at the result, and the
  booking is an orphan while the customer is told that it is confirmed.
* A question whose follow-up cannot be recorded stays "answered": the update throws at
  `paMissingInfoOwnerAnswerService.js:712-718`, `:755-762` and `:845`, as does the
  generation of the text at `:741`, and an answered question is never taken up again.
* `sendAvailabilityOwnerNotification` reads the status, awaits the owner's target and
  then writes unconditionally (`availabilityOwnerNotificationService.js:134-192`): two
  runs of a turn that do so side by side prompt the owner twice.
* The patch of a notice is built from the row fetched before the send. Written late,
  it reopens a confirmation that was answered meanwhile; the booking survives because
  `createBooking` is idempotent by message and checks the overlap in its transaction.
* The one rescue of a request in manual handling can meet a busy tab and is then
  pending with every attempt used (`Stranded`).
* A cut between the two updates of a booking's approval leaves a decision that nobody
  reports, and two taps in hand at once can tell the customer one decision and store
  the other.
* `claimAvailabilityRequestOwnerDecision` and `...OwnerNotificationSending`
  (`availabilityRequestService.js:966`, `:817`) would close two of these races by a
  transaction; nothing calls them.

## 5. Proofs

All theorems are proved by TLAPS for every value of the constants, under the
assumptions the modules state: in `CloudTurn` that the run slots, owners, scopes
and replies do not contain the "none" values, that there is a sweep sender `Dead`
outside the slots, and that the bounds are numbers; in `ActiveJob` that the
messages are finitely many, that a tab message has a session, and that the bounds
are numbers; in `GroupTurnBuffer` that the owner is none of the participants and that
the bounds are numbers; in `AvailabilityRequest` and `AvailabilityBooking` that "none" is no
request and no message and that each request asks for an item; in the other documents
that the bounds are numbers, that there is at least one attempt to look up a number,
and that "no message" is not a message.

`CloudTurn`:

| Theorem | States |
|---|---|
| `CloudTurn_proofs!TypeCorrect` | `TypeOK` |
| `OneSend` | `OneSendAtATime` |
| `SendsLicensed` | `SendLicence` |
| `DeliveriesLicensed` | `DeliveryLicence` |
| `SentMeansDelivered` | `ReplySentMeansDelivered` |
| `LaneIsDecided` | `LaneFollowsDecision` |
| `UncertainStays` | `UncertainNeverResent` |
| `PromiseKept` | `KeepsPromise`: the turn implements `DeliveryPromise` |

The argument has three levels. The module begins with the ledger: each function
takes a legal row (`RowOK`) to a legal row, and it is said which leave
the send claim alone (`Quiet`). The types add what a run relies on at
each await (`RunOK`: in the lane it has a payload, after the lock the row is
committed), which the types alone need already, because the sweep builds a payload
from a row it read: without `RowOK` that payload could have no owner.
Last comes the inductive invariant `CoreInv`, of which no
property above is inductive without the rest:

* `HolderInv`: one run claims or sends, and the row's intent says which of the two.
  It is what `claimOutboundLockedRecovery` provides.
* `CountsInv`: as long as a send could still be claimed, every verdict is in. This
  gives the two licences.
* `SweepInv`: the sweep reads a row, awaits the credentials and then writes; on a
  row whose queue status is "none" or "terminal" it tests nothing but "done". It
  does not clear a live claim only because, while it is pending, at most one run
  can lead to a reply and that run holds the lease it was admitted with. This rests
  on the guard of `ProcessingLeaseLapses` (section 3, Time).
* `LaneInv`: the scope is recorded once, and a run in a lane carries it.

`UncertainStays` and `PromiseKept` follow from the same invariant, step by step.

`ActiveJob`: `TypeCorrect`, `ForceNeverBesideHolder` (`ForceOnlyWhenFree`),
`Exclusion` (`ExclusiveUnlessForced`: pipelines never outnumber the force releases
and the holder, a comparison that each step keeps given `ForceOnlyWhenFree`),
`SessionShare` (`PendingBounded`) and `NeitherLostNorTwice` (`ParkedExactlyOnce`). The
last is not inductive as it stands: that a message waits in some session's queue does
not exclude that it waits in two. `Parked` says in which one, that of its own session;
with it, taking the head of a queue removes the message from all of them.

`TabTurn`: `CopiesTheorem` (`CopiesHaveCause`), `DoneTheorem` (`DoneHasReply`) and
`TabTypeCorrect` (`TabTypeOK`), from one invariant, `TabInv`, which speaks of each row by itself, although rows share
the compose box and the registry. `PlaceInv`: a row's turn waits, runs or is recovered,
one at a time. `TabRowInv`: whoever types or is about to holds a row no mark can settle,
and a recovery types what the row records. `CopyInv`: as long as somebody could still
type the reply without a new cause, the copies do not outnumber the causes; in
particular for a locked row whose reply is not registered and not typed yet, which is
what a recovery decides by. `ReplyInv`: what was typed, or recorded as done, is on the
page or was swallowed. Most steps are calm on most rows (`Calm`, `Others`); the rest
are one lemma each.

`GroupTurnBuffer`: `TypeCorrect` (`TypeOK`), `HeldTheorem` (`HeldExactlyOnce`),
`LockTheorem` (`LockHasTurn`), `FreezeTheorem` (`FreezeNeedsQuiet`), `PromiseKept`
(`KeepsPromise`) and `AwaitedTheorem` (`EntryAwaited`: an open entry has a timer or asks
for an observation, one that was put back has its retry timer, which is what
`RestoredTurnRunsAgain` adds fairness to), from one invariant, `IInv`, which TLC
confirmed on the instance of the run before it was proved.

* A settled turn hands the fragments that waited behind it back one by one (`Replay`),
  to an entry that may be absent, open or frozen by then. What the loop does to the
  entry (`Takes`: it has exactly these rows more, in its parts or behind them) is an
  induction over the number of fragments. The library states induction for a predicate,
  which the provers cannot instantiate; `SetInduction` states it for a set of numbers
  and follows from the well-foundedness of `<`. `Least`, that a pass takes a row it
  has, follows from the same.
* `HeldExactlyOnce` counts places, and a step changes several. `HeldInv` says of each
  row that was handed over which one place it has (`Once`), and of the others that they
  have none; each way rows move (flush, parking, taking a turn from the parked ones,
  the replay, the restored entry, the settlement) is one lemma. It needs `ApartInv`, that
  no turn has a row among its parts and again among its deferred fragments: otherwise
  the settlement would settle a row and hand it back.
* `LockHasTurn` needs `LockInv`: as long as no turn was skipped since the chat was last
  freed, the two flags go together and have somebody who will take them back, a handoff,
  an entry with rows, or a turn before or beyond the gate. A parked turn is nobody in
  this sense: it is parked because another turn of the group holds the job, and that one
  takes them back.
* `FreezeNeedsQuiet` speaks of every step: a read that failed marks the entry but freezes
  nothing, a read that shows a new row restarts the count, and a reply boundary is one
  of the page (`FreezeStep`).
* `KeepsPromise` relates sets of rows to the abstract turns: rows of an open entry and
  rows deferred anywhere wait (`Waiting`), a frozen entry, a turn on its way and a parked
  one are closed turns (`Closed`). Most steps only move turns along (`Alike`) and are a
  stutter: the gate, the parking, a failure that restores the turn, the retry, the
  settlement that gives deferred rows back. The others are one step of `TurnPromise`:
  `FlushKept` and `CloseKept` for the freezes of a scan, several at once; `TakenKept` for
  a row handed over; `LeaveKept` for a turn that ends. That a turn leaves the set for
  good, and no other with it, is `HeldInv`: no two turns share a row. `AuthorInv`, that
  the rows of a turn were written by its participant, makes the turns of the abstract
  specification turns of one author; it is invariant given the rest.

The documents; all safety properties that the runs
check are proved, with these inductive invariants beside the types:

| Theorems | Argument |
|---|---|
| `Notices_proofs!PromptsLicensed` (`PromptLicence`) | `AloneInv` and `NoticePromptInv`: as long as no two runs prompted side by side, a document that allows a prompt, and a run without its answer, stand for prompts the code counts as not sent, and a prompt under way without its mark was counted as a doubt |
| `HoldersTheorem` (`ClaimsHaveHolders`) | inductive by itself: a holder leaves its claim by writing the outcome or is recorded in `cut` |
| `NoticeTheorem` (`ToldOnce`) | `SoleInv`: unless two pollers had the row, the row's state says who has it, and after a notice nobody who could send another; a rescue starts from a row no poller takes |
| `Notices_proofs!DmTheorem` (`OneDm`) | `DmInv`: a reply beyond the unrecorded ones is marked in the booking or about to be; a booking without a source never gets as far as a reply |
| `DecisionTheorem` (`OneDecision`) | `DecisionInv`: one tap at most is to write its decision; before it has, nothing was decided, told or taken |
| `StandsTheorem` (`DecisionStands`) | `ApprovalPromptInv`: while nothing fails there is one prompt, and the owner taps only one that was delivered |
| `Notices_proofs!HandTheorem` (`AnswerInHand`) | inductive by itself, also when turns lose the lock; a turn that an exception ends in the answer's hands is recorded in `dropped` |
| `OnceTheorem` (`FollowupOnce`) | `OnceInv`: without an overlap, the document is answered exactly from the step in which the one turn records the answer |
| `StrandTheorem` (`NeverStranded`) | `StrandInv`: the message ids turns are about to store are of messages the owner has |
| `AvailabilityBooking_proofs!ClaimTheorem` (`ClaimHasTurn`) | inductive by itself: a turn leaves its claim by releasing it or is recorded in `cut` |
| `OrphanTheorem`, `LinkTheorem` (`OrphanNeedsCut`, `LinkStays`) | `LinkInv`: unless its confirmation was cut off, every booking is owned, by a turn that will link it or by the document, and every other handler's patch keeps the link it read or does not reach a linked document. A message that was cut off and is handled anew may bring its booking to another request (`Estranged`), which both properties except by name |
| `PromiseKept` (`KeepsPromise`) | `PromiseInv`: what documents, pollers and turns believe of the people is true; every step is a step of `BookingPromise` or leaves it alone, also across stops and failed calls |

The runs that check several modules at once check their types as one conjunction,
`TypesOK`. `MCTurns_proofs!LanesCompose` shows that a behaviour of the composed run is,
for each lane, a behaviour of the lane's own module (`Spec` and `TabSpec`), so that every
theorem about a lane holds there; `LanesTyped` and `NoticesTyped` state `TypesOK` for the
two compositions. `NoticesTyped` goes by the steps alone (`OneDocument`): that the
fairness of the composition is that of its parts would need ENABLED.

What the properties leave out on purpose. `CommittedReplyIsSettled` speaks of a process
that stays up; what a restart does to a locked row is the run `cloud_turn_sweep`.
`NeverStranded` speaks of behaviours without failures: that a failed send leaves a
question without a message id is a remark of section 4. `ClaimsHaveHolders`,
`ClaimHasTurn`, `AnswerInHand` and `DecidedIsSettled` name the cuts after which the code
does leave a document behind.

Only model-checked: liveness (`FailedTurnIsRetried`, `CommittedReplyIsSettled`,
`LeakedLockReclaimed`, `RestoredTurnRunsAgain`, `DecidedIsSettled`,
`DecisionReported`), which needs fairness and ENABLED and is not within the prover's
reach.

## 6. Not modelled, and why

* Of the availability requests: the legacy routes without a managed phone number (a
  private reply as the notice, `localAvailabilityCustomerConfirmPoller.js`, which
  reads confirmations from the page), diagnostics of the delivery status, metadata
  copied to the booking.
* Of the bookings: the fallback text to the group when there is no target for a
  private reply, the session's copy of the notification state, the acknowledgement
  to the owner.
* Of the questions: several open ones of one owner (then a reply without a quote is
  only answered by a hint), and which question a message is about, a verdict of the
  language model.
* Of the tab's turns: the cursor's persistence (it names the row the listener starts
  from in legacy mode), the durable marker of sent images, the registry's limits (24
  hours, 120 texts of a chat; a row is recovered or reviewed long before), direct
  chats, and the legacy admission without fresh-delta mode.
* The time-based debounce of Cloud messages and non-canonical tab messages: a delay
  in front of the flush of `ActiveJob`. Of the canonical group turn: several chats
  that share the loop, chat rotation and the relaunch of the browser. (Turns recovered
  from a locked row, and attempts that fail after their reply was typed, are in
  `TabTurn`.)
* The conversation brain (`src/src/brain`, `decidePostConfirmCustomerDm.js` and
  others) and the reply builders: they classify and phrase with a language model and
  keep no state between turns. What they decide is an input wherever it matters. They
  are about two fifths of the server's lines (some 31,000 in `brain`, some 16,000 in
  the builders and parsers of `services`), which bounds the share a model of the
  control can cover.
* Prompt building, model calls, catalog look-ups, message formatting, HTTP routes,
  DOM automation: pure functions or I/O; their outcomes are inputs.
* File I/O of the ledger and the pruning of rows older than seven days: a turn is
  settled or abandoned long before.

## 7. Plan

1. `InboundTurnLedger`, `CloudTurn`, `DeliveryPromise` - done.
2. `ActiveJob` - done, all safety invariants proved.
3. `GroupTurnBuffer`, `TurnPromise` - done, all safety properties and the refinement
   proved.
4. `TabTurn` - done, its safety properties proved. Not yet composed with `ActiveJob`.
5. `AvailabilityRequest`, `AvailabilityBooking`, `BookingPromise`,
   `AvailabilityNotice` - done, all safety properties proved.
6. `BookingApproval` - done, all safety properties proved.
7. `MissingInfo` - done, all safety properties proved; several open questions of one
   owner to come.
8. Listener admission of the legacy mode, the legacy availability routes, and the pure
   functions worth a reference definition (interval overlap).
