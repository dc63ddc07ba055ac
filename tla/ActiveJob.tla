------------------------------- MODULE ActiveJob -------------------------------
(***************************************************************************)
(* The global active-job lock of src/services/whatsappInboundBuffer.js and *)
(* the two queues behind it.  A message is flushed from its buffer, enters *)
(* executeWhatsAppAiPipeline, and at the gate either takes                 *)
(* globalThis.__activeJob or is parked: Cloud messages in __messageQueue,  *)
(* WhatsApp Web ("tab") messages in a bounded queue per session.  The lock *)
(* is a plain global that several places reset: the gate and the flush     *)
(* when it is older than MAX_ACTIVE_JOB_MS, the flush when it was deferred *)
(* too often, the Playwright listener, and every pipeline's finally block, *)
(* whoever holds the lock by then.                                         *)
(***************************************************************************)
EXTENDS Naturals, Sequences, FiniteSets

CONSTANTS
    Jobs,            \* messages of all conversations
    TabJobs,         \* those that come from a WhatsApp Web tab
    Canonical,       \* tab messages that are frozen canonical group turns
    Sessions,        \* tab conversations
    SessionOf,       \* SessionOf[j]: the session of tab job j
    MaxPending,      \* MAX_PENDING_PIPELINES_PER_SESSION (12 in the code)
    MaxFlushRetries, \* deferrals of a flush before it forces (20 in the code)
    None             \* null

ASSUME JobsAssumption ==
    /\ IsFiniteSet(Jobs)
    /\ TabJobs \subseteq Jobs
    /\ Canonical \subseteq TabJobs
    /\ SessionOf \in [TabJobs -> Sessions]
    /\ None \notin Jobs
ASSUME LimitAssumption ==
    /\ MaxPending \in Nat \ {0}
    /\ MaxFlushRetries \in Nat

VARIABLES
    lock,      \* globalThis.__activeJob: a job or None
    stale,     \* the lock is older than MAX_ACTIVE_JOB_MS
    force,     \* globalThis.__forceProcessing
    tabActive, \* globalThis.__ACTIVE_PIPELINE__
    pc,        \* pc[j]: where message j is
    retries,   \* retries[j]: deferrals of j's flush
    msgQueue,  \* globalThis.__messageQueue
    tabQueue,  \* pendingPlaywrightPipelineBySession
    drains,    \* drains[s]: drains scheduled for session s
    forced     \* observation: how often the lock was taken from its holder

lockVars  == <<lock, stale, force, forced>>
queueVars == <<msgQueue, tabQueue, drains>>
vars == <<lock, stale, force, tabActive, pc, retries,
          msgQueue, tabQueue, drains, forced>>

Places == {"buffered", "entering", "queued", "pending", "running",
           "recovering", "ended", "dropped"}

Init ==
    /\ lock = None
    /\ stale = FALSE
    /\ force = FALSE
    /\ tabActive = FALSE
    /\ pc = [j \in Jobs |-> "buffered"]
    /\ retries = [j \in Jobs |-> 0]
    /\ msgQueue = <<>>
    /\ tabQueue = [s \in Sessions |-> <<>>]
    /\ drains = [s \in Sessions |-> 0]
    /\ forced = 0

Goes(j, place) == pc' = [pc EXCEPT ![j] = place]

\* Force release: the lock is nulled under its holder, the flag lets the next
\* message through the gate.
ForceRelease ==
    /\ lock' = None
    /\ stale' = FALSE
    /\ force' = TRUE
    /\ forced' = forced + 1

\* releaseStaleActiveJobIfNeeded: what it leaves of the lock.
IsStale == lock # None /\ stale
HeldAfterStaleCheck == lock # None /\ ~stale

-----------------------------------------------------------------------------
(* The flush of message j's buffer (flushBufferedWhatsAppInbound).         *)

\* The lock is free, or the turn is a frozen group turn, which does not wait.
FlushPasses(j) ==
    /\ pc[j] = "buffered"
    /\ HeldAfterStaleCheck => j \in Canonical
    /\ IF IsStale THEN ForceRelease ELSE UNCHANGED lockVars
    /\ Goes(j, "entering")
    /\ retries' = [retries EXCEPT ![j] = 0]
    /\ UNCHANGED <<tabActive, queueVars>>

\* Mutant: the deferrals are not counted out.
FlushDefersForever(j) ==
    /\ pc[j] = "buffered"
    /\ HeldAfterStaleCheck
    /\ j \notin Canonical
    /\ retries' = [retries EXCEPT ![j] = @ + 1]
    /\ UNCHANGED <<lockVars, tabActive, pc, queueVars>>

FlushDefers(j) ==
    /\ pc[j] = "buffered"
    /\ HeldAfterStaleCheck
    /\ j \notin Canonical
    /\ retries[j] < MaxFlushRetries
    /\ retries' = [retries EXCEPT ![j] = @ + 1]
    /\ UNCHANGED <<lockVars, tabActive, pc, queueVars>>

\* "retry exceeded - forcing flush", however young the lock is.
FlushForces(j) ==
    /\ pc[j] = "buffered"
    /\ HeldAfterStaleCheck
    /\ j \notin Canonical
    /\ retries[j] = MaxFlushRetries
    /\ ForceRelease
    /\ Goes(j, "entering")
    /\ retries' = [retries EXCEPT ![j] = 0]
    /\ UNCHANGED <<tabActive, queueVars>>

-----------------------------------------------------------------------------
(* executeWhatsAppAiPipeline up to the lock.                               *)

\* Duplicate, unusable, already done, or a failed lookup: the run returns
\* before its try block, so no finally block runs.
ReturnsEarly(j) ==
    /\ pc[j] = "entering"
    /\ Goes(j, "ended")
    /\ UNCHANGED <<lockVars, tabActive, retries, queueVars>>

\* Mutant: a full session queue grows.
ParkUnbounded(j) ==
    IF j \in TabJobs
    THEN /\ tabQueue' = [tabQueue EXCEPT ![SessionOf[j]] = Append(@, j)]
         /\ Goes(j, "pending")
         /\ UNCHANGED msgQueue
    ELSE /\ msgQueue' = Append(msgQueue, j)
         /\ Goes(j, "queued")
         /\ UNCHANGED tabQueue

\* Parking j: a full session queue drops its oldest message.
Park(j) ==
    IF j \in TabJobs
    THEN LET q == tabQueue[SessionOf[j]] IN
         /\ tabQueue' = [tabQueue EXCEPT ![SessionOf[j]] =
                           Append(IF Len(q) >= MaxPending THEN Tail(q) ELSE q, j)]
         /\ pc' = [i \in Jobs |->
                     IF i = j THEN "pending"
                     ELSE IF Len(q) >= MaxPending /\ i = Head(q) THEN "dropped"
                     ELSE pc[i]]
         /\ UNCHANGED msgQueue
    ELSE /\ msgQueue' = Append(msgQueue, j)
         /\ Goes(j, "queued")
         /\ UNCHANGED tabQueue

GateParks(j) ==
    /\ pc[j] = "entering"
    /\ HeldAfterStaleCheck
    /\ ~force
    /\ Park(j)
    /\ UNCHANGED <<lockVars, tabActive, retries, drains>>

GateOpen == ~HeldAfterStaleCheck \/ force

\* The gate passes: force is consumed and a stale holder has lost its lock.
PassesGate(newLock) ==
    /\ GateOpen
    /\ lock' = newLock
    /\ stale' = FALSE
    /\ force' = FALSE
    /\ forced' = forced + IF IsStale THEN 1 ELSE 0

\* Same inbound answered a moment ago: returns between the gate and the lock.
GateDeduplicates(j) ==
    /\ pc[j] = "entering"
    /\ PassesGate(IF IsStale THEN None ELSE lock)
    /\ Goes(j, "ended")
    /\ UNCHANGED <<tabActive, retries, queueVars>>

\* Mutant: the force flag survives the message it let through.
TakesLockKeepsForce(j) ==
    /\ pc[j] = "entering"
    /\ GateOpen
    /\ lock' = j
    /\ stale' = FALSE
    /\ forced' = forced + IF IsStale THEN 1 ELSE 0
    /\ Goes(j, "running")
    /\ tabActive' = (tabActive \/ j \in TabJobs)
    /\ UNCHANGED <<force, retries, queueVars>>

TakesLock(j) ==
    /\ pc[j] = "entering"
    /\ PassesGate(j)
    /\ Goes(j, "running")
    /\ tabActive' = (tabActive \/ j \in TabJobs)
    /\ UNCHANGED <<retries, queueVars>>

\* A tab message whose turn is outbound-locked, or being processed already,
\* has set the lock but returns before the try block that would release it.
TakesLockToRecover(j) ==
    /\ pc[j] = "entering"
    /\ j \in TabJobs
    /\ PassesGate(j)
    /\ Goes(j, "recovering")
    /\ UNCHANGED <<tabActive, retries, queueVars>>

Recovers(j) ==
    /\ pc[j] = "recovering"
    /\ Goes(j, "ended")
    /\ UNCHANGED <<lockVars, tabActive, retries, queueVars>>

-----------------------------------------------------------------------------
(* The finally block: whoever holds the lock loses it, one queued message  *)
(* starts, and a tab job schedules a drain of its session's queue.         *)

\* Mutant: the next queued message is read, not shifted.
FinishesPeeks(j) ==
    /\ pc[j] = "running"
    /\ lock' = None
    /\ stale' = FALSE
    /\ tabActive' = (tabActive /\ j \notin TabJobs)
    /\ pc' = [i \in Jobs |->
                IF i = j THEN "ended"
                ELSE IF msgQueue # <<>> /\ i = Head(msgQueue) THEN "entering"
                ELSE pc[i]]
    /\ drains' = IF j \in TabJobs
                 THEN [drains EXCEPT ![SessionOf[j]] = @ + 1]
                 ELSE drains
    /\ UNCHANGED <<force, forced, retries, msgQueue, tabQueue>>

Finishes(j) ==
    /\ pc[j] = "running"
    /\ lock' = None
    /\ stale' = FALSE
    /\ tabActive' = (tabActive /\ j \notin TabJobs)
    /\ pc' = [i \in Jobs |->
                IF i = j THEN "ended"
                ELSE IF msgQueue # <<>> /\ i = Head(msgQueue) THEN "entering"
                ELSE pc[i]]
    /\ msgQueue' = IF msgQueue = <<>> THEN msgQueue ELSE Tail(msgQueue)
    /\ drains' = IF j \in TabJobs
                 THEN [drains EXCEPT ![SessionOf[j]] = @ + 1]
                 ELSE drains
    /\ UNCHANGED <<force, forced, retries, tabQueue>>

\* A drain that finds the lock held re-arms itself; otherwise it starts one
\* pending message of its session and is over.
Drains(s) ==
    /\ drains[s] > 0
    /\ lock = None
    /\ drains' = [drains EXCEPT ![s] = @ - 1]
    /\ IF tabQueue[s] = <<>>
       THEN UNCHANGED <<pc, tabQueue>>
       ELSE /\ Goes(Head(tabQueue[s]), "entering")
            /\ tabQueue' = [tabQueue EXCEPT ![s] = Tail(@)]
    /\ UNCHANGED <<lockVars, tabActive, retries, msgQueue>>

BecomesStale ==
    /\ lock # None
    /\ ~stale
    /\ stale' = TRUE
    /\ UNCHANGED <<lock, force, forced, tabActive, pc, retries, queueVars>>

\* Mutant: the age comparison is inverted.
ListenerResetsYoung ==
    /\ HeldAfterStaleCheck
    /\ ~tabActive
    /\ ForceRelease
    /\ UNCHANGED <<tabActive, pc, retries, queueVars>>

\* The listener's loop resets a stuck job, unless a tab pipeline is active.
ListenerResets ==
    /\ IsStale
    /\ ~tabActive
    /\ ForceRelease
    /\ UNCHANGED <<tabActive, pc, retries, queueVars>>

-----------------------------------------------------------------------------
JobStep(j) ==
    \/ FlushPasses(j) \/ FlushDefers(j) \/ FlushForces(j)
    \/ ReturnsEarly(j) \/ GateParks(j) \/ GateDeduplicates(j)
    \/ TakesLock(j) \/ TakesLockToRecover(j) \/ Recovers(j) \/ Finishes(j)

Next ==
    \/ \E j \in Jobs : JobStep(j)
    \/ \E s \in Sessions : Drains(s)
    \/ BecomesStale
    \/ ListenerResets

Spec == Init /\ [][Next]_vars

\* Runs make progress, time passes, the listener keeps looping.
Fairness ==
    /\ \A j \in Jobs : WF_vars(JobStep(j))
    /\ \A s \in Sessions : WF_vars(Drains(s))
    /\ WF_vars(BecomesStale)
    /\ WF_vars(ListenerResets)

FairSpec == Spec /\ Fairness

-----------------------------------------------------------------------------
Running == {j \in Jobs : pc[j] = "running"}

TypeOK ==
    /\ lock \in Jobs \union {None}
    /\ stale \in BOOLEAN
    /\ force \in BOOLEAN
    /\ tabActive \in BOOLEAN
    /\ pc \in [Jobs -> Places]
    /\ retries \in [Jobs -> 0..MaxFlushRetries]
    /\ msgQueue \in Seq(Jobs)
    /\ tabQueue \in [Sessions -> Seq(Jobs)]
    /\ drains \in [Sessions -> Nat]
    /\ forced \in Nat

\* Pipelines exclude each other except for force releases: however the lock
\* was reset by other pipelines' finally blocks, each release of a held lock
\* lets at most one more message run beside the others.
ExclusiveUnlessForced ==
    Cardinality(Running) <= forced + IF lock = None THEN 0 ELSE 1

\* __forceProcessing is up only while the lock is free, so it never lets a
\* message through beside a holder that took the lock after the release.
ForceOnlyWhenFree == force => lock = None

\* A parked message is in its queue exactly once, and nothing else is: no
\* message is run twice or lost between the queues and the pipelines.
ParkedExactlyOnce ==
    /\ \A j \in Jobs :
         /\ pc[j] = "queued" <=> \E i \in 1..Len(msgQueue) : msgQueue[i] = j
         /\ pc[j] = "pending" <=>
              \E s \in Sessions : \E i \in 1..Len(tabQueue[s]) : tabQueue[s][i] = j
    /\ \A i, k \in 1..Len(msgQueue) : msgQueue[i] = msgQueue[k] => i = k
    /\ \A s \in Sessions : \A i, k \in 1..Len(tabQueue[s]) :
         tabQueue[s][i] = tabQueue[s][k] => i = k

\* No session parks more than its share.
PendingBounded == \A s \in Sessions : Len(tabQueue[s]) <= MaxPending

\* A lock whose run returned without releasing it is reclaimed.
LeakedLockReclaimed ==
    \A j \in Jobs : (lock = j /\ pc[j] = "ended") ~> lock # j

\* "queued pipeline until active job free": a parked tab message has a drain,
\* or a run that will schedule one, to wait for.
QueuedUntilFree ==
    \A s \in Sessions : tabQueue[s] # <<>> =>
        \/ lock # None
        \/ drains[s] > 0
        \/ \E j \in Jobs : pc[j] \in {"entering", "running"}
=============================================================================
