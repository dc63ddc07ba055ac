---------------------------- MODULE ActiveJob_proofs ----------------------------
(***************************************************************************)
(* Proofs about ActiveJob, for every set of messages and sessions and every*)
(* bound: types, the force flag, exclusion up to force releases, the       *)
(* bounded session queues, and that no parked message is lost or repeated. *)
(***************************************************************************)
EXTENDS ActiveJob, FiniteSetTheorems, TLAPS

USE JobsAssumption, LimitAssumption

\* TypeOK in two halves: flags for the first-order prover, data for SMT.
FlagsOK ==
    /\ stale \in BOOLEAN
    /\ force \in BOOLEAN
    /\ tabActive \in BOOLEAN

DataOK ==
    /\ lock \in Jobs \union {None}
    /\ pc \in [Jobs -> Places]
    /\ retries \in [Jobs -> 0..MaxFlushRetries]
    /\ msgQueue \in Seq(Jobs)
    /\ tabQueue \in [Sessions -> Seq(Jobs)]
    /\ drains \in [Sessions -> Nat]
    /\ forced \in Nat

\* The type invariant is its two halves, the flags and the data.
LEMMA TypeHalves == TypeOK <=> FlagsOK /\ DataOK
  BY DEF TypeOK, FlagsOK, DataOK

\* The same, after a step.
LEMMA TypeHalvesNext == TypeOK' <=> FlagsOK' /\ DataOK'
  BY DEF TypeOK, FlagsOK, DataOK

-----------------------------------------------------------------------------
(* Types.                                                                  *)

\* What Head, Tail and Append do to the queues of this module.
LEMMA QueueOps ==
    ASSUME NEW q \in Seq(Jobs)
    PROVE  /\ \A j \in Jobs : Append(q, j) \in Seq(Jobs) /\ Len(Append(q, j)) = Len(q) + 1
           /\ q # <<>> => /\ Head(q) \in Jobs
                          /\ Tail(q) \in Seq(Jobs)
                          /\ Len(Tail(q)) = Len(q) - 1
           /\ Len(q) \in Nat
           /\ Len(q) > 0 => q # <<>>
  OBVIOUS

\* Parking keeps the types of what it writes.
LEMMA ParkType ==
    ASSUME DataOK, NEW j \in Jobs, Park(j)
    PROVE  /\ msgQueue' \in Seq(Jobs)
           /\ tabQueue' \in [Sessions -> Seq(Jobs)]
           /\ pc' \in [Jobs -> Places]
  <1>1. CASE j \in TabJobs
    <2> DEFINE q == tabQueue[SessionOf[j]]
    <2>1. SessionOf[j] \in Sessions /\ q \in Seq(Jobs)
      BY <1>1 DEF DataOK
    <2>2. (IF Len(q) >= MaxPending THEN Tail(q) ELSE q) \in Seq(Jobs)
      BY <2>1, QueueOps
    <2>3. Append(IF Len(q) >= MaxPending THEN Tail(q) ELSE q, j) \in Seq(Jobs)
      BY <2>2, QueueOps
    <2>4. tabQueue' \in [Sessions -> Seq(Jobs)]
      BY <1>1, <2>1, <2>3 DEF Park, DataOK
    <2>5. pc' \in [Jobs -> Places]
      BY <1>1 DEF Park, DataOK, Places
    <2>6. msgQueue' \in Seq(Jobs)
      BY <1>1 DEF Park, DataOK
    <2> QED BY <2>4, <2>5, <2>6
  <1>2. CASE j \notin TabJobs
    <2>1. /\ msgQueue' = Append(msgQueue, j)
          /\ Goes(j, "queued")
          /\ tabQueue' = tabQueue
      BY <1>2 DEF Park
    <2>2. msgQueue' \in Seq(Jobs)
      BY <2>1, QueueOps DEF DataOK
    <2>3. pc' \in [Jobs -> Places] /\ tabQueue' \in [Sessions -> Seq(Jobs)]
      BY <2>1 DEF Goes, DataOK, Places
    <2> QED BY <2>2, <2>3
  <1> QED BY <1>1, <1>2

\* A run's finally block.
LEMMA FinishType ==
    ASSUME DataOK, NEW j \in Jobs, Finishes(j)
    PROVE  DataOK'
  <1>1. msgQueue' \in Seq(Jobs)
    BY QueueOps DEF Finishes, DataOK
  <1>2. pc' \in [Jobs -> Places]
    BY DEF Finishes, DataOK, Places
  <1>3. drains' \in [Sessions -> Nat]
    BY DEF Finishes, DataOK
  <1> QED BY <1>1, <1>2, <1>3 DEF Finishes, DataOK

\* Polling a scheduled drain keeps the data typed.
LEMMA DrainType ==
    ASSUME DataOK, NEW s \in Sessions, Drains(s)
    PROVE  DataOK'
  <1>1. drains' \in [Sessions -> Nat]
    BY DEF Drains, DataOK
  <1>2. /\ lock' = lock /\ retries' = retries
        /\ msgQueue' = msgQueue /\ forced' = forced
    BY DEF Drains, lockVars
  <1>3. CASE tabQueue[s] = <<>>
    <2>1. pc' = pc /\ tabQueue' = tabQueue
      BY <1>3 DEF Drains
    <2> QED BY <1>1, <1>2, <2>1 DEF DataOK
  <1>4. CASE tabQueue[s] # <<>>
    <2>1. tabQueue[s] \in Seq(Jobs)
      BY DEF DataOK
    <2>2. Head(tabQueue[s]) \in Jobs /\ Tail(tabQueue[s]) \in Seq(Jobs)
      BY <1>4, <2>1, QueueOps
    <2>3. pc' \in [Jobs -> Places]
      BY <1>4, <2>2 DEF Drains, DataOK, Goes, Places
    <2>4. tabQueue' \in [Sessions -> Seq(Jobs)]
      BY <1>4, <2>2 DEF Drains, DataOK
    <2> QED BY <1>1, <1>2, <2>3, <2>4 DEF DataOK
  <1> QED BY <1>3, <1>4

\* A step of a message keeps the data typed.
LEMMA JobStepData ==
    ASSUME DataOK, NEW j \in Jobs, JobStep(j)
    PROVE  DataOK'
  <1> USE DEF DataOK, Goes, Places, lockVars, queueVars
  <1>1. CASE FlushPasses(j)
    BY <1>1 DEF FlushPasses, ForceRelease
  <1>2. CASE FlushDefers(j)
    BY <1>2 DEF FlushDefers
  <1>3. CASE FlushForces(j)
    BY <1>3 DEF FlushForces, ForceRelease
  <1>4. CASE ReturnsEarly(j)
    BY <1>4 DEF ReturnsEarly
  <1>5. CASE GateParks(j)
    BY <1>5, ParkType DEF GateParks
  <1>6. CASE GateDeduplicates(j)
    BY <1>6 DEF GateDeduplicates, PassesGate
  <1>7. CASE TakesLock(j)
    BY <1>7 DEF TakesLock, PassesGate
  <1>8. CASE TakesLockToRecover(j)
    BY <1>8 DEF TakesLockToRecover, PassesGate
  <1>9. CASE Recovers(j)
    BY <1>9 DEF Recovers
  <1>10. CASE Finishes(j)
    BY <1>10, FinishType
  <1> QED
    BY <1>1, <1>2, <1>3, <1>4, <1>5, <1>6, <1>7, <1>8, <1>9, <1>10 DEF JobStep

\* A step of a message keeps the flags typed.
LEMMA JobStepFlags ==
    ASSUME FlagsOK, NEW j \in Jobs, JobStep(j)
    PROVE  FlagsOK'
  <1> USE DEF FlagsOK, lockVars
  <1>1. CASE FlushPasses(j)
    BY <1>1 DEF FlushPasses, ForceRelease
  <1>2. CASE FlushDefers(j)
    BY <1>2 DEF FlushDefers
  <1>3. CASE FlushForces(j)
    BY <1>3 DEF FlushForces, ForceRelease
  <1>4. CASE ReturnsEarly(j)
    BY <1>4 DEF ReturnsEarly
  <1>5. CASE GateParks(j)
    BY <1>5 DEF GateParks
  <1>6. CASE GateDeduplicates(j)
    BY <1>6 DEF GateDeduplicates, PassesGate
  <1>7. CASE TakesLock(j)
    BY <1>7 DEF TakesLock, PassesGate
  <1>8. CASE TakesLockToRecover(j)
    BY <1>8 DEF TakesLockToRecover, PassesGate
  <1>9. CASE Recovers(j)
    BY <1>9 DEF Recovers
  <1>10. CASE Finishes(j)
    BY <1>10 DEF Finishes
  <1> QED
    BY <1>1, <1>2, <1>3, <1>4, <1>5, <1>6, <1>7, <1>8, <1>9, <1>10 DEF JobStep

\* Every variable keeps its type whatever messages, sessions and bounds.
THEOREM TypeCorrect == Spec => []TypeOK
  <1>1. Init => TypeOK
    <2>1. Init => FlagsOK
      BY DEF Init, FlagsOK
    <2>2. Init => DataOK
      BY DEF Init, DataOK, Places
    <2> QED BY <2>1, <2>2, TypeHalves
  <1>2. TypeOK /\ [Next]_vars => TypeOK'
    <2> SUFFICES ASSUME TypeOK, [Next]_vars PROVE TypeOK'
      OBVIOUS
    <2>0. FlagsOK /\ DataOK
      BY TypeHalves
    <2>1. ASSUME NEW j \in Jobs, JobStep(j) PROVE TypeOK'
      BY <2>0, <2>1, JobStepFlags, JobStepData, TypeHalvesNext
    <2>2. ASSUME NEW s \in Sessions, Drains(s) PROVE TypeOK'
      <3>1. FlagsOK'
        BY <2>0, <2>2 DEF Drains, FlagsOK, lockVars
      <3> QED BY <2>0, <2>2, <3>1, DrainType, TypeHalvesNext
    <2>3. CASE BecomesStale
      <3>1. FlagsOK'
        BY <2>0, <2>3 DEF BecomesStale, FlagsOK
      <3>2. DataOK'
        BY <2>0, <2>3 DEF BecomesStale, DataOK, queueVars
      <3> QED BY <3>1, <3>2, TypeHalvesNext
    <2>4. CASE ListenerResets
      <3>1. FlagsOK'
        BY <2>0, <2>4 DEF ListenerResets, ForceRelease, FlagsOK
      <3>2. DataOK'
        BY <2>0, <2>4 DEF ListenerResets, ForceRelease, DataOK, queueVars
      <3> QED BY <3>1, <3>2, TypeHalvesNext
    <2>5. CASE UNCHANGED vars
      BY <2>5 DEF vars, TypeOK
    <2> QED BY <2>1, <2>2, <2>3, <2>4, <2>5 DEF Next
  <1> QED BY <1>1, <1>2, PTL DEF Spec
-----------------------------------------------------------------------------
(* The force flag.                                                         *)

LEMMA JobStepForce ==
    ASSUME ForceOnlyWhenFree, NEW j \in Jobs, JobStep(j)
    PROVE  ForceOnlyWhenFree'
  <1> USE DEF ForceOnlyWhenFree, lockVars
  <1>1. CASE FlushPasses(j)
    BY <1>1 DEF FlushPasses, ForceRelease
  <1>2. CASE FlushDefers(j)
    BY <1>2 DEF FlushDefers
  <1>3. CASE FlushForces(j)
    BY <1>3 DEF FlushForces, ForceRelease
  <1>4. CASE ReturnsEarly(j)
    BY <1>4 DEF ReturnsEarly
  <1>5. CASE GateParks(j)
    BY <1>5 DEF GateParks
  <1>6. CASE GateDeduplicates(j)
    BY <1>6 DEF GateDeduplicates, PassesGate
  <1>7. CASE TakesLock(j)
    BY <1>7 DEF TakesLock, PassesGate
  <1>8. CASE TakesLockToRecover(j)
    BY <1>8 DEF TakesLockToRecover, PassesGate
  <1>9. CASE Recovers(j)
    BY <1>9 DEF Recovers
  <1>10. CASE Finishes(j)
    BY <1>10 DEF Finishes
  <1> QED
    BY <1>1, <1>2, <1>3, <1>4, <1>5, <1>6, <1>7, <1>8, <1>9, <1>10 DEF JobStep

\* The force flag lets a message through only while the lock is free: no
\* message overtakes a holder that took the lock after the force release.
THEOREM ForceNeverBesideHolder == Spec => []ForceOnlyWhenFree
  <1>1. Init => ForceOnlyWhenFree
    BY DEF Init, ForceOnlyWhenFree
  <1>2. ForceOnlyWhenFree /\ [Next]_vars => ForceOnlyWhenFree'
    <2> SUFFICES ASSUME ForceOnlyWhenFree, [Next]_vars
                 PROVE  ForceOnlyWhenFree'
      OBVIOUS
    <2> USE DEF ForceOnlyWhenFree
    <2>1. ASSUME NEW j \in Jobs, JobStep(j) PROVE ForceOnlyWhenFree'
      BY <2>1, JobStepForce
    <2>2. ASSUME NEW s \in Sessions, Drains(s) PROVE ForceOnlyWhenFree'
      BY <2>2 DEF Drains, lockVars
    <2>3. CASE BecomesStale
      BY <2>3 DEF BecomesStale
    <2>4. CASE ListenerResets
      BY <2>4 DEF ListenerResets, ForceRelease
    <2>5. CASE UNCHANGED vars
      BY <2>5 DEF vars
    <2> QED BY <2>1, <2>2, <2>3, <2>4, <2>5 DEF Next
  <1> QED BY <1>1, <1>2, PTL DEF Spec

-----------------------------------------------------------------------------
(* Exclusion.                                                              *)

\* How many pipelines may run: one per force release, one for the lock.
Allowed == forced + IF lock = None THEN 0 ELSE 1

\* How the number of running pipelines moves when none starts, one ends or
\* one starts.
LEMMA RunningCounts ==
    /\ IsFiniteSet(Running) /\ Cardinality(Running) \in Nat
    /\ Running' \subseteq Running =>
         Cardinality(Running') \in Nat /\ Cardinality(Running') <= Cardinality(Running)
    /\ \A j \in Running : Running' \subseteq Running \ {j} =>
         Cardinality(Running') \in Nat /\ Cardinality(Running') <= Cardinality(Running) - 1
    /\ \A j \in Jobs : Running' = Running \union {j} =>
         Cardinality(Running') \in Nat /\ Cardinality(Running') <= Cardinality(Running) + 1
  <1>1. Running \in SUBSET Jobs
    BY DEF Running
  <1>2. IsFiniteSet(Running) /\ Cardinality(Running) \in Nat
    BY <1>1, FS_Subset, FS_CardinalityType
  <1>3. ASSUME Running' \subseteq Running
        PROVE  Cardinality(Running') \in Nat /\ Cardinality(Running') <= Cardinality(Running)
    BY <1>2, <1>3, FS_Subset, FS_CardinalityType
  <1>4. ASSUME NEW j \in Running, Running' \subseteq Running \ {j}
        PROVE  Cardinality(Running') \in Nat /\ Cardinality(Running') <= Cardinality(Running) - 1
    <2>1. IsFiniteSet(Running \ {j}) /\ Cardinality(Running \ {j}) = Cardinality(Running) - 1
      BY <1>2, FS_RemoveElement
    <2> QED BY <1>4, <2>1, FS_Subset, FS_CardinalityType
  <1>5. ASSUME NEW j \in Jobs, Running' = Running \union {j}
        PROVE  Cardinality(Running') \in Nat /\ Cardinality(Running') <= Cardinality(Running) + 1
    <2>1. Cardinality(Running \union {j}) \in {Cardinality(Running), Cardinality(Running) + 1}
      BY <1>2, FS_AddElement
    <2> QED BY <1>2, <1>5, <2>1
  <1> QED BY <1>2, <1>3, <1>4, <1>5

\* The allowance is a number: the force releases, and one for the holder.
LEMMA AllowedType ==
    /\ forced \in Nat => Allowed \in Nat
    /\ forced' \in Nat => Allowed' \in Nat
  <1>1. \A n \in Nat : \A l : n + (IF l = None THEN 0 ELSE 1) \in Nat
    OBVIOUS
  <1> QED BY <1>1 DEF Allowed

\* Arithmetic of a run that ends and takes a slot of the lock with it.
LEMMA OneLess ==
    ASSUME NEW c \in Nat, NEW d \in Nat, NEW a \in Nat, NEW b \in Nat,
           c <= a, d <= c - 1, a <= b + 1
    PROVE  d <= b
  OBVIOUS

\* Exclusion compares two numbers, before and after a step.
LEMMA ExclusionAsCount ==
    /\ ExclusiveUnlessForced <=> Cardinality(Running) <= Allowed
    /\ ExclusiveUnlessForced' <=> Cardinality(Running') <= Allowed'
  BY DEF ExclusiveUnlessForced, Allowed

\* A step that starts no pipeline and does not lower the allowance is fine.
LEMMA NoPipelineStarts ==
    ASSUME DataOK, ExclusiveUnlessForced, Running' \subseteq Running,
           forced' \in Nat, Allowed <= Allowed'
    PROVE  ExclusiveUnlessForced'
  <1>1. Allowed \in Nat /\ Allowed' \in Nat
    BY AllowedType DEF DataOK
  <1>2. /\ Cardinality(Running) \in Nat /\ Cardinality(Running') \in Nat
        /\ Cardinality(Running') <= Cardinality(Running)
    BY RunningCounts
  <1> QED BY <1>1, <1>2, ExclusionAsCount

\* A step of a message starts a pipeline only with the lock it takes or on a
\* force release, and lowers the allowance only by ending one or freeing a lock.
LEMMA JobStepExclusive ==
    ASSUME DataOK, ForceOnlyWhenFree, ExclusiveUnlessForced,
           NEW j \in Jobs, JobStep(j)
    PROVE  ExclusiveUnlessForced'
  <1>1. CASE FlushPasses(j)
    <2>1. Running' \subseteq Running
      BY <1>1 DEF FlushPasses, Running, Goes, DataOK
    <2>2. forced' \in Nat /\ Allowed <= Allowed'
      BY <1>1 DEF FlushPasses, ForceRelease, IsStale, Allowed, lockVars, DataOK
    <2> QED BY <2>1, <2>2, NoPipelineStarts
  <1>2. CASE FlushDefers(j)
    <2>1. Running' \subseteq Running
      BY <1>2 DEF FlushDefers, Running
    <2>2. forced' \in Nat /\ Allowed <= Allowed'
      BY <1>2 DEF FlushDefers, Allowed, lockVars, DataOK
    <2> QED BY <2>1, <2>2, NoPipelineStarts
  <1>3. CASE FlushForces(j)
    <2>1. Running' \subseteq Running
      BY <1>3 DEF FlushForces, Running, Goes, DataOK
    <2>2. forced' \in Nat /\ Allowed <= Allowed'
      BY <1>3 DEF FlushForces, ForceRelease, Allowed, DataOK
    <2> QED BY <2>1, <2>2, NoPipelineStarts
  <1>4. CASE ReturnsEarly(j)
    <2>1. Running' \subseteq Running
      BY <1>4 DEF ReturnsEarly, Running, Goes, DataOK
    <2>2. forced' \in Nat /\ Allowed <= Allowed'
      BY <1>4 DEF ReturnsEarly, Allowed, lockVars, DataOK
    <2> QED BY <2>1, <2>2, NoPipelineStarts
  <1>5. CASE GateParks(j)
    <2>1. Running' \subseteq Running
      BY <1>5 DEF GateParks, Park, Running, Goes, DataOK
    <2>2. forced' \in Nat /\ Allowed <= Allowed'
      BY <1>5 DEF GateParks, Allowed, lockVars, DataOK
    <2> QED BY <2>1, <2>2, NoPipelineStarts
  <1>6. CASE GateDeduplicates(j)
    <2>1. Running' \subseteq Running
      BY <1>6 DEF GateDeduplicates, Running, Goes, DataOK
    <2>2. forced' \in Nat /\ Allowed <= Allowed'
      BY <1>6 DEF GateDeduplicates, PassesGate, IsStale, Allowed, DataOK
    <2> QED BY <2>1, <2>2, NoPipelineStarts
  <1>7. CASE TakesLock(j)
    <2>1. Running' = Running \union {j}
      BY <1>7 DEF TakesLock, Running, Goes, DataOK
    <2>2. lock = None \/ IsStale
      BY <1>7 DEF TakesLock, PassesGate, GateOpen, HeldAfterStaleCheck, IsStale,
                 ForceOnlyWhenFree
    <2>3. forced' \in Nat /\ Allowed + 1 <= Allowed'
      BY <1>7, <2>2 DEF TakesLock, PassesGate, IsStale, Allowed, DataOK
    <2>4. /\ Cardinality(Running) \in Nat /\ Cardinality(Running') \in Nat
          /\ Cardinality(Running') <= Cardinality(Running) + 1
      BY <2>1, RunningCounts
    <2>5. Allowed \in Nat /\ Allowed' \in Nat
      BY <2>3, AllowedType DEF DataOK
    <2> QED BY <2>3, <2>4, <2>5, ExclusionAsCount
  <1>8. CASE TakesLockToRecover(j)
    <2>1. Running' \subseteq Running
      BY <1>8 DEF TakesLockToRecover, Running, Goes, DataOK
    <2>2. forced' \in Nat /\ Allowed <= Allowed'
      BY <1>8 DEF TakesLockToRecover, PassesGate, IsStale, Allowed, DataOK
    <2> QED BY <2>1, <2>2, NoPipelineStarts
  <1>9. CASE Recovers(j)
    <2>1. Running' \subseteq Running
      BY <1>9 DEF Recovers, Running, Goes, DataOK
    <2>2. forced' \in Nat /\ Allowed <= Allowed'
      BY <1>9 DEF Recovers, Allowed, lockVars, DataOK
    <2> QED BY <2>1, <2>2, NoPipelineStarts
  <1>10. CASE Finishes(j)
    <2>1. j \in Running /\ Running' \subseteq Running \ {j}
      BY <1>10 DEF Finishes, Running, DataOK
    <2>2. forced' = forced /\ lock' = None
      BY <1>10 DEF Finishes
    <2>3. /\ Cardinality(Running) \in Nat /\ Cardinality(Running') \in Nat
          /\ Cardinality(Running') <= Cardinality(Running) - 1
      BY <2>1, RunningCounts
    <2>4. Allowed \in Nat /\ Allowed' \in Nat /\ Allowed <= Allowed' + 1
      BY <2>2 DEF Allowed, DataOK
    <2>5. Cardinality(Running) <= Allowed
      BY ExclusionAsCount
    <2>6. Cardinality(Running') <= Allowed'
      BY <2>3, <2>4, <2>5, OneLess
    <2> QED BY <2>6, ExclusionAsCount
  <1> QED
    BY <1>1, <1>2, <1>3, <1>4, <1>5, <1>6, <1>7, <1>8, <1>9, <1>10 DEF JobStep

\* However many pipelines' finally blocks reset the lock, of whichever holder:
\* beyond the holder, at most one pipeline runs per force release.
THEOREM Exclusion == Spec => []ExclusiveUnlessForced
  <1>1. Init => ExclusiveUnlessForced
    <2> SUFFICES ASSUME Init PROVE ExclusiveUnlessForced
      OBVIOUS
    <2>1. Running = {}
      BY DEF Init, Running
    <2> QED BY <2>1, FS_EmptySet DEF Init, ExclusiveUnlessForced
  <1>2. /\ TypeOK /\ TypeOK' /\ ForceOnlyWhenFree /\ ExclusiveUnlessForced
        /\ [Next]_vars
        => ExclusiveUnlessForced'
    <2> SUFFICES ASSUME TypeOK, TypeOK', ForceOnlyWhenFree, ExclusiveUnlessForced,
                        [Next]_vars
                 PROVE  ExclusiveUnlessForced'
      OBVIOUS
    <2>0. DataOK /\ forced' \in Nat
      BY TypeHalves DEF TypeOK
    <2>1. ASSUME NEW j \in Jobs, JobStep(j) PROVE ExclusiveUnlessForced'
      BY <2>0, <2>1, JobStepExclusive
    <2>2. ASSUME NEW s \in Sessions, Drains(s) PROVE ExclusiveUnlessForced'
      <3>1. Running' \subseteq Running
        BY <2>0, <2>2 DEF Drains, Running, Goes, DataOK
      <3>2. Allowed <= Allowed'
        BY <2>0, <2>2 DEF Drains, Allowed, lockVars, DataOK
      <3> QED BY <2>0, <3>1, <3>2, NoPipelineStarts
    <2>3. CASE BecomesStale
      <3>1. Running' \subseteq Running /\ Allowed <= Allowed'
        BY <2>0, <2>3 DEF BecomesStale, Running, Allowed, DataOK
      <3> QED BY <2>0, <3>1, NoPipelineStarts
    <2>4. CASE ListenerResets
      <3>1. Running' \subseteq Running
        BY <2>4 DEF ListenerResets, Running
      <3>2. Allowed <= Allowed'
        BY <2>0, <2>4 DEF ListenerResets, ForceRelease, Allowed, DataOK
      <3> QED BY <2>0, <3>1, <3>2, NoPipelineStarts
    <2>5. CASE UNCHANGED vars
      BY <2>5 DEF vars, ExclusiveUnlessForced, Running
    <2> QED BY <2>1, <2>2, <2>3, <2>4, <2>5 DEF Next
  <1> QED BY <1>1, <1>2, TypeCorrect, ForceNeverBesideHolder, PTL DEF Spec
-----------------------------------------------------------------------------
(* The session queues.                                                     *)

\* A step that leaves the session queues alone keeps their bound.
LEMMA QueuesUntouched ==
    ASSUME PendingBounded, tabQueue' = tabQueue
    PROVE  PendingBounded'
  BY DEF PendingBounded

\* A full queue makes room before it takes the new message.
LEMMA ParkBounded ==
    ASSUME DataOK, PendingBounded, NEW j \in Jobs, Park(j)
    PROVE  PendingBounded'
  <1>1. CASE j \in TabJobs
    <2> DEFINE q == tabQueue[SessionOf[j]]
               room == IF Len(q) >= MaxPending THEN Tail(q) ELSE q
    <2>1. SessionOf[j] \in Sessions /\ q \in Seq(Jobs) /\ Len(q) <= MaxPending
      BY <1>1 DEF DataOK, PendingBounded
    <2>2. room \in Seq(Jobs) /\ Len(room) <= MaxPending - 1
      BY <2>1, QueueOps
    <2>3. Len(Append(room, j)) <= MaxPending
      BY <2>2, QueueOps
    <2>4. tabQueue' = [tabQueue EXCEPT ![SessionOf[j]] = Append(room, j)]
      BY <1>1 DEF Park
    <2>5. \A s \in Sessions :
            tabQueue'[s] = IF s = SessionOf[j] THEN Append(room, j) ELSE tabQueue[s]
      BY <2>1, <2>4 DEF DataOK
    <2> HIDE DEF room
    <2> QED BY <2>3, <2>5 DEF PendingBounded
  <1>2. CASE j \notin TabJobs
    BY <1>2 DEF Park, PendingBounded
  <1> QED BY <1>1, <1>2

\* No session parks more messages than its share.
THEOREM SessionShare == Spec => []PendingBounded
  <1>1. Init => PendingBounded
    BY DEF Init, PendingBounded
  <1>2. TypeOK /\ PendingBounded /\ [Next]_vars => PendingBounded'
    <2> SUFFICES ASSUME TypeOK, PendingBounded, [Next]_vars
                 PROVE  PendingBounded'
      OBVIOUS
    <2>0. DataOK
      BY TypeHalves
    <2>1. ASSUME NEW j \in Jobs, JobStep(j) PROVE PendingBounded'
      <3>1. CASE GateParks(j)
        BY <2>0, <3>1, ParkBounded DEF GateParks
      <3>2. CASE ~GateParks(j)
        <4>1. tabQueue' = tabQueue
          BY <2>1, <3>2 DEF JobStep, FlushPasses, FlushDefers, FlushForces, ReturnsEarly,
             GateDeduplicates, TakesLock, TakesLockToRecover, Recovers, Finishes, queueVars
        <4> QED BY <4>1, QueuesUntouched
      <3> QED BY <3>1, <3>2
    <2>2. ASSUME NEW s \in Sessions, Drains(s) PROVE PendingBounded'
      <3>1. CASE tabQueue[s] = <<>>
        BY <2>2, <3>1, QueuesUntouched DEF Drains
      <3>2. CASE tabQueue[s] # <<>>
        <4>1. Len(tabQueue[s]) \in Nat /\ Len(Tail(tabQueue[s])) = Len(tabQueue[s]) - 1
          BY <2>0, <3>2, QueueOps DEF DataOK
        <4>2. \A t \in Sessions :
                tabQueue'[t] = IF t = s THEN Tail(tabQueue[s]) ELSE tabQueue[t]
          BY <2>0, <2>2, <3>2 DEF Drains, DataOK
        <4>3. Len(Tail(tabQueue[s])) <= MaxPending
          BY <4>1 DEF PendingBounded
        <4> QED BY <4>2, <4>3 DEF PendingBounded
      <3> QED BY <3>1, <3>2
    <2>3. CASE BecomesStale \/ ListenerResets \/ UNCHANGED vars
      BY <2>3, QueuesUntouched DEF BecomesStale, ListenerResets, queueVars, vars
    <2> QED BY <2>1, <2>2, <2>3 DEF Next
  <1> QED BY <1>1, <1>2, TypeCorrect, PTL DEF Spec
-----------------------------------------------------------------------------
(* No message is lost between the queues and the pipelines, or run twice.   *)

Holds(q, j) == \E i \in 1..Len(q) : q[i] = j
NoRepeat(q) == \A i, k \in 1..Len(q) : q[i] = q[k] => i = k

\* The inductive form: a tab message waits in the queue of its own session.
MsgParked ==
    /\ \A j \in Jobs : pc[j] = "queued" <=> Holds(msgQueue, j)
    /\ NoRepeat(msgQueue)
TabParked ==
    /\ \A j \in Jobs : pc[j] = "pending" => j \in TabJobs
    /\ \A j \in Jobs, s \in Sessions :
         Holds(tabQueue[s], j) <=> pc[j] = "pending" /\ SessionOf[j] = s
    /\ \A s \in Sessions : NoRepeat(tabQueue[s])
Parked == MsgParked /\ TabParked

\* The inductive form implies the property.
LEMMA ParkedImplies ==
    ASSUME DataOK, Parked
    PROVE  ParkedExactlyOnce
  <1>1. \A j \in Jobs :
          pc[j] = "pending" <=> \E s \in Sessions : Holds(tabQueue[s], j)
    <2>1. \A j \in TabJobs : SessionOf[j] \in Sessions
      OBVIOUS
    <2> QED BY <2>1 DEF Parked, TabParked
  <1> QED BY <1>1 DEF Parked, MsgParked, TabParked, ParkedExactlyOnce, Holds, NoRepeat

\* Appending a message adds it, and repeats nothing if it was not there.
LEMMA AppendHolds ==
    ASSUME NEW q \in Seq(Jobs), NEW x \in Jobs
    PROVE  /\ \A j \in Jobs : Holds(Append(q, x), j) <=> Holds(q, j) \/ j = x
           /\ NoRepeat(q) /\ ~Holds(q, x) => NoRepeat(Append(q, x))
  <1> DEFINE a == Append(q, x)
  <1>1. /\ Len(q) \in Nat /\ Len(a) = Len(q) + 1
        /\ a[Len(q) + 1] = x
        /\ \A i \in 1..Len(q) : a[i] = q[i]
    OBVIOUS
  <1>2. \A i : i \in 1..Len(a) <=> i \in 1..Len(q) \/ i = Len(q) + 1
    BY <1>1
  <1>3. Len(q) + 1 \notin 1..Len(q)
    BY <1>1
  <1> HIDE DEF a
  <1>4. \A j \in Jobs : Holds(a, j) <=> Holds(q, j) \/ j = x
    BY <1>1, <1>2 DEF Holds
  <1>5. NoRepeat(q) /\ ~Holds(q, x) => NoRepeat(a)
    BY <1>1, <1>2, <1>3 DEF Holds, NoRepeat
  <1> QED BY <1>4, <1>5 DEF a

\* Removing the head of a queue without repetitions removes that message.
LEMMA TailHolds ==
    ASSUME NEW q \in Seq(Jobs), q # <<>>, NoRepeat(q)
    PROVE  /\ Holds(q, Head(q))
           /\ \A j \in Jobs : Holds(Tail(q), j) <=> Holds(q, j) /\ j # Head(q)
           /\ NoRepeat(Tail(q))
  <1> DEFINE t == Tail(q)
  <1>1. /\ Len(q) \in Nat /\ Len(q) > 0 /\ Len(t) = Len(q) - 1
        /\ Head(q) = q[1]
        /\ \A i \in 1..Len(t) : t[i] = q[i + 1]
    OBVIOUS
  <1> HIDE DEF t
  <1>2. Holds(q, Head(q))
    BY <1>1 DEF Holds
  <1>3. \A i \in 1..Len(t) : i + 1 \in 1..Len(q) /\ i + 1 # 1
    BY <1>1
  <1>4. ASSUME NEW j \in Jobs, Holds(t, j) PROVE Holds(q, j) /\ j # Head(q)
    <2>1. PICK i \in 1..Len(t) : t[i] = j
      BY <1>4 DEF Holds
    <2>2. q[i + 1] = j /\ i + 1 \in 1..Len(q) /\ i + 1 # 1 /\ 1 \in 1..Len(q)
      BY <1>1, <1>3, <2>1
    <2> QED BY <1>1, <2>2 DEF Holds, NoRepeat
  <1>5. ASSUME NEW j \in Jobs, Holds(q, j), j # Head(q) PROVE Holds(t, j)
    <2>1. PICK i \in 1..Len(q) : q[i] = j
      BY <1>5 DEF Holds
    <2>2. i # 1
      BY <1>1, <1>5, <2>1
    <2>3. i - 1 \in 1..Len(t) /\ (i - 1) + 1 = i
      BY <1>1, <2>2
    <2>4. t[i - 1] = q[(i - 1) + 1]
      BY <1>1, <2>3
    <2> QED BY <2>1, <2>3, <2>4 DEF Holds
  <1>6. NoRepeat(t)
    <2> SUFFICES ASSUME NEW i \in 1..Len(t), NEW k \in 1..Len(t), t[i] = t[k]
                 PROVE  i = k
      BY DEF NoRepeat
    <2>1. i + 1 = k + 1
      BY <1>1, <1>3 DEF NoRepeat
    <2> QED BY <2>1
  <1> QED BY <1>2, <1>4, <1>5, <1>6 DEF t

\* A step of a message that is not parked, to a place outside the queues.
LEMMA MovesElsewhere ==
    ASSUME Parked, DataOK, NEW j \in Jobs, NEW place,
           pc[j] \notin {"queued", "pending"}, place \notin {"queued", "pending"},
           Goes(j, place), msgQueue' = msgQueue, tabQueue' = tabQueue
    PROVE  Parked'
  <1>1. \A i \in Jobs : /\ pc'[i] = "queued" <=> pc[i] = "queued"
                        /\ pc'[i] = "pending" <=> pc[i] = "pending"
    BY DEF Goes, DataOK
  <1> QED BY <1>1 DEF Parked, MsgParked, TabParked

\* A step that moves no message.
LEMMA MovesNothing ==
    ASSUME Parked, pc' = pc, msgQueue' = msgQueue, tabQueue' = tabQueue
    PROVE  Parked'
  BY DEF Parked, MsgParked, TabParked

\* Parking a Cloud message.
LEMMA ParksInMessageQueue ==
    ASSUME Parked, DataOK, NEW j \in Jobs, pc[j] = "entering",
           j \notin TabJobs, Park(j)
    PROVE  Parked'
  <1>1. /\ msgQueue' = Append(msgQueue, j)
        /\ pc' = [pc EXCEPT ![j] = "queued"]
        /\ tabQueue' = tabQueue
    BY DEF Park, Goes
  <1>2. msgQueue \in Seq(Jobs) /\ ~Holds(msgQueue, j)
    BY DEF Parked, MsgParked, DataOK
  <1>3. \A i \in Jobs : /\ pc'[i] = "queued" <=> pc[i] = "queued" \/ i = j
                        /\ pc'[i] = "pending" <=> pc[i] = "pending"
    BY <1>1 DEF DataOK
  <1>4. MsgParked'
    BY <1>1, <1>2, <1>3, AppendHolds DEF Parked, MsgParked
  <1>5. TabParked'
    BY <1>1, <1>3 DEF Parked, TabParked
  <1> QED BY <1>4, <1>5 DEF Parked

\* Parking a tab message, with the drop of the oldest when the queue is full.
LEMMA ParksInSession ==
    ASSUME Parked, DataOK, NEW j \in Jobs, pc[j] = "entering",
           j \in TabJobs, Park(j)
    PROVE  Parked'
  <1> DEFINE s == SessionOf[j]
             q == tabQueue[s]
             full == Len(q) >= MaxPending
             room == IF full THEN Tail(q) ELSE q
  <1>1. /\ s \in Sessions /\ q \in Seq(Jobs) /\ NoRepeat(q) /\ ~Holds(q, j)
        /\ full => q # <<>>
    <2>1. s \in Sessions /\ q \in Seq(Jobs)
      BY DEF DataOK
    <2>2. full => q # <<>>
      BY <2>1, QueueOps
    <2> QED BY <2>1, <2>2 DEF Parked, TabParked
  <1>2. /\ msgQueue' = msgQueue
        /\ tabQueue' = [tabQueue EXCEPT ![s] = Append(room, j)]
        /\ \A i \in Jobs : pc'[i] = IF i = j THEN "pending"
                                    ELSE IF full /\ i = Head(q) THEN "dropped"
                                    ELSE pc[i]
    BY DEF Park
  <1>3. /\ room \in Seq(Jobs) /\ NoRepeat(room)
        /\ \A i \in Jobs : Holds(room, i) <=> Holds(q, i) /\ ~(full /\ i = Head(q))
    BY <1>1, QueueOps, TailHolds
  <1>4. full => Head(q) \in Jobs /\ pc[Head(q)] = "pending" /\ SessionOf[Head(q)] = s
    <2> SUFFICES ASSUME full
                 PROVE  Head(q) \in Jobs /\ pc[Head(q)] = "pending" /\ SessionOf[Head(q)] = s
      OBVIOUS
    <2>1. Head(q) \in Jobs /\ Holds(q, Head(q))
      BY <1>1, QueueOps, TailHolds
    <2> QED BY <1>1, <2>1 DEF Parked, TabParked
  <1>5. \A t \in Sessions :
          tabQueue'[t] = IF t = s THEN Append(room, j) ELSE tabQueue[t]
    BY <1>1, <1>2 DEF DataOK
  <1> HIDE DEF room, full, q, s
  <1>6. MsgParked'
    BY <1>2, <1>4 DEF Parked, MsgParked
  <1>7. NoRepeat(Append(room, j)) /\ \A i \in Jobs :
          Holds(Append(room, j), i) <=> Holds(room, i) \/ i = j
    BY <1>1, <1>3, AppendHolds
  <1>8. ASSUME NEW i \in Jobs PROVE pc'[i] = "pending" => i \in TabJobs
    BY <1>2 DEF Parked, TabParked
  <1>9. ASSUME NEW i \in Jobs, NEW t \in Sessions
        PROVE  Holds(tabQueue'[t], i) <=> pc'[i] = "pending" /\ SessionOf[i] = t
    <2>1. Holds(tabQueue[t], i) <=> pc[i] = "pending" /\ SessionOf[i] = t
      BY DEF Parked, TabParked
    <2>2. CASE t = s
      <3>1. Holds(tabQueue'[t], i) <=>
              i = j \/ (Holds(q, i) /\ ~(full /\ i = Head(q)))
        BY <1>3, <1>5, <1>7, <2>2
      <3> QED BY <1>2, <2>1, <2>2, <3>1 DEF q, s
    <2>3. CASE t # s
      <3>1. tabQueue'[t] = tabQueue[t]
        BY <1>5, <2>3
      <3> QED BY <1>2, <1>4, <2>1, <2>3, <3>1 DEF s
    <2> QED BY <2>2, <2>3
  <1>10. \A t \in Sessions : NoRepeat(tabQueue'[t])
    BY <1>5, <1>7 DEF Parked, TabParked
  <1>11. TabParked'
    BY <1>8, <1>9, <1>10 DEF TabParked
  <1> QED BY <1>6, <1>11 DEF Parked

\* A finally block starts the oldest queued message.
LEMMA FinishParked ==
    ASSUME Parked, DataOK, NEW j \in Jobs, Finishes(j)
    PROVE  Parked'
  <1>1. /\ pc[j] = "running"
        /\ \A i \in Jobs : pc'[i] = IF i = j THEN "ended"
                                    ELSE IF msgQueue # <<>> /\ i = Head(msgQueue)
                                    THEN "entering" ELSE pc[i]
        /\ msgQueue' = IF msgQueue = <<>> THEN msgQueue ELSE Tail(msgQueue)
        /\ tabQueue' = tabQueue
    BY DEF Finishes
  <1>2. msgQueue \in Seq(Jobs)
    BY DEF DataOK
  <1>3. CASE msgQueue = <<>>
    <2>1. \A i \in Jobs : /\ pc'[i] = "queued" <=> pc[i] = "queued"
                          /\ pc'[i] = "pending" <=> pc[i] = "pending"
      BY <1>1, <1>3
    <2> QED BY <1>1, <1>3, <2>1 DEF Parked, MsgParked, TabParked
  <1>4. CASE msgQueue # <<>>
    <2> DEFINE h == Head(msgQueue)
    <2>1. /\ h \in Jobs /\ Holds(msgQueue, h) /\ NoRepeat(Tail(msgQueue))
          /\ \A i \in Jobs : Holds(Tail(msgQueue), i) <=> Holds(msgQueue, i) /\ i # h
      BY <1>2, <1>4, QueueOps, TailHolds DEF Parked, MsgParked
    <2> HIDE DEF h
    <2>2. pc[h] = "queued"
      BY <2>1 DEF Parked, MsgParked
    <2>3. \A i \in Jobs : /\ pc'[i] = "queued" <=> pc[i] = "queued" /\ i # h
                          /\ pc'[i] = "pending" <=> pc[i] = "pending"
      BY <1>1, <1>4, <2>2 DEF h
    <2>4. MsgParked'
      BY <1>1, <1>4, <2>1, <2>3 DEF Parked, MsgParked
    <2>5. TabParked'
      BY <1>1, <2>3 DEF Parked, TabParked
    <2> QED BY <2>4, <2>5 DEF Parked
  <1> QED BY <1>3, <1>4

\* A drain starts the oldest pending message of its session.
LEMMA DrainParked ==
    ASSUME Parked, DataOK, NEW s \in Sessions, Drains(s)
    PROVE  Parked'
  <1>1. CASE tabQueue[s] = <<>>
    BY <1>1, MovesNothing DEF Drains
  <1>2. CASE tabQueue[s] # <<>>
    <2> DEFINE h == Head(tabQueue[s])
    <2>1. /\ h \in Jobs /\ Holds(tabQueue[s], h) /\ NoRepeat(Tail(tabQueue[s]))
          /\ \A i \in Jobs :
               Holds(Tail(tabQueue[s]), i) <=> Holds(tabQueue[s], i) /\ i # h
      <3>1. tabQueue[s] \in Seq(Jobs) /\ NoRepeat(tabQueue[s])
        BY DEF DataOK, Parked, TabParked
      <3> QED BY <1>2, <3>1, QueueOps, TailHolds
    <2>2. /\ pc' = [pc EXCEPT ![h] = "entering"]
          /\ tabQueue' = [tabQueue EXCEPT ![s] = Tail(tabQueue[s])]
          /\ msgQueue' = msgQueue
      BY <1>2 DEF Drains, Goes
    <2> HIDE DEF h
    <2>3. pc[h] = "pending" /\ SessionOf[h] = s
      BY <2>1 DEF Parked, TabParked
    <2>4. \A i \in Jobs : /\ pc'[i] = "queued" <=> pc[i] = "queued"
                          /\ pc'[i] = "pending" <=> pc[i] = "pending" /\ i # h
      BY <2>1, <2>2, <2>3 DEF DataOK
    <2>5. \A t \in Sessions :
            tabQueue'[t] = IF t = s THEN Tail(tabQueue[s]) ELSE tabQueue[t]
      BY <2>2 DEF DataOK
    <2>6. MsgParked'
      BY <2>2, <2>4 DEF Parked, MsgParked
    <2>7. ASSUME NEW i \in Jobs, NEW t \in Sessions
          PROVE  Holds(tabQueue'[t], i) <=> pc'[i] = "pending" /\ SessionOf[i] = t
      <3>1. Holds(tabQueue[t], i) <=> pc[i] = "pending" /\ SessionOf[i] = t
        BY DEF Parked, TabParked
      <3>2. CASE t = s
        BY <2>1, <2>4, <2>5, <3>1, <3>2
      <3>3. CASE t # s
        <4>1. tabQueue'[t] = tabQueue[t]
          BY <2>5, <3>3
        <4> QED BY <2>3, <2>4, <3>1, <3>3, <4>1
      <3> QED BY <3>2, <3>3
    <2>8. (\A i \in Jobs : pc'[i] = "pending" => i \in TabJobs)
          /\ (\A t \in Sessions : NoRepeat(tabQueue'[t]))
      BY <2>1, <2>4, <2>5 DEF Parked, TabParked
    <2>9. TabParked'
      BY <2>7, <2>8 DEF TabParked
    <2> QED BY <2>6, <2>9 DEF Parked
  <1> QED BY <1>1, <1>2

\* A step of a message keeps the queues and the messages' places in accord.
LEMMA JobStepParked ==
    ASSUME Parked, DataOK, NEW j \in Jobs, JobStep(j)
    PROVE  Parked'
  <1> USE DEF lockVars, queueVars
  <1>1. CASE FlushPasses(j)
    BY <1>1, MovesElsewhere DEF FlushPasses
  <1>2. CASE FlushDefers(j)
    BY <1>2, MovesNothing DEF FlushDefers
  <1>3. CASE FlushForces(j)
    BY <1>3, MovesElsewhere DEF FlushForces
  <1>4. CASE ReturnsEarly(j)
    BY <1>4, MovesElsewhere DEF ReturnsEarly
  <1>5. CASE GateParks(j)
    BY <1>5, ParksInMessageQueue, ParksInSession DEF GateParks
  <1>6. CASE GateDeduplicates(j)
    BY <1>6, MovesElsewhere DEF GateDeduplicates
  <1>7. CASE TakesLock(j)
    BY <1>7, MovesElsewhere DEF TakesLock
  <1>8. CASE TakesLockToRecover(j)
    BY <1>8, MovesElsewhere DEF TakesLockToRecover
  <1>9. CASE Recovers(j)
    BY <1>9, MovesElsewhere DEF Recovers
  <1>10. CASE Finishes(j)
    BY <1>10, FinishParked
  <1> QED
    BY <1>1, <1>2, <1>3, <1>4, <1>5, <1>6, <1>7, <1>8, <1>9, <1>10 DEF JobStep

\* A parked message is in its queue exactly once and nothing else is: drops,
\* drains and finally blocks neither lose a message nor run one twice.
THEOREM NeitherLostNorTwice == Spec => []ParkedExactlyOnce
  <1>1. Init => Parked
    BY DEF Init, Parked, MsgParked, TabParked, Holds, NoRepeat
  <1>2. TypeOK /\ Parked /\ [Next]_vars => Parked'
    <2> SUFFICES ASSUME TypeOK, Parked, [Next]_vars PROVE Parked'
      OBVIOUS
    <2>0. DataOK
      BY TypeHalves
    <2>1. ASSUME NEW j \in Jobs, JobStep(j) PROVE Parked'
      BY <2>0, <2>1, JobStepParked
    <2>2. ASSUME NEW s \in Sessions, Drains(s) PROVE Parked'
      BY <2>0, <2>2, DrainParked
    <2>3. CASE BecomesStale \/ ListenerResets \/ UNCHANGED vars
      BY <2>3, MovesNothing DEF BecomesStale, ListenerResets, queueVars, vars
    <2> QED BY <2>1, <2>2, <2>3 DEF Next
  <1>3. TypeOK /\ Parked => ParkedExactlyOnce
    BY TypeHalves, ParkedImplies
  <1> QED BY <1>1, <1>2, <1>3, TypeCorrect, PTL DEF Spec
=============================================================================
