------------------------- MODULE GroupTurnBuffer_proofs -------------------------
(***************************************************************************)
(* Proofs about GroupTurnBuffer, for every set of participants and every   *)
(* number of rows, replies and failures.                                   *)
(*                                                                         *)
(* The argument has five levels.  What the operators do: an entry that     *)
(* rows are scheduled for takes them (Takes), also in the loop over the    *)
(* deferred fragments, by induction over the natural numbers; a pass that  *)
(* goes on keeps a part of its rows (Onward).  Types, with what makes them *)
(* inductive (StateInv).  Where a row is (HeldInv): one lemma for each way *)
(* rows move.  On top of that, why somebody is left to take the flags of   *)
(* the chat back unless a turn was skipped (LockInv).  The refinement of   *)
(* TurnPromise comes last: how each way rows move changes which rows wait  *)
(* and which sets of rows are closed turns, then one step of the promise   *)
(* for each action.                                                        *)
(***************************************************************************)
EXTENDS GroupTurnBuffer, FiniteSetTheorems, SequenceTheorems, WellFoundedInduction, TLAPS

USE AuthorAssumption, BoundAssumption

\* The order of the natural numbers, as a relation.
Less == {ss \in Nat \X Nat : ss[1] < ss[2]}

\* The natural numbers are well ordered.
LEMMA LessWellFounded == IsWellFoundedOn(Less, Nat)
  <1>1. OpToRel(<, Nat) = Less
    BY Zenon DEF OpToRel, Less
  <1> QED BY Zenon, NatLessThanWellFounded, <1>1

\* Induction, for a property that is a set.
LEMMA SetInduction ==
    ASSUME NEW S, 0 \in S, \A n \in Nat : n \in S => n + 1 \in S
    PROVE  Nat \subseteq S
  <1> SUFFICES ASSUME Nat \ S # {} PROVE FALSE
    OBVIOUS
  <1>1. PICK n \in Nat \ S : \A m \in Nat \ S : ~(<<m, n>> \in Less)
    BY Zenon, LessWellFounded, WFMin, Nat \ S \subseteq Nat
  <1>2. n # 0 /\ n - 1 \in Nat /\ (n - 1) + 1 = n
    OBVIOUS
  <1>3. <<n - 1, n>> \in Less
    BY <1>2 DEF Less
  <1>4. n - 1 \in S
    BY Zenon, <1>1, <1>2, <1>3
  <1> QED BY <1>2, <1>4

\* A set of rows that is not empty has a first one.
LEMMA Least ==
    ASSUME NEW S, S \subseteq Nat, S # {}
    PROVE  Min(S) \in S /\ \A i \in S : Min(S) <= i
  <1>1. PICK n \in S : \A m \in S : ~(<<m, n>> \in Less)
    BY Zenon, LessWellFounded, WFMin
  <1>2. ASSUME NEW m \in S PROVE n <= m
    <2>1. m < n => <<m, n>> \in Less
      BY DEF Less
    <2> QED BY <1>1, <2>1
  <1> QED BY <1>2 DEF Min

\* A sequence that is not empty has an element.
LEMMA HasRow ==
    ASSUME NEW T, NEW s \in Seq(T), s # <<>>
    PROVE  \E x : x \in ToSet(s)
  <1>1. 1 \in DOMAIN s
    BY LenProperties, EmptySeq
  <1> QED BY <1>1 DEF ToSet

\* What is appended.
LEMMA AppendSet ==
    ASSUME NEW s, NEW T, s \in Seq(T), NEW x
    PROVE  ToSet(Append(s, x)) = ToSet(s) \union {x}
  <1>1. /\ Len(s) \in Nat /\ DOMAIN s = 1..Len(s)
        /\ DOMAIN Append(s, x) = 1..(Len(s) + 1)
        /\ Append(s, x)[Len(s) + 1] = x
        /\ \A k \in 1..Len(s) : Append(s, x)[k] = s[k]
    BY AppendProperties, LenProperties
  <1> QED BY <1>1 DEF ToSet

-----------------------------------------------------------------------------
(* The loop over the deferred fragments.                                   *)

\* The entries the loop goes through exist: one after each fragment.
LEMMA ReplayRuns ==
    ASSUME NEW e, NEW T, NEW rows \in Seq(T)
    PROVE  \E g : /\ g[0] = e
                  /\ \A n \in 1..Len(rows) : g[n] = Schedule(g[n - 1], rows[n])
                  /\ Replay(e, rows) = g[Len(rows)]
  <1> DEFINE L == Len(rows)
             Runs(g, k) == /\ DOMAIN g = 0..k
                           /\ g[0] = e
                           /\ \A n \in 1..k : g[n] = Schedule(g[n - 1], rows[n])
             S == {k \in Nat : \E g : g = [n \in 0..k |-> g[n]] /\ Runs(g, k)}
  <1>1. L \in Nat
    BY LenProperties
  <1>2. 0 \in S
    <2> DEFINE g == [n \in 0..0 |-> e]
    <2>1. g = [n \in 0..0 |-> g[n]] /\ Runs(g, 0)
      OBVIOUS
    <2> QED BY <2>1
  <1>3. ASSUME NEW k \in Nat, k \in S PROVE k + 1 \in S
    <2>1. PICK g : g = [n \in 0..k |-> g[n]] /\ Runs(g, k)
      BY <1>3
    <2> DEFINE h == [n \in 0..k + 1 |-> IF n = k + 1 THEN Schedule(g[k], rows[k + 1]) ELSE g[n]]
    <2>2. h = [n \in 0..k + 1 |-> h[n]] /\ DOMAIN h = 0..k + 1
      OBVIOUS
    <2>3. h[0] = e
      BY <2>1
    <2>4. ASSUME NEW n \in 1..k + 1 PROVE h[n] = Schedule(h[n - 1], rows[n])
      <3>1. CASE n = k + 1
        <4>1. h[n - 1] = g[k] /\ h[n] = Schedule(g[k], rows[k + 1])
          BY <3>1
        <4> QED BY <4>1, <3>1
      <3>2. CASE n # k + 1
        <4>1. n \in 1..k /\ h[n] = g[n] /\ h[n - 1] = g[n - 1]
          BY <3>2
        <4> QED BY <4>1, <2>1
      <3> QED BY <3>1, <3>2
    <2>5. Runs(h, k + 1)
      BY <2>2, <2>3, <2>4
    <2>6. k + 1 \in Nat
      OBVIOUS
    <2> HIDE DEF h, Runs
    <2>7. \E f : f = [n \in 0..k + 1 |-> f[n]] /\ Runs(f, k + 1)
      BY <2>2, <2>5
    <2> QED BY <2>6, <2>7
  <1> HIDE DEF S
  <1>4. Nat \subseteq S
    BY <1>2, <1>3, SetInduction
  <1>5. L \in S
    BY <1>1, <1>4
  <1> USE DEF S
  <1>6. PICK g : g = [n \in 0..L |-> g[n]] /\ Runs(g, L)
    BY <1>5
  <1> DEFINE Loop(f) == [n \in 0..L |-> IF n = 0 THEN e ELSE Schedule(f[n - 1], rows[n])]
             after == CHOOSE f : f = Loop(f)
  <1>7. g = Loop(g)
    <2>1. \A n \in 0..L : g[n] = IF n = 0 THEN e ELSE Schedule(g[n - 1], rows[n])
      BY <1>6, <1>1
    <2> QED BY <1>6, <2>1
  <1>8. after = Loop(after)
    <2> HIDE DEF Loop
    <2> QED BY <1>7
  <1>9. Replay(e, rows) = after[L]
    BY DEF Replay
  <1> HIDE DEF after
  <1>10. /\ after[0] = e
         /\ \A n \in 1..L : after[n] = Schedule(after[n - 1], rows[n])
    BY <1>1, <1>8
  <1> QED BY <1>9, <1>10

-----------------------------------------------------------------------------
(* The inductive invariant.                                                *)

Phases == {"idle", "reading", "queued", "pass", "forward", "closing"}
Scans == [phase : Phases, watch : BOOLEAN, snapshot : [Participants -> Nat],
          read : BOOLEAN, admitted : SUBSET Participants, queue : SUBSET Rows,
          inherited : BOOLEAN, acquired : BOOLEAN, stamped : SUBSET Rows,
          todo : SUBSET Participants]

\* The entries the buffer can hold: none is no entry at all, one that is open
\* has nothing deferred and waits for a deadline or an observation, a frozen one
\* waits for its retry timer.
Legal(e) ==
    /\ e \in Entries
    /\ e.state = "none" => e = Absent
    /\ e.state # "none" => e.parts # <<>>
    /\ e.state = "open" => e.deferred = <<>> /\ e.timer # "retry" /\ (e.wanted \/ e.timer # "none")
    /\ e.state = "frozen" => e.timer = "retry"

\* What people and the assistant may write keeps within the bounds.
PageInv ==
    /\ page \in Seq(Participants \union {Emily})
    /\ Replies \in Nat /\ Replies <= MaxReplies /\ Len(page) <= MaxRows + Replies
    /\ anchor \in 0..Len(page)
    /\ handed \subseteq DOMAIN page /\ failed \subseteq DOMAIN page

\* An entry is quiet, and a read has not admitted its participant, only if a
\* complete read without the participant was the last one.
BufferInv ==
    /\ entry \in [Participants -> Entries]
    /\ \A p \in Participants : Legal(entry[p])
    /\ cleanReads \in [Participants -> 0..2]
    /\ \A p \in Participants : entry[p].state = "open" /\ entry[p].quiet => cleanReads[p] # 0

\* A pass has a next row; the rows it still has to hand over are of people and
\* were not handed over before.
ScanInv ==
    /\ scan \in Scans
    /\ scan.phase \in {"queued", "pass", "forward"} => scan.queue # {}
    /\ scan.queue \subseteq DOMAIN page \ handed
    /\ \A i \in scan.queue : page[i] \in Participants
    /\ scan.read => \A p \in Participants \ scan.admitted : cleanReads[p] # 0

\* Turns have rows; only a parked turn is parked, and one that closes has given
\* its deferred fragments back.
TurnInv ==
    /\ flight \subseteq Turns
    /\ \A t \in flight : /\ t.parts # <<>> /\ t.stage # "parked"
                         /\ t.stage = "closing" => t.deferred = <<>>
    /\ parked \in [Participants -> Seq(Turns)]
    /\ \A p \in Participants : \A k \in DOMAIN parked[p] :
         parked[p][k].parts # <<>> /\ parked[p][k].stage = "parked"

\* The rest of the types.
FlagInv ==
    /\ drains \in [Participants -> Nat]
    /\ busy \in BOOLEAN /\ chatLocked \in BOOLEAN /\ responding \in BOOLEAN /\ skipped \in BOOLEAN
    /\ pinned \in BOOLEAN /\ loopRunning \in BOOLEAN
    /\ faults \in 0..MaxFaults

StateInv == PageInv /\ BufferInv /\ ScanInv /\ TurnInv /\ FlagInv

\* The places that may hold row i.
InEntry(i, p) == i \in ToSet(entry[p].parts)
InDeferred(i, p) == i \in ToSet(entry[p].deferred)
InFlight(i, t) == t \in flight /\ i \in RowsOf(t)
InParked(i, p, k) == k \in DOMAIN parked[p] /\ i \in RowsOf(parked[p][k])

SomeEntry(i) == \E p \in Participants : InEntry(i, p)
SomeDeferred(i) == \E p \in Participants : InDeferred(i, p)
SomeFlight(i) == \E t \in flight : InFlight(i, t)
SomeParked(i) == \E p \in Participants : \E k \in DOMAIN parked[p] : InParked(i, p, k)

Nowhere(i) ==
    /\ ~SomeEntry(i) /\ ~SomeDeferred(i) /\ ~SomeFlight(i) /\ ~SomeParked(i)
    /\ i \notin answered /\ i \notin dropped

\* One place alone holds row i.
OnlyEntry(i, p) ==
    /\ InEntry(i, p) /\ \A q \in Participants : InEntry(i, q) => q = p
    /\ ~SomeDeferred(i) /\ ~SomeFlight(i) /\ ~SomeParked(i)
    /\ i \notin answered /\ i \notin dropped
OnlyDeferred(i, p) ==
    /\ InDeferred(i, p) /\ \A q \in Participants : InDeferred(i, q) => q = p
    /\ ~SomeEntry(i) /\ ~SomeFlight(i) /\ ~SomeParked(i)
    /\ i \notin answered /\ i \notin dropped
OnlyFlight(i, t) ==
    /\ InFlight(i, t) /\ \A u \in flight : InFlight(i, u) => u = t
    /\ ~SomeEntry(i) /\ ~SomeDeferred(i) /\ ~SomeParked(i)
    /\ i \notin answered /\ i \notin dropped
OnlyParked(i, p, k) ==
    /\ InParked(i, p, k)
    /\ \A q \in Participants : \A l \in DOMAIN parked[q] :
         InParked(i, q, l) => q = p /\ l = k
    /\ ~SomeEntry(i) /\ ~SomeDeferred(i) /\ ~SomeFlight(i)
    /\ i \notin answered /\ i \notin dropped
OnlySettled(i) ==
    /\ ~SomeEntry(i) /\ ~SomeDeferred(i) /\ ~SomeFlight(i) /\ ~SomeParked(i)
    /\ i \in answered <=> i \notin dropped
Once(i) ==
    \/ \E p \in Participants : OnlyEntry(i, p)
    \/ \E p \in Participants : OnlyDeferred(i, p)
    \/ \E t \in flight : OnlyFlight(i, t)
    \/ \E p \in Participants : \E k \in DOMAIN parked[p] : OnlyParked(i, p, k)
    \/ OnlySettled(i)

\* A row that was handed over is in one place, any other is nowhere.
HeldInv ==
    \A i \in Rows : IF i \in handed THEN Once(i) ELSE Nowhere(i)

\* Only rows are settled.
DoneInv == answered \cup dropped \subseteq Rows

\* Two lists of rows have no row in common.
Apart(s, r) == ToSet(s) \cap ToSet(r) = {}

\* No row of a turn is deferred behind the turn itself.
ApartInv == \A t \in UnderWay : Apart(t.parts, t.deferred)

\* Whoever is busy has a turn; the flags of the chat go together, and have a
\* handoff, an entry or a turn that is not parked to take them back, unless a
\* turn was skipped.
LockInv ==
    /\ chatLocked = responding
    /\ busy => \E t \in flight : t.stage \in {"running", "sent", "closing"}
    /\ chatLocked \/ responding =>
         \/ scan.phase = "forward"
         \/ \E p \in Participants : entry[p].state # "none"
         \/ flight # {}
         \/ skipped

-----------------------------------------------------------------------------
(* What the operators do.                                                  *)

\* f is entry e after the rows of R were scheduled for it: a frozen entry defers
\* the ones it does not have, any other appends them and is open.
Takes(e, f, R) ==
    /\ Legal(f)
    /\ e.state = "frozen" =>
         /\ f.state = "frozen" /\ f.parts = e.parts
         /\ ToSet(f.deferred) = ToSet(e.deferred) \union (R \ ToSet(e.parts))
    /\ e.state # "frozen" =>
         /\ f.deferred = e.deferred /\ ToSet(f.parts) = ToSet(e.parts) \union R
         /\ f = e \/ (f.state = "open" /\ ~f.quiet)

\* Scheduling one row takes it.
LEMMA ScheduleTakes ==
    ASSUME NEW e, NEW f, NEW R, Takes(e, f, R), e.state \in {"none", "open", "frozen"},
           NEW row \in Rows
    PROVE  Takes(e, Schedule(f, row), R \union {row})
  <1> DEFINE g == Schedule(f, row)
  <1> SUFFICES Takes(e, g, R \union {row})
    OBVIOUS
  <1>1. f \in Entries /\ f.parts \in Seq(Rows) /\ f.deferred \in Seq(Rows)
    BY DEF Takes, Legal, Entries
  <1>2. CASE row \in ToSet(f.parts)
    <2>1. g = f
      BY <1>2 DEF Schedule
    <2>2. e.state = "frozen" => row \in ToSet(e.parts)
      BY <1>2 DEF Takes
    <2>3. e.state = "frozen" => R \ ToSet(e.parts) = (R \union {row}) \ ToSet(e.parts)
      BY <2>2
    <2>4. e.state # "frozen" => ToSet(e.parts) \union R = ToSet(e.parts) \union (R \union {row})
      BY <1>2 DEF Takes
    <2> QED BY <2>1, <2>3, <2>4 DEF Takes
  <1>3. CASE row \notin ToSet(f.parts) /\ f.state = "frozen"
    <2>1. g = [f EXCEPT !.deferred = Append(f.deferred, row)]
      BY <1>3 DEF Schedule
    <2>2. Append(f.deferred, row) \in Seq(Rows)
      BY <1>1, AppendProperties
    <2>3. /\ g \in Entries /\ g.state = "frozen" /\ g.parts = f.parts
          /\ g.deferred = Append(f.deferred, row) /\ g.timer = f.timer
      BY <1>1, <1>3, <2>1, <2>2 DEF Entries
    <2>4. Legal(g)
      BY <1>3, <2>3 DEF Takes, Legal
    <2>5. e.state = "frozen" /\ ToSet(g.deferred) = ToSet(f.deferred) \union {row}
      <3>1. e.state = "frozen"
        BY <1>1, <1>3 DEF Takes
      <3> QED BY <1>1, <2>3, <3>1, AppendSet
    <2>6. row \notin ToSet(e.parts)
      BY <1>3, <2>5 DEF Takes
    <2> HIDE DEF g
    <2> QED BY <2>3, <2>4, <2>5, <2>6 DEF Takes
  <1>4. CASE row \notin ToSet(f.parts) /\ f.state # "frozen"
    <2>1. g = [f EXCEPT !.state = "open", !.parts = Append(f.parts, row), !.quiet = FALSE,
                        !.wanted = FALSE, !.failing = FALSE, !.timer = "deadline"]
      BY <1>4 DEF Schedule
    <2>2. Append(f.parts, row) \in Seq(Rows) /\ Append(f.parts, row) # <<>>
      BY <1>1, AppendProperties
    <2>3. /\ g \in Entries /\ g.state = "open" /\ g.parts = Append(f.parts, row)
          /\ g.deferred = f.deferred /\ ~g.quiet /\ g.timer = "deadline"
      BY <1>1, <2>1, <2>2 DEF Entries, Timers
    <2>4. Legal(g)
      BY <1>1, <1>4, <2>2, <2>3 DEF Takes, Legal, Absent, Entries
    <2>5. e.state # "frozen" /\ ToSet(g.parts) = ToSet(f.parts) \union {row}
      BY <1>1, <1>4, <2>3, AppendSet DEF Takes
    <2> HIDE DEF g
    <2> QED BY <2>3, <2>4, <2>5 DEF Takes
  <1> QED BY <1>2, <1>3, <1>4

\* Nothing taken yet.
LEMMA TakesNothing == ASSUME NEW e, Legal(e) PROVE Takes(e, e, {})
  BY DEF Takes

\* The loop takes all its rows.
LEMMA ReplayTakes ==
    ASSUME NEW e, Legal(e), NEW rows \in Seq(Rows)
    PROVE  Takes(e, Replay(e, rows), ToSet(rows))
  <1> DEFINE L == Len(rows)
             First(n) == {rows[k] : k \in 1..n}
  <1>1. PICK g : /\ g[0] = e
                 /\ \A n \in 1..L : g[n] = Schedule(g[n - 1], rows[n])
                 /\ Replay(e, rows) = g[L]
    BY ReplayRuns
  <1>2. L \in Nat /\ DOMAIN rows = 1..L /\ \A k \in 1..L : rows[k] \in Rows
    BY LenProperties
  <1> DEFINE S == {n \in Nat : n <= L => Takes(e, g[n], First(n))}
  <1>3. 0 \in S
    <2>1. First(0) = {}
      OBVIOUS
    <2> HIDE DEF First
    <2> QED BY <1>1, <2>1, TakesNothing
  <1>4. ASSUME NEW n \in Nat, n \in S PROVE n + 1 \in S
    <2>1. SUFFICES ASSUME n + 1 <= L PROVE Takes(e, g[n + 1], First(n + 1))
      OBVIOUS
    <2>2. Takes(e, g[n], First(n))
      BY <1>2, <1>4, <2>1
    <2>3. n + 1 \in 1..L /\ (n + 1) - 1 = n
      BY <1>2, <2>1
    <2>4. g[n + 1] = Schedule(g[n], rows[n + 1]) /\ rows[n + 1] \in Rows
      BY <1>1, <1>2, <2>3
    <2>5. First(n + 1) = First(n) \union {rows[n + 1]}
      OBVIOUS
    <2>6. e.state \in {"none", "open", "frozen"}
      BY DEF Legal, Entries
    <2> HIDE DEF First, S
    <2> QED BY <2>2, <2>4, <2>5, <2>6, ScheduleTakes
  <1> HIDE DEF S
  <1>5. L \in S
    BY <1>2, <1>3, <1>4, SetInduction
  <1>6. Takes(e, g[L], First(L))
    BY <1>2, <1>5 DEF S
  <1>7. First(L) = ToSet(rows)
    BY <1>2 DEF ToSet
  <1> QED BY <1>1, <1>6, <1>7

\* How a pass goes on: with a part of its rows, and a next row unless it closes.
Onward(s, g) ==
    /\ g \in Scans
    /\ g = [s EXCEPT !.queue = g.queue, !.phase = g.phase]
    /\ g.queue \subseteq s.queue
    /\ g.phase = "closing" \/ (g.phase = "pass" /\ g.queue # {})

\* A pass goes on, whatever it tests the next rows with.
LEMMA GoesOnOnward ==
    ASSUME NEW s \in Scans, NEW locked, NEW pin, NEW ent
    PROVE  Onward(s, GoesOn(s, locked, pin, ent))
  <1> DEFINE joining == {i \in s.queue : MayJoin(i, s, locked, pin, ent)}
             g == GoesOn(s, locked, pin, ent)
  <1> SUFFICES Onward(s, g)
    OBVIOUS
  <1>1. s.queue \subseteq Nat
    BY DEF Scans, Rows
  <1>2. CASE joining = {}
    <2>1. g = [s EXCEPT !.queue = {}, !.phase = "closing"]
      BY <1>2 DEF GoesOn
    <2> HIDE DEF g
    <2> QED BY <2>1 DEF Onward, Scans, Phases
  <1>3. CASE joining # {}
    <2>1. g = [s EXCEPT !.queue = {i \in s.queue : i >= Min(joining)}, !.phase = "pass"]
      BY <1>3 DEF GoesOn
    <2>2. Min(joining) \in joining /\ joining \subseteq s.queue
      BY <1>1, <1>3, Least
    <2>3. Min(joining) \in {i \in s.queue : i >= Min(joining)}
      BY <1>1, <2>2
    <2> HIDE DEF g, joining
    <2> QED BY <2>1, <2>3 DEF Onward, Scans, Phases
  <1> QED BY <1>2, <1>3

-----------------------------------------------------------------------------
(* The types, variable by variable: first the page.                        *)

\* The rows of the page are numbers within the bounds.
LEMMA PageRows ==
    ASSUME PageInv
    PROVE  /\ Len(page) \in Nat /\ DOMAIN page = 1..Len(page)
           /\ DOMAIN page \subseteq Rows /\ Rows \subseteq Nat
  <1>1. Len(page) \in Nat /\ DOMAIN page = 1..Len(page)
    BY LenProperties DEF PageInv
  <1>2. Len(page) <= MaxRows + MaxReplies
    BY <1>1 DEF PageInv
  <1> QED BY <1>1, <1>2 DEF Rows

\* A row more.
LEMMA PageGrows ==
    ASSUME PageInv, NEW a \in Participants \union {Emily}, page' = Append(page, a)
    PROVE  /\ page' \in Seq(Participants \union {Emily})
           /\ Len(page') = Len(page) + 1
           /\ DOMAIN page \subseteq DOMAIN page'
           /\ \A i \in DOMAIN page : page'[i] = page[i]
           /\ Replies' = Replies + (IF a = Emily THEN 1 ELSE 0)
  <1> DEFINE n == Len(page) + 1
             old == {i \in DOMAIN page : page[i] = Emily}
             new == {i \in DOMAIN page' : page'[i] = Emily}
  <1>1. /\ page' \in Seq(Participants \union {Emily})
        /\ Len(page') = n /\ page'[n] = a
        /\ \A i \in 1..Len(page) : page'[i] = page[i]
    BY AppendProperties DEF PageInv
  <1>2. /\ Len(page) \in Nat /\ DOMAIN page = 1..Len(page) /\ DOMAIN page' = 1..n
    BY <1>1, PageRows, LenProperties
  <1>3. IsFiniteSet(old)
    <2>1. IsFiniteSet(1..Len(page))
      BY <1>2, FS_Interval
    <2> QED BY <1>2, <2>1, FS_Subset
  <1>4. Replies = Cardinality(old) /\ Replies' = Cardinality(new)
    BY DEF Replies
  <1>5. a = Emily => Cardinality(new) = Cardinality(old) + 1
    <2>1. n \notin old /\ (a = Emily => new = old \union {n})
      BY <1>1, <1>2
    <2> QED BY <1>3, <2>1, FS_AddElement
  <1>6. a # Emily => new = old
    BY <1>1, <1>2
  <1>7. Cardinality(old) \in Nat
    BY <1>3, FS_CardinalityType
  <1> HIDE DEF old, new
  <1>8. Replies' = Replies + (IF a = Emily THEN 1 ELSE 0)
    BY <1>4, <1>5, <1>6, <1>7
  <1> QED BY <1>1, <1>2, <1>8

\* The next row of a pass.
LEMMA NextRowFacts ==
    ASSUME PageInv, ScanInv, scan.phase \in {"queued", "pass", "forward"}
    PROVE  /\ NextRow \in scan.queue /\ NextRow \in DOMAIN page \ handed
           /\ NextRow \in Rows /\ page[NextRow] \in Participants
  <1>1. scan.queue \subseteq Nat /\ scan.queue # {}
    BY PageRows DEF ScanInv
  <1>2. NextRow \in scan.queue
    BY <1>1, Least DEF NextRow
  <1> QED BY <1>2, PageRows DEF ScanInv

\* The page keeps its bounds.
LEMMA PageStep ==
    ASSUME StateInv, Next
    PROVE  PageInv'
  <1>0. PageInv /\ ScanInv
    BY DEF StateInv
  <1>1. ASSUME NEW p \in Participants, PersonWrites(p) PROVE PageInv'
    <2>1. /\ page' = Append(page, p) /\ Len(page) - Replies < MaxRows
          /\ anchor' = anchor /\ handed' = handed /\ failed' = failed
      BY <1>1 DEF PersonWrites
    <2>2. p # Emily
      OBVIOUS
    <2> QED BY <1>0, <2>1, <2>2, PageGrows, PageRows DEF PageInv
  <1>2. ASSUME Replies < MaxReplies, page' = Append(page, Emily), anchor' = anchor,
               handed' = handed, failed' = failed
        PROVE  PageInv'
    BY <1>0, <1>2, PageGrows, PageRows DEF PageInv
  <1>3. CASE OwnerWrites
    BY <1>2, <1>3 DEF OwnerWrites
  <1>4. ASSUME NEW t \in flight, Reply(t) PROVE PageInv'
    BY <1>2, <1>4 DEF Reply
  <1>5. CASE Handed
    <2>1. /\ NextRow \in DOMAIN page
      BY <1>0, <1>5, NextRowFacts DEF Handed
    <2>2. /\ page' = page /\ anchor' = NextRow /\ handed' = handed \union {NextRow}
          /\ failed' = failed
      BY <1>5 DEF Handed
    <2>3. Replies' = Replies
      BY <2>2 DEF Replies
    <2> QED BY <1>0, <2>1, <2>2, <2>3, PageRows DEF PageInv
  <1>6. ASSUME UNCHANGED pageVars PROVE PageInv'
    BY <1>0, <1>6 DEF PageInv, Replies, pageVars
  <1>7. ASSUME NEW p \in Participants,
               DeadlineFires(p) \/ AgainFires(p) \/ RetryFires(p)
                 \/ FinalCheck(p) \/ Drain(p)
        PROVE  UNCHANGED pageVars
    BY <1>7 DEF DeadlineFires, AgainFires, RetryFires, FinalCheck, Drain
  <1>8. ASSUME NEW t \in flight,
               GateBlocks(t) \/ GateOpens(t) \/ Succeeds(t) \/ Closes(t) \/ Fails(t)
        PROVE  UNCHANGED pageVars
    BY <1>8 DEF GateBlocks, GateOpens, Succeeds, Closes, Fails
  <1>9. CASE StartScan \/ BlockedTick \/ ReleaseStalePin \/ (\E b \in BOOLEAN : Read(b))
               \/ ReadFails \/ StartPass \/ SkipWrongChat \/ Forward \/ EndScan
    BY <1>6, <1>9 DEF StartScan, BlockedTick, ReleaseStalePin, Read, ReadFails, StartPass,
       SkipWrongChat, Forward, EndScan
  <1>10. ASSUME UNCHANGED <<page, anchor, handed>>, failed' \subseteq failed \union DOMAIN page
         PROVE  PageInv'
    BY <1>0, <1>10 DEF PageInv, Replies
  <1>11. CASE ForwardFails
    BY <1>0, <1>10, <1>11, NextRowFacts DEF ForwardFails
  <1>12. ASSUME NEW row \in failed, Forgets(row) PROVE PageInv'
    BY <1>10, <1>12 DEF Forgets, turnVars
  <1> QED BY <1>1, <1>3, <1>4, <1>5, <1>6, <1>7, <1>8, <1>9, <1>11, <1>12
         DEF Next, Listener, Pipeline

-----------------------------------------------------------------------------
(* The buffer.                                                             *)

\* Marks on an entry that stays: its rows and its state are as before, and an open
\* one is still waited for.
Marked(e, f) ==
    /\ f \in Entries
    /\ f.state = e.state /\ f.parts = e.parts /\ f.deferred = e.deferred
    /\ f.quiet = e.quiet
    /\ f = e \/ (e.state = "open" /\ f.timer # "retry" /\ (f.wanted \/ f.timer # "none"))

\* Marks do not make an entry illegal.
LEMMA MarkedLegal ==
    ASSUME NEW e, NEW f, Legal(e), Marked(e, f)
    PROVE  Legal(f)
  BY DEF Legal, Marked

\* Neither does its absence.
LEMMA AbsentLegal == Legal(Absent)
  BY DEF Legal, Absent, Entries, Timers

\* A timer that fires marks its entry.
LEMMA TimerMarks ==
    ASSUME BufferInv, NEW p \in Participants, entry[p].timer \in {"deadline", "again"},
           entry' = [entry EXCEPT ![p].timer = "none", ![p].wanted = TRUE]
    PROVE  /\ entry' \in [Participants -> Entries]
           /\ \A q \in Participants : Marked(entry[q], entry'[q])
  <1>1. entry[p] \in Entries /\ Legal(entry[p]) /\ entry[p].state = "open"
    BY DEF BufferInv, Legal, Absent, Entries
  <1>2. entry' = [entry EXCEPT ![p] = [entry[p] EXCEPT !.timer = "none", !.wanted = TRUE]]
    BY <1>1 DEF BufferInv
  <1>3. Marked(entry[p], [entry[p] EXCEPT !.timer = "none", !.wanted = TRUE])
    BY <1>1 DEF Marked, Entries, Timers
  <1>4. \A q \in Participants : Marked(entry[q], entry[q])
    BY DEF Marked, BufferInv
  <1> QED BY <1>2, <1>3, <1>4 DEF BufferInv, Marked

\* A failed observation marks the entries that wanted it.
LEMMA FailureMarks ==
    ASSUME BufferInv, NEW aged, RecordFailure(aged)
    PROVE  /\ entry' \in [Participants -> Entries]
           /\ \A q \in Participants : Marked(entry[q], entry'[q])
  <1> DEFINE wanting == {p \in Participants : IsOpen(p) /\ entry[p].wanted}
             f(p) == [entry[p] EXCEPT !.failing = TRUE,
                        !.timer = IF p \notin aged /\ @ = "none" THEN "again" ELSE @]
  <1>1. entry' = [p \in Participants |-> IF p \in wanting THEN f(p) ELSE entry[p]]
    BY DEF RecordFailure
  <1>2. ASSUME NEW p \in Participants
        PROVE  Marked(entry[p], IF p \in wanting THEN f(p) ELSE entry[p])
    <2>1. entry[p] \in Entries
      BY DEF BufferInv
    <2>2. CASE p \in wanting
      <3>1. f(p) \in Entries /\ f(p).state = entry[p].state /\ f(p).parts = entry[p].parts
            /\ f(p).deferred = entry[p].deferred /\ f(p).quiet = entry[p].quiet
            /\ f(p).timer \in {entry[p].timer, "again"} /\ f(p).wanted = entry[p].wanted
        BY <2>1 DEF Entries, Timers
      <3>2. entry[p].state = "open" /\ entry[p].wanted /\ entry[p].timer # "retry"
        BY <2>2 DEF IsOpen, BufferInv, Legal
      <3> HIDE DEF f
      <3> QED BY <2>2, <3>1, <3>2 DEF Marked
    <2>3. CASE p \notin wanting
      BY <2>1, <2>3 DEF Marked
    <2> QED BY <2>2, <2>3
  <1> HIDE DEF f, wanting
  <1> QED BY <1>1, <1>2 DEF Marked

\* A changed entry after a final observation waits for its next deadline.
LEMMA PostponeMarks ==
    ASSUME BufferInv, NEW p \in Participants, IsOpen(p),
           entry' = [entry EXCEPT ![p].wanted = FALSE, ![p].failing = FALSE,
                         ![p].timer = IF @ = "none" THEN "deadline" ELSE @]
    PROVE  /\ entry' \in [Participants -> Entries]
           /\ \A q \in Participants : Marked(entry[q], entry'[q])
  <1> DEFINE f == [entry[p] EXCEPT !.wanted = FALSE, !.failing = FALSE,
                      !.timer = IF @ = "none" THEN "deadline" ELSE @]
  <1>1. entry[p] \in Entries /\ entry[p].state = "open" /\ entry[p].timer # "retry"
    BY DEF BufferInv, IsOpen, Legal
  <1>2. entry' = [entry EXCEPT ![p] = f]
    BY <1>1 DEF BufferInv
  <1>3. f \in Entries /\ f.state = entry[p].state /\ f.parts = entry[p].parts
        /\ f.deferred = entry[p].deferred /\ f.quiet = entry[p].quiet
        /\ f.timer \in {"again", "deadline"}
    BY <1>1 DEF Entries, Timers
  <1> HIDE DEF f
  <1>4. Marked(entry[p], f)
    BY <1>1, <1>3 DEF Marked
  <1>5. \A q \in Participants : Marked(entry[q], entry[q])
    BY DEF Marked, BufferInv
  <1>6. /\ entry'[p] = f
        /\ \A q \in Participants \ {p} : entry'[q] = entry[q]
        /\ entry' \in [Participants -> Entries]
    BY <1>2, <1>3 DEF BufferInv
  <1> QED BY <1>4, <1>5, <1>6

\* A failed turn that is put back.
LEMMA RestoredLegal ==
    ASSUME TurnInv, NEW t \in flight
    PROVE  Legal(Restored(t)) /\ Restored(t).state = "frozen"
  <1>1. t \in Turns /\ t.parts # <<>>
    BY DEF TurnInv
  <1> QED BY <1>1 DEF Legal, Restored, Absent, Entries, Timers, Turns

\* Each entry after a completed read.
LEMMA ReadEntry ==
    ASSUME BufferInv, NEW p \in Participants, NEW admitted
    PROVE  /\ Legal(Confirmed(p, admitted))
           /\ Freezes(p, admitted) => Confirmed(p, admitted) = Absent
           /\ ~Freezes(p, admitted) =>
                /\ Confirmed(p, admitted).state = entry[p].state
                /\ Confirmed(p, admitted).parts = entry[p].parts
                /\ Confirmed(p, admitted).deferred = entry[p].deferred
                /\ IsOpen(p) /\ Confirmed(p, admitted).quiet => p \notin admitted
  <1> DEFINE f == Confirmed(p, admitted)
  <1>1. entry[p] \in Entries /\ Legal(entry[p])
    BY DEF BufferInv
  <1>2. CASE Freezes(p, admitted)
    BY <1>2, AbsentLegal DEF Confirmed
  <1>3. CASE ~Freezes(p, admitted) /\ IsOpen(p)
    <2>1. f = [entry[p] EXCEPT !.quiet = p \notin admitted]
      BY <1>3 DEF Confirmed
    <2> SUFFICES /\ Legal(f) /\ f.state = entry[p].state /\ f.parts = entry[p].parts
                 /\ f.deferred = entry[p].deferred /\ (f.quiet => p \notin admitted)
      BY <1>3
    <2>2. /\ f \in Entries /\ f.state = entry[p].state /\ f.parts = entry[p].parts
          /\ f.deferred = entry[p].deferred /\ f.timer = entry[p].timer
          /\ f.wanted = entry[p].wanted
          /\ (f.quiet <=> p \notin admitted)
      BY <1>1, <2>1 DEF Entries
    <2> HIDE DEF f
    <2> QED BY <1>1, <1>3, <2>2 DEF Legal, IsOpen
  <1>4. CASE ~Freezes(p, admitted) /\ ~IsOpen(p)
    BY <1>1, <1>4 DEF Confirmed
  <1> QED BY <1>2, <1>3, <1>4

\* The buffer keeps legal entries, and quiet ones only behind a clean read.
LEMMA BufferStep ==
    ASSUME StateInv, Next
    PROVE  BufferInv'
  <1>0. PageInv /\ BufferInv /\ ScanInv /\ TurnInv
    BY DEF StateInv
  <1>1. ASSUME entry' \in [Participants -> Entries], cleanReads' = cleanReads,
               \A q \in Participants : Legal(entry'[q])
                  /\ (entry'[q].state = "open" /\ entry'[q].quiet =>
                        entry[q].state = "open" /\ entry[q].quiet)
        PROVE  BufferInv'
    BY <1>0, <1>1 DEF BufferInv
  <1>2. ASSUME entry' \in [Participants -> Entries], cleanReads' = cleanReads,
               \A q \in Participants : Marked(entry[q], entry'[q])
        PROVE  BufferInv'
    <2>1. \A q \in Participants : Legal(entry'[q])
      BY <1>0, <1>2, MarkedLegal DEF BufferInv
    <2> QED BY <1>1, <1>2, <2>1 DEF Marked
  <1>3. ASSUME NEW p \in Participants, NEW f, Legal(f), cleanReads' = cleanReads,
               f.state = "open" /\ f.quiet => entry[p].state = "open" /\ entry[p].quiet,
               entry' = [entry EXCEPT ![p] = f]
        PROVE  BufferInv'
    <2>1. f \in Entries
      BY <1>3 DEF Legal
    <2> QED BY <1>0, <1>1, <1>3, <2>1 DEF BufferInv
  <1>4. ASSUME NEW p \in Participants, cleanReads' = cleanReads,
               entry' = [entry EXCEPT ![p] = Absent]
        PROVE  BufferInv'
    BY <1>3, <1>4, AbsentLegal DEF Absent
  <1>5. ASSUME NEW p \in Participants,
               DeadlineFires(p) \/ AgainFires(p) \/ RetryFires(p) \/ FinalCheck(p)
        PROVE  BufferInv'
    <2>1. CASE DeadlineFires(p) \/ AgainFires(p)
      BY <1>0, <1>2, <2>1, TimerMarks DEF DeadlineFires, AgainFires
    <2>2. CASE RetryFires(p)
      BY <1>4, <2>2 DEF RetryFires
    <2>3. CASE FinalCheck(p)
      <3>1. /\ cleanReads' = cleanReads
            /\ \/ entry' = entry
               \/ /\ IsOpen(p)
                  /\ entry' = [entry EXCEPT ![p].wanted = FALSE, ![p].failing = FALSE,
                                  ![p].timer = IF @ = "none" THEN "deadline" ELSE @]
               \/ entry' = [entry EXCEPT ![p] = Absent]
        BY <2>3 DEF FinalCheck
      <3>2. CASE entry' = entry
        BY <1>0, <3>1, <3>2 DEF BufferInv
      <3> QED BY <1>0, <1>2, <1>4, <3>1, <3>2, PostponeMarks
    <2> QED BY <1>5, <2>1, <2>2, <2>3
  <1>6. ASSUME NEW aged, RecordFailure(aged), cleanReads' = cleanReads PROVE BufferInv'
    BY <1>0, <1>2, <1>6, FailureMarks
  <1>7. ASSUME NEW tooSoon \in BOOLEAN, Read(tooSoon) PROVE BufferInv'
    <2> DEFINE admitted == {page[i] : i \in Admitted}
    <2>1. /\ entry' = [p \in Participants |-> Confirmed(p, admitted)]
          /\ cleanReads' = [p \in Participants |->
               IF p \in admitted THEN 0 ELSE IF cleanReads[p] < 2 THEN cleanReads[p] + 1 ELSE 2]
      BY <1>7 DEF Read
    <2> HIDE DEF admitted
    <2>2. entry' \in [Participants -> Entries] /\ \A p \in Participants : Legal(entry'[p])
      BY <1>0, <2>1, ReadEntry DEF Legal
    <2>3. /\ cleanReads' \in [Participants -> 0..2]
          /\ \A p \in Participants \ admitted : cleanReads'[p] # 0
      BY <1>0, <2>1 DEF BufferInv
    <2>4. ASSUME NEW p \in Participants, entry'[p].state = "open", entry'[p].quiet
          PROVE  p \notin admitted
      <3>1. entry'[p] = Confirmed(p, admitted)
        BY <2>1
      <3>2. ~Freezes(p, admitted)
        BY <1>0, <2>4, <3>1, ReadEntry DEF Absent
      <3> QED BY <1>0, <2>4, <3>1, <3>2, ReadEntry DEF IsOpen
    <2> QED BY <2>2, <2>3, <2>4 DEF BufferInv
  <1>8. CASE Handed
    <2> DEFINE p == page[NextRow]
    <2>1. p \in Participants /\ NextRow \in Rows
      BY <1>0, <1>8, NextRowFacts DEF Handed
    <2>2. entry' = [entry EXCEPT ![p] = Schedule(entry[p], NextRow)] /\ cleanReads' = cleanReads
      BY <1>8 DEF Handed
    <2>3. Legal(entry[p]) /\ entry[p].state \in {"none", "open", "frozen"}
      BY <1>0, <2>1 DEF BufferInv, Legal, Entries
    <2>4. Takes(entry[p], Schedule(entry[p], NextRow), {} \union {NextRow})
      BY <2>1, <2>3, TakesNothing, ScheduleTakes
    <2> QED BY <1>3, <2>1, <2>2, <2>4 DEF Takes
  <1>9. ASSUME NEW t \in flight, Succeeds(t) PROVE BufferInv'
    <2>1. t.by \in Participants /\ t.deferred \in Seq(Rows)
      BY <1>0 DEF TurnInv, Turns
    <2>2. /\ entry' = [entry EXCEPT ![t.by] = Replay(entry[t.by], t.deferred)]
          /\ cleanReads' = cleanReads
      BY <1>9 DEF Succeeds
    <2>3. Legal(entry[t.by])
      BY <1>0, <2>1 DEF BufferInv
    <2>4. Takes(entry[t.by], Replay(entry[t.by], t.deferred), ToSet(t.deferred))
      BY <2>1, <2>3, ReplayTakes
    <2> QED BY <1>3, <2>1, <2>2, <2>4 DEF Takes
  <1>10. ASSUME NEW t \in flight, Fails(t) PROVE BufferInv'
    <2>1. t.by \in Participants
      BY <1>0 DEF TurnInv, Turns
    <2>2. cleanReads' = cleanReads /\ entry' \in {entry, [entry EXCEPT ![t.by] = Restored(t)]}
      BY <1>10 DEF Fails
    <2>3. CASE entry' = entry
      BY <1>0, <2>2, <2>3 DEF BufferInv
    <2>4. Restored(t).state = "frozen" /\ Legal(Restored(t))
      BY <1>0, RestoredLegal
    <2> QED BY <1>3, <2>1, <2>2, <2>3, <2>4
  <1>11. CASE BlockedTick \/ EndScan
    <2>1. cleanReads' = cleanReads /\ (entry' = entry \/ \E aged : RecordFailure(aged))
      BY <1>11 DEF BlockedTick, EndScan
    <2>2. CASE entry' = entry
      BY <1>0, <2>1, <2>2 DEF BufferInv
    <2> QED BY <1>6, <2>1, <2>2
  <1>12. ASSUME UNCHANGED bufferVars PROVE BufferInv'
    BY <1>0, <1>12 DEF BufferInv, bufferVars
  <1>13. ASSUME NEW p \in Participants, PersonWrites(p) \/ Drain(p) PROVE UNCHANGED bufferVars
    BY <1>13 DEF PersonWrites, Drain
  <1>14. ASSUME NEW t \in flight, GateBlocks(t) \/ GateOpens(t) \/ Reply(t) \/ Closes(t)
         PROVE  UNCHANGED bufferVars
    BY <1>14 DEF GateBlocks, GateOpens, Reply, Closes
  <1>15. CASE OwnerWrites \/ StartScan \/ ReleaseStalePin \/ ReadFails \/ StartPass
                \/ SkipWrongChat \/ Forward \/ ForwardFails
    BY <1>12, <1>15 DEF OwnerWrites, StartScan, ReleaseStalePin, ReadFails, StartPass,
       SkipWrongChat, Forward, ForwardFails
  <1>16. ASSUME NEW row \in failed, Forgets(row) PROVE UNCHANGED bufferVars
    BY <1>16 DEF Forgets, turnVars
  <1> QED BY <1>5, <1>7, <1>8, <1>9, <1>10, <1>11, <1>12, <1>13, <1>14, <1>15, <1>16
         DEF Next, Listener, Pipeline

-----------------------------------------------------------------------------
(* The scan, the turns and the flags.                                      *)

\* A scan stays right when the page only grows, rows in its queue are not
\* handed over and no read is taken back.
LEMMA SameScan ==
    ASSUME PageInv, ScanInv, scan' = scan, handed' = handed, cleanReads' = cleanReads,
           DOMAIN page \subseteq DOMAIN page',
           \A i \in DOMAIN page : page'[i] = page[i]
    PROVE  ScanInv'
  BY DEF ScanInv

\* A step of the pass: from scan s, made of the old one, it goes on.
LEMMA PassOn ==
    ASSUME PageInv, ScanInv, NEW s \in Scans, Onward(s, scan'),
           s.queue \subseteq scan.queue \ handed',
           s.read = scan.read, s.admitted = scan.admitted,
           page' = page, cleanReads' = cleanReads
    PROVE  ScanInv'
  <1>1. /\ scan' \in Scans /\ scan'.queue \subseteq s.queue
        /\ scan'.read = s.read /\ scan'.admitted = s.admitted
        /\ scan'.phase = "closing" \/ (scan'.phase = "pass" /\ scan'.queue # {})
    BY DEF Onward, Scans
  <1> QED BY <1>1 DEF ScanInv

\* A pass keeps its queue of rows that are still to be handed over.
LEMMA ScanStep ==
    ASSUME StateInv, Next
    PROVE  ScanInv'
  <1>0. PageInv /\ BufferInv /\ ScanInv /\ scan \in Scans
    BY DEF StateInv, ScanInv
  <1>1. ASSUME scan' = scan, page' = page, handed' = handed, cleanReads' = cleanReads
        PROVE  ScanInv'
    BY <1>0, <1>1, SameScan
  <1>2. ASSUME NEW a \in Participants \union {Emily}, page' = Append(page, a),
               scan' = scan, handed' = handed, cleanReads' = cleanReads
        PROVE  ScanInv'
    BY <1>0, <1>2, PageGrows, SameScan
  <1>3. ASSUME NEW p \in Participants, PersonWrites(p) PROVE ScanInv'
    BY <1>2, <1>3 DEF PersonWrites, loopVars, bufferVars
  <1>4. CASE OwnerWrites
    BY <1>2, <1>4 DEF OwnerWrites, loopVars, bufferVars
  <1>5. ASSUME NEW t \in flight, Reply(t) PROVE ScanInv'
    BY <1>2, <1>5 DEF Reply, loopVars, bufferVars
  <1>6. CASE StartScan
    <2>1. page' = page /\ handed' = handed /\ cleanReads' = cleanReads
      BY <1>6 DEF StartScan, pageVars, bufferVars
    <2> DEFINE snap == [p \in Participants |->
                          IF pinned /\ IsOpen(p) THEN Len(entry[p].parts) ELSE 0]
    <2>2. scan' = [Idle EXCEPT !.phase = "reading", !.watch = pinned, !.snapshot = snap]
      BY <1>6 DEF StartScan
    <2>3. snap \in [Participants -> Nat]
      <3>1. \A p \in Participants : Len(entry[p].parts) \in Nat
        BY <1>0, LenProperties DEF BufferInv, Entries
      <3> QED BY <3>1
    <2>4. pinned \in BOOLEAN
      BY DEF StateInv, FlagInv
    <2> HIDE DEF snap
    <2>5. /\ scan' \in Scans /\ scan'.phase = "reading" /\ scan'.queue = {} /\ ~scan'.read
      BY <2>2, <2>3, <2>4 DEF Idle, Scans, Phases
    <2> QED BY <2>5 DEF ScanInv
  <1>7. ASSUME NEW tooSoon \in BOOLEAN, Read(tooSoon) PROVE ScanInv'
    <2> DEFINE admitted == {page[i] : i \in Admitted}
               queue == IF tooSoon \/ (responding /\ ~scan.watch) THEN {}
                        ELSE {i \in Admitted : ~RepliedAfter(i)}
               todo == {p \in Participants : scan.snapshot[p] # 0}
    <2>1. page' = page /\ handed' = handed
      BY <1>7 DEF Read, pageVars
    <2>2. scan' = [scan EXCEPT
               !.phase = IF queue = {} THEN "closing" ELSE "queued",
               !.read = TRUE, !.admitted = admitted, !.todo = todo, !.queue = queue]
      BY <1>7 DEF Read
    <2>3. cleanReads' = [p \in Participants |->
               IF p \in admitted THEN 0 ELSE IF cleanReads[p] < 2 THEN cleanReads[p] + 1 ELSE 2]
      BY <1>7 DEF Read
    <2>4. \A i \in Admitted : i \in DOMAIN page \ handed /\ page[i] \in Participants
      <3>1. \A i \in anchor + 1 .. Len(page) : i \in DOMAIN page
        BY <1>0, PageRows DEF PageInv
      <3>2. \A i \in DOMAIN page : page[i] \in Participants \union {Emily}
        BY <1>0, LenProperties DEF PageInv
      <3> QED BY <3>1, <3>2 DEF Admitted
    <2>5. /\ queue \subseteq Admitted /\ queue \subseteq Rows
          /\ admitted \in SUBSET Participants /\ todo \in SUBSET Participants
      BY <1>0, <2>4, PageRows
    <2>6. \A p \in Participants \ admitted : cleanReads'[p] # 0
      BY <1>0, <2>3 DEF BufferInv
    <2> HIDE DEF queue, admitted, todo
    <2>7. /\ scan' \in Scans /\ scan'.queue = queue /\ scan'.admitted = admitted
          /\ scan'.phase \in {"closing", "queued"}
          /\ scan'.phase = "queued" => queue # {}
      BY <1>0, <2>2, <2>5 DEF Scans, Phases
    <2> QED BY <2>1, <2>4, <2>5, <2>6, <2>7 DEF ScanInv
  <1>8. CASE ReadFails
    <2>1. /\ page' = page /\ handed' = handed /\ cleanReads' = cleanReads
          /\ scan' = [scan EXCEPT !.phase = "closing"]
      BY <1>8 DEF ReadFails, pageVars, bufferVars
    <2>2. /\ scan' \in Scans /\ scan'.phase = "closing" /\ scan'.queue = scan.queue
          /\ scan'.read = scan.read /\ scan'.admitted = scan.admitted
      BY <1>0, <2>1 DEF Scans, Phases
    <2> QED BY <1>0, <2>1, <2>2 DEF ScanInv
  <1>9. CASE StartPass
    <2> DEFINE s == [scan EXCEPT !.inherited = chatLocked, !.acquired = ~pinned]
    <2>1. /\ page' = page /\ handed' = handed /\ cleanReads' = cleanReads
          /\ scan' = GoesOn(s, chatLocked, TRUE, entry)
      BY <1>9 DEF StartPass, pageVars, bufferVars
    <2>2. chatLocked \in BOOLEAN /\ pinned \in BOOLEAN
      BY DEF StateInv, FlagInv
    <2>3. s \in Scans /\ s.queue = scan.queue /\ s.read = scan.read /\ s.admitted = scan.admitted
      BY <1>0, <2>2 DEF Scans
    <2> HIDE DEF s
    <2>4. Onward(s, scan')
      BY <2>1, <2>3, GoesOnOnward
    <2>5. s.queue \subseteq scan.queue \ handed'
      BY <1>0, <2>1, <2>3 DEF ScanInv
    <2> QED BY <1>0, <2>1, <2>3, <2>4, <2>5, PassOn
  <1>10. CASE SkipWrongChat \/ ForwardFails
    <2> DEFINE s == [scan EXCEPT !.queue = @ \ {NextRow}]
    <2>1. /\ page' = page /\ handed' = handed /\ cleanReads' = cleanReads
          /\ \E locked : scan' = GoesOn(s, locked, pinned, entry)
      BY <1>10 DEF SkipWrongChat, ForwardFails, pageVars, bufferVars
    <2>2. /\ s \in Scans /\ s.queue \subseteq scan.queue
          /\ s.read = scan.read /\ s.admitted = scan.admitted
      BY <1>0 DEF Scans
    <2> HIDE DEF s
    <2>3. Onward(s, scan')
      BY <2>1, <2>2, GoesOnOnward
    <2>4. s.queue \subseteq scan.queue \ handed'
      BY <1>0, <2>1, <2>2 DEF ScanInv
    <2> QED BY <1>0, <2>1, <2>2, <2>3, <2>4, PassOn
  <1>11. CASE Forward
    <2>1. /\ page' = page /\ handed' = handed /\ cleanReads' = cleanReads
          /\ scan.phase = "pass" /\ scan' = [scan EXCEPT !.phase = "forward"]
      BY <1>11 DEF Forward, pageVars, bufferVars
    <2>2. /\ scan' \in Scans /\ scan'.queue = scan.queue
          /\ scan'.read = scan.read /\ scan'.admitted = scan.admitted
      BY <1>0, <2>1 DEF Scans, Phases
    <2> QED BY <1>0, <2>1, <2>2 DEF ScanInv
  <1>12. CASE Handed
    <2> DEFINE s == [scan EXCEPT !.queue = @ \ {NextRow}, !.stamped = @ \cup {NextRow}]
               ent == [entry EXCEPT ![page[NextRow]] = Schedule(@, NextRow)]
    <2>1. /\ page' = page /\ cleanReads' = cleanReads /\ handed' = handed \union {NextRow}
          /\ scan' = GoesOn(s, chatLocked, pinned, ent)
      BY <1>12 DEF Handed
    <2>2. NextRow \in Rows
      BY <1>0, <1>12, NextRowFacts DEF Handed
    <2>3. /\ s \in Scans /\ s.queue = scan.queue \ {NextRow}
          /\ s.read = scan.read /\ s.admitted = scan.admitted
      BY <1>0, <2>2 DEF Scans
    <2> HIDE DEF s, ent
    <2>4. Onward(s, scan')
      BY <2>1, <2>3, GoesOnOnward
    <2>5. s.queue \subseteq scan.queue \ handed'
      BY <1>0, <2>1, <2>3 DEF ScanInv
    <2> QED BY <1>0, <2>1, <2>3, <2>4, <2>5, PassOn
  <1>13. ASSUME NEW p \in Participants, FinalCheck(p) PROVE ScanInv'
    <2>1. /\ page' = page /\ handed' = handed /\ cleanReads' = cleanReads
          /\ scan.phase = "closing" /\ scan' = [scan EXCEPT !.todo = @ \ {p}]
      BY <1>13 DEF FinalCheck, pageVars
    <2>2. /\ scan' \in Scans /\ scan'.phase = scan.phase /\ scan'.queue = scan.queue
          /\ scan'.read = scan.read /\ scan'.admitted = scan.admitted
      BY <1>0, <2>1 DEF Scans
    <2> QED BY <1>0, <2>1, <2>2 DEF ScanInv
  <1>14. ASSUME scan' = Idle PROVE ScanInv'
    BY <1>14 DEF ScanInv, Idle, Scans, Phases
  <1>15. CASE EndScan
    BY <1>14, <1>15 DEF EndScan
  <1>16. ASSUME NEW t \in flight, Fails(t) PROVE ScanInv'
    <2>1. /\ page' = page /\ handed' = handed /\ cleanReads' = cleanReads
          /\ scan' = Idle \/ scan' = scan
      BY <1>16 DEF Fails, pageVars
    <2> QED BY <1>1, <1>14, <2>1
  <1>17. ASSUME NEW p \in Participants,
                DeadlineFires(p) \/ AgainFires(p) \/ RetryFires(p) \/ Drain(p)
         PROVE  ScanInv'
    BY <1>1, <1>17 DEF DeadlineFires, AgainFires, RetryFires, Drain, loopVars, pageVars, bufferVars
  <1>18. ASSUME NEW t \in flight,
                GateBlocks(t) \/ GateOpens(t) \/ Succeeds(t) \/ Closes(t)
         PROVE  ScanInv'
    BY <1>1, <1>18 DEF GateBlocks, GateOpens, Succeeds, Closes, loopVars, pageVars, bufferVars
  <1>19. CASE BlockedTick \/ ReleaseStalePin
    BY <1>1, <1>19 DEF BlockedTick, ReleaseStalePin, loopVars, pageVars, bufferVars
  <1>20. ASSUME NEW row \in failed, Forgets(row) PROVE ScanInv'
    BY <1>1, <1>20 DEF Forgets, loopVars, pageVars, bufferVars
  <1> QED BY <1>3, <1>4, <1>5, <1>6, <1>7, <1>8, <1>9, <1>10, <1>11, <1>12, <1>13, <1>15,
             <1>16, <1>17, <1>18, <1>19, <1>20
         DEF Next, Listener, Pipeline

\* The turn of an entry that is there.
LEMMA TurnOfEntry ==
    ASSUME BufferInv, NEW p \in Participants, entry[p].state # "none",
           NEW watched \in BOOLEAN
    PROVE  /\ Turn(p, "gate", watched) \in Turns
           /\ Turn(p, "gate", watched).parts = entry[p].parts
           /\ Turn(p, "gate", watched).deferred = entry[p].deferred
           /\ Turn(p, "gate", watched).stage = "gate"
           /\ Turn(p, "gate", watched).by = p
           /\ entry[p].parts # <<>>
  BY DEF BufferInv, Legal, Entries, Turn, Turns

\* The head of a session's parked turns, and what is behind it.
LEMMA ParkedHead ==
    ASSUME TurnInv, NEW p \in Participants, parked[p] # <<>>
    PROVE  /\ Head(parked[p]) = parked[p][1] /\ 1 \in DOMAIN parked[p]
           /\ Tail(parked[p]) \in Seq(Turns)
           /\ Len(parked[p]) \in Nat
           /\ DOMAIN parked[p] = 1..Len(parked[p])
           /\ DOMAIN Tail(parked[p]) = 1..(Len(parked[p]) - 1)
           /\ \A k \in DOMAIN Tail(parked[p]) :
                /\ k + 1 \in DOMAIN parked[p] /\ Tail(parked[p])[k] = parked[p][k + 1]
  <1>1. parked[p] \in Seq(Turns)
    BY DEF TurnInv
  <1> QED BY <1>1, HeadTailProperties, LenProperties, EmptySeq

\* A turn more behind a session's parked ones.
LEMMA ParkedMore ==
    ASSUME TurnInv, NEW p \in Participants, NEW u \in Turns
    PROVE  /\ Append(parked[p], u) \in Seq(Turns)
           /\ Len(parked[p]) \in Nat /\ DOMAIN parked[p] = 1..Len(parked[p])
           /\ DOMAIN Append(parked[p], u) = 1..(Len(parked[p]) + 1)
           /\ Append(parked[p], u)[Len(parked[p]) + 1] = u
           /\ \A k \in DOMAIN parked[p] : Append(parked[p], u)[k] = parked[p][k]
  <1>1. parked[p] \in Seq(Turns)
    BY DEF TurnInv
  <1> QED BY <1>1, AppendProperties, LenProperties

\* Turns keep their rows.
LEMMA TurnStep ==
    ASSUME StateInv, Next
    PROVE  TurnInv'
  <1>0. BufferInv /\ TurnInv
    BY DEF StateInv
  <1> DEFINE Good(u) == /\ u \in Turns /\ u.parts # <<>> /\ u.stage # "parked"
                        /\ u.stage = "closing" => u.deferred = <<>>
  <1>1. ASSUME parked' = parked, \A u \in flight' : u \in flight \/ Good(u)
        PROVE  TurnInv'
    BY <1>0, <1>1 DEF TurnInv
  <1>2. ASSUME UNCHANGED <<flight, parked>> PROVE TurnInv'
    BY <1>1, <1>2
  <1>3. ASSUME NEW p \in Participants, entry[p].state # "none", NEW w \in BOOLEAN
        PROVE  Good(Turn(p, "gate", w))
    BY <1>0, <1>3, TurnOfEntry
  <1>4. ASSUME NEW p \in Participants, parked[p] # <<>>, parked' = [parked EXCEPT ![p] = Tail(@)],
               \A u \in flight' : u \in flight \/ Good(u)
        PROVE  TurnInv'
    <2>1. parked' = [parked EXCEPT ![p] = Tail(parked[p])] /\ parked \in [Participants -> Seq(Turns)]
      BY <1>0, <1>4 DEF TurnInv
    <2>2. parked' \in [Participants -> Seq(Turns)]
      BY <1>0, <1>4, <2>1, ParkedHead
    <2>3. ASSUME NEW q \in Participants, NEW k \in DOMAIN parked'[q]
          PROVE  parked'[q][k].parts # <<>> /\ parked'[q][k].stage = "parked"
      <3>1. CASE q = p
        <4>1. parked'[q] = Tail(parked[p])
          BY <2>1, <3>1
        <4> QED BY <1>0, <1>4, <4>1, ParkedHead DEF TurnInv
      <3>2. CASE q # p
        BY <1>0, <2>1, <3>2 DEF TurnInv
      <3> QED BY <3>1, <3>2
    <2> QED BY <1>0, <1>4, <2>2, <2>3 DEF TurnInv
  <1>5. ASSUME NEW p \in Participants, NEW u \in Turns, u.parts # <<>>, u.stage = "parked",
               parked' = [parked EXCEPT ![p] = Append(@, u)],
               \A v \in flight' : v \in flight
        PROVE  TurnInv'
    <2>1. parked' = [parked EXCEPT ![p] = Append(parked[p], u)] /\ parked \in [Participants -> Seq(Turns)]
      BY <1>0, <1>5 DEF TurnInv
    <2>2. parked' \in [Participants -> Seq(Turns)]
      BY <1>0, <2>1, ParkedMore
    <2>3. ASSUME NEW q \in Participants, NEW k \in DOMAIN parked'[q]
          PROVE  parked'[q][k].parts # <<>> /\ parked'[q][k].stage = "parked"
      <3>1. CASE q = p
        <4>1. parked'[q] = Append(parked[p], u)
          BY <2>1, <3>1
        <4>2. k \in DOMAIN parked[p] \/ k = Len(parked[p]) + 1
          BY <1>0, <4>1, ParkedMore
        <4> QED BY <1>0, <1>5, <4>1, <4>2, ParkedMore DEF TurnInv
      <3>2. CASE q # p
        BY <1>0, <2>1, <3>2 DEF TurnInv
      <3> QED BY <3>1, <3>2
    <2> QED BY <1>0, <1>5, <2>2, <2>3 DEF TurnInv
  <1>6. ASSUME NEW p \in Participants, RetryFires(p) PROVE TurnInv'
    <2>1. /\ parked' = parked /\ flight' = flight \union {Turn(p, "gate", FALSE)}
          /\ entry[p].timer = "retry"
      BY <1>6 DEF RetryFires
    <2>2. entry[p].state # "none"
      BY <1>0, <2>1 DEF BufferInv, Legal, Absent
    <2>3. Good(Turn(p, "gate", FALSE))
      BY <2>2, <1>3
    <2> HIDE DEF Good
    <2> QED BY <1>1, <2>1, <2>3
  <1>7. ASSUME NEW tooSoon \in BOOLEAN, Read(tooSoon) PROVE TurnInv'
    <2> DEFINE admitted == {page[i] : i \in Admitted}
    <2>1. /\ parked' = parked
          /\ flight' = flight \union {Turn(p, "gate", FALSE) : p \in {q \in Participants : Freezes(q, admitted)}}
      BY <1>7 DEF Read
    <2> HIDE DEF admitted
    <2>2. ASSUME NEW p \in Participants, Freezes(p, admitted) PROVE Good(Turn(p, "gate", FALSE))
      <3>1. entry[p].state # "none"
        BY <2>2 DEF Freezes, IsOpen
      <3> QED BY <3>1, <1>3
    <2> HIDE DEF Good
    <2> QED BY <1>1, <2>1, <2>2
  <1>8. ASSUME NEW p \in Participants, FinalCheck(p) PROVE TurnInv'
    <2>1. /\ parked' = parked
          /\ flight' = flight \/ (IsOpen(p) /\ flight' = flight \union {Turn(p, "gate", TRUE)})
      BY <1>8 DEF FinalCheck
    <2>2. IsOpen(p) => Good(Turn(p, "gate", TRUE))
      <3>1. IsOpen(p) => entry[p].state # "none"
        BY DEF IsOpen
      <3> QED BY <3>1, <1>3
    <2> HIDE DEF Good
    <2> QED BY <1>1, <2>1, <2>2
  <1>9. ASSUME NEW t \in flight, GateBlocks(t) \/ Closes(t) \/ Fails(t) PROVE TurnInv'
    <2>1. parked' = parked /\ flight' = flight \ {t}
      BY <1>9 DEF GateBlocks, Closes, Fails
    <2> QED BY <1>1, <2>1
  <1>10. ASSUME NEW t \in flight, GateOpens(t) PROVE TurnInv'
    <2> DEFINE u == [t EXCEPT !.stage = "running"]
               v == [t EXCEPT !.stage = "parked", !.watched = FALSE]
    <2>1. \/ parked' = parked /\ flight' = flight \ {t}
          \/ parked' = [parked EXCEPT ![t.by] = Append(@, v)] /\ flight' = flight \ {t}
          \/ parked' = parked /\ flight' = (flight \ {t}) \union {u}
      BY <1>10 DEF GateOpens, Enter, Skipped
    <2>2. /\ u \in Turns /\ u.parts # <<>> /\ u.stage = "running"
          /\ v \in Turns /\ v.parts # <<>> /\ v.stage = "parked" /\ t.by \in Participants
      <3>1. t \in Turns /\ t.parts # <<>>
        BY <1>0 DEF TurnInv
      <3> QED BY <3>1 DEF Turns
    <2> HIDE DEF u, v
    <2>3. Good(u)
      BY <2>2
    <2> QED BY <1>1, <1>5, <2>1, <2>2, <2>3
  <1>11. ASSUME NEW t \in flight, Reply(t) PROVE TurnInv'
    <2> DEFINE u == [t EXCEPT !.stage = "sent"]
    <2>1. parked' = parked /\ flight' = (flight \ {t}) \union {u}
      BY <1>11 DEF Reply
    <2>2. u \in Turns /\ u.parts # <<>> /\ u.stage = "sent"
      <3>1. t \in Turns /\ t.parts # <<>>
        BY <1>0 DEF TurnInv
      <3> QED BY <3>1 DEF Turns
    <2> HIDE DEF u
    <2>3. Good(u)
      BY <2>2
    <2> QED BY <1>1, <2>1, <2>3
  <1>12. ASSUME NEW t \in flight, Succeeds(t) PROVE TurnInv'
    <2> DEFINE u == [t EXCEPT !.stage = "closing", !.deferred = <<>>]
    <2>1. parked' = parked /\ flight' = (flight \ {t}) \union {u}
      BY <1>12 DEF Succeeds
    <2>2. t \in Turns /\ t.parts # <<>>
      BY <1>0 DEF TurnInv
    <2>3. <<>> \in Seq(Rows)
      OBVIOUS
    <2>4. u \in Turns /\ u.parts # <<>> /\ u.stage = "closing" /\ u.deferred = <<>>
      BY <2>2, <2>3 DEF Turns
    <2> HIDE DEF u
    <2>5. Good(u)
      BY <2>4
    <2> QED BY <1>1, <2>1, <2>5
  <1>13. ASSUME NEW p \in Participants, Drain(p) PROVE TurnInv'
    <2> DEFINE t == Head(parked[p])
               u == [t EXCEPT !.stage = "running"]
    <2>1. \/ UNCHANGED <<flight, parked>>
          \/ /\ parked[p] # <<>> /\ parked' = [parked EXCEPT ![p] = Tail(@)]
             /\ flight' = flight \/ flight' = flight \union {u}
      BY <1>13 DEF Drain, Skipped
    <2>2. parked[p] # <<>> => Good(u)
      <3>1. SUFFICES ASSUME parked[p] # <<>> PROVE Good(u)
        OBVIOUS
      <3>2. t = parked[p][1] /\ 1 \in DOMAIN parked[p]
        BY <1>0, <3>1, ParkedHead
      <3>3. u \in Turns /\ u.parts # <<>> /\ u.stage = "running"
        <4>1. t \in Turns /\ t.parts # <<>>
          <5>1. parked[p] \in Seq(Turns)
            BY <1>0 DEF TurnInv
          <5> QED BY <1>0, <3>2, <5>1, LenProperties DEF TurnInv
        <4> HIDE DEF t
        <4> QED BY <4>1 DEF Turns
      <3> HIDE DEF u
      <3> QED BY <3>3
    <2> HIDE DEF u, Good
    <2> QED BY <1>2, <1>4, <2>1, <2>2
  <1>14. ASSUME NEW p \in Participants, PersonWrites(p) \/ DeadlineFires(p) \/ AgainFires(p)
         PROVE  UNCHANGED <<flight, parked>>
    BY <1>14 DEF PersonWrites, DeadlineFires, AgainFires, turnVars
  <1>15. CASE OwnerWrites \/ StartScan \/ BlockedTick \/ ReleaseStalePin \/ ReadFails
                \/ StartPass \/ SkipWrongChat \/ Forward \/ Handed \/ ForwardFails \/ EndScan
    BY <1>2, <1>15 DEF OwnerWrites, StartScan, BlockedTick, ReleaseStalePin, ReadFails,
       StartPass, SkipWrongChat, Forward, Handed, ForwardFails, EndScan, turnVars
  <1>16. ASSUME NEW row \in failed, Forgets(row) PROVE UNCHANGED <<flight, parked>>
    BY <1>16 DEF Forgets, turnVars
  <1> QED BY <1>2, <1>6, <1>7, <1>8, <1>9, <1>10, <1>11, <1>12, <1>13, <1>14, <1>15, <1>16
         DEF Next, Listener, Pipeline

\* The flags and counters keep their types.
LEMMA FlagStep ==
    ASSUME StateInv, Next
    PROVE  FlagInv'
  <1>0. BufferInv /\ TurnInv /\ FlagInv
    BY DEF StateInv
  <1> USE <1>0 DEF FlagInv
  <1>1. ASSUME UNCHANGED <<drains, busy, faults>>,
               chatLocked' \in BOOLEAN, responding' \in BOOLEAN, skipped' \in BOOLEAN,
               pinned' \in BOOLEAN, loopRunning' \in BOOLEAN
        PROVE  FlagInv'
    BY <1>1
  <1>2. ASSUME NEW p \in Participants,
               PersonWrites(p) \/ DeadlineFires(p) \/ AgainFires(p) \/ RetryFires(p) \/ FinalCheck(p)
        PROVE  FlagInv'
    BY <1>1, <1>2 DEF PersonWrites, DeadlineFires, AgainFires, RetryFires, FinalCheck,
       turnVars, lockVars, loopVars
  <1>3. CASE OwnerWrites \/ StartScan \/ ReleaseStalePin \/ (\E b \in BOOLEAN : Read(b))
    BY <1>1, <1>3 DEF OwnerWrites, StartScan, ReleaseStalePin, Read, turnVars, lockVars, loopVars
  <1>4. CASE BlockedTick \/ EndScan
    BY <1>1, <1>4 DEF BlockedTick, EndScan, RecordFailure, turnVars, lockVars, loopVars
  <1>5. CASE StartPass \/ SkipWrongChat \/ Forward \/ Handed
    <2>1. CASE StartPass
      BY <1>1, <2>1 DEF StartPass, PinAfter, turnVars
    <2>2. CASE SkipWrongChat
      BY <1>1, <2>2 DEF SkipWrongChat, PinAfter, turnVars, lockVars
    <2>3. CASE Forward
      BY <1>1, <2>3 DEF Forward, turnVars, lockVars
    <2>4. CASE Handed
      BY <1>1, <2>4 DEF Handed, PinAfter, turnVars
    <2> QED BY <1>5, <2>1, <2>2, <2>3, <2>4
  <1>6. CASE ReadFails \/ ForwardFails
    <2>1. faults < MaxFaults /\ faults' = faults + 1 /\ UNCHANGED <<drains, busy, loopRunning>>
      BY <1>6 DEF ReadFails, ForwardFails, turnVars
    <2>3. faults' \in 0..MaxFaults
      BY <2>1
    <2>2. /\ chatLocked' \in BOOLEAN /\ responding' \in BOOLEAN /\ skipped' \in BOOLEAN
          /\ pinned' \in BOOLEAN
      BY <1>6 DEF ReadFails, ForwardFails, Frees, PinAfter, lockVars
    <2> QED BY <2>1, <2>2, <2>3
  <1>7. ASSUME NEW t \in flight,
               GateBlocks(t) \/ GateOpens(t) \/ Reply(t) \/ Succeeds(t) \/ Closes(t) \/ Fails(t)
        PROVE  FlagInv'
    <2>1. t.by \in Participants /\ t.parts \in Seq(Rows)
      BY DEF TurnInv, Turns
    <2>2. CASE GateBlocks(t) \/ Reply(t) \/ Succeeds(t)
      BY <1>1, <2>2 DEF GateBlocks, Frees, Reply, Succeeds, lockVars, loopVars
    <2>3. CASE GateOpens(t)
      <3>1. /\ busy' \in {busy, TRUE} /\ skipped' \in {skipped, skipped \/ chatLocked}
            /\ UNCHANGED <<drains, chatLocked, responding, pinned, loopRunning, faults>>
        BY <2>3 DEF GateOpens, Enter, Skipped, loopVars
      <3> QED BY <3>1
    <2>4. CASE Closes(t) \/ Fails(t)
      <3>1. /\ busy' = FALSE /\ chatLocked' = FALSE /\ responding' = FALSE /\ skipped' = FALSE
            /\ pinned' \in {pinned, FALSE} /\ loopRunning' = loopRunning
            /\ drains' = [drains EXCEPT ![t.by] = @ + 1]
            /\ faults' = faults \/ (faults < MaxFaults /\ faults' = faults + 1)
        BY <2>4 DEF Closes, Fails, Frees, loopVars
      <3>2. drains' \in [Participants -> Nat]
        BY <2>1, <3>1
      <3>3. faults' \in 0..MaxFaults
        BY <3>1
      <3> QED BY <3>1, <3>2, <3>3
    <2> QED BY <1>7, <2>2, <2>3, <2>4
  <1>8. ASSUME NEW p \in Participants, Drain(p) PROVE FlagInv'
    <2>1. /\ drains' = [drains EXCEPT ![p] = @ - 1] /\ drains[p] > 0
          /\ busy' \in {busy, TRUE}
          /\ skipped' \in {skipped, skipped \/ chatLocked}
          /\ UNCHANGED <<chatLocked, responding, pinned, loopRunning, faults>>
      BY <1>8 DEF Drain, Skipped, loopVars
    <2>2. drains' \in [Participants -> Nat]
      BY <2>1
    <2> QED BY <2>1, <2>2
  <1>9. ASSUME NEW row \in failed, Forgets(row) PROVE FlagInv'
    BY <1>9 DEF Forgets, turnVars, lockVars, loopVars
  <1> QED BY <1>2, <1>3, <1>4, <1>5, <1>6, <1>7, <1>8, <1>9 DEF Next, Listener, Pipeline

\* The types hold in every state.
LEMMA StateHolds == Spec => []StateInv
  <1>1. Init => StateInv
    <2> SUFFICES ASSUME Init PROVE StateInv
      OBVIOUS
    <2>1. PageInv
      <3>1. {i \in DOMAIN page : page[i] = Emily} = {} /\ Len(page) = 0 /\ page = <<>>
        BY DEF Init
      <3>2. Replies = 0
        BY <3>1, FS_EmptySet DEF Replies
      <3> QED BY <3>1, <3>2 DEF PageInv, Init
    <2>2. BufferInv
      <3>1. Absent \in Entries
        BY AbsentLegal DEF Legal
      <3> QED BY <3>1, AbsentLegal DEF Init, BufferInv, Absent
    <2>3. ScanInv
      BY DEF Init, ScanInv, Idle, Scans, Phases
    <2>4. TurnInv
      BY DEF Init, TurnInv
    <2>5. FlagInv
      <3>1. [p \in Participants |-> 0] \in [Participants -> Nat] /\ 0 \in 0..MaxFaults
        OBVIOUS
      <3> QED BY <3>1 DEF Init, FlagInv
    <2> QED BY <2>1, <2>2, <2>3, <2>4, <2>5 DEF StateInv
  <1>2. StateInv /\ [Next]_vars => StateInv'
    <2> SUFFICES ASSUME StateInv, [Next]_vars PROVE StateInv'
      OBVIOUS
    <2>1. CASE Next
      BY <2>1, PageStep, BufferStep, ScanStep, TurnStep, FlagStep DEF StateInv
    <2>2. CASE UNCHANGED vars
      <3>1. UNCHANGED <<pageVars, bufferVars, turnVars, lockVars, loopVars, faults>>
        BY <2>2 DEF vars
      <3>2. PageInv' /\ BufferInv'
        BY <3>1 DEF StateInv, PageInv, BufferInv, Replies, pageVars, bufferVars
      <3>3. ScanInv' /\ TurnInv' /\ FlagInv'
        BY <3>1 DEF StateInv, ScanInv, TurnInv, FlagInv, pageVars, bufferVars, turnVars, lockVars, loopVars
      <3> QED BY <3>2, <3>3 DEF StateInv
    <2> QED BY <2>1, <2>2
  <1> QED BY <1>1, <1>2, PTL DEF Spec

-----------------------------------------------------------------------------
(* Where a row is.                                                         *)

\* Nothing moves.
LEMMA HeldFrame ==
    ASSUME HeldInv, UNCHANGED <<flight, parked, answered, dropped, handed>>,
           \A q \in Participants : entry'[q].parts = entry[q].parts
                                   /\ entry'[q].deferred = entry[q].deferred
    PROVE  HeldInv'
  <1>1. ASSUME NEW i \in Rows PROVE IF i \in handed' THEN Once(i)' ELSE Nowhere(i)'
    <2>2. Nowhere(i) => Nowhere(i)'
      BY DEF Nowhere, SomeEntry, SomeDeferred, SomeFlight, SomeParked,
         InEntry, InDeferred, InFlight, InParked
    <2>3. ASSUME NEW p \in Participants, OnlyEntry(i, p) PROVE OnlyEntry(i, p)'
      BY <2>3 DEF OnlyEntry, SomeEntry, SomeDeferred, SomeFlight, SomeParked,
         InEntry, InDeferred, InFlight, InParked
    <2>4. ASSUME NEW p \in Participants, OnlyDeferred(i, p) PROVE OnlyDeferred(i, p)'
      BY <2>4 DEF OnlyDeferred, SomeEntry, SomeDeferred, SomeFlight, SomeParked,
         InEntry, InDeferred, InFlight, InParked
    <2>5. ASSUME NEW t \in flight, OnlyFlight(i, t) PROVE OnlyFlight(i, t)'
      BY <2>5 DEF OnlyFlight, SomeEntry, SomeDeferred, SomeFlight, SomeParked,
         InEntry, InDeferred, InFlight, InParked
    <2>6. ASSUME NEW p \in Participants, NEW k \in DOMAIN parked[p], OnlyParked(i, p, k)
          PROVE  OnlyParked(i, p, k)'
      BY <2>6 DEF OnlyParked, SomeEntry, SomeDeferred, SomeFlight, SomeParked,
         InEntry, InDeferred, InFlight, InParked
    <2>7. OnlySettled(i) => OnlySettled(i)'
      BY DEF OnlySettled, SomeEntry, SomeDeferred, SomeFlight, SomeParked,
         InEntry, InDeferred, InFlight, InParked
    <2> QED BY <2>2, <2>3, <2>4, <2>5, <2>6, <2>7 DEF HeldInv, Once
  <1> QED BY <1>1 DEF HeldInv

\* Entries of the participants F leave as turns.
LEMMA HeldFlush ==
    ASSUME HeldInv, NEW F \in SUBSET Participants, NEW w \in BOOLEAN,
           \A p \in F : entry'[p] = Absent,
           \A p \in Participants \ F : entry'[p].parts = entry[p].parts
                                      /\ entry'[p].deferred = entry[p].deferred,
           flight' = flight \union {Turn(p, "gate", w) : p \in F},
           UNCHANGED <<parked, answered, dropped, handed>>
    PROVE  HeldInv'
  <1>1. ASSUME NEW i \in Rows PROVE IF i \in handed' THEN Once(i)' ELSE Nowhere(i)'
    <2> DEFINE T(p) == Turn(p, "gate", w)
    <2>1. \A p \in F : entry'[p].parts = <<>> /\ entry'[p].deferred = <<>>
      BY DEF Absent
    <2>2. i \notin ToSet(<<>>)
      BY EmptySeq DEF ToSet
    <2>3. \A p \in F : T(p).by = p /\ (i \in RowsOf(T(p)) <=> InEntry(i, p) \/ InDeferred(i, p))
      BY DEF Turn, RowsOf, InEntry, InDeferred
    <2>4. \A t \in flight' : t \in flight \/ \E p \in F : t = T(p)
      OBVIOUS
    <2>5. flight \subseteq flight' /\ \A p \in F : T(p) \in flight'
      OBVIOUS
    <2>6. \A p \in Participants : /\ InEntry(i, p)' <=> p \notin F /\ InEntry(i, p)
                                  /\ InDeferred(i, p)' <=> p \notin F /\ InDeferred(i, p)
      BY <2>1, <2>2 DEF InEntry, InDeferred
    <2> HIDE DEF T
    <2>7. Nowhere(i) => Nowhere(i)'
      BY <2>3, <2>4, <2>6 DEF Nowhere, SomeEntry, SomeDeferred, SomeFlight, SomeParked,
         InFlight, InParked
    <2>8. ASSUME NEW p \in Participants, OnlyEntry(i, p) \/ OnlyDeferred(i, p), p \in F
          PROVE  \E u \in flight' : OnlyFlight(i, u)'
      <3>1. PICK u \in flight' : u = T(p)
        BY <2>5, <2>8
      <3>2. OnlyFlight(i, u)'
        BY <2>3, <2>4, <2>6, <2>8, <3>1 DEF OnlyEntry, OnlyDeferred, OnlyFlight, SomeEntry,
           SomeDeferred, SomeFlight, SomeParked, InFlight, InParked
      <3> QED BY <3>2
    <2>9. ASSUME NEW p \in Participants \ F, OnlyEntry(i, p) PROVE OnlyEntry(i, p)'
      BY <2>3, <2>4, <2>5, <2>6, <2>9 DEF OnlyEntry, SomeEntry, SomeDeferred,
         SomeFlight, SomeParked, InFlight, InParked
    <2>10. ASSUME NEW p \in Participants \ F, OnlyDeferred(i, p) PROVE OnlyDeferred(i, p)'
      BY <2>3, <2>4, <2>5, <2>6, <2>10 DEF OnlyDeferred, SomeEntry, SomeDeferred,
         SomeFlight, SomeParked, InFlight, InParked
    <2>11. ASSUME NEW t \in flight, OnlyFlight(i, t) PROVE OnlyFlight(i, t)'
      BY <2>3, <2>4, <2>5, <2>6, <2>11 DEF OnlyFlight, SomeEntry, SomeDeferred,
         SomeFlight, SomeParked, InFlight, InParked
    <2>12. ASSUME NEW p \in Participants, NEW k \in DOMAIN parked[p], OnlyParked(i, p, k)
           PROVE  OnlyParked(i, p, k)'
      BY <2>3, <2>4, <2>5, <2>6, <2>12 DEF OnlyParked, SomeEntry, SomeDeferred,
         SomeFlight, SomeParked, InFlight, InParked
    <2>13. OnlySettled(i) => OnlySettled(i)'
      BY <2>3, <2>4, <2>5, <2>6 DEF OnlySettled, SomeEntry, SomeDeferred, SomeFlight, SomeParked,
         InFlight, InParked
    <2>14. CASE i \notin handed
      BY <2>7, <2>14 DEF HeldInv
    <2>15. CASE i \in handed
      <3>1. Once(i)
        BY <2>15 DEF HeldInv
      <3>2. Once(i)'
        BY <2>5, <2>8, <2>9, <2>10, <2>11, <2>12, <2>13, <3>1 DEF Once
      <3> QED BY <2>15, <3>2
    <2> QED BY <2>14, <2>15
  <1> QED BY <1>1 DEF HeldInv

\* Turn t goes on as turn u, with the same rows.
LEMMA HeldStage ==
    ASSUME HeldInv, NEW t \in flight, NEW u, RowsOf(u) = RowsOf(t),
           flight' = (flight \ {t}) \union {u},
           UNCHANGED <<entry, parked, answered, dropped, handed>>
    PROVE  HeldInv'
  <1>1. ASSUME NEW i \in Rows PROVE IF i \in handed' THEN Once(i)' ELSE Nowhere(i)'
    <2> USE DEF SomeEntry, SomeDeferred, SomeFlight, SomeParked, InEntry, InDeferred, InFlight, InParked
    <2>1. /\ u \in flight' /\ \A v \in flight' : v = u \/ (v \in flight /\ v # t)
          /\ \A v \in flight : v = t \/ v \in flight'
          /\ i \in RowsOf(u) <=> i \in RowsOf(t)
      OBVIOUS
    <2>2. Nowhere(i) => Nowhere(i)'
      BY <2>1 DEF Nowhere
    <2>3. ASSUME NEW p \in Participants, OnlyEntry(i, p) PROVE OnlyEntry(i, p)'
      BY <2>1, <2>3 DEF OnlyEntry
    <2>4. ASSUME NEW p \in Participants, OnlyDeferred(i, p) PROVE OnlyDeferred(i, p)'
      BY <2>1, <2>4 DEF OnlyDeferred
    <2>5. ASSUME OnlyFlight(i, t) PROVE OnlyFlight(i, u)'
      BY <2>1, <2>5 DEF OnlyFlight
    <2>6. ASSUME NEW v \in flight, OnlyFlight(i, v), v # t PROVE v \in flight' /\ OnlyFlight(i, v)'
      BY <2>1, <2>6 DEF OnlyFlight
    <2>7. ASSUME NEW p \in Participants, NEW k \in DOMAIN parked[p], OnlyParked(i, p, k)
          PROVE  OnlyParked(i, p, k)'
      BY <2>1, <2>7 DEF OnlyParked
    <2>8. OnlySettled(i) => OnlySettled(i)'
      BY <2>1 DEF OnlySettled
    <2> QED BY <2>1, <2>2, <2>3, <2>4, <2>5, <2>6, <2>7, <2>8 DEF HeldInv, Once
  <1> QED BY <1>1 DEF HeldInv

\* Turn t leaves: its rows are settled or dropped.
LEMMA HeldLeave ==
    ASSUME HeldInv, NEW t \in flight, flight' = flight \ {t},
           \/ answered' = answered \union RowsOf(t) /\ dropped' = dropped
           \/ answered' = answered /\ dropped' = dropped \union RowsOf(t),
           UNCHANGED <<entry, parked, handed>>
    PROVE  HeldInv'
  <1>1. ASSUME NEW i \in Rows PROVE IF i \in handed' THEN Once(i)' ELSE Nowhere(i)'
    <2> USE DEF SomeEntry, SomeDeferred, SomeFlight, SomeParked, InEntry, InDeferred, InFlight, InParked
    <2>1. /\ \A v \in flight' : v \in flight /\ v # t
          /\ \A v \in flight : v = t \/ v \in flight'
          /\ i \in RowsOf(t) =>
               \/ i \in answered' /\ (i \in dropped' <=> i \in dropped)
               \/ i \in dropped' /\ (i \in answered' <=> i \in answered)
          /\ i \notin RowsOf(t) => (i \in answered' <=> i \in answered)
          /\ i \notin RowsOf(t) => (i \in dropped' <=> i \in dropped)
      OBVIOUS
    <2>2. Nowhere(i) => Nowhere(i)'
      BY <2>1 DEF Nowhere
    <2>3. ASSUME NEW p \in Participants, OnlyEntry(i, p) PROVE OnlyEntry(i, p)'
      BY <2>1, <2>3 DEF OnlyEntry
    <2>4. ASSUME NEW p \in Participants, OnlyDeferred(i, p) PROVE OnlyDeferred(i, p)'
      BY <2>1, <2>4 DEF OnlyDeferred
    <2>5. ASSUME OnlyFlight(i, t) PROVE OnlySettled(i)'
      BY <2>1, <2>5 DEF OnlyFlight, OnlySettled
    <2>6. ASSUME NEW v \in flight, OnlyFlight(i, v), v # t PROVE v \in flight' /\ OnlyFlight(i, v)'
      BY <2>1, <2>6 DEF OnlyFlight
    <2>7. ASSUME NEW p \in Participants, NEW k \in DOMAIN parked[p], OnlyParked(i, p, k)
          PROVE  OnlyParked(i, p, k)'
      BY <2>1, <2>7 DEF OnlyParked
    <2>8. OnlySettled(i) => OnlySettled(i)'
      BY <2>1 DEF OnlySettled
    <2> QED BY <2>1, <2>2, <2>3, <2>4, <2>5, <2>6, <2>7, <2>8 DEF HeldInv, Once
  <1> QED BY <1>1 DEF HeldInv

\* Turn t is parked behind the job of its session.
LEMMA HeldPark ==
    ASSUME HeldInv, TurnInv, NEW t \in flight, NEW v \in Turns, RowsOf(v) = RowsOf(t),
           NEW b \in Participants, parked' = [parked EXCEPT ![b] = Append(parked[b], v)],
           flight' = flight \ {t},
           UNCHANGED <<entry, answered, dropped, handed>>
    PROVE  HeldInv'
  <1>1. ASSUME NEW i \in Rows PROVE IF i \in handed' THEN Once(i)' ELSE Nowhere(i)'
    <2> DEFINE n == Len(parked[b]) + 1
    <2> USE DEF SomeEntry, SomeDeferred, SomeFlight, SomeParked, InEntry, InDeferred, InFlight, InParked
    <2>1. /\ \A u \in flight' : u \in flight /\ u # t
          /\ \A u \in flight : u = t \/ u \in flight'
          /\ i \in RowsOf(v) <=> i \in RowsOf(t)
      OBVIOUS
    <2>2. parked \in [Participants -> Seq(Turns)]
      BY DEF TurnInv
    <2>3. /\ DOMAIN parked[b] = 1..n - 1 /\ n - 1 \in Nat
          /\ DOMAIN parked'[b] = 1..n /\ parked'[b][n] = v
          /\ \A k \in DOMAIN parked[b] : parked'[b][k] = parked[b][k]
          /\ \A q \in Participants : q # b => parked'[q] = parked[q]
      BY <2>2, ParkedMore
    <2>4. PICK m : m = n
      OBVIOUS
    <2>5. /\ m \notin DOMAIN parked[b] /\ m \in DOMAIN parked'[b] /\ parked'[b][m] = v
          /\ \A k \in DOMAIN parked'[b] : k = m \/ k \in DOMAIN parked[b]
          /\ \A q \in Participants : \A k \in DOMAIN parked[q] :
               k \in DOMAIN parked'[q] /\ parked'[q][k] = parked[q][k]
          /\ \A q \in Participants : q # b => parked'[q] = parked[q]
      BY <2>3, <2>4
    <2> HIDE DEF n
    <2>6. Nowhere(i) => Nowhere(i)'
      BY <2>1, <2>5 DEF Nowhere
    <2>7. ASSUME NEW p \in Participants, OnlyEntry(i, p) PROVE OnlyEntry(i, p)'
      BY <2>1, <2>5, <2>7 DEF OnlyEntry
    <2>8. ASSUME NEW p \in Participants, OnlyDeferred(i, p) PROVE OnlyDeferred(i, p)'
      BY <2>1, <2>5, <2>8 DEF OnlyDeferred
    <2>9. ASSUME OnlyFlight(i, t) PROVE OnlyParked(i, b, m)'
      BY <2>1, <2>5, <2>9 DEF OnlyFlight, OnlyParked
    <2>10. ASSUME NEW u \in flight, OnlyFlight(i, u), u # t PROVE u \in flight' /\ OnlyFlight(i, u)'
      BY <2>1, <2>5, <2>10 DEF OnlyFlight
    <2>11. ASSUME NEW p \in Participants, NEW k \in DOMAIN parked[p], OnlyParked(i, p, k)
           PROVE  k \in DOMAIN parked'[p] /\ OnlyParked(i, p, k)'
      BY <2>1, <2>5, <2>11 DEF OnlyParked
    <2>12. OnlySettled(i) => OnlySettled(i)'
      BY <2>1, <2>5 DEF OnlySettled
    <2> QED BY <2>5, <2>6, <2>7, <2>8, <2>9, <2>10, <2>11, <2>12 DEF HeldInv, Once
  <1> QED BY <1>1 DEF HeldInv

\* The head of the parked turns leaves them: it runs, or it is dropped.
LEMMA HeldUnpark ==
    ASSUME HeldInv, TurnInv, NEW b \in Participants, parked[b] # <<>>,
           parked' = [parked EXCEPT ![b] = Tail(parked[b])],
           \/ flight' = flight /\ dropped' = dropped \union RowsOf(Head(parked[b]))
           \/ /\ \E u : RowsOf(u) = RowsOf(Head(parked[b])) /\ flight' = flight \union {u}
              /\ dropped' = dropped,
           UNCHANGED <<entry, answered, handed>>
    PROVE  HeldInv'
  <1>1. ASSUME NEW i \in Rows PROVE IF i \in handed' THEN Once(i)' ELSE Nowhere(i)'
    <2> USE DEF SomeEntry, SomeDeferred, SomeFlight, SomeParked, InEntry, InDeferred, InFlight, InParked
    <2>1. parked \in [Participants -> Seq(Turns)]
      BY DEF TurnInv
    <2>2. /\ 1 \in DOMAIN parked[b] /\ Head(parked[b]) = parked[b][1]
          /\ DOMAIN parked[b] \subseteq Nat
          /\ \A k \in DOMAIN parked[b] : k # 1 => k - 1 \in DOMAIN parked'[b]
          /\ \A k \in DOMAIN parked'[b] :
               k \in Nat /\ k # 0 /\ k + 1 \in DOMAIN parked[b] /\ parked'[b][k] = parked[b][k + 1]
          /\ \A q \in Participants : q # b => parked'[q] = parked[q]
      BY <2>1, ParkedHead
    <2>3. ASSUME NEW q \in Participants, NEW k \in DOMAIN parked'[q]
          PROVE  \E l \in DOMAIN parked[q] : parked'[q][k] = parked[q][l]
      <3>1. CASE q = b
        BY <2>2, <3>1
      <3>2. CASE q # b
        BY <2>2, <3>2
      <3> QED BY <3>1, <3>2
    <2> DEFINE h == parked[b][1]
    <2>4. \/ flight' = flight /\ dropped' = dropped \union RowsOf(h)
          \/ /\ \E u \in flight' : /\ RowsOf(u) = RowsOf(h)
                                   /\ \A v \in flight' : v = u \/ v \in flight
             /\ flight \subseteq flight' /\ dropped' = dropped
      BY <2>2
    <2>6. ~SomeParked(i) => ~SomeParked(i)' /\ i \notin RowsOf(h)
      <3>1. ASSUME ~SomeParked(i), NEW q \in Participants, NEW k \in DOMAIN parked'[q],
                   i \in RowsOf(parked'[q][k])
            PROVE  FALSE
        BY <2>3, <3>1
      <3>2. i \in RowsOf(h) => SomeParked(i)
        BY <2>2
      <3> QED BY <3>1, <3>2
    <2>7. i \notin RowsOf(h) =>
            /\ i \in dropped' <=> i \in dropped
            /\ \A v \in flight' : i \in RowsOf(v) => v \in flight
            /\ flight \subseteq flight'
      BY <2>4
    <2>13. Nowhere(i) => Nowhere(i)'
      <3>1. SUFFICES ASSUME Nowhere(i) PROVE Nowhere(i)'
        OBVIOUS
      <3>2. ~SomeParked(i)' /\ i \notin RowsOf(h)
        BY <2>6, <3>1 DEF Nowhere
      <3> QED BY <2>7, <3>1, <3>2 DEF Nowhere
    <2>8. ASSUME NEW p \in Participants, OnlyEntry(i, p) PROVE OnlyEntry(i, p)'
      <3>1. ~SomeParked(i)' /\ i \notin RowsOf(h)
        BY <2>6, <2>8 DEF OnlyEntry
      <3> QED BY <2>7, <2>8, <3>1 DEF OnlyEntry
    <2>9. ASSUME NEW p \in Participants, OnlyDeferred(i, p) PROVE OnlyDeferred(i, p)'
      <3>1. ~SomeParked(i)' /\ i \notin RowsOf(h)
        BY <2>6, <2>9 DEF OnlyDeferred
      <3> QED BY <2>7, <2>9, <3>1 DEF OnlyDeferred
    <2>10. ASSUME NEW v \in flight, OnlyFlight(i, v) PROVE v \in flight' /\ OnlyFlight(i, v)'
      <3>1. ~SomeParked(i)' /\ i \notin RowsOf(h)
        BY <2>6, <2>10 DEF OnlyFlight
      <3> QED BY <2>7, <2>10, <3>1 DEF OnlyFlight
    <2>11. ASSUME NEW p \in Participants, NEW k \in DOMAIN parked[p], OnlyParked(i, p, k)
           PROVE  Once(i)'
      <3>1. \A q \in Participants : \A l \in DOMAIN parked[q] : i \in RowsOf(parked[q][l]) => q = p /\ l = k
        BY <2>11 DEF OnlyParked
      <3>2. CASE p = b /\ k = 1
        <4>1. ~SomeParked(i)'
          <5>1. SUFFICES ASSUME NEW q \in Participants, NEW m \in DOMAIN parked'[q],
                                i \in RowsOf(parked'[q][m])
                         PROVE  FALSE
            OBVIOUS
          <5>2. q = b
            BY <2>2, <3>1, <3>2, <5>1
          <5>3. m + 1 \in DOMAIN parked[q] /\ parked'[q][m] = parked[q][m + 1] /\ m \in Nat /\ m # 0
            BY <2>2, <5>1, <5>2
          <5>4. m + 1 = 1
            BY <3>1, <3>2, <5>1, <5>3
          <5> QED BY <5>3, <5>4
        <4>2. i \in RowsOf(h) /\ i \notin answered /\ i \notin dropped /\ ~SomeFlight(i)
              /\ ~SomeEntry(i) /\ ~SomeDeferred(i)
          BY <2>11, <3>2 DEF OnlyParked
        <4>3. CASE dropped' = dropped \union RowsOf(h) /\ flight' = flight
          BY <4>1, <4>2, <4>3 DEF Once, OnlySettled
        <4>4. ASSUME NEW u \in flight', RowsOf(u) = RowsOf(h), dropped' = dropped,
                     \A v \in flight' : v = u \/ v \in flight
              PROVE  OnlyFlight(i, u)'
          BY <4>1, <4>2, <4>4 DEF OnlyFlight
        <4> QED BY <2>4, <4>3, <4>4 DEF Once
      <3>3. CASE ~(p = b /\ k = 1)
        <4>1. PICK l : l \in DOMAIN parked'[p] /\ l = (IF p = b THEN k - 1 ELSE k)
          BY <2>2, <3>3
        <4>2. parked'[p][l] = parked[p][k]
          BY <2>2, <3>3, <4>1
        <4>3. i \in RowsOf(parked[p][k]) /\ i \notin RowsOf(h) /\ i \notin answered /\ i \notin dropped
              /\ ~SomeFlight(i) /\ ~SomeEntry(i) /\ ~SomeDeferred(i)
          BY <2>2, <2>11, <3>1, <3>3 DEF OnlyParked
        <4>4. ASSUME NEW q \in Participants, NEW m \in DOMAIN parked'[q], i \in RowsOf(parked'[q][m])
              PROVE  q = p /\ m = l
          <5>1. CASE q = b
            <6>1. m + 1 \in DOMAIN parked[q] /\ parked'[q][m] = parked[q][m + 1] /\ m \in Nat
              BY <2>2, <5>1, <4>4
            <6>2. q = p /\ m + 1 = k
              BY <3>1, <4>4, <6>1
            <6> QED BY <4>1, <5>1, <6>1, <6>2
          <5>2. CASE q # b
            BY <2>2, <3>1, <4>1, <4>4, <5>2
          <5> QED BY <5>1, <5>2
        <4>5. OnlyParked(i, p, l)'
          BY <2>4, <4>1, <4>2, <4>3, <4>4 DEF OnlyParked
        <4> QED BY <4>1, <4>5 DEF Once
      <3> QED BY <3>2, <3>3
    <2>12. ASSUME OnlySettled(i) PROVE OnlySettled(i)'
      <3>1. ~SomeParked(i)' /\ i \notin RowsOf(h)
        BY <2>6, <2>12 DEF OnlySettled
      <3> QED BY <2>7, <2>12, <3>1 DEF OnlySettled
    <2> QED BY <2>13, <2>8, <2>9, <2>10, <2>11, <2>12 DEF HeldInv, Once
  <1> QED BY <1>1 DEF HeldInv

\* Entry p takes the rows R: where they are afterwards.
LEMMA TakenRows ==
    ASSUME entry \in [Participants -> Entries], NEW b \in Participants, NEW f, NEW R,
           Takes(entry[b], f, R), entry' = [entry EXCEPT ![b] = f],
           NEW i, i \in R => ~InEntry(i, b)
    PROVE  \A q \in Participants :
             /\ InEntry(i, q)' <=> InEntry(i, q) \/ (q = b /\ i \in R /\ entry[b].state # "frozen")
             /\ InDeferred(i, q)' <=> InDeferred(i, q) \/ (q = b /\ i \in R /\ entry[b].state = "frozen")
  <1>1. entry'[b] = f /\ \A q \in Participants : q # b => entry'[q] = entry[q]
    OBVIOUS
  <1>2. CASE entry[b].state = "frozen"
    BY <1>1, <1>2 DEF Takes, InEntry, InDeferred
  <1>3. CASE entry[b].state # "frozen"
    BY <1>1, <1>3 DEF Takes, InEntry, InDeferred
  <1> QED BY <1>2, <1>3

\* A new row is handed over.
LEMMA HeldTaken ==
    ASSUME HeldInv, entry \in [Participants -> Entries], NEW b \in Participants, NEW f,
           NEW r \in Rows \ handed, Takes(entry[b], f, {r}), entry' = [entry EXCEPT ![b] = f],
           handed' = handed \union {r},
           UNCHANGED <<flight, parked, answered, dropped>>
    PROVE  HeldInv'
  <1>1. ASSUME NEW i \in Rows PROVE IF i \in handed' THEN Once(i)' ELSE Nowhere(i)'
    <2>1. i = r => Nowhere(i)
      BY DEF HeldInv
    <2>2. \A q \in Participants :
             /\ InEntry(i, q)' <=> InEntry(i, q) \/ (q = b /\ i = r /\ entry[b].state # "frozen")
             /\ InDeferred(i, q)' <=> InDeferred(i, q) \/ (q = b /\ i = r /\ entry[b].state = "frozen")
      <3>1. i \in {r} => ~InEntry(i, b)
        BY <2>1 DEF Nowhere, SomeEntry
      <3>2. \A q \in Participants :
              /\ InEntry(i, q)' <=> InEntry(i, q) \/ (q = b /\ i \in {r} /\ entry[b].state # "frozen")
              /\ InDeferred(i, q)' <=> InDeferred(i, q) \/ (q = b /\ i \in {r} /\ entry[b].state = "frozen")
        BY Zenon, <3>1, TakenRows
      <3> QED BY <3>2
    <2> USE DEF SomeEntry, SomeDeferred, SomeFlight, SomeParked, InFlight, InParked
    <2>3. ASSUME i = r PROVE Once(i)'
      <3>1. CASE entry[b].state = "frozen"
        <4>1. OnlyDeferred(i, b)'
          BY <2>1, <2>2, <2>3, <3>1 DEF Nowhere, OnlyDeferred
        <4> QED BY <4>1 DEF Once
      <3>2. CASE entry[b].state # "frozen"
        <4>1. OnlyEntry(i, b)'
          BY <2>1, <2>2, <2>3, <3>2 DEF Nowhere, OnlyEntry
        <4> QED BY <4>1 DEF Once
      <3> QED BY <3>1, <3>2
    <2>4. ASSUME i # r, Nowhere(i) PROVE Nowhere(i)'
      BY <2>2, <2>4 DEF Nowhere
    <2>5. ASSUME i # r, Once(i) PROVE Once(i)'
      <3>1. ASSUME NEW p \in Participants, OnlyEntry(i, p) PROVE OnlyEntry(i, p)'
        BY <2>2, <2>5, <3>1 DEF OnlyEntry
      <3>2. ASSUME NEW p \in Participants, OnlyDeferred(i, p) PROVE OnlyDeferred(i, p)'
        BY <2>2, <2>5, <3>2 DEF OnlyDeferred
      <3>3. ASSUME NEW t \in flight, OnlyFlight(i, t) PROVE OnlyFlight(i, t)'
        BY <2>2, <2>5, <3>3 DEF OnlyFlight
      <3>4. ASSUME NEW p \in Participants, NEW k \in DOMAIN parked[p], OnlyParked(i, p, k)
            PROVE  OnlyParked(i, p, k)'
        BY <2>2, <2>5, <3>4 DEF OnlyParked
      <3>5. OnlySettled(i) => OnlySettled(i)'
        BY <2>2, <2>5 DEF OnlySettled
      <3> QED BY <2>5, <3>1, <3>2, <3>3, <3>4, <3>5 DEF Once
    <2> QED BY <2>3, <2>4, <2>5 DEF HeldInv
  <1> QED BY <1>1 DEF HeldInv

\* Turn t goes on as turn u without its deferred rows, which its participant's
\* entry takes.
LEMMA HeldReplay ==
    ASSUME HeldInv, entry \in [Participants -> Entries], NEW t \in flight, NEW u,
           NEW b \in Participants, NEW f,
           Apart(t.parts, t.deferred), RowsOf(u) = ToSet(t.parts),
           flight' = (flight \ {t}) \union {u},
           Takes(entry[b], f, ToSet(t.deferred)), entry' = [entry EXCEPT ![b] = f],
           UNCHANGED <<parked, answered, dropped, handed>>
    PROVE  HeldInv'
  <1>1. ASSUME NEW i \in Rows PROVE IF i \in handed' THEN Once(i)' ELSE Nowhere(i)'
    <2> DEFINE R == ToSet(t.deferred)
    <2>1. /\ i \in RowsOf(t) <=> i \in R \/ i \in RowsOf(u)
          /\ ~(i \in R /\ i \in RowsOf(u))
      BY DEF RowsOf, Apart
    <2>2. i \in R => OnlyFlight(i, t)
      <3>1. SUFFICES ASSUME i \in R PROVE OnlyFlight(i, t)
        OBVIOUS
      <3>2. InFlight(i, t) /\ SomeFlight(i)
        BY <2>1, <3>1 DEF InFlight, SomeFlight
      <3>3. Once(i)
        BY <3>2 DEF HeldInv, Nowhere
      <3>4. PICK v \in flight : OnlyFlight(i, v)
        BY <3>2, <3>3 DEF Once, OnlyEntry, OnlyDeferred, OnlyParked, OnlySettled
      <3>5. v = t
        BY <3>2, <3>4 DEF OnlyFlight
      <3> QED BY <3>4, <3>5
    <2>3. \A q \in Participants :
             /\ InEntry(i, q)' <=> InEntry(i, q) \/ (q = b /\ i \in R /\ entry[b].state # "frozen")
             /\ InDeferred(i, q)' <=> InDeferred(i, q) \/ (q = b /\ i \in R /\ entry[b].state = "frozen")
      <3>1. i \in R => ~InEntry(i, b)
        BY <2>2 DEF OnlyFlight, SomeEntry
      <3> QED BY <3>1, TakenRows
    <2> HIDE DEF R
    <2>4. /\ u \in flight' /\ \A v \in flight' : v = u \/ (v \in flight /\ v # t)
          /\ \A v \in flight : v = t \/ v \in flight'
      OBVIOUS
    <2> USE DEF SomeEntry, SomeDeferred, SomeFlight, SomeParked, InFlight, InParked
    <2>5. ASSUME i \in R PROVE Once(i)'
      <3>1. OnlyFlight(i, t) /\ i \notin RowsOf(u)
        BY <2>1, <2>2, <2>5
      <3>2. CASE entry[b].state = "frozen"
        <4>1. OnlyDeferred(i, b)'
          BY <2>3, <2>4, <2>5, <3>1, <3>2 DEF OnlyFlight, OnlyDeferred
        <4> QED BY <4>1 DEF Once
      <3>3. CASE entry[b].state # "frozen"
        <4>1. OnlyEntry(i, b)'
          BY <2>3, <2>4, <2>5, <3>1, <3>3 DEF OnlyFlight, OnlyEntry
        <4> QED BY <4>1 DEF Once
      <3> QED BY <3>2, <3>3
    <2>6. ASSUME i \notin R, Nowhere(i) PROVE Nowhere(i)'
      BY <2>1, <2>3, <2>4, <2>6 DEF Nowhere
    <2>7. ASSUME i \notin R, Once(i) PROVE Once(i)'
      <3>1. ASSUME NEW p \in Participants, OnlyEntry(i, p) PROVE OnlyEntry(i, p)'
        BY <2>1, <2>3, <2>4, <2>7, <3>1 DEF OnlyEntry
      <3>2. ASSUME NEW p \in Participants, OnlyDeferred(i, p) PROVE OnlyDeferred(i, p)'
        BY <2>1, <2>3, <2>4, <2>7, <3>2 DEF OnlyDeferred
      <3>3. ASSUME OnlyFlight(i, t) PROVE OnlyFlight(i, u)'
        BY <2>1, <2>3, <2>4, <2>7, <3>3 DEF OnlyFlight
      <3>4. ASSUME NEW v \in flight, OnlyFlight(i, v), v # t PROVE v \in flight' /\ OnlyFlight(i, v)'
        BY <2>1, <2>3, <2>4, <2>7, <3>4 DEF OnlyFlight
      <3>5. ASSUME NEW p \in Participants, NEW k \in DOMAIN parked[p], OnlyParked(i, p, k)
            PROVE  OnlyParked(i, p, k)'
        BY <2>1, <2>3, <2>4, <2>7, <3>5 DEF OnlyParked
      <3>6. OnlySettled(i) => OnlySettled(i)'
        BY <2>1, <2>3, <2>4, <2>7 DEF OnlySettled
      <3> QED BY <2>4, <2>7, <3>1, <3>2, <3>3, <3>4, <3>5, <3>6 DEF Once
    <2>8. i \in R => i \in handed
      BY <2>2 DEF HeldInv, Nowhere, OnlyFlight
    <2> QED BY <2>5, <2>6, <2>7, <2>8 DEF HeldInv
  <1> QED BY <1>1 DEF HeldInv

\* Turn t is put back under its key, which is free.
LEMMA HeldRestore ==
    ASSUME HeldInv, entry \in [Participants -> Entries], NEW t \in flight,
           NEW b \in Participants, entry[b] = Absent, NEW f,
           f.parts = t.parts, f.deferred = t.deferred,
           Apart(t.parts, t.deferred), flight' = flight \ {t}, entry' = [entry EXCEPT ![b] = f],
           UNCHANGED <<parked, answered, dropped, handed>>
    PROVE  HeldInv'
  <1>1. ASSUME NEW i \in Rows PROVE IF i \in handed' THEN Once(i)' ELSE Nowhere(i)'
    <2>1. /\ i \in RowsOf(t) <=> i \in ToSet(t.parts) \/ i \in ToSet(t.deferred)
          /\ ~(i \in ToSet(t.parts) /\ i \in ToSet(t.deferred))
      BY DEF RowsOf, Apart
    <2>2. /\ entry'[b] = f /\ \A q \in Participants : q # b => entry'[q] = entry[q]
          /\ ~InEntry(i, b) /\ ~InDeferred(i, b)
      BY EmptySeq DEF Absent, ToSet, InEntry, InDeferred
    <2>3. \A q \in Participants :
             /\ InEntry(i, q)' <=> InEntry(i, q) \/ (q = b /\ i \in ToSet(t.parts))
             /\ InDeferred(i, q)' <=> InDeferred(i, q) \/ (q = b /\ i \in ToSet(t.deferred))
      BY <2>2 DEF InEntry, InDeferred
    <2>4. /\ \A v \in flight' : v \in flight /\ v # t
          /\ \A v \in flight : v = t \/ v \in flight'
      OBVIOUS
    <2> USE DEF SomeEntry, SomeDeferred, SomeFlight, SomeParked, InFlight, InParked
    <2>5. ASSUME OnlyFlight(i, t) PROVE OnlyEntry(i, b)' \/ OnlyDeferred(i, b)'
      BY <2>1, <2>3, <2>4, <2>5 DEF OnlyFlight, OnlyEntry, OnlyDeferred
    <2>6. Nowhere(i) => Nowhere(i)'
      BY <2>1, <2>3, <2>4 DEF Nowhere
    <2>7. ASSUME NEW p \in Participants, OnlyEntry(i, p) PROVE OnlyEntry(i, p)'
      BY <2>1, <2>3, <2>4, <2>7 DEF OnlyEntry
    <2>8. ASSUME NEW p \in Participants, OnlyDeferred(i, p) PROVE OnlyDeferred(i, p)'
      BY <2>1, <2>3, <2>4, <2>8 DEF OnlyDeferred
    <2>9. ASSUME NEW v \in flight, OnlyFlight(i, v), v # t PROVE v \in flight' /\ OnlyFlight(i, v)'
      BY <2>1, <2>3, <2>4, <2>9 DEF OnlyFlight
    <2>10. ASSUME NEW p \in Participants, NEW k \in DOMAIN parked[p], OnlyParked(i, p, k)
           PROVE  OnlyParked(i, p, k)'
      BY <2>1, <2>3, <2>4, <2>10 DEF OnlyParked
    <2>11. OnlySettled(i) => OnlySettled(i)'
      BY <2>1, <2>3, <2>4 DEF OnlySettled
    <2> QED BY <2>5, <2>6, <2>7, <2>8, <2>9, <2>10, <2>11 DEF HeldInv, Once
  <1> QED BY <1>1 DEF HeldInv

\* A row stays in one place.
LEMMA HeldStep ==
    ASSUME StateInv, HeldInv, ApartInv, Next
    PROVE  HeldInv'
  <1>0. /\ PageInv /\ BufferInv /\ ScanInv /\ TurnInv
        /\ entry \in [Participants -> Entries]
    BY DEF StateInv, BufferInv
  <1>1. ASSUME UNCHANGED <<entry, flight, parked, answered, dropped, handed>> PROVE HeldInv'
    BY <1>1, HeldFrame
  <1>2. ASSUME UNCHANGED <<flight, parked, answered, dropped, handed>>,
               \A q \in Participants : Marked(entry[q], entry'[q])
        PROVE  HeldInv'
    BY <1>2, HeldFrame DEF Marked
  <1>3. ASSUME NEW p \in Participants, NEW w \in BOOLEAN, entry[p].state # "none",
               flight' = flight \union {Turn(p, "gate", w)}, entry' = [entry EXCEPT ![p] = Absent],
               UNCHANGED <<parked, answered, dropped, handed>>
        PROVE  HeldInv'
    <2>1. PICK F \in SUBSET Participants : F = {p}
      OBVIOUS
    <2>2. /\ \A q \in F : entry[q].state # "none" /\ entry'[q] = Absent
          /\ \A q \in Participants \ F : entry'[q].parts = entry[q].parts
                                         /\ entry'[q].deferred = entry[q].deferred
          /\ flight' = flight \union {Turn(q, "gate", w) : q \in F}
      BY <1>0, <1>3, <2>1
    <2> QED BY <1>3, <2>2, HeldFlush
  <1>4. ASSUME NEW p \in Participants, DeadlineFires(p) \/ AgainFires(p) PROVE HeldInv'
    <2>1. /\ entry[p].timer \in {"deadline", "again"}
          /\ entry' = [entry EXCEPT ![p].timer = "none", ![p].wanted = TRUE]
          /\ UNCHANGED <<flight, parked, answered, dropped, handed>>
      BY <1>4 DEF DeadlineFires, AgainFires, turnVars, pageVars
    <2> QED BY <1>0, <1>2, <2>1, TimerMarks
  <1>5. ASSUME NEW p \in Participants, RetryFires(p) PROVE HeldInv'
    <2>1. /\ entry[p].timer = "retry" /\ flight' = flight \union {Turn(p, "gate", FALSE)}
          /\ entry' = [entry EXCEPT ![p] = Absent]
          /\ UNCHANGED <<parked, answered, dropped, handed>>
      BY <1>5 DEF RetryFires, pageVars
    <2>2. entry[p].state # "none"
      BY <1>0, <2>1 DEF BufferInv, Legal, Absent
    <2> QED BY <1>3, <2>1, <2>2
  <1>6. ASSUME NEW aged, RecordFailure(aged), UNCHANGED <<flight, parked, answered, dropped, handed>>
        PROVE  HeldInv'
    BY <1>0, <1>2, <1>6, FailureMarks
  <1>7. CASE BlockedTick \/ EndScan
    <2>1. /\ entry' = entry \/ \E aged : RecordFailure(aged)
          /\ UNCHANGED <<flight, parked, answered, dropped, handed>>
      BY <1>7 DEF BlockedTick, EndScan, turnVars, pageVars
    <2> QED BY <1>1, <1>6, <2>1
  <1>8. ASSUME NEW tooSoon \in BOOLEAN, Read(tooSoon) PROVE HeldInv'
    <2> DEFINE admitted == {page[i] : i \in Admitted}
    <2>1. /\ entry' = [p \in Participants |-> Confirmed(p, admitted)]
          /\ flight' = flight \union {Turn(p, "gate", FALSE) : p \in {q \in Participants : Freezes(q, admitted)}}
          /\ UNCHANGED <<parked, answered, dropped, handed>>
      BY <1>8 DEF Read, pageVars
    <2> HIDE DEF admitted
    <2>2. PICK F \in SUBSET Participants : F = {q \in Participants : Freezes(q, admitted)}
      OBVIOUS
    <2>3. \A p \in F : entry[p].state # "none" /\ entry'[p] = Absent
      BY <1>0, <2>1, <2>2, ReadEntry DEF Freezes, IsOpen
    <2>4. \A p \in Participants \ F : entry'[p].parts = entry[p].parts
                                      /\ entry'[p].deferred = entry[p].deferred
      BY <1>0, <2>1, <2>2, ReadEntry
    <2>5. flight' = flight \union {Turn(p, "gate", FALSE) : p \in F}
      BY <2>1, <2>2
    <2> QED BY <2>1, <2>3, <2>4, <2>5, HeldFlush
  <1>9. CASE Handed
    <2> DEFINE p == page[NextRow]
    <2>1. p \in Participants /\ NextRow \in Rows \ handed
      BY <1>0, <1>9, NextRowFacts DEF Handed
    <2>2. /\ entry' = [entry EXCEPT ![p] = Schedule(entry[p], NextRow)]
          /\ handed' = handed \union {NextRow}
          /\ UNCHANGED <<flight, parked, answered, dropped>>
      BY <1>9 DEF Handed, turnVars
    <2>3. Legal(entry[p]) /\ entry[p].state \in {"none", "open", "frozen"}
      BY <1>0, <2>1 DEF BufferInv, Legal, Entries
    <2>4. Takes(entry[p], Schedule(entry[p], NextRow), {} \union {NextRow})
      BY <2>1, <2>3, TakesNothing, ScheduleTakes
    <2>5. PICK r \in Rows \ handed : r = NextRow
      BY <2>1
    <2>6. PICK b \in Participants : b = p
      BY <2>1
    <2>7. PICK f : f = Schedule(entry[p], NextRow)
      OBVIOUS
    <2>8. Takes(entry[b], f, {r}) /\ entry' = [entry EXCEPT ![b] = f] /\ handed' = handed \union {r}
      <3>1. {} \union {r} = {r}
        OBVIOUS
      <3> HIDE DEF p
      <3> QED BY <2>2, <2>4, <2>5, <2>6, <2>7, <3>1
    <2> HIDE DEF p
    <2> QED BY <1>0, <2>2, <2>8, HeldTaken
  <1>10. ASSUME NEW p \in Participants, FinalCheck(p) PROVE HeldInv'
    <2>1. /\ \/ UNCHANGED <<entry, flight>>
             \/ /\ IsOpen(p) /\ flight' = flight
                /\ entry' = [entry EXCEPT ![p].wanted = FALSE, ![p].failing = FALSE,
                                ![p].timer = IF @ = "none" THEN "deadline" ELSE @]
             \/ /\ IsOpen(p) /\ flight' = flight \union {Turn(p, "gate", TRUE)}
                /\ entry' = [entry EXCEPT ![p] = Absent]
          /\ UNCHANGED <<parked, answered, dropped, handed>>
      BY <1>10 DEF FinalCheck, pageVars
    <2>2. IsOpen(p) => entry[p].state # "none"
      BY DEF IsOpen
    <2> QED BY <1>0, <1>1, <1>2, <1>3, <2>1, <2>2, PostponeMarks
  <1>11. ASSUME NEW t \in flight, GateBlocks(t) PROVE HeldInv'
    <2>1. /\ flight' = flight \ {t} /\ dropped' = dropped \union RowsOf(t)
          /\ UNCHANGED <<entry, parked, answered, handed>>
      BY <1>11 DEF GateBlocks, bufferVars, pageVars
    <2> QED BY <2>1, HeldLeave
  <1>12. ASSUME NEW t \in flight, GateOpens(t) PROVE HeldInv'
    <2>1. t \in Turns /\ t.by \in Participants
      BY <1>0 DEF TurnInv, Turns
    <2>2. UNCHANGED <<entry, answered, handed>>
      BY <1>12 DEF GateOpens, bufferVars, pageVars
    <2>3. PICK u : u = [t EXCEPT !.stage = "running"]
      OBVIOUS
    <2>4. PICK v : v = [t EXCEPT !.stage = "parked", !.watched = FALSE]
      OBVIOUS
    <2>5. RowsOf(u) = RowsOf(t) /\ RowsOf(v) = RowsOf(t) /\ v \in Turns
      BY <2>1, <2>3, <2>4 DEF RowsOf, Turns
    <2>6. \/ flight' = flight \ {t} /\ dropped' = dropped \union RowsOf(t) /\ parked' = parked
          \/ parked' = [parked EXCEPT ![t.by] = Append(@, v)] /\ flight' = flight \ {t} /\ dropped' = dropped
          \/ parked' = parked /\ flight' = (flight \ {t}) \union {u} /\ dropped' = dropped
      BY <1>12, <2>3, <2>4 DEF GateOpens, Enter, Skipped
    <2>7. parked' = [parked EXCEPT ![t.by] = Append(@, v)]
            => parked' = [parked EXCEPT ![t.by] = Append(parked[t.by], v)]
      BY <1>0, <2>1 DEF TurnInv
    <2> QED BY <1>0, <2>1, <2>2, <2>5, <2>6, <2>7, HeldLeave, HeldStage, HeldPark
  <1>13. ASSUME NEW t \in flight, Reply(t) PROVE HeldInv'
    <2>1. PICK u : u = [t EXCEPT !.stage = "sent"]
      OBVIOUS
    <2>2. /\ flight' = (flight \ {t}) \union {u}
          /\ UNCHANGED <<entry, parked, answered, dropped, handed>>
      BY <1>13, <2>1 DEF Reply, bufferVars
    <2>3. RowsOf(u) = RowsOf(t)
      BY <1>0, <2>1 DEF RowsOf, TurnInv, Turns
    <2> QED BY <2>2, <2>3, HeldStage
  <1>14. ASSUME NEW t \in flight, Succeeds(t) PROVE HeldInv'
    <2>1. t \in Turns /\ t.by \in Participants /\ t.deferred \in Seq(Rows)
      BY <1>0 DEF TurnInv, Turns
    <2>2. PICK u : u = [t EXCEPT !.stage = "closing", !.deferred = <<>>]
      OBVIOUS
    <2>3. PICK f : f = Replay(entry[t.by], t.deferred)
      OBVIOUS
    <2>4. /\ flight' = (flight \ {t}) \union {u}
          /\ entry' = [entry EXCEPT ![t.by] = Replay(entry[t.by], t.deferred)]
          /\ UNCHANGED <<parked, answered, dropped, handed>>
      BY <1>14, <2>2 DEF Succeeds, pageVars
    <2>5. RowsOf(u) = ToSet(t.parts)
      <3>1. u.parts = t.parts /\ u.deferred = <<>>
        BY <2>1, <2>2 DEF Turns
      <3>2. ToSet(<<>>) = {}
        BY EmptySeq DEF ToSet
      <3> QED BY <3>1, <3>2 DEF RowsOf
    <2>6. Takes(entry[t.by], f, ToSet(t.deferred))
      BY <1>0, <2>1, <2>3, ReplayTakes DEF BufferInv
    <2>7. Apart(t.parts, t.deferred)
      BY DEF ApartInv, UnderWay
    <2>8. entry' = [entry EXCEPT ![t.by] = f]
      BY <2>3, <2>4
    <2> QED BY <1>0, <2>1, <2>4, <2>5, <2>6, <2>7, <2>8, HeldReplay
  <1>15. ASSUME NEW t \in flight, Closes(t) PROVE HeldInv'
    <2>1. /\ flight' = flight \ {t} /\ answered' = answered \union ToSet(t.parts)
          /\ UNCHANGED <<entry, parked, dropped, handed>> /\ t.stage = "closing"
      BY <1>15 DEF Closes, bufferVars, pageVars
    <2>2. ToSet(t.parts) = RowsOf(t)
      <3>1. t.deferred = <<>> /\ ToSet(<<>>) = {}
        BY <1>0, <2>1, EmptySeq DEF TurnInv, ToSet
      <3> QED BY <3>1 DEF RowsOf
    <2> QED BY <2>1, <2>2, HeldLeave
  <1>16. ASSUME NEW t \in flight, Fails(t) PROVE HeldInv'
    <2>1. t \in Turns /\ t.by \in Participants
      BY <1>0 DEF TurnInv, Turns
    <2>2. /\ flight' = flight \ {t} /\ UNCHANGED <<parked, answered, handed>>
          /\ \/ /\ entry[t.by].state = "none" /\ dropped' = dropped
                /\ entry' = [entry EXCEPT ![t.by] = Restored(t)]
             \/ entry' = entry /\ dropped' = dropped \union RowsOf(t)
      BY <1>16 DEF Fails, pageVars
    <2>3. entry[t.by].state = "none" => entry[t.by] = Absent
      BY <1>0, <2>1 DEF BufferInv, Legal
    <2>4. Restored(t).parts = t.parts /\ Restored(t).deferred = t.deferred
      BY DEF Restored, Absent
    <2>5. Apart(t.parts, t.deferred)
      BY DEF ApartInv, UnderWay
    <2> QED BY <1>0, <2>1, <2>2, <2>3, <2>4, <2>5, HeldLeave, HeldRestore
  <1>17. ASSUME NEW p \in Participants, Drain(p) PROVE HeldInv'
    <2>1. UNCHANGED <<entry, answered, handed>>
      BY <1>17 DEF Drain, Skipped, bufferVars, pageVars
    <2>2. PICK u : u = [Head(parked[p]) EXCEPT !.stage = "running"]
      OBVIOUS
    <2>3. \/ UNCHANGED <<flight, parked, dropped>>
          \/ /\ parked[p] # <<>> /\ parked' = [parked EXCEPT ![p] = Tail(@)]
             /\ \/ flight' = flight /\ dropped' = dropped \union RowsOf(Head(parked[p]))
                \/ flight' = flight \union {u} /\ dropped' = dropped
      BY <1>17, <2>2 DEF Drain, Skipped
    <2>4. parked[p] # <<>> => RowsOf(u) = RowsOf(Head(parked[p]))
      <3>1. parked[p] # <<>> => Head(parked[p]) \in Turns
        BY <1>0, ParkedHead, LenProperties DEF TurnInv
      <3> QED BY <2>2, <3>1 DEF Turns, RowsOf
    <2>5. parked' = [parked EXCEPT ![p] = Tail(@)] => parked' = [parked EXCEPT ![p] = Tail(parked[p])]
      BY <1>0 DEF TurnInv
    <2> QED BY <1>0, <1>1, <2>1, <2>3, <2>4, <2>5, HeldUnpark
  <1>18. ASSUME NEW p \in Participants, PersonWrites(p) PROVE HeldInv'
    BY <1>1, <1>18 DEF PersonWrites, bufferVars, turnVars
  <1>19. CASE OwnerWrites \/ StartScan \/ ReleaseStalePin \/ ReadFails \/ StartPass
                \/ SkipWrongChat \/ Forward \/ ForwardFails
    BY <1>1, <1>19 DEF OwnerWrites, StartScan, ReleaseStalePin, ReadFails, StartPass,
       SkipWrongChat, Forward, ForwardFails, bufferVars, turnVars, pageVars
  <1>20. ASSUME NEW row \in failed, Forgets(row) PROVE HeldInv'
    BY <1>1, <1>20 DEF Forgets, bufferVars, turnVars, pageVars
  <1> QED BY <1>4, <1>5, <1>7, <1>8, <1>9, <1>10, <1>11, <1>12, <1>13, <1>14, <1>15, <1>16,
             <1>17, <1>18, <1>19, <1>20
         DEF Next, Listener, Pipeline

-----------------------------------------------------------------------------
(* The turns under way, and the texts of the last five seconds.            *)

\* Turn u is turn t, which may have passed the gate and given back its deferred rows.
From(u, t) ==
    /\ u.parts = t.parts /\ ToSet(u.deferred) \subseteq ToSet(t.deferred)
    /\ u.stage = "gate" => t.stage = "gate"

\* The parked turns after the head of one session's has left.
LEMMA ParkedTail ==
    ASSUME TurnInv, NEW b \in Participants, parked[b] # <<>>,
           parked' = [parked EXCEPT ![b] = Tail(parked[b])], NEW q \in Participants
    PROVE  ToSet(parked'[q]) \subseteq ToSet(parked[q])
  <1>1. parked \in [Participants -> Seq(Turns)]
    BY DEF TurnInv
  <1>2. CASE q = b
    <2>1. parked'[q] = Tail(parked[b])
      BY <1>1, <1>2
    <2> QED BY <1>2, <2>1, ParkedHead DEF ToSet
  <1>3. CASE q # b
    BY <1>1, <1>3
  <1> QED BY <1>2, <1>3

\* The parked turns after one was parked.
LEMMA ParkedAppend ==
    ASSUME TurnInv, NEW b \in Participants, NEW u \in Turns,
           parked' = [parked EXCEPT ![b] = Append(parked[b], u)], NEW q \in Participants
    PROVE  ToSet(parked'[q]) \subseteq ToSet(parked[q]) \union {u}
  <1>1. parked \in [Participants -> Seq(Turns)]
    BY DEF TurnInv
  <1>2. CASE q = b
    BY <1>1, <1>2, AppendSet
  <1>3. CASE q # b
    BY <1>1, <1>3
  <1> QED BY <1>2, <1>3

\* Every turn comes from one that was under way or from an entry.
LEMMA TurnOrigin ==
    ASSUME StateInv, Next, NEW u \in UnderWay'
    PROVE  \/ \E t \in UnderWay : From(u, t)
           \/ \E p \in Participants : /\ u.parts = entry[p].parts
                                      /\ u.deferred = entry[p].deferred
  <1>0. BufferInv /\ TurnInv /\ parked \in [Participants -> Seq(Turns)]
    BY DEF StateInv, TurnInv
  <1> DEFINE Goal == \/ \E t \in UnderWay : From(u, t)
                     \/ \E p \in Participants : u.parts = entry[p].parts /\ u.deferred = entry[p].deferred
  <1> SUFFICES Goal
    OBVIOUS
  <1>1. CASE u \in UnderWay
    BY <1>1 DEF From
  <1>2. ASSUME UNCHANGED parked, u \in flight' => Goal PROVE Goal
    BY <1>1, <1>2 DEF UnderWay
  <1>3. ASSUME UNCHANGED parked, flight' \subseteq flight PROVE Goal
    BY <1>1, <1>3 DEF UnderWay
  <1>4. ASSUME NEW p \in Participants, NEW w, u = Turn(p, "gate", w) PROVE Goal
    BY <1>4 DEF Turn
  <1>5. ASSUME NEW t \in UnderWay, From(u, t) PROVE Goal
    BY <1>5
  <1> HIDE DEF Goal
  <1>6. ASSUME NEW p \in Participants, RetryFires(p) \/ FinalCheck(p) PROVE Goal
    <2>1. /\ parked' = parked
          /\ flight' = flight \/ \E w : flight' = flight \union {Turn(p, "gate", w)}
      BY <1>6 DEF RetryFires, FinalCheck
    <2> QED BY <1>1, <1>2, <1>4, <2>1 DEF UnderWay
  <1>7. ASSUME NEW tooSoon \in BOOLEAN, Read(tooSoon) PROVE Goal
    <2> DEFINE frozen == {p \in Participants : Freezes(p, {page[i] : i \in Admitted})}
    <2>1. parked' = parked /\ flight' = flight \union {Turn(p, "gate", FALSE) : p \in frozen}
      BY <1>7 DEF Read
    <2>2. frozen \subseteq Participants
      OBVIOUS
    <2> HIDE DEF frozen
    <2> QED BY <1>1, <1>2, <1>4, <2>1, <2>2 DEF UnderWay
  <1>8. ASSUME NEW t \in flight, GateBlocks(t) \/ Closes(t) \/ Fails(t) PROVE Goal
    <2>1. parked' = parked /\ flight' = flight \ {t}
      BY <1>8 DEF GateBlocks, Closes, Fails
    <2> QED BY <1>3, <2>1
  <1>9. ASSUME NEW t \in flight PROVE t \in Turns /\ t \in UnderWay
    BY <1>0 DEF TurnInv, UnderWay
  <1>10. ASSUME NEW t \in flight, GateOpens(t) PROVE Goal
    <2>1. PICK r : r = [t EXCEPT !.stage = "running"]
      OBVIOUS
    <2>2. PICK v : v = [t EXCEPT !.stage = "parked", !.watched = FALSE]
      OBVIOUS
    <2>3. From(r, t) /\ From(v, t) /\ v \in Turns /\ t.by \in Participants
      BY <1>9, <2>1, <2>2 DEF From, Turns
    <2>4. \/ parked' = parked /\ flight' = flight \ {t}
          \/ parked' = [parked EXCEPT ![t.by] = Append(@, v)] /\ flight' = flight \ {t}
          \/ parked' = parked /\ flight' = (flight \ {t}) \union {r}
      BY <1>10, <2>1, <2>2 DEF GateOpens, Enter, Skipped
    <2>5. parked' = [parked EXCEPT ![t.by] = Append(@, v)]
            => \A q \in Participants : ToSet(parked'[q]) \subseteq ToSet(parked[q]) \union {v}
      BY <1>0, <2>3, ParkedAppend
    <2>6. u \in UnderWay \/ u = r \/ u = v
      <3>1. flight' \subseteq flight \union {r}
        BY <2>4
      <3>2. \A q \in Participants : ToSet(parked'[q]) \subseteq ToSet(parked[q]) \union {v}
        <4>1. CASE parked' = parked
          BY <4>1
        <4> QED BY <2>4, <2>5, <4>1
      <3> QED BY <3>1, <3>2 DEF UnderWay
    <2> QED BY <1>1, <1>5, <1>9, <2>3, <2>6
  <1>11. ASSUME NEW t \in flight, Reply(t) \/ Succeeds(t) PROVE Goal
    <2>1. PICK r : r = [t EXCEPT !.stage = "sent"]
      OBVIOUS
    <2>2. PICK v : v = [t EXCEPT !.stage = "closing", !.deferred = <<>>]
      OBVIOUS
    <2>3. From(r, t)
      BY <1>9, <2>1 DEF From, Turns
    <2>4. From(v, t)
      <3>1. v.parts = t.parts /\ v.deferred = <<>> /\ v.stage = "closing"
        BY <1>9, <2>2 DEF Turns
      <3>2. ToSet(<<>>) = {}
        BY EmptySeq DEF ToSet
      <3> QED BY <3>1, <3>2 DEF From
    <2>5. parked' = parked /\ flight' \subseteq flight \union {r, v}
      BY <1>11, <2>1, <2>2 DEF Reply, Succeeds
    <2> QED BY <1>1, <1>2, <1>5, <1>9, <2>3, <2>4, <2>5 DEF UnderWay
  <1>12. ASSUME NEW p \in Participants, Drain(p) PROVE Goal
    <2>1. PICK r : r = [Head(parked[p]) EXCEPT !.stage = "running"]
      OBVIOUS
    <2>2. \/ UNCHANGED <<flight, parked>>
          \/ /\ parked[p] # <<>> /\ parked' = [parked EXCEPT ![p] = Tail(@)]
             /\ flight' = flight \/ flight' = flight \union {r}
      BY <1>12, <2>1 DEF Drain, Skipped
    <2>3. parked' = [parked EXCEPT ![p] = Tail(@)] /\ parked[p] # <<>>
            => \A q \in Participants : ToSet(parked'[q]) \subseteq ToSet(parked[q])
      BY <1>0, ParkedTail
    <2>4. parked[p] # <<>> => Head(parked[p]) \in UnderWay /\ From(r, Head(parked[p]))
      <3>1. SUFFICES ASSUME parked[p] # <<>> PROVE Head(parked[p]) \in UnderWay /\ From(r, Head(parked[p]))
        OBVIOUS
      <3>2. Head(parked[p]) \in ToSet(parked[p]) /\ Head(parked[p]) \in Turns
        BY <1>0, <3>1, ParkedHead, LenProperties DEF ToSet
      <3>3. Head(parked[p]) \in UnderWay
        BY <3>2 DEF UnderWay
      <3> QED BY <2>1, <3>2, <3>3 DEF From, Turns
    <2>5. u \in UnderWay \/ (u = r /\ parked[p] # <<>>)
      BY <2>2, <2>3 DEF UnderWay
    <2> QED BY <1>1, <1>5, <2>4, <2>5
  <1>13. ASSUME NEW p \in Participants, PersonWrites(p) \/ DeadlineFires(p) \/ AgainFires(p)
         PROVE  Goal
    BY <1>3, <1>13 DEF PersonWrites, DeadlineFires, AgainFires, turnVars
  <1>14. CASE OwnerWrites \/ StartScan \/ BlockedTick \/ ReleaseStalePin \/ ReadFails
                \/ StartPass \/ SkipWrongChat \/ Forward \/ Handed \/ ForwardFails \/ EndScan
    BY <1>3, <1>14 DEF OwnerWrites, StartScan, BlockedTick, ReleaseStalePin, ReadFails,
       StartPass, SkipWrongChat, Forward, Handed, ForwardFails, EndScan, turnVars
  <1>15. ASSUME NEW row \in failed, Forgets(row) PROVE Goal
    BY <1>3, <1>15 DEF Forgets, turnVars
  <1> QED BY <1>6, <1>7, <1>8, <1>10, <1>11, <1>12, <1>13, <1>14, <1>15
         DEF Next, Listener, Pipeline

\* The rows of an entry are deferred nowhere, and no turn has them.
LEMMA EntryAlone ==
    ASSUME StateInv, HeldInv, NEW p \in Participants
    PROVE  /\ ToSet(entry[p].parts) \subseteq Rows /\ ToSet(entry[p].deferred) \subseteq Rows
           /\ Apart(entry[p].parts, entry[p].deferred)
  <1>1. entry[p].parts \in Seq(Rows) /\ entry[p].deferred \in Seq(Rows)
    BY DEF StateInv, BufferInv, Entries
  <1>2. ToSet(entry[p].parts) \subseteq Rows /\ ToSet(entry[p].deferred) \subseteq Rows
    BY <1>1, LenProperties DEF ToSet
  <1>3. ASSUME NEW i \in Rows, InEntry(i, p), InDeferred(i, p) PROVE FALSE
    <2>1. Once(i)
      BY <1>3 DEF HeldInv, Nowhere, SomeEntry
    <2> QED BY <1>3, <2>1 DEF Once, OnlyEntry, OnlyDeferred, OnlyFlight, OnlyParked, OnlySettled,
            SomeEntry, SomeDeferred
  <1> QED BY <1>2, <1>3 DEF Apart, InEntry, InDeferred

\* A turn under way is in flight or parked.
LEMMA TurnPlace ==
    ASSUME StateInv, NEW t \in UnderWay
    PROVE  /\ t \in Turns /\ t.parts # <<>>
           /\ t \notin flight => t.stage = "parked"
           /\ ToSet(t.parts) \subseteq Rows /\ ToSet(t.deferred) \subseteq Rows
           /\ RowsOf(t) = ToSet(t.parts) \union ToSet(t.deferred)
           /\ \A i \in RowsOf(t) :
                \/ t \in flight /\ InFlight(i, t)
                \/ \E p \in Participants : \E k \in DOMAIN parked[p] :
                     t = parked[p][k] /\ InParked(i, p, k)
  <1>0. TurnInv
    BY DEF StateInv
  <1>1. t \in flight \/ \E p \in Participants : \E k \in DOMAIN parked[p] : t = parked[p][k]
    BY DEF UnderWay, ToSet
  <1>2. \A p \in Participants : \A k \in DOMAIN parked[p] : parked[p][k] \in Turns
    BY <1>0, LenProperties DEF TurnInv
  <1>3. t \in Turns /\ t.parts # <<>> /\ (t \notin flight => t.stage = "parked")
    BY <1>0, <1>1, <1>2 DEF TurnInv
  <1>4. t.parts \in Seq(Rows) /\ t.deferred \in Seq(Rows)
    BY <1>3 DEF Turns
  <1>5. ToSet(t.parts) \subseteq Rows /\ ToSet(t.deferred) \subseteq Rows
    BY <1>4, LenProperties DEF ToSet
  <1>6. ASSUME NEW i \in RowsOf(t)
        PROVE  \/ t \in flight /\ InFlight(i, t)
               \/ \E p \in Participants : \E k \in DOMAIN parked[p] :
                    t = parked[p][k] /\ InParked(i, p, k)
    BY <1>1, <1>6 DEF InFlight, InParked
  <1> QED BY <1>3, <1>5, <1>6 DEF RowsOf

\* The rows of a turn were handed over; no entry and no other turn has them.
LEMMA RowsAlone ==
    ASSUME StateInv, HeldInv, NEW t \in UnderWay, NEW i \in RowsOf(t)
    PROVE  /\ i \in handed
           /\ \A p \in Participants : i \notin ToSet(entry[p].parts) /\ i \notin ToSet(entry[p].deferred)
           /\ \A u \in UnderWay : i \in RowsOf(u) => u = t
           /\ \A p, q \in Participants : \A k \in DOMAIN parked[p], l \in DOMAIN parked[q] :
                parked[p][k] = t /\ parked[q][l] = t => p = q /\ k = l
  <1>1. i \in Rows /\ (SomeFlight(i) \/ SomeParked(i))
    BY TurnPlace DEF SomeFlight, SomeParked
  <1>2. Once(i) /\ i \in handed
    BY <1>1 DEF HeldInv, Nowhere
  <1>3. \A p \in Participants : i \notin ToSet(entry[p].parts) /\ i \notin ToSet(entry[p].deferred)
    BY <1>1, <1>2 DEF Once, OnlyEntry, OnlyDeferred, OnlyFlight, OnlyParked, OnlySettled,
       SomeEntry, SomeDeferred, InEntry, InDeferred
  <1>4. \/ \E v \in flight : OnlyFlight(i, v)
        \/ \E p \in Participants : \E k \in DOMAIN parked[p] : OnlyParked(i, p, k)
    BY <1>1, <1>2 DEF Once, OnlyEntry, OnlyDeferred, OnlySettled
  <1>5. ASSUME NEW u \in UnderWay, i \in RowsOf(u)
        PROVE  u = t
    <2>1. \/ t \in flight /\ InFlight(i, t)
          \/ \E p \in Participants : \E k \in DOMAIN parked[p] :
               t = parked[p][k] /\ InParked(i, p, k)
      BY TurnPlace
    <2>2. \/ u \in flight /\ InFlight(i, u)
          \/ \E p \in Participants : \E k \in DOMAIN parked[p] :
               u = parked[p][k] /\ InParked(i, p, k)
      BY <1>5, TurnPlace
    <2>3. CASE \E v \in flight : OnlyFlight(i, v)
      BY <2>1, <2>2, <2>3 DEF OnlyFlight, SomeParked
    <2>4. CASE \E p \in Participants : \E k \in DOMAIN parked[p] : OnlyParked(i, p, k)
      BY <2>1, <2>2, <2>4 DEF OnlyParked, SomeFlight
    <2> QED BY <1>4, <2>3, <2>4
  <1>6. ASSUME NEW p \in Participants, NEW q \in Participants,
               NEW k \in DOMAIN parked[p], NEW l \in DOMAIN parked[q],
               parked[p][k] = t, parked[q][l] = t
        PROVE  p = q /\ k = l
    <2>1. InParked(i, p, k) /\ InParked(i, q, l)
      BY <1>6 DEF InParked
    <2>2. SomeParked(i)
      BY <2>1 DEF SomeParked
    <2>3. \E r \in Participants : \E m \in DOMAIN parked[r] : OnlyParked(i, r, m)
      BY <1>4, <2>2 DEF OnlyFlight
    <2> QED BY <2>1, <2>3 DEF OnlyParked
  <1> QED BY <1>2, <1>3, <1>5, <1>6

\* No turn gets a row that it also defers.
LEMMA ApartStep ==
    ASSUME StateInv, HeldInv, ApartInv, Next
    PROVE  ApartInv'
  <1>1. ASSUME NEW u \in UnderWay' PROVE Apart(u.parts, u.deferred)
    <2>1. CASE \E t \in UnderWay : From(u, t)
      BY <2>1 DEF From, ApartInv, Apart
    <2>2. CASE \E p \in Participants : u.parts = entry[p].parts /\ u.deferred = entry[p].deferred
      BY <2>2, EntryAlone
    <2> QED BY <2>1, <2>2, TurnOrigin
  <1> QED BY <1>1 DEF ApartInv

-----------------------------------------------------------------------------
(* The flags of the chat.                                                  *)

\* Somebody is there to take the flags back.
LEMMA LockStep ==
    ASSUME StateInv, LockInv, Next
    PROVE  LockInv'
  <1>0. /\ PageInv /\ BufferInv /\ ScanInv /\ TurnInv
        /\ entry \in [Participants -> Entries]
    BY DEF StateInv, BufferInv
  <1> DEFINE Active(t) == t.stage \in {"running", "sent", "closing"}
             SomeActive == \E t \in flight : Active(t)
             Holder == \/ scan.phase = "forward"
                       \/ \E p \in Participants : entry[p].state # "none"
                       \/ flight # {}
                       \/ skipped
  <1>1. /\ chatLocked = responding /\ chatLocked \in BOOLEAN /\ responding \in BOOLEAN
        /\ busy => SomeActive
        /\ chatLocked \/ responding => Holder
    BY DEF LockInv, StateInv, FlagInv
  <1>2. ASSUME busy' => busy, flight \subseteq flight', UNCHANGED <<chatLocked, responding, skipped>>,
               scan.phase = "forward" => scan'.phase = "forward",
               \/ flight' # {}
               \/ \A p \in Participants : entry'[p].state = entry[p].state
        PROVE  LockInv'
    BY <1>1, <1>2 DEF LockInv
  <1>3. ASSUME busy' => busy, flight \subseteq flight', chatLocked' = FALSE, responding' = FALSE
        PROVE  LockInv'
    BY <1>1, <1>3 DEF LockInv
  <1>4. ASSUME UNCHANGED <<busy, flight, chatLocked, responding, skipped, entry>>,
               scan' = scan \/ scan.phase # "forward"
        PROVE  LockInv'
    BY <1>2, <1>4
  <1>5. ASSUME UNCHANGED <<busy, flight, chatLocked, responding, skipped>>,
               scan' = scan \/ scan.phase # "forward",
               \A p \in Participants : Marked(entry[p], entry'[p])
        PROVE  LockInv'
    BY <1>2, <1>5 DEF Marked
  <1> HIDE DEF Active, SomeActive, Holder
  <1>6. ASSUME NEW p \in Participants, DeadlineFires(p) \/ AgainFires(p) PROVE LockInv'
    <2>1. /\ entry[p].timer \in {"deadline", "again"}
          /\ entry' = [entry EXCEPT ![p].timer = "none", ![p].wanted = TRUE]
          /\ UNCHANGED <<busy, flight, chatLocked, responding, skipped>> /\ scan' = scan
      BY <1>6 DEF DeadlineFires, AgainFires, turnVars, lockVars, loopVars
    <2> QED BY <1>0, <1>5, <2>1, TimerMarks
  <1>7. ASSUME NEW p \in Participants, RetryFires(p) PROVE LockInv'
    <2>1. /\ flight' = flight \union {Turn(p, "gate", FALSE)}
          /\ UNCHANGED <<busy, chatLocked, responding, skipped, scan>>
      BY <1>7 DEF RetryFires, lockVars, loopVars
    <2> QED BY <1>2, <2>1
  <1>8. ASSUME NEW p \in Participants, FinalCheck(p) PROVE LockInv'
    <2>1. /\ \/ UNCHANGED <<entry, flight>>
             \/ /\ IsOpen(p) /\ flight' = flight
                /\ entry' = [entry EXCEPT ![p].wanted = FALSE, ![p].failing = FALSE,
                                ![p].timer = IF @ = "none" THEN "deadline" ELSE @]
             \/ flight' = flight \union {Turn(p, "gate", TRUE)}
          /\ UNCHANGED <<busy, chatLocked, responding, skipped>> /\ scan.phase = "closing"
      BY <1>8 DEF FinalCheck, lockVars
    <2> QED BY <1>0, <1>2, <1>4, <1>5, <2>1, PostponeMarks
  <1>9. CASE BlockedTick \/ EndScan
    <2>1. /\ UNCHANGED <<busy, flight, chatLocked, responding, skipped>>
          /\ scan' = scan \/ scan.phase # "forward"
          /\ entry' = entry \/ \E aged : RecordFailure(aged)
      BY <1>9 DEF BlockedTick, EndScan, turnVars, loopVars
    <2> QED BY <1>0, <1>4, <1>5, <2>1, FailureMarks
  <1>10. ASSUME NEW tooSoon \in BOOLEAN, Read(tooSoon) PROVE LockInv'
    <2> DEFINE admitted == {page[i] : i \in Admitted}
    <2>1. /\ entry' = [p \in Participants |-> Confirmed(p, admitted)]
          /\ flight' = flight \union {Turn(p, "gate", FALSE) : p \in {q \in Participants : Freezes(q, admitted)}}
          /\ UNCHANGED <<busy, chatLocked, responding, skipped>> /\ scan.phase = "reading"
      BY <1>10 DEF Read, lockVars
    <2> HIDE DEF admitted
    <2>2. CASE \E p \in Participants : Freezes(p, admitted)
      <3>1. flight' # {}
        BY <2>1, <2>2
      <3> QED BY <1>2, <2>1, <3>1
    <2>3. CASE \A p \in Participants : ~Freezes(p, admitted)
      <3>1. \A p \in Participants : entry'[p].state = entry[p].state
        BY <1>0, <2>1, <2>3, ReadEntry
      <3> QED BY <1>2, <2>1, <3>1
    <2> QED BY <2>2, <2>3
  <1>11. CASE Forward
    <2>1. /\ UNCHANGED <<busy, flight>> /\ scan' = [scan EXCEPT !.phase = "forward"]
          /\ chatLocked' = TRUE /\ responding' = TRUE
      BY <1>11 DEF Forward, turnVars
    <2>2. scan'.phase = "forward"
      BY <1>0, <2>1 DEF ScanInv, Scans
    <2> QED BY <1>1, <2>1, <2>2 DEF LockInv, SomeActive, Active
  <1>12. CASE Handed
    <2> DEFINE p == page[NextRow]
    <2>1. p \in Participants /\ NextRow \in Rows
      BY <1>0, <1>12, NextRowFacts DEF Handed
    <2>2. /\ entry' = [entry EXCEPT ![p] = Schedule(entry[p], NextRow)]
          /\ UNCHANGED <<busy, flight, chatLocked, responding>>
      BY <1>12 DEF Handed, turnVars
    <2>3. Legal(entry[p]) /\ entry[p].state \in {"none", "open", "frozen"}
      BY <1>0, <2>1 DEF BufferInv, Legal, Entries
    <2>4. Takes(entry[p], Schedule(entry[p], NextRow), {} \union {NextRow})
      BY <2>1, <2>3, TakesNothing, ScheduleTakes
    <2>5. Schedule(entry[p], NextRow).state # "none"
      <3> PICK e : e = entry[p]
        OBVIOUS
      <3> PICK f : f = Schedule(entry[p], NextRow)
        OBVIOUS
      <3>1. Takes(e, f, {} \union {NextRow}) /\ Legal(e)
        BY <2>3, <2>4
      <3>2. CASE e.state = "frozen"
        BY <3>1, <3>2 DEF Takes
      <3>3. CASE e.state # "frozen" /\ f # e
        BY <3>1, <3>3 DEF Takes
      <3>4. CASE e.state # "frozen" /\ f = e
        <4>1. NextRow \in ToSet(e.parts)
          BY <3>1, <3>4 DEF Takes
        <4>2. e.state # "none"
          BY <3>1, <4>1, EmptySeq DEF Legal, Absent, ToSet
        <4> QED BY <3>4, <4>2
      <3> QED BY <3>2, <3>3, <3>4
    <2>6. entry'[p].state # "none"
      BY <1>0, <2>1, <2>2, <2>5
    <2> HIDE DEF p
    <2> QED BY <1>1, <2>1, <2>2, <2>6 DEF LockInv, SomeActive, Active
  <1>13. CASE ForwardFails
    <2>1. UNCHANGED <<busy, flight>> /\ chatLocked' = FALSE /\ responding' = FALSE
      BY <1>13 DEF ForwardFails, Frees, turnVars
    <2> QED BY <1>3, <2>1
  <1>14. ASSUME NEW t \in flight, GateBlocks(t) PROVE LockInv'
    <2>1. /\ flight' = flight \ {t} /\ chatLocked' = FALSE /\ responding' = FALSE
          /\ busy' = busy /\ t.stage = "gate"
      BY <1>14 DEF GateBlocks, Frees
    <2>2. SomeActive => SomeActive'
      BY <2>1 DEF SomeActive, Active
    <2> QED BY <1>1, <2>1, <2>2 DEF LockInv, SomeActive, Active
  <1>15. ASSUME NEW t \in flight, GateOpens(t) PROVE LockInv'
    <2>1. PICK r : r = [t EXCEPT !.stage = "running"]
      OBVIOUS
    <2>2. r.stage = "running" /\ t.stage = "gate"
      BY <1>0, <1>15, <2>1 DEF TurnInv, Turns, GateOpens
    <2>3. /\ UNCHANGED <<entry, chatLocked, responding, scan>>
          /\ \/ /\ busy' = busy /\ flight' = flight \ {t}
                /\ \/ skipped' = (skipped \/ chatLocked)
                   \/ busy /\ skipped' = skipped
             \/ busy' = TRUE /\ flight' = (flight \ {t}) \union {r} /\ skipped' = skipped
      BY <1>15, <2>1 DEF GateOpens, Enter, Skipped, bufferVars, loopVars
    <2>4. CASE busy' = busy /\ flight' = flight \ {t}
      <3>1. busy => SomeActive'
        BY <1>1, <2>2, <2>4 DEF SomeActive, Active
      <3>2. CASE busy
        BY <1>1, <2>3, <3>1, <3>2 DEF LockInv, SomeActive, Active
      <3>3. CASE ~busy
        <4>1. skipped' = (skipped \/ chatLocked)
          BY Zenon, <2>3, <2>4, <3>3
        <4>2. chatLocked => skipped'
          BY <4>1
        <4>3. /\ chatLocked' = chatLocked /\ responding' = responding
              /\ ~busy' /\ (chatLocked' \/ responding' => skipped')
          BY Zenon, <1>1, <2>3, <2>4, <3>3, <4>2
        <4> QED BY Zenon, <1>1, <4>3 DEF LockInv
      <3> QED BY <3>2, <3>3
    <2>5. CASE flight' = (flight \ {t}) \union {r}
      <3>1. r \in flight' /\ r.stage \in {"running", "sent", "closing"}
        BY <2>2, <2>5
      <3> QED BY <1>1, <2>3, <3>1 DEF LockInv
    <2> QED BY <2>3, <2>4, <2>5
  <1>16. ASSUME NEW t \in flight, Reply(t) \/ Succeeds(t) PROVE LockInv'
    <2>1. PICK r : r = [t EXCEPT !.stage = "sent"]
      OBVIOUS
    <2>2. PICK v : v = [t EXCEPT !.stage = "closing", !.deferred = <<>>]
      OBVIOUS
    <2>3. r.stage = "sent" /\ v.stage = "closing"
      BY <1>0, <2>1, <2>2 DEF TurnInv, Turns
    <2>4. (r \in flight' \/ v \in flight') /\ UNCHANGED <<chatLocked, responding>>
      BY <1>16, <2>1, <2>2 DEF Reply, Succeeds, lockVars
    <2> QED BY <1>1, <2>3, <2>4 DEF LockInv
  <1>17. ASSUME NEW t \in flight, Closes(t) \/ Fails(t) PROVE LockInv'
    <2>1. busy' = FALSE /\ chatLocked' = FALSE /\ responding' = FALSE
      BY <1>17 DEF Closes, Fails, Frees
    <2> QED BY <2>1 DEF LockInv
  <1>18. ASSUME NEW p \in Participants, Drain(p) PROVE LockInv'
    <2>1. PICK r : r = [Head(parked[p]) EXCEPT !.stage = "running"]
      OBVIOUS
    <2>2. /\ UNCHANGED <<entry, chatLocked, responding, scan>>
          /\ \/ UNCHANGED <<busy, flight>> /\ skipped' \in {skipped, skipped \/ chatLocked}
             \/ parked[p] # <<>> /\ flight' = flight \union {r}
      BY <1>18, <2>1 DEF Drain, Skipped, bufferVars, loopVars
    <2>3. CASE UNCHANGED <<busy, flight>> /\ skipped' \in {skipped, skipped \/ chatLocked}
      BY <1>1, <2>2, <2>3 DEF LockInv, SomeActive, Active
    <2>4. CASE parked[p] # <<>> /\ flight' = flight \union {r}
      <3>1. Head(parked[p]) \in Turns
        BY <1>0, <2>4, ParkedHead, LenProperties DEF TurnInv
      <3>2. r \in flight' /\ r.stage = "running"
        BY <2>1, <2>4, <3>1 DEF Turns
      <3> QED BY <1>1, <2>2, <3>2 DEF LockInv
    <2> QED BY <2>2, <2>3, <2>4
  <1>19. ASSUME NEW p \in Participants, PersonWrites(p) PROVE LockInv'
    BY <1>4, <1>19 DEF PersonWrites, bufferVars, turnVars, lockVars, loopVars
  <1>20. CASE OwnerWrites \/ StartScan \/ ReleaseStalePin \/ ReadFails \/ StartPass \/ SkipWrongChat
    BY <1>4, <1>20 DEF OwnerWrites, StartScan, ReleaseStalePin, ReadFails, StartPass,
       SkipWrongChat, bufferVars, turnVars, lockVars, loopVars
  <1>21. ASSUME NEW row \in failed, Forgets(row) PROVE LockInv'
    BY <1>4, <1>21 DEF Forgets, bufferVars, turnVars, lockVars, loopVars
  <1> QED BY <1>6, <1>7, <1>8, <1>9, <1>10, <1>11, <1>12, <1>13, <1>14, <1>15, <1>16,
             <1>17, <1>18, <1>19, <1>20, <1>21
         DEF Next, Listener, Pipeline

\* Only rows are settled or dropped.
LEMMA DoneStep ==
    ASSUME StateInv, DoneInv, Next
    PROVE  DoneInv'
  <1>1. ASSUME NEW t \in UnderWay, answered' \cup dropped' \subseteq answered \cup dropped \cup RowsOf(t)
        PROVE  DoneInv'
    BY <1>1, TurnPlace DEF DoneInv
  <1>2. ASSUME UNCHANGED <<answered, dropped>> PROVE DoneInv'
    BY <1>2 DEF DoneInv
  <1>3. ASSUME NEW t \in flight,
               GateBlocks(t) \/ GateOpens(t) \/ Reply(t) \/ Succeeds(t) \/ Closes(t) \/ Fails(t)
        PROVE  DoneInv'
    <2>1. answered' \cup dropped' \subseteq answered \cup dropped \cup RowsOf(t)
      BY <1>3 DEF GateBlocks, GateOpens, Enter, Skipped, Reply, Succeeds, Closes, Fails, RowsOf
    <2>2. t \in UnderWay
      BY DEF UnderWay
    <2> QED BY <1>1, <2>1, <2>2
  <1>4. ASSUME NEW p \in Participants, Drain(p) PROVE DoneInv'
    <2>1. \/ UNCHANGED <<answered, dropped>>
          \/ /\ parked[p] # <<>>
             /\ answered' \cup dropped' \subseteq answered \cup dropped \cup RowsOf(Head(parked[p]))
      BY <1>4 DEF Drain, Skipped
    <2>2. parked[p] # <<>> => Head(parked[p]) \in UnderWay
      BY ParkedHead DEF UnderWay, ToSet, StateInv
    <2> QED BY <1>1, <1>2, <2>1, <2>2
  <1>5. ASSUME NEW p \in Participants,
               PersonWrites(p) \/ DeadlineFires(p) \/ AgainFires(p) \/ RetryFires(p) \/ FinalCheck(p)
        PROVE  DoneInv'
    BY <1>2, <1>5 DEF PersonWrites, DeadlineFires, AgainFires, RetryFires, FinalCheck, turnVars
  <1>6. CASE OwnerWrites \/ StartScan \/ BlockedTick \/ ReleaseStalePin \/ (\E b \in BOOLEAN : Read(b))
               \/ ReadFails \/ StartPass \/ SkipWrongChat \/ Forward \/ Handed \/ ForwardFails \/ EndScan
    BY <1>2, <1>6 DEF OwnerWrites, StartScan, BlockedTick, ReleaseStalePin, Read, ReadFails,
       StartPass, SkipWrongChat, Forward, Handed, ForwardFails, EndScan, turnVars
  <1>7. ASSUME NEW row \in failed, Forgets(row) PROVE DoneInv'
    BY <1>2, <1>7 DEF Forgets, turnVars
  <1> QED BY <1>3, <1>4, <1>5, <1>6, <1>7 DEF Next, Listener, Pipeline


-----------------------------------------------------------------------------
(* The theorems.                                                           *)

IInv == StateInv /\ HeldInv /\ ApartInv /\ DoneInv /\ LockInv

\* Everything together holds in every state.
LEMMA Invariance == Spec => []IInv
  <1> DEFINE Rest == HeldInv /\ ApartInv /\ DoneInv /\ LockInv
  <1>1. Init => Rest
    <2> SUFFICES ASSUME Init PROVE Rest
      OBVIOUS
    <2>1. ToSet(<<>>) = {}
      BY EmptySeq DEF ToSet
    <2>2. /\ \A p \in Participants : ToSet(entry[p].parts) = {} /\ ToSet(entry[p].deferred) = {}
          /\ \A p \in Participants : DOMAIN parked[p] = {} /\ ToSet(parked[p]) = {}
      BY <2>1, EmptySeq DEF Init, Absent
    <2>3. HeldInv
      BY <2>2 DEF Init, HeldInv, Nowhere, SomeEntry, SomeDeferred, SomeFlight, SomeParked,
         InEntry, InDeferred
    <2>4. ApartInv
      BY <2>2 DEF Init, ApartInv, UnderWay
    <2>5. DoneInv /\ LockInv
      BY DEF Init, DoneInv, LockInv
    <2> QED BY <2>3, <2>4, <2>5
  <1>2. StateInv /\ Rest /\ [Next]_vars => Rest'
    <2> SUFFICES ASSUME StateInv, Rest, [Next]_vars PROVE Rest'
      OBVIOUS
    <2>1. CASE Next
      BY <2>1, HeldStep, ApartStep, DoneStep, LockStep
    <2>2. CASE UNCHANGED vars
      <3>1. UNCHANGED <<pageVars, bufferVars, turnVars, lockVars, loopVars, faults>>
        BY <2>2 DEF vars
      <3>2. UNCHANGED <<handed, entry, flight, parked, busy, answered, dropped, skipped,
                        chatLocked, responding, scan>>
        BY <3>1 DEF pageVars, bufferVars, turnVars, lockVars, loopVars
      <3>3. HeldInv'
        BY <3>2, HeldFrame
      <3>4. ApartInv' /\ DoneInv' /\ LockInv'
        BY <3>2 DEF ApartInv, UnderWay, DoneInv, LockInv
      <3> QED BY <3>3, <3>4
    <2> QED BY <2>1, <2>2
  <1> HIDE DEF Rest
  <1>3. Spec => []Rest
    BY <1>1, <1>2, StateHolds, PTL DEF Spec
  <1>4. StateInv /\ Rest => IInv
    BY DEF Rest, IInv
  <1> QED BY <1>3, <1>4, StateHolds, PTL

\* The variables have their types: in particular the anchor and the rows handed
\* over are on the page, a pass only has rows of the page to forward, and only
\* rows that were handed over are settled or dropped.
THEOREM TypeCorrect == Spec => []TypeOK
  <1>1. IInv => TypeOK
    <2> SUFFICES ASSUME IInv PROVE TypeOK
      OBVIOUS
    <2>0. PageInv /\ BufferInv /\ ScanInv /\ TurnInv /\ FlagInv /\ HeldInv /\ DoneInv
      BY DEF IInv, StateInv
    <2>1. page \in Seq(Participants \cup {Emily}) /\ anchor \in 0..Len(page)
          /\ handed \subseteq DOMAIN page /\ failed \subseteq DOMAIN page
      BY <2>0 DEF PageInv
    <2>2. entry \in [Participants -> Entries] /\ cleanReads \in [Participants -> 0..2]
      BY <2>0 DEF BufferInv
    <2>3. flight \subseteq Turns /\ parked \in [Participants -> Seq(Turns)]
      BY <2>0 DEF TurnInv
    <2>4. /\ drains \in [Participants -> Nat]
          /\ {busy, chatLocked, responding, pinned, skipped, loopRunning} \subseteq BOOLEAN
          /\ faults \in 0..MaxFaults
      BY <2>0 DEF FlagInv
    <2>5. /\ scan.phase \in {"idle", "reading", "queued", "pass", "forward", "closing"}
          /\ scan.queue \subseteq DOMAIN page
      BY <2>0 DEF ScanInv, Scans, Phases
    <2>6. (answered \cup dropped) \subseteq handed
      BY <2>0 DEF DoneInv, HeldInv, Nowhere
    <2> QED BY <2>1, <2>2, <2>3, <2>4, <2>5, <2>6 DEF TypeOK
  <1> QED BY <1>1, Invariance, PTL

\* In the terms of the property: a row that is nowhere has no place, ...
LEMMA NowhereAt ==
    ASSUME NEW i, Nowhere(i)
    PROVE  HeldAt(i) = {}
  BY DEF Nowhere, HeldAt, SomeEntry, SomeDeferred, SomeFlight, SomeParked,
     InEntry, InDeferred, InFlight, InParked

\* ... and one that is held once has one.
LEMMA OnceAt ==
    ASSUME NEW i, Once(i)
    PROVE  \E x : HeldAt(i) = {x}
  <1> USE DEF HeldAt, SomeEntry, SomeDeferred, SomeFlight, SomeParked,
          InEntry, InDeferred, InFlight, InParked
  <1>1. ASSUME NEW p \in Participants, OnlyEntry(i, p) PROVE HeldAt(i) = {<<"entry", p>>}
    BY <1>1 DEF OnlyEntry
  <1>2. ASSUME NEW p \in Participants, OnlyDeferred(i, p) PROVE HeldAt(i) = {<<"deferred", p>>}
    BY <1>2 DEF OnlyDeferred
  <1>3. ASSUME NEW t \in flight, OnlyFlight(i, t) PROVE HeldAt(i) = {<<"flight", t>>}
    BY <1>3 DEF OnlyFlight
  <1>4. ASSUME NEW p \in Participants, NEW k \in DOMAIN parked[p], OnlyParked(i, p, k)
        PROVE  HeldAt(i) = {<<"parked", p, k>>}
    <2> DEFINE P(q) == {<<"parked", q, l>> : l \in {n \in DOMAIN parked[q] : i \in RowsOf(parked[q][n])}}
    <2>1. P(p) = {<<"parked", p, k>>} /\ \A q \in Participants : q # p => P(q) = {}
      BY <1>4 DEF OnlyParked
    <2>2. HeldAt(i) = UNION {P(q) : q \in Participants}
      BY <1>4 DEF OnlyParked
    <2> HIDE DEF P, HeldAt
    <2> QED BY <2>1, <2>2
  <1>5. ASSUME OnlySettled(i) PROVE HeldAt(i) = {<<"answered">>} \/ HeldAt(i) = {<<"dropped">>}
    <2>1. HeldAt(i) = {<<"answered">> : r \in {i} \cap answered} \cup {<<"dropped">> : r \in {i} \cap dropped}
      <3> DEFINE E == {<<"entry", p>> : p \in {q \in Participants : i \in ToSet(entry[q].parts)}}
                 D == {<<"deferred", p>> : p \in {q \in Participants : i \in ToSet(entry[q].deferred)}}
                 F == {<<"flight", t>> : t \in {u \in flight : i \in RowsOf(u)}}
                 P == UNION {{<<"parked", p, k>> : k \in {n \in DOMAIN parked[p] : i \in RowsOf(parked[p][n])}}
                               : p \in Participants}
                 A == {<<"answered">> : r \in {i} \cap answered}
                 B == {<<"dropped">> : r \in {i} \cap dropped}
      <3>1. E = {} /\ D = {} /\ F = {} /\ P = {}
        BY <1>5 DEF OnlySettled
      <3>2. HeldAt(i) = E \cup D \cup F \cup P \cup A \cup B
        BY Zenon DEF HeldAt
      <3> HIDE DEF E, D, F, P, A, B, HeldAt
      <3>3. HeldAt(i) = A \cup B
        BY <3>1, <3>2
      <3> QED BY <3>3 DEF A, B
    <2>2. CASE i \in answered /\ i \notin dropped
      <3>1. {i} \cap answered = {i} /\ {i} \cap dropped = {}
        BY <2>2
      <3> HIDE DEF HeldAt
      <3> QED BY <2>1, <3>1
    <2>3. CASE i \notin answered /\ i \in dropped
      <3>1. {i} \cap answered = {} /\ {i} \cap dropped = {i}
        BY <2>3
      <3> HIDE DEF HeldAt
      <3> QED BY <2>1, <3>1
    <2> QED BY <1>5, <2>2, <2>3 DEF OnlySettled
  <1> HIDE DEF HeldAt
  <1> QED BY <1>1, <1>2, <1>3, <1>4, <1>5 DEF Once

\* Nobody forgets an entry: an open one has a timer, or asks for an observation
\* of the listener; one that was put back has its retry timer.
EntryAwaited ==
    \A p \in Participants :
        /\ IsOpen(p) => entry[p].wanted \/ entry[p].timer \in {"deadline", "again"}
        /\ entry[p].state = "frozen" => entry[p].timer = "retry"

\* Whatever fails, is postponed, deferred or put back, every entry is awaited: the
\* deadline and poll timers, the final observation and the settlement's retry timer
\* leave no entry that nothing would touch again.
THEOREM AwaitedTheorem == Spec => []EntryAwaited
  <1>1. StateInv => EntryAwaited
    <2> SUFFICES ASSUME StateInv, NEW p \in Participants
                 PROVE  /\ IsOpen(p) => entry[p].wanted \/ entry[p].timer \in {"deadline", "again"}
                        /\ entry[p].state = "frozen" => entry[p].timer = "retry"
      BY DEF EntryAwaited
    <2>1. Legal(entry[p]) /\ entry[p] \in Entries
      BY DEF StateInv, BufferInv, Legal
    <2> QED BY <2>1 DEF Legal, IsOpen, Entries, Timers
  <1> QED BY <1>1, StateHolds, PTL

\* A row the listener handed over is in exactly one place, any other is nowhere.
THEOREM HeldTheorem == Spec => []HeldExactlyOnce
  <1>1. IInv => HeldExactlyOnce
    <2> SUFFICES ASSUME IInv, NEW i \in DOMAIN page
                 PROVE  Cardinality(HeldAt(i)) = IF i \in handed THEN 1 ELSE 0
      BY DEF HeldExactlyOnce
    <2>1. i \in Rows
      BY PageRows DEF IInv, StateInv
    <2>2. CASE i \in handed
      <3>1. PICK x : HeldAt(i) = {x}
        BY <2>1, <2>2, OnceAt DEF IInv, HeldInv
      <3> QED BY <2>2, <3>1, FS_Singleton
    <2>3. CASE i \notin handed
      BY <2>1, <2>3, NowhereAt, FS_EmptySet DEF IInv, HeldInv
    <2> QED BY <2>2, <2>3
  <1> QED BY <1>1, Invariance, PTL

\* The chat is locked or marked as being answered only while a handoff runs or a
\* row that was handed over is unsettled, unless a turn was skipped as a duplicate
\* since the chat was last freed.
THEOREM LockTheorem == Spec => []LockHasTurn
  <1>1. IInv => LockHasTurn
    <2> SUFFICES ASSUME IInv, chatLocked \/ responding, scan.phase # "forward", ~skipped
                 PROVE  \E i \in handed : i \notin answered \cup dropped
      BY DEF LockHasTurn
    <2>0. StateInv /\ HeldInv /\ BufferInv /\ LockInv
      BY DEF IInv, StateInv
    <2>1. CASE \E p \in Participants : entry[p].state # "none"
      <3>1. PICK p \in Participants : entry[p].state # "none"
        BY <2>1
      <3>2. entry[p].parts \in Seq(Rows) /\ entry[p].parts # <<>>
        BY <2>0, <3>1 DEF BufferInv, Legal, Entries
      <3>3. PICK i : i \in ToSet(entry[p].parts)
        BY <3>2, HasRow
      <3>4. i \in Rows /\ SomeEntry(i)
        BY <2>0, <3>3, EntryAlone DEF SomeEntry, InEntry
      <3>5. Once(i) /\ i \in handed
        BY <2>0, <3>4 DEF HeldInv, Nowhere
      <3> QED BY <3>4, <3>5 DEF Once, OnlyEntry, OnlyDeferred, OnlyFlight, OnlyParked, OnlySettled
    <2>2. CASE flight # {}
      <3>1. PICK t \in flight : TRUE
        BY <2>2
      <3>2. t \in UnderWay
        BY DEF UnderWay
      <3>3. t.parts \in Seq(Rows) /\ t.parts # <<>>
        BY <2>0, <3>2, TurnPlace DEF Turns
      <3>4. PICK i : i \in ToSet(t.parts)
        BY <3>3, HasRow
      <3>5. i \in Rows /\ SomeFlight(i)
        BY <2>0, <3>2, <3>4, TurnPlace DEF SomeFlight, InFlight
      <3>6. Once(i) /\ i \in handed
        BY <2>0, <3>5 DEF HeldInv, Nowhere
      <3> QED BY <3>5, <3>6 DEF Once, OnlyEntry, OnlyDeferred, OnlyFlight, OnlyParked, OnlySettled
    <2> QED BY <2>0, <2>1, <2>2 DEF LockInv
  <1> QED BY <1>1, Invariance, PTL

\* A step that closes an open turn has its evidence.
LEMMA FreezeStep ==
    ASSUME StateInv, Next, NEW p \in Participants, IsOpen(p), entry'[p].state # "open"
    PROVE  \/ ReplyBoundary(p)
           \/ cleanReads'[p] = 2
           \/ entry[p].wanted /\ cleanReads[p] # 0
  <1>0. /\ PageInv /\ BufferInv /\ ScanInv /\ TurnInv
        /\ entry \in [Participants -> Entries] /\ entry[p].state = "open"
    BY DEF StateInv, BufferInv, IsOpen
  <1> DEFINE Goal == \/ ReplyBoundary(p)
                     \/ cleanReads'[p] = 2
                     \/ entry[p].wanted /\ cleanReads[p] # 0
  <1> SUFFICES Goal
    OBVIOUS
  <1> HIDE DEF Goal
  <1>1. ASSUME entry'[p].state = entry[p].state PROVE Goal
    BY <1>0, <1>1
  <1>2. ASSUME entry' = entry PROVE Goal
    BY <1>1, <1>2
  <1>3. ASSUME \A q \in Participants : Marked(entry[q], entry'[q]) PROVE Goal
    BY <1>1, <1>3 DEF Marked
  <1>4. ASSUME NEW q \in Participants, NEW f, NEW R, Takes(entry[q], f, R),
               entry' = [entry EXCEPT ![q] = f]
        PROVE  Goal
    <2>1. CASE p = q
      BY <1>0, <1>4, <2>1 DEF Takes
    <2>2. CASE p # q
      BY <1>0, <1>1, <1>4, <2>2
    <2> QED BY <2>1, <2>2
  <1>5. ASSUME NEW q \in Participants, DeadlineFires(q) \/ AgainFires(q) PROVE Goal
    BY <1>0, <1>3, <1>5, TimerMarks DEF DeadlineFires, AgainFires
  <1>6. ASSUME NEW q \in Participants, RetryFires(q) PROVE Goal
    <2>1. entry[q].timer = "retry" /\ entry' = [entry EXCEPT ![q] = Absent]
      BY <1>6 DEF RetryFires
    <2>2. q # p
      BY <1>0, <2>1 DEF BufferInv, Legal
    <2> QED BY <1>0, <1>1, <2>1, <2>2
  <1>7. ASSUME NEW q \in Participants, FinalCheck(q) PROVE Goal
    <2>1. \/ entry' = entry
          \/ /\ IsOpen(q)
             /\ entry' = [entry EXCEPT ![q].wanted = FALSE, ![q].failing = FALSE,
                             ![q].timer = IF @ = "none" THEN "deadline" ELSE @]
          \/ /\ entry' = [entry EXCEPT ![q] = Absent]
             /\ entry[q].wanted /\ q \notin scan.admitted /\ scan.read
      BY <1>7 DEF FinalCheck
    <2>2. CASE /\ entry' = [entry EXCEPT ![q] = Absent]
               /\ entry[q].wanted /\ q \notin scan.admitted /\ scan.read
      <3>1. CASE q = p
        BY <1>0, <2>2, <3>1 DEF ScanInv, Goal
      <3>2. CASE q # p
        BY <1>0, <1>1, <2>2, <3>2
      <3> QED BY <3>1, <3>2
    <2> QED BY <1>0, <1>2, <1>3, <2>1, <2>2, PostponeMarks
  <1>8. ASSUME NEW tooSoon \in BOOLEAN, Read(tooSoon) PROVE Goal
    <2> DEFINE admitted == {page[i] : i \in Admitted}
    <2>1. /\ entry'[p] = Confirmed(p, admitted)
          /\ cleanReads'[p] =
               IF p \in admitted THEN 0 ELSE IF cleanReads[p] < 2 THEN cleanReads[p] + 1 ELSE 2
      BY <1>8 DEF Read
    <2> HIDE DEF admitted
    <2>2. Freezes(p, admitted)
      BY <1>0, <2>1, ReadEntry
    <2>3. CASE ReplyBoundary(p)
      BY <2>3 DEF Goal
    <2>4. CASE p \notin admitted /\ entry[p].quiet
      <3>1. cleanReads[p] \in 1..2
        BY <1>0, <2>4 DEF BufferInv
      <3>2. cleanReads'[p] = 2
        BY <2>1, <2>4, <3>1
      <3> QED BY <3>2 DEF Goal
    <2> QED BY <2>2, <2>3, <2>4 DEF Freezes
  <1>9. CASE BlockedTick \/ EndScan
    <2>1. entry' = entry \/ \E aged : RecordFailure(aged)
      BY <1>9 DEF BlockedTick, EndScan
    <2> QED BY <1>0, <1>2, <1>3, <2>1, FailureMarks
  <1>10. CASE Handed
    <2> DEFINE q == page[NextRow]
    <2>1. q \in Participants /\ NextRow \in Rows
      BY <1>0, <1>10, NextRowFacts DEF Handed
    <2>2. entry' = [entry EXCEPT ![q] = Schedule(entry[q], NextRow)]
      BY <1>10 DEF Handed
    <2>3. Legal(entry[q]) /\ entry[q].state \in {"none", "open", "frozen"}
      BY <1>0, <2>1 DEF BufferInv, Legal, Entries
    <2>4. Takes(entry[q], Schedule(entry[q], NextRow), {} \union {NextRow})
      BY <2>1, <2>3, TakesNothing, ScheduleTakes
    <2> HIDE DEF q
    <2> QED BY <1>4, <2>1, <2>2, <2>4
  <1>11. ASSUME NEW t \in flight, Succeeds(t) PROVE Goal
    <2>1. t.by \in Participants /\ t.deferred \in Seq(Rows)
      BY <1>0 DEF TurnInv, Turns
    <2>2. entry' = [entry EXCEPT ![t.by] = Replay(entry[t.by], t.deferred)]
      BY <1>11 DEF Succeeds
    <2>3. Takes(entry[t.by], Replay(entry[t.by], t.deferred), ToSet(t.deferred))
      BY <1>0, <2>1, ReplayTakes DEF BufferInv
    <2> QED BY <1>4, <2>1, <2>2, <2>3
  <1>12. ASSUME NEW t \in flight, Fails(t) PROVE Goal
    <2>1. t.by \in Participants
      BY <1>0 DEF TurnInv, Turns
    <2>2. \/ entry' = entry
          \/ entry[t.by].state = "none" /\ entry' = [entry EXCEPT ![t.by] = Restored(t)]
      BY <1>12 DEF Fails
    <2>3. entry'[p] = entry[p]
      BY <1>0, <2>1, <2>2
    <2> QED BY <1>1, <2>3
  <1>13. ASSUME NEW q \in Participants, PersonWrites(q) \/ Drain(q) PROVE entry' = entry
    BY <1>13 DEF PersonWrites, Drain, bufferVars
  <1>14. ASSUME NEW t \in flight, GateBlocks(t) \/ GateOpens(t) \/ Reply(t) \/ Closes(t)
         PROVE  entry' = entry
    BY <1>14 DEF GateBlocks, GateOpens, Reply, Closes, bufferVars
  <1>15. CASE OwnerWrites \/ StartScan \/ ReleaseStalePin \/ ReadFails \/ StartPass
                \/ SkipWrongChat \/ Forward \/ ForwardFails
    BY <1>2, <1>15 DEF OwnerWrites, StartScan, ReleaseStalePin, ReadFails, StartPass,
       SkipWrongChat, Forward, ForwardFails, bufferVars
  <1>16. ASSUME NEW row \in failed, Forgets(row) PROVE entry' = entry
    BY <1>16 DEF Forgets, bufferVars
  <1> QED BY <1>2, <1>5, <1>6, <1>7, <1>8, <1>9, <1>10, <1>11, <1>12, <1>13, <1>14, <1>15, <1>16
         DEF Next, Listener, Pipeline

\* An open turn closes only on evidence from the page: a reply behind one of its
\* rows, two complete reads in a row without its participant, or one such read
\* after its deadline asked for it.
THEOREM FreezeTheorem == Spec => FreezeNeedsQuiet
  <1>1. StateInv /\ [Next]_vars =>
          [\A p \in Participants : IsOpen(p) /\ entry'[p].state # "open" =>
              \/ ReplyBoundary(p)
              \/ cleanReads'[p] = 2
              \/ entry[p].wanted /\ cleanReads[p] # 0]_vars
    BY FreezeStep
  <1> QED BY <1>1, StateHolds, PTL DEF Spec, FreezeNeedsQuiet

-----------------------------------------------------------------------------
(* The promise.                                                            *)

\* What an entry has of rows that wait and of closed turns.
Waits(e) == (IF e.state = "open" THEN ToSet(e.parts) ELSE {}) \union ToSet(e.deferred)
Frozen(e) == IF e.state = "frozen" THEN {ToSet(e.parts)} ELSE {}

\* Row i waits; the set S is a closed turn.
IsWaiting(i) ==
    \/ \E p \in Participants : i \in Waits(entry[p])
    \/ \E t \in UnderWay : i \in ToSet(t.deferred)
IsClosed(S) ==
    \/ \E p \in Participants : S \in Frozen(entry[p])
    \/ \E t \in UnderWay : S = ToSet(t.parts)

\* The participant behind the rows of an entry or a turn wrote them.
OnPage(i, p) == i \in DOMAIN page /\ page[i] = p
AuthorInv ==
    /\ \A p \in Participants : \A i \in ToSet(entry[p].parts) \union ToSet(entry[p].deferred) :
          OnPage(i, p)
    /\ \A t \in UnderWay : \A i \in RowsOf(t) : OnPage(i, t.by)

\* Waiting and Closed, element by element, in this state ...
LEMMA Standing ==
    /\ \A i : i \in Waiting <=> IsWaiting(i)
    /\ \A S : S \in Closed <=> IsClosed(S)
  BY DEF Waiting, Closed, IsWaiting, IsClosed, Waits, Frozen, IsOpen

\* ... and the next.
LEMMA StandingNext ==
    /\ \A i : i \in Waiting' <=> IsWaiting(i)'
    /\ \A S : S \in Closed' <=> IsClosed(S)'
  BY DEF Waiting, Closed, IsWaiting, IsClosed, Waits, Frozen, IsOpen

\* The page stays, or one row is written: ...
PageStays ==
    \/ page' = page
    \/ \E a \in Participants \union {Emily} : page' = Append(page, a)
\* ... what is on it stays.
LEMMA OnPageStays ==
    ASSUME PageInv, PageStays
    PROVE  \A i, p : OnPage(i, p) => OnPage(i, p)'
  BY PageGrows DEF PageStays, OnPage

\* Turns as before, up to their stage.
Alike(t, u) == u.by = t.by /\ u.parts = t.parts /\ u.deferred = t.deferred
TurnsAlike ==
    /\ \A u \in UnderWay' : \E t \in UnderWay : Alike(t, u)
    /\ \A t \in UnderWay : \E u \in UnderWay' : Alike(t, u)
EntryAlike(e, f) == f.state = e.state /\ f.parts = e.parts /\ f.deferred = e.deferred

\* A step that only marks entries and moves turns on leaves all as it stands.
LEMMA AlikeKept ==
    ASSUME StateInv, AuthorInv, PageStays, TurnsAlike,
           \A p \in Participants : EntryAlike(entry[p], entry'[p])
    PROVE  AuthorInv' /\ Waiting' = Waiting /\ Closed' = Closed
  <1>1. \A i : IsWaiting(i)' <=> IsWaiting(i)
    BY DEF IsWaiting, Waits, TurnsAlike, Alike, EntryAlike
  <1>2. \A S : IsClosed(S)' <=> IsClosed(S)
    BY DEF IsClosed, Frozen, TurnsAlike, Alike, EntryAlike
  <1>3. AuthorInv'
    BY OnPageStays DEF AuthorInv, StateInv, TurnsAlike, Alike, EntryAlike, RowsOf
  <1> QED BY <1>1, <1>2, <1>3, Standing, StandingNext

\* Turn u is the one that entry e of participant p leaves as.
LeavesAs(p, u) == u.by = p /\ u.parts = entry[p].parts /\ u.deferred = entry[p].deferred

\* The rows of an entry are in this entry alone.
LEMMA EntryRowsAlone ==
    ASSUME StateInv, HeldInv, NEW p \in Participants, NEW i \in ToSet(entry[p].parts)
    PROVE  /\ \A q \in Participants : i \in ToSet(entry[q].parts) => q = p
           /\ \A q \in Participants : i \notin ToSet(entry[q].deferred)
           /\ \A t \in UnderWay : i \notin RowsOf(t)
           /\ i \in handed /\ i \in Rows
  <1>1. i \in Rows /\ InEntry(i, p)
    BY EntryAlone DEF InEntry
  <1>2. Once(i) /\ i \in handed
    BY <1>1 DEF HeldInv, Nowhere, SomeEntry
  <1>3. \E q \in Participants : OnlyEntry(i, q)
    BY <1>1, <1>2 DEF Once, OnlyDeferred, OnlyFlight, OnlyParked, OnlySettled, SomeEntry
  <1>4. ASSUME NEW t \in UnderWay, i \in RowsOf(t) PROVE FALSE
    BY <1>1, <1>4, RowsAlone DEF InEntry
  <1> QED BY <1>1, <1>2, <1>3, <1>4 DEF OnlyEntry, InEntry, InDeferred, SomeDeferred

\* The entries of some participants leave as turns.
LEMMA FlushKept ==
    ASSUME StateInv, HeldInv, AuthorInv, page' = page, NEW F \in SUBSET Participants,
           \A p \in F : entry[p].state # "none" /\ entry'[p] = Absent,
           \A p \in Participants \ F : EntryAlike(entry[p], entry'[p]),
           UnderWay \subseteq UnderWay',
           \A u \in UnderWay' : u \in UnderWay \/ \E p \in F : LeavesAs(p, u),
           \A p \in F : \E u \in UnderWay' : LeavesAs(p, u)
    PROVE  /\ AuthorInv'
           /\ Waiting' = Waiting \ (UNION {ToSet(entry[p].parts) : p \in F})
           /\ Closed' = Closed \union {ToSet(entry[p].parts) : p \in F}
  <1>1. ToSet(Absent.parts) = {} /\ ToSet(Absent.deferred) = {} /\ Absent.state = "none"
    BY EmptySeq DEF Absent, ToSet
  <1>2. ASSUME NEW i PROVE IsWaiting(i)' <=> IsWaiting(i) /\ ~\E p \in F : i \in ToSet(entry[p].parts)
    <2>1. ASSUME IsWaiting(i)' PROVE IsWaiting(i) /\ ~\E p \in F : i \in ToSet(entry[p].parts)
      <3>1. ASSUME NEW p \in Participants, i \in Waits(entry'[p])
            PROVE  IsWaiting(i) /\ ~\E q \in F : i \in ToSet(entry[q].parts)
        <4>1. p \notin F /\ i \in Waits(entry[p])
          BY <1>1, <3>1 DEF Waits, EntryAlike
        <4> QED BY <4>1, EntryRowsAlone DEF IsWaiting, Waits
      <3>2. ASSUME NEW u \in UnderWay', i \in ToSet(u.deferred)
            PROVE  IsWaiting(i) /\ ~\E q \in F : i \in ToSet(entry[q].parts)
        <4>1. CASE u \in UnderWay
          BY <3>2, <4>1, EntryRowsAlone DEF IsWaiting, RowsOf
        <4>2. CASE \E p \in F : LeavesAs(p, u)
          BY <3>2, <4>2, EntryRowsAlone DEF IsWaiting, LeavesAs, Waits
        <4> QED BY <4>1, <4>2
      <3> QED BY <2>1, <3>1, <3>2 DEF IsWaiting
    <2>2. ASSUME IsWaiting(i), ~\E p \in F : i \in ToSet(entry[p].parts) PROVE IsWaiting(i)'
      <3>1. ASSUME NEW p \in F, i \in Waits(entry[p]) PROVE IsWaiting(i)'
        <4>1. i \in ToSet(entry[p].deferred)
          BY <2>2, <3>1 DEF Waits
        <4> QED BY <4>1 DEF IsWaiting, LeavesAs
      <3>2. ASSUME NEW p \in Participants \ F, i \in Waits(entry[p]) PROVE IsWaiting(i)'
        BY <3>2 DEF IsWaiting, Waits, EntryAlike
      <3> QED BY <2>2, <3>1, <3>2 DEF IsWaiting
    <2> QED BY <2>1, <2>2
  <1>3. ASSUME NEW S PROVE IsClosed(S)' <=> IsClosed(S) \/ \E p \in F : S = ToSet(entry[p].parts)
    <2>1. ASSUME NEW p \in Participants
          PROVE  Frozen(entry'[p]) = IF p \in F THEN {} ELSE Frozen(entry[p])
      BY <1>1 DEF Frozen, EntryAlike
    <2>2. ASSUME NEW p \in F, S \in Frozen(entry[p]) PROVE S = ToSet(entry[p].parts)
      BY <2>2 DEF Frozen
    <2> QED BY <2>1, <2>2 DEF IsClosed, LeavesAs
  <1>4. AuthorInv'
    <2>1. \A i, p : OnPage(i, p)' <=> OnPage(i, p)
      BY DEF OnPage
    <2>2. ASSUME NEW p \in Participants
          PROVE  ToSet(entry'[p].parts) \union ToSet(entry'[p].deferred)
                   \subseteq ToSet(entry[p].parts) \union ToSet(entry[p].deferred)
      BY <1>1 DEF EntryAlike
    <2>3. ASSUME NEW u \in UnderWay', NEW i \in RowsOf(u) PROVE OnPage(i, u.by)
      <3>1. CASE u \in UnderWay
        BY <2>3, <3>1 DEF AuthorInv
      <3>2. CASE \E p \in F : LeavesAs(p, u)
        BY <2>3, <3>2 DEF AuthorInv, LeavesAs, RowsOf
      <3> QED BY <3>1, <3>2
    <2> QED BY <2>1, <2>2, <2>3 DEF AuthorInv
  <1> QED BY <1>2, <1>3, <1>4, Standing, StandingNext

\* A turn leaves for good.
LEMMA LeaveKept ==
    ASSUME StateInv, HeldInv, AuthorInv, page' = page, NEW t \in UnderWay,
           UnderWay' = UnderWay \ {t},
           \A p \in Participants : EntryAlike(entry[p], entry'[p])
    PROVE  /\ AuthorInv'
           /\ Waiting' = Waiting \ ToSet(t.deferred)
           /\ Closed' = Closed \ {ToSet(t.parts)}
  <1>1. /\ \A u \in UnderWay : RowsOf(u) = ToSet(u.parts) \union ToSet(u.deferred)
        /\ \A u \in UnderWay : ToSet(u.parts) # {}
    <2>1. \A u \in UnderWay : u \in Turns /\ u.parts # <<>>
      BY TurnPlace
    <2>2. \A u \in UnderWay : ToSet(u.parts) # {}
      BY <2>1, HasRow DEF Turns
    <2> QED BY <2>2 DEF RowsOf
  <1>2. ASSUME NEW i PROVE IsWaiting(i)' <=> IsWaiting(i) /\ i \notin ToSet(t.deferred)
    <2>1. \A p \in Participants : Waits(entry'[p]) = Waits(entry[p])
      BY DEF Waits, EntryAlike
    <2>2. ASSUME i \in ToSet(t.deferred)
          PROVE  /\ \A p \in Participants : i \notin Waits(entry[p])
                 /\ \A u \in UnderWay : i \in ToSet(u.deferred) => u = t
      BY <1>1, <2>2, RowsAlone DEF Waits
    <2> QED BY <2>1, <2>2 DEF IsWaiting
  <1>3. ASSUME NEW S PROVE IsClosed(S)' <=> IsClosed(S) /\ S # ToSet(t.parts)
    <2>1. \A p \in Participants : Frozen(entry'[p]) = Frozen(entry[p])
      BY DEF Frozen, EntryAlike
    <2>2. \A p \in Participants : ToSet(t.parts) \notin Frozen(entry[p])
      BY <1>1, RowsAlone DEF Frozen
    <2>3. \A u \in UnderWay : ToSet(u.parts) = ToSet(t.parts) => u = t
      BY <1>1, RowsAlone
    <2> QED BY <2>1, <2>2, <2>3 DEF IsClosed
  <1>4. AuthorInv'
    BY DEF AuthorInv, OnPage, EntryAlike
  <1> QED BY <1>2, <1>3, <1>4, Standing, StandingNext

\* A turn goes back into the buffer.
LEMMA RestoreKept ==
    ASSUME StateInv, AuthorInv, page' = page, NEW t \in UnderWay,
           UnderWay' = UnderWay \ {t}, entry[t.by].state = "none",
           entry' = [entry EXCEPT ![t.by] = Restored(t)]
    PROVE  AuthorInv' /\ Waiting' = Waiting /\ Closed' = Closed
  <1>1. t.by \in Participants /\ entry \in [Participants -> Entries] /\ entry[t.by] = Absent
    BY TurnPlace DEF StateInv, BufferInv, Legal, Turns
  <1>2. /\ \A p \in Participants \ {t.by} : entry'[p] = entry[p]
        /\ entry'[t.by] = Restored(t)
    BY <1>1
  <1>3. /\ Waits(Absent) = {} /\ Frozen(Absent) = {}
        /\ Restored(t).state = "frozen"
        /\ Restored(t).parts = t.parts /\ Restored(t).deferred = t.deferred
    BY EmptySeq DEF Waits, Frozen, Absent, Restored, ToSet
  <1>4. Waits(Restored(t)) = ToSet(t.deferred) /\ Frozen(Restored(t)) = {ToSet(t.parts)}
    BY <1>3 DEF Waits, Frozen
  <1>5. \A i : IsWaiting(i)' <=> IsWaiting(i)
    BY <1>1, <1>2, <1>3, <1>4 DEF IsWaiting
  <1>6. \A S : IsClosed(S)' <=> IsClosed(S)
    BY <1>1, <1>2, <1>3, <1>4 DEF IsClosed
  <1>7. AuthorInv'
    BY <1>1, <1>2, <1>3 DEF AuthorInv, OnPage, RowsOf
  <1> QED BY <1>5, <1>6, <1>7, Standing, StandingNext

\* Rows that an entry takes, and did not have, wait with it.
LEMMA EntryTakes ==
    ASSUME NEW e, Legal(e), NEW f, NEW R, Takes(e, f, R), R \cap ToSet(e.parts) = {}
    PROVE  /\ Waits(f) = Waits(e) \union R
           /\ Frozen(f) = Frozen(e)
           /\ ToSet(f.parts) \union ToSet(f.deferred)
                = ToSet(e.parts) \union ToSet(e.deferred) \union R
  <1>1. e.state \in {"none", "open", "frozen"} /\ f.state \in {"none", "open", "frozen"}
    BY DEF Takes, Legal, Entries
  <1>2. CASE e.state = "frozen"
    BY <1>2 DEF Takes, Waits, Frozen
  <1>3. CASE e.state # "frozen"
    <2>1. f.deferred = e.deferred /\ ToSet(f.parts) = ToSet(e.parts) \union R
      BY <1>3 DEF Takes
    <2>2. e.state = "none" => ToSet(e.parts) = {} /\ ToSet(e.deferred) = {}
      BY EmptySeq DEF Legal, Absent, ToSet
    <2>3. f = e \/ f.state = "open"
      BY <1>3 DEF Takes
    <2>4. e.state = "open" => f.state = "open"
      BY <2>3
    <2>5. f = e => R \subseteq ToSet(e.parts)
      BY <2>1
    <2> QED BY <1>1, <1>3, <2>1, <2>2, <2>3, <2>4, <2>5 DEF Waits, Frozen
  <1> QED BY <1>2, <1>3

\* A row is handed over.
LEMMA TakenKept ==
    ASSUME StateInv, AuthorInv, page' = page, UnderWay' = UnderWay,
           NEW b \in Participants, NEW r, OnPage(r, b), r \notin ToSet(entry[b].parts),
           NEW f, Takes(entry[b], f, {r}), entry' = [entry EXCEPT ![b] = f]
    PROVE  AuthorInv' /\ Waiting' = Waiting \union {r} /\ Closed' = Closed
  <1>1. entry \in [Participants -> Entries] /\ Legal(entry[b])
    BY DEF StateInv, BufferInv
  <1>2. /\ \A p \in Participants \ {b} : entry'[p] = entry[p]
        /\ entry'[b] = f
    BY <1>1
  <1>3. /\ Waits(f) = Waits(entry[b]) \union {r}
        /\ Frozen(f) = Frozen(entry[b])
        /\ ToSet(f.parts) \union ToSet(f.deferred)
             = ToSet(entry[b].parts) \union ToSet(entry[b].deferred) \union {r}
    <2>1. {r} \cap ToSet(entry[b].parts) = {}
      OBVIOUS
    <2> QED BY <1>1, <2>1, EntryTakes
  <1>4. \A i : IsWaiting(i)' <=> IsWaiting(i) \/ i = r
    BY <1>2, <1>3 DEF IsWaiting
  <1>5. \A S : IsClosed(S)' <=> IsClosed(S)
    BY <1>2, <1>3 DEF IsClosed
  <1>6. AuthorInv'
    BY <1>2, <1>3 DEF AuthorInv, OnPage
  <1> QED BY <1>4, <1>5, <1>6, Standing, StandingNext

\* A settled turn gives its deferred rows back.
LEMMA ReplayKept ==
    ASSUME StateInv, HeldInv, AuthorInv, page' = page, NEW t \in UnderWay, NEW u,
           UnderWay' = (UnderWay \ {t}) \union {u},
           u.by = t.by, u.parts = t.parts, u.deferred = <<>>,
           NEW f, Takes(entry[t.by], f, ToSet(t.deferred)),
           entry' = [entry EXCEPT ![t.by] = f]
    PROVE  AuthorInv' /\ Waiting' = Waiting /\ Closed' = Closed
  <1> DEFINE b == t.by
             R == ToSet(t.deferred)
  <1>1. t.by \in Participants /\ entry \in [Participants -> Entries] /\ Legal(entry[b])
    BY TurnPlace DEF StateInv, BufferInv, Turns
  <1>2. /\ \A p \in Participants \ {b} : entry'[p] = entry[p]
        /\ entry'[b] = f
    BY <1>1
  <1>3. /\ Waits(f) = Waits(entry[b]) \union R
        /\ Frozen(f) = Frozen(entry[b])
        /\ ToSet(f.parts) \union ToSet(f.deferred)
             = ToSet(entry[b].parts) \union ToSet(entry[b].deferred) \union R
    <2>1. R \cap ToSet(entry[b].parts) = {}
      BY <1>1, RowsAlone DEF RowsOf
    <2> QED BY <1>1, <2>1, EntryTakes
  <1>4. ToSet(u.deferred) = {} /\ RowsOf(u) \subseteq RowsOf(t) /\ R \subseteq RowsOf(t)
    BY EmptySeq DEF ToSet, RowsOf
  <1> HIDE DEF R
  <1>5. \A i : IsWaiting(i)' <=> IsWaiting(i)
    BY <1>1, <1>2, <1>3, <1>4 DEF IsWaiting, R
  <1>6. \A S : IsClosed(S)' <=> IsClosed(S)
    BY <1>1, <1>2, <1>3 DEF IsClosed
  <1>7. AuthorInv'
    BY <1>1, <1>2, <1>3, <1>4 DEF AuthorInv, OnPage
  <1> QED BY <1>5, <1>6, <1>7, Standing, StandingNext

\* How the turns under way change: one leaves the flight, ...
LEMMA FlightLeaves ==
    ASSUME StateInv, NEW t \in flight, flight' = flight \ {t}, parked' = parked
    PROVE  t \in UnderWay /\ UnderWay' = UnderWay \ {t}
  <1>1. \A p \in Participants : t \notin ToSet(parked[p])
    BY LenProperties DEF StateInv, TurnInv, ToSet
  <1> QED BY <1>1 DEF UnderWay

\* ... or moves on in it, ...
LEMMA FlightMoves ==
    ASSUME StateInv, NEW t \in flight, NEW u, flight' = (flight \ {t}) \union {u},
           parked' = parked
    PROVE  t \in UnderWay /\ UnderWay' = (UnderWay \ {t}) \union {u}
  <1>1. \A p \in Participants : t \notin ToSet(parked[p])
    BY LenProperties DEF StateInv, TurnInv, ToSet
  <1> QED BY <1>1 DEF UnderWay

\* ... or is parked, ...
LEMMA FlightParks ==
    ASSUME StateInv, NEW t \in flight, NEW u \in Turns, flight' = flight \ {t},
           parked' = [parked EXCEPT ![t.by] = Append(@, u)]
    PROVE  t \in UnderWay /\ UnderWay' = (UnderWay \ {t}) \union {u}
  <1>1. \A p \in Participants : t \notin ToSet(parked[p])
    BY LenProperties DEF StateInv, TurnInv, ToSet
  <1>2. t.by \in Participants /\ parked \in [Participants -> Seq(Turns)]
    BY DEF StateInv, TurnInv, Turns
  <1>3. /\ \A q \in Participants \ {t.by} : parked'[q] = parked[q]
        /\ parked'[t.by] = Append(parked[t.by], u)
    BY <1>2
  <1>4. ToSet(parked'[t.by]) = ToSet(parked[t.by]) \union {u}
    BY <1>2, <1>3, AppendSet
  <1> DEFINE Held == UNION {ToSet(parked[q]) : q \in Participants}
             HeldNext == UNION {ToSet(parked'[q]) : q \in Participants}
  <1>5. /\ \A x \in HeldNext : x \in Held \/ x = u
        /\ \A x \in Held : x \in HeldNext
        /\ u \in HeldNext
    BY <1>2, <1>3, <1>4
  <1>6. t \notin Held
    BY <1>1
  <1>7. UnderWay = flight \union Held /\ UnderWay' = flight' \union HeldNext
    BY DEF UnderWay
  <1> HIDE DEF Held, HeldNext
  <1> QED BY <1>5, <1>6, <1>7

\* ... or leaves the parked ones.
LEMMA HeadLeaves ==
    ASSUME StateInv, HeldInv, NEW p \in Participants, parked[p] # <<>>,
           parked' = [parked EXCEPT ![p] = Tail(@)], NEW X, flight' = flight \union X
    PROVE  /\ Head(parked[p]) \in UnderWay /\ Head(parked[p]) \in Turns
           /\ UnderWay' = (UnderWay \ {Head(parked[p])}) \union X
  <1>0. TurnInv /\ parked \in [Participants -> Seq(Turns)]
    BY DEF StateInv, TurnInv
  <1> DEFINE t == Head(parked[p])
  <1>1. /\ t = parked[p][1] /\ 1 \in DOMAIN parked[p]
        /\ Len(parked[p]) \in Nat /\ DOMAIN parked[p] = 1..Len(parked[p])
        /\ DOMAIN Tail(parked[p]) = 1..(Len(parked[p]) - 1)
        /\ \A k \in DOMAIN Tail(parked[p]) :
              k + 1 \in DOMAIN parked[p] /\ Tail(parked[p])[k] = parked[p][k + 1]
    BY <1>0, ParkedHead
  <1>2. t \in ToSet(parked[p]) /\ t \in UnderWay
    BY <1>1 DEF ToSet, UnderWay
  <1>3. t \in Turns /\ t.parts # <<>> /\ t.stage = "parked"
    BY <1>0, <1>1, LenProperties DEF TurnInv
  <1>4. t \notin flight
    BY <1>0, <1>3 DEF TurnInv
  <1>5. PICK i : i \in RowsOf(t)
    BY <1>3, HasRow DEF RowsOf, Turns
  <1>6. \A q \in Participants : \A l \in DOMAIN parked[q] :
           parked[q][l] = t => q = p /\ l = 1
    BY <1>1, <1>2, <1>5, RowsAlone
  <1>7. /\ \A q \in Participants \ {p} : parked'[q] = parked[q]
        /\ parked'[p] = Tail(parked[p])
    BY <1>0
  <1> HIDE DEF t
  <1>8. ToSet(Tail(parked[p])) = ToSet(parked[p]) \ {t}
    <2>1. ASSUME NEW k \in DOMAIN Tail(parked[p])
          PROVE  Tail(parked[p])[k] \in ToSet(parked[p]) \ {t}
      <3>1. k + 1 \in DOMAIN parked[p] /\ k + 1 # 1
        BY <1>1
      <3> QED BY <1>1, <1>6, <3>1 DEF ToSet
    <2>2. ASSUME NEW k \in DOMAIN parked[p], parked[p][k] # t
          PROVE  parked[p][k] \in ToSet(Tail(parked[p]))
      <3>1. k # 1
        BY <1>1, <2>2
      <3>2. k - 1 \in DOMAIN Tail(parked[p]) /\ (k - 1) + 1 = k
        BY <1>1, <3>1
      <3> QED BY <1>1, <3>2 DEF ToSet
    <2> QED BY <2>1, <2>2 DEF ToSet
  <1>9. \A q \in Participants \ {p} : t \notin ToSet(parked[q])
    BY <1>6 DEF ToSet
  <1> QED BY <1>2, <1>3, <1>4, <1>7, <1>8, <1>9 DEF UnderWay, t

\* A turn that moves on is the same to the promise.
LEMMA MovedAlike ==
    ASSUME NEW t \in UnderWay, NEW u, Alike(t, u),
           UnderWay' = (UnderWay \ {t}) \union {u}
    PROVE  TurnsAlike
  BY DEF TurnsAlike, Alike

-----------------------------------------------------------------------------
(* The steps of the promise.                                               *)

\* A step keeps the authors and the promise.
Kept == AuthorInv' /\ [Promise!Next]_(Promise!vars)

\* The same rows wait, the same turns are closed: nothing for the promise.
LEMMA StutterKept ==
    ASSUME AuthorInv', Waiting' = Waiting, Closed' = Closed,
           UNCHANGED <<page, answered, dropped>>
    PROVE  Kept
  BY DEF Kept, Promise!vars

\* The same with one more row on the page.
LEMMA WriteKept ==
    ASSUME AuthorInv', Waiting' = Waiting, Closed' = Closed,
           NEW a \in Participants \union {Emily}, page' = Append(page, a),
           UNCHANGED <<answered, dropped>>
    PROVE  Kept
  BY DEF Kept, Promise!Next, Promise!Write

\* A row that is nowhere is not taken in the sense of the promise.
LEMMA TakeKept ==
    ASSUME StateInv, NEW r \in DOMAIN page, Nowhere(r), page[r] \in Participants,
           AuthorInv', Waiting' = Waiting \union {r}, Closed' = Closed,
           UNCHANGED <<page, answered, dropped>>
    PROVE  Kept
  <1>1. ~IsWaiting(r)
    <2>1. \A p \in Participants : r \notin Waits(entry[p])
      BY DEF Nowhere, SomeEntry, SomeDeferred, InEntry, InDeferred, Waits
    <2>2. ASSUME NEW t \in UnderWay PROVE r \notin RowsOf(t)
      BY TurnPlace DEF Nowhere, SomeFlight, SomeParked
    <2> QED BY <2>1, <2>2 DEF IsWaiting, RowsOf
  <1>2. ASSUME NEW S, IsClosed(S) PROVE r \notin S
    <2>1. \A p \in Participants : S \in Frozen(entry[p]) => r \notin S
      BY DEF Nowhere, SomeEntry, InEntry, Frozen
    <2>2. ASSUME NEW t \in UnderWay PROVE r \notin RowsOf(t)
      BY TurnPlace DEF Nowhere, SomeFlight, SomeParked
    <2> QED BY <1>2, <2>1, <2>2 DEF IsClosed, RowsOf
  <1>3. r \notin Waiting \union (UNION Closed) \union answered \union dropped
    BY <1>1, <1>2, Standing DEF Nowhere
  <1> QED BY <1>3 DEF Kept, Promise!Next, Promise!Take, Promise!Taken

\* Open entries leave: their rows close, in one turn for each participant.
LEMMA CloseKept ==
    ASSUME StateInv, AuthorInv, NEW F \in SUBSET Participants, \A p \in F : IsOpen(p),
           AuthorInv',
           Waiting' = Waiting \ (UNION {ToSet(entry[p].parts) : p \in F}),
           Closed' = Closed \union {ToSet(entry[p].parts) : p \in F},
           UNCHANGED <<page, answered, dropped>>
    PROVE  Kept
  <1> DEFINE closed == [p \in F |-> ToSet(entry[p].parts)]
  <1>1. ASSUME NEW p \in F
        PROVE  ToSet(entry[p].parts) \in (SUBSET Waiting) \ {{}}
    <2>1. entry[p] \in Entries /\ entry[p].parts # <<>>
      BY DEF StateInv, BufferInv, Legal, IsOpen
    <2>2. ToSet(entry[p].parts) # {}
      BY <2>1, HasRow DEF Entries
    <2>3. \A i \in ToSet(entry[p].parts) : IsWaiting(i)
      BY DEF IsWaiting, Waits, IsOpen
    <2> QED BY <2>2, <2>3, Standing
  <1>2. closed \in [F -> (SUBSET Waiting) \ {{}}]
    BY <1>1
  <1>3. \A p \in F : \A i \in closed[p] : page[i] = p
    BY DEF AuthorInv, OnPage
  <1>4. {closed[p] : p \in F} = {ToSet(entry[p].parts) : p \in F}
    OBVIOUS
  <1> HIDE DEF closed
  <1>5. Promise!Close(F)
    BY <1>2, <1>3, <1>4 DEF Promise!Close, Promise!By
  <1> QED BY <1>5 DEF Kept, Promise!Next

\* A turn leaves with its rows answered.
LEMMA AnswerKept ==
    ASSUME NEW t \in UnderWay, AuthorInv', Waiting' = Waiting,
           Closed' = Closed \ {ToSet(t.parts)}, answered' = answered \union ToSet(t.parts),
           UNCHANGED <<page, dropped>>
    PROVE  Kept
  <1>1. ToSet(t.parts) \in Closed
    BY Standing DEF IsClosed
  <1>2. Promise!Answer(ToSet(t.parts))
    BY DEF Promise!Answer
  <1> QED BY <1>1, <1>2 DEF Kept, Promise!Next

\* A turn leaves with its rows, and those deferred behind it, dropped.
LEMMA DropKept ==
    ASSUME StateInv, AuthorInv, NEW t \in UnderWay, AuthorInv',
           Waiting' = Waiting \ ToSet(t.deferred),
           Closed' = Closed \ {ToSet(t.parts)}, dropped' = dropped \union RowsOf(t),
           UNCHANGED <<page, answered>>
    PROVE  Kept
  <1>1. ToSet(t.parts) \in Closed /\ ToSet(t.deferred) \in SUBSET Waiting
    BY Standing DEF IsClosed, IsWaiting
  <1>2. t.by \in Participants /\ \A i \in RowsOf(t) : page[i] = t.by
    BY TurnPlace DEF AuthorInv, OnPage, Turns
  <1>3. RowsOf(t) = ToSet(t.parts) \union ToSet(t.deferred)
    BY DEF RowsOf
  <1>4. Promise!Drop(ToSet(t.parts), ToSet(t.deferred))
    BY <1>2, <1>3 DEF Promise!Drop, Promise!By
  <1> QED BY <1>1, <1>4 DEF Kept, Promise!Next

\* A step that keeps all entries and turns as they are, up to marks, is none of
\* the promise, or one that writes a row.
LEMMA MarksKept ==
    ASSUME StateInv, AuthorInv, PageStays, TurnsAlike,
           \A p \in Participants : EntryAlike(entry[p], entry'[p]),
           UNCHANGED <<answered, dropped>>
    PROVE  Kept
  <1>1. AuthorInv' /\ Waiting' = Waiting /\ Closed' = Closed
    BY AlikeKept
  <1>2. CASE page' = page
    BY <1>1, <1>2, StutterKept
  <1>3. CASE \E a \in Participants \union {Emily} : page' = Append(page, a)
    BY <1>1, <1>3, WriteKept
  <1> QED BY <1>2, <1>3 DEF PageStays

\* An entry that is open leaves as a turn: the rows close.  A frozen one that
\* leaves was a closed turn before.
LEMMA OneFlushKept ==
    ASSUME StateInv, HeldInv, AuthorInv, NEW p \in Participants, entry[p].state # "none",
           NEW w \in BOOLEAN, flight' = flight \union {Turn(p, "gate", w)},
           entry' = [entry EXCEPT ![p] = Absent],
           UNCHANGED <<page, parked, answered, dropped>>
    PROVE  Kept
  <1> DEFINE S == ToSet(entry[p].parts)
  <1>1. entry \in [Participants -> Entries]
    BY DEF StateInv, BufferInv
  <1>2. PICK F \in SUBSET Participants : F = {p}
    OBVIOUS
  <1>3. /\ UnderWay' = UnderWay \union {Turn(p, "gate", w)}
        /\ LeavesAs(p, Turn(p, "gate", w))
    BY DEF UnderWay, LeavesAs, Turn
  <1>4. /\ \A q \in F : entry[q].state # "none" /\ entry'[q] = Absent
        /\ \A q \in Participants \ F : EntryAlike(entry[q], entry'[q])
    BY <1>1, <1>2 DEF EntryAlike
  <1>5. /\ UnderWay \subseteq UnderWay'
        /\ \A u \in UnderWay' : u \in UnderWay \/ \E q \in F : LeavesAs(q, u)
        /\ \A q \in F : \E u \in UnderWay' : LeavesAs(q, u)
    BY <1>2, <1>3
  <1>6. /\ AuthorInv'
        /\ Waiting' = Waiting \ (UNION {ToSet(entry[q].parts) : q \in F})
        /\ Closed' = Closed \union {ToSet(entry[q].parts) : q \in F}
    BY <1>4, <1>5, FlushKept
  <1>7. CASE entry[p].state = "open"
    <2>1. \A q \in F : IsOpen(q)
      BY <1>2, <1>7 DEF IsOpen
    <2> QED BY <1>6, <2>1, CloseKept
  <1>8. CASE entry[p].state = "frozen"
    <2>1. ASSUME NEW i \in S PROVE i \notin Waiting
      <3>1. ~IsWaiting(i)
        BY <1>8, EntryRowsAlone DEF IsWaiting, Waits, RowsOf
      <3> QED BY <3>1, Standing
    <2>2. S \in Closed
      BY <1>8, Standing DEF IsClosed, Frozen
    <2>3. UNION {ToSet(entry[q].parts) : q \in F} = S /\ {ToSet(entry[q].parts) : q \in F} = {S}
      BY <1>2
    <2> HIDE DEF S
    <2>4. Waiting' = Waiting /\ Closed' = Closed
      BY <1>6, <2>1, <2>2, <2>3
    <2> QED BY <1>6, <2>4, StutterKept
  <1>9. entry[p].state \in {"none", "open", "frozen"}
    BY <1>1 DEF Entries
  <1> QED BY <1>7, <1>8, <1>9

\* The listener's steps, and those of the timers, keep the promise.
LEMMA ListenerPromise ==
    ASSUME StateInv, HeldInv, AuthorInv,
           \/ Listener \/ OwnerWrites
           \/ \E p \in Participants :
                PersonWrites(p) \/ DeadlineFires(p) \/ AgainFires(p) \/ RetryFires(p)
    PROVE  Kept
  <1>0. /\ PageInv /\ BufferInv /\ ScanInv /\ TurnInv
        /\ entry \in [Participants -> Entries]
    BY DEF StateInv, BufferInv
  <1>1. ASSUME PageStays, UNCHANGED <<flight, parked, answered, dropped>>,
               \A p \in Participants : Marked(entry[p], entry'[p])
        PROVE  Kept
    <2>1. TurnsAlike
      BY <1>1 DEF TurnsAlike, Alike, UnderWay
    <2>2. \A p \in Participants : EntryAlike(entry[p], entry'[p])
      BY <1>1 DEF Marked, EntryAlike
    <2> QED BY <1>1, <2>1, <2>2, MarksKept
  <1>2. ASSUME PageStays, UNCHANGED <<entry, flight, parked, answered, dropped>>
        PROVE  Kept
    <2>1. TurnsAlike
      BY <1>2 DEF TurnsAlike, Alike, UnderWay
    <2>2. \A p \in Participants : EntryAlike(entry[p], entry'[p])
      BY <1>2 DEF EntryAlike
    <2> QED BY <1>2, <2>1, <2>2, MarksKept
  <1>3. ASSUME NEW p \in Participants, PersonWrites(p) PROVE Kept
    <2>1. PageStays /\ UNCHANGED <<entry, flight, parked, answered, dropped>>
      BY <1>3 DEF PersonWrites, PageStays, bufferVars, turnVars
    <2> QED BY <1>2, <2>1
  <1>4. CASE OwnerWrites
    <2>1. PageStays /\ UNCHANGED <<entry, flight, parked, answered, dropped>>
      BY <1>4 DEF OwnerWrites, PageStays, bufferVars, turnVars
    <2> QED BY <1>2, <2>1
  <1>5. ASSUME NEW p \in Participants, DeadlineFires(p) \/ AgainFires(p) PROVE Kept
    <2>1. /\ entry[p].timer \in {"deadline", "again"}
          /\ entry' = [entry EXCEPT ![p].timer = "none", ![p].wanted = TRUE]
          /\ PageStays /\ UNCHANGED <<flight, parked, answered, dropped>>
      BY <1>5 DEF DeadlineFires, AgainFires, PageStays, turnVars, pageVars
    <2> QED BY <1>0, <1>1, <2>1, TimerMarks
  <1>6. ASSUME NEW p \in Participants, RetryFires(p) PROVE Kept
    <2>1. /\ entry[p].timer = "retry" /\ flight' = flight \union {Turn(p, "gate", FALSE)}
          /\ entry' = [entry EXCEPT ![p] = Absent]
          /\ UNCHANGED <<page, parked, answered, dropped>>
      BY <1>6 DEF RetryFires, pageVars
    <2>2. entry[p].state # "none"
      BY <1>0, <2>1 DEF BufferInv, Legal, Absent
    <2> QED BY <2>1, <2>2, OneFlushKept
  <1>7. CASE BlockedTick \/ EndScan
    <2>1. /\ entry' = entry \/ \E aged : RecordFailure(aged)
          /\ PageStays /\ UNCHANGED <<flight, parked, answered, dropped>>
      BY <1>7 DEF BlockedTick, EndScan, PageStays, turnVars, pageVars
    <2> QED BY <1>0, <1>1, <1>2, <2>1, FailureMarks
  <1>8. ASSUME NEW tooSoon \in BOOLEAN, Read(tooSoon) PROVE Kept
    <2> DEFINE admitted == {page[i] : i \in Admitted}
    <2>1. /\ entry' = [p \in Participants |-> Confirmed(p, admitted)]
          /\ flight' = flight \union {Turn(p, "gate", FALSE) : p \in {q \in Participants : Freezes(q, admitted)}}
          /\ UNCHANGED <<page, parked, answered, dropped>>
      BY <1>8 DEF Read, pageVars
    <2> HIDE DEF admitted
    <2>2. PICK F \in SUBSET Participants : F = {q \in Participants : Freezes(q, admitted)}
      OBVIOUS
    <2>3. /\ \A p \in F : IsOpen(p)
          /\ \A p \in F : entry[p].state # "none" /\ entry'[p] = Absent
      BY <1>0, <2>1, <2>2, ReadEntry DEF Freezes, IsOpen
    <2>4. \A p \in Participants \ F : EntryAlike(entry[p], entry'[p])
      BY <1>0, <2>1, <2>2, ReadEntry DEF EntryAlike
    <2>5. UnderWay' = UnderWay \union {Turn(p, "gate", FALSE) : p \in F}
      BY <2>1, <2>2 DEF UnderWay
    <2>6. \A p \in F : LeavesAs(p, Turn(p, "gate", FALSE))
      BY DEF LeavesAs, Turn
    <2>7. /\ UnderWay \subseteq UnderWay'
          /\ \A u \in UnderWay' : u \in UnderWay \/ \E p \in F : LeavesAs(p, u)
          /\ \A p \in F : \E u \in UnderWay' : LeavesAs(p, u)
      BY <2>5, <2>6
    <2>8. /\ AuthorInv'
          /\ Waiting' = Waiting \ (UNION {ToSet(entry[p].parts) : p \in F})
          /\ Closed' = Closed \union {ToSet(entry[p].parts) : p \in F}
      BY <2>1, <2>3, <2>4, <2>7, FlushKept
    <2> QED BY <2>1, <2>3, <2>8, CloseKept
  <1>9. CASE Handed
    <2>1. PICK r : r = NextRow
      OBVIOUS
    <2>2. PICK b : b = page[NextRow]
      OBVIOUS
    <2>3. PICK f : f = Schedule(entry[b], r)
      OBVIOUS
    <2>4. b \in Participants /\ r \in Rows /\ r \in DOMAIN page \ handed /\ page[r] = b
      BY <1>0, <1>9, <2>1, <2>2, NextRowFacts DEF Handed
    <2>5. /\ entry' = [entry EXCEPT ![b] = f]
          /\ UNCHANGED <<page, flight, parked, answered, dropped>>
      BY <1>9, <2>1, <2>2, <2>3 DEF Handed, turnVars
    <2>6. Legal(entry[b]) /\ entry[b].state \in {"none", "open", "frozen"}
      BY <1>0, <2>4 DEF BufferInv, Legal, Entries
    <2>7. Takes(entry[b], f, {r})
      <3>1. Takes(entry[b], Schedule(entry[b], r), {} \union {r})
        BY <2>4, <2>6, TakesNothing, ScheduleTakes
      <3>2. {} \union {r} = {r}
        OBVIOUS
      <3> QED BY <2>3, <3>1, <3>2
    <2>8. Nowhere(r)
      BY <2>4 DEF HeldInv
    <2>9. r \notin ToSet(entry[b].parts)
      BY <2>4, <2>8 DEF Nowhere, SomeEntry, InEntry
    <2>10. UnderWay' = UnderWay
      BY <2>5 DEF UnderWay
    <2>11. OnPage(r, b)
      BY <2>4 DEF OnPage
    <2>12. AuthorInv' /\ Waiting' = Waiting \union {r} /\ Closed' = Closed
      BY <2>4, <2>5, <2>7, <2>9, <2>10, <2>11, TakenKept
    <2> QED BY <2>4, <2>5, <2>8, <2>12, TakeKept
  <1>10. ASSUME NEW p \in Participants, FinalCheck(p) PROVE Kept
    <2>1. /\ \/ UNCHANGED <<entry, flight>>
             \/ /\ IsOpen(p) /\ flight' = flight
                /\ entry' = [entry EXCEPT ![p].wanted = FALSE, ![p].failing = FALSE,
                                ![p].timer = IF @ = "none" THEN "deadline" ELSE @]
             \/ /\ IsOpen(p) /\ flight' = flight \union {Turn(p, "gate", TRUE)}
                /\ entry' = [entry EXCEPT ![p] = Absent]
          /\ UNCHANGED <<page, parked, answered, dropped>>
      BY <1>10 DEF FinalCheck, pageVars
    <2>2. IsOpen(p) => entry[p].state # "none"
      BY DEF IsOpen
    <2>3. PageStays
      BY <2>1 DEF PageStays
    <2> QED BY <1>0, <1>1, <1>2, <2>1, <2>2, <2>3, PostponeMarks, OneFlushKept
  <1>11. CASE StartScan \/ ReleaseStalePin \/ ReadFails \/ StartPass
                \/ SkipWrongChat \/ Forward \/ ForwardFails
    <2>1. PageStays /\ UNCHANGED <<entry, flight, parked, answered, dropped>>
      BY <1>11 DEF StartScan, ReleaseStalePin, ReadFails, StartPass,
         SkipWrongChat, Forward, ForwardFails, PageStays, bufferVars, turnVars, pageVars
    <2> QED BY <1>2, <2>1
  <1>12. ASSUME NEW row \in failed, Forgets(row) PROVE Kept
    <2>1. PageStays /\ UNCHANGED <<entry, flight, parked, answered, dropped>>
      BY <1>12 DEF Forgets, PageStays, bufferVars, turnVars
    <2> QED BY <1>2, <2>1
  <1> QED BY <1>3, <1>4, <1>5, <1>6, <1>7, <1>8, <1>9, <1>10, <1>11, <1>12 DEF Listener

\* So do the steps of the turns.
LEMMA PipelinePromise ==
    ASSUME StateInv, HeldInv, AuthorInv, Pipeline
    PROVE  Kept
  <1>0. /\ PageInv /\ BufferInv /\ ScanInv /\ TurnInv
        /\ entry \in [Participants -> Entries]
    BY DEF StateInv, BufferInv
  <1>1. ASSUME NEW t \in flight PROVE t \in Turns /\ t.by \in Participants
    BY <1>0 DEF TurnInv, Turns
  <1>2. ASSUME UNCHANGED entry PROVE \A p \in Participants : EntryAlike(entry[p], entry'[p])
    BY <1>2 DEF EntryAlike
  <1>3. ASSUME NEW t \in UnderWay, NEW u, Alike(t, u), UnderWay' = (UnderWay \ {t}) \union {u},
               PageStays, UNCHANGED <<entry, answered, dropped>>
        PROVE  Kept
    BY <1>2, <1>3, MovedAlike, MarksKept
  <1>4. ASSUME NEW t \in UnderWay, UnderWay' = UnderWay \ {t}, dropped' = dropped \union RowsOf(t),
               UNCHANGED <<page, entry, answered>>
        PROVE  Kept
    BY <1>2, <1>4, LeaveKept, DropKept
  <1>5. ASSUME UNCHANGED <<page, entry, flight, parked, answered, dropped>> PROVE Kept
    <2>1. TurnsAlike /\ PageStays
      BY <1>5 DEF TurnsAlike, Alike, UnderWay, PageStays
    <2> QED BY <1>2, <1>5, <2>1, MarksKept
  <1>6. ASSUME NEW t \in flight, GateBlocks(t) PROVE Kept
    <2>1. /\ flight' = flight \ {t} /\ dropped' = dropped \union RowsOf(t)
          /\ UNCHANGED <<page, entry, parked, answered>>
      BY <1>6 DEF GateBlocks, bufferVars, pageVars
    <2>2. t \in UnderWay /\ UnderWay' = UnderWay \ {t}
      BY <2>1, FlightLeaves
    <2> QED BY <1>4, <2>1, <2>2
  <1>7. ASSUME NEW t \in flight, GateOpens(t) PROVE Kept
    <2>1. UNCHANGED <<page, entry, answered>> /\ PageStays
      BY <1>7 DEF GateOpens, bufferVars, pageVars, PageStays
    <2>2. PICK u : u = [t EXCEPT !.stage = "running"]
      OBVIOUS
    <2>3. PICK v : v = [t EXCEPT !.stage = "parked", !.watched = FALSE]
      OBVIOUS
    <2>4. Alike(t, u) /\ Alike(t, v) /\ v \in Turns
      BY <1>1, <2>2, <2>3 DEF Alike, Turns
    <2>5. \/ flight' = flight \ {t} /\ dropped' = dropped \union RowsOf(t) /\ parked' = parked
          \/ parked' = [parked EXCEPT ![t.by] = Append(@, v)] /\ flight' = flight \ {t} /\ dropped' = dropped
          \/ parked' = parked /\ flight' = (flight \ {t}) \union {u} /\ dropped' = dropped
      BY <1>7, <2>2, <2>3 DEF GateOpens, Enter, Skipped
    <2>6. CASE flight' = flight \ {t} /\ dropped' = dropped \union RowsOf(t) /\ parked' = parked
      <3>1. t \in UnderWay /\ UnderWay' = UnderWay \ {t}
        BY <2>6, FlightLeaves
      <3> QED BY <1>4, <2>1, <2>6, <3>1
    <2>7. CASE parked' = [parked EXCEPT ![t.by] = Append(@, v)] /\ flight' = flight \ {t} /\ dropped' = dropped
      <3>1. t \in UnderWay /\ UnderWay' = (UnderWay \ {t}) \union {v}
        BY <2>4, <2>7, FlightParks
      <3> QED BY <1>3, <2>1, <2>4, <2>7, <3>1
    <2>8. CASE parked' = parked /\ flight' = (flight \ {t}) \union {u} /\ dropped' = dropped
      <3>1. t \in UnderWay /\ UnderWay' = (UnderWay \ {t}) \union {u}
        BY <2>8, FlightMoves
      <3> QED BY <1>3, <2>1, <2>4, <2>8, <3>1
    <2> QED BY <2>5, <2>6, <2>7, <2>8
  <1>8. ASSUME NEW t \in flight, Reply(t) PROVE Kept
    <2>1. PICK u : u = [t EXCEPT !.stage = "sent"]
      OBVIOUS
    <2>2. /\ flight' = (flight \ {t}) \union {u}
          /\ UNCHANGED <<entry, parked, answered, dropped>> /\ PageStays
      BY <1>8, <2>1 DEF Reply, bufferVars, PageStays
    <2>3. Alike(t, u)
      BY <1>1, <2>1 DEF Alike, Turns
    <2>4. t \in UnderWay /\ UnderWay' = (UnderWay \ {t}) \union {u}
      BY <2>2, FlightMoves
    <2> QED BY <1>3, <2>2, <2>3, <2>4
  <1>9. ASSUME NEW t \in flight, Succeeds(t) PROVE Kept
    <2>1. t \in Turns /\ t.by \in Participants /\ t.deferred \in Seq(Rows)
      BY <1>1 DEF Turns
    <2>2. PICK u : u = [t EXCEPT !.stage = "closing", !.deferred = <<>>]
      OBVIOUS
    <2>3. PICK f : f = Replay(entry[t.by], t.deferred)
      OBVIOUS
    <2>4. /\ flight' = (flight \ {t}) \union {u}
          /\ entry' = [entry EXCEPT ![t.by] = f]
          /\ UNCHANGED <<page, parked, answered, dropped>>
      BY <1>9, <2>2, <2>3 DEF Succeeds, pageVars
    <2>5. u.by = t.by /\ u.parts = t.parts /\ u.deferred = <<>>
      BY <2>1, <2>2 DEF Turns
    <2>6. Takes(entry[t.by], f, ToSet(t.deferred))
      BY <1>0, <2>1, <2>3, ReplayTakes DEF BufferInv
    <2>7. t \in UnderWay /\ UnderWay' = (UnderWay \ {t}) \union {u}
      BY <2>4, FlightMoves
    <2>8. AuthorInv' /\ Waiting' = Waiting /\ Closed' = Closed
      BY <2>4, <2>5, <2>6, <2>7, ReplayKept
    <2> QED BY <2>4, <2>8, StutterKept
  <1>10. ASSUME NEW t \in flight, Closes(t) PROVE Kept
    <2>1. /\ flight' = flight \ {t} /\ answered' = answered \union ToSet(t.parts)
          /\ UNCHANGED <<page, entry, parked, dropped>> /\ t.stage = "closing"
      BY <1>10 DEF Closes, bufferVars, pageVars
    <2>2. t \in UnderWay /\ UnderWay' = UnderWay \ {t}
      BY <2>1, FlightLeaves
    <2>3. ToSet(t.deferred) = {}
      BY <1>0, <2>1, EmptySeq DEF TurnInv, ToSet
    <2>4. /\ AuthorInv' /\ Waiting' = Waiting \ ToSet(t.deferred)
          /\ Closed' = Closed \ {ToSet(t.parts)}
      BY <1>2, <2>1, <2>2, LeaveKept
    <2>5. Waiting' = Waiting
      BY <2>3, <2>4
    <2> QED BY <2>1, <2>2, <2>4, <2>5, AnswerKept
  <1>11. ASSUME NEW t \in flight, Fails(t) PROVE Kept
    <2>1. /\ flight' = flight \ {t} /\ UNCHANGED <<page, parked, answered>>
          /\ \/ /\ entry[t.by].state = "none" /\ dropped' = dropped
                /\ entry' = [entry EXCEPT ![t.by] = Restored(t)]
             \/ entry' = entry /\ dropped' = dropped \union RowsOf(t)
      BY <1>11 DEF Fails, pageVars
    <2>2. t \in UnderWay /\ UnderWay' = UnderWay \ {t}
      BY <2>1, FlightLeaves
    <2>3. CASE /\ entry[t.by].state = "none" /\ dropped' = dropped
               /\ entry' = [entry EXCEPT ![t.by] = Restored(t)]
      BY <2>1, <2>2, <2>3, RestoreKept, StutterKept
    <2>4. CASE entry' = entry /\ dropped' = dropped \union RowsOf(t)
      BY <1>4, <2>1, <2>2, <2>4
    <2> QED BY <2>1, <2>3, <2>4
  <1>12. ASSUME NEW p \in Participants, Drain(p) PROVE Kept
    <2>1. UNCHANGED <<page, entry, answered>> /\ PageStays
      BY <1>12 DEF Drain, Skipped, bufferVars, pageVars, PageStays
    <2>2. PICK t : t = Head(parked[p])
      OBVIOUS
    <2>3. PICK u : u = [t EXCEPT !.stage = "running"]
      OBVIOUS
    <2>4. \/ UNCHANGED <<flight, parked, dropped>>
          \/ /\ parked[p] # <<>> /\ parked' = [parked EXCEPT ![p] = Tail(@)]
             /\ flight' = flight \union {} /\ dropped' = dropped \union RowsOf(t)
          \/ /\ parked[p] # <<>> /\ parked' = [parked EXCEPT ![p] = Tail(@)]
             /\ flight' = flight \union {u} /\ dropped' = dropped
      BY <1>12, <2>2, <2>3 DEF Drain, Skipped
    <2>5. CASE /\ parked[p] # <<>> /\ parked' = [parked EXCEPT ![p] = Tail(@)]
               /\ flight' = flight \union {} /\ dropped' = dropped \union RowsOf(t)
      <3>1. t \in UnderWay /\ UnderWay' = (UnderWay \ {t}) \union {}
        BY <2>2, <2>5, HeadLeaves
      <3>2. UnderWay' = UnderWay \ {t}
        BY <3>1
      <3> QED BY <1>4, <2>1, <2>5, <3>1, <3>2
    <2>6. CASE /\ parked[p] # <<>> /\ parked' = [parked EXCEPT ![p] = Tail(@)]
               /\ flight' = flight \union {u} /\ dropped' = dropped
      <3>1. t \in UnderWay /\ t \in Turns /\ UnderWay' = (UnderWay \ {t}) \union {u}
        BY <2>2, <2>6, HeadLeaves
      <3>2. Alike(t, u)
        BY <2>3, <3>1 DEF Alike, Turns
      <3> QED BY <1>3, <2>1, <2>6, <3>1, <3>2
    <2> QED BY <1>5, <2>1, <2>4, <2>5, <2>6
  <1> QED BY <1>6, <1>7, <1>8, <1>9, <1>10, <1>11, <1>12 DEF Pipeline

\* Every step keeps the promise, and the authors.
LEMMA PromiseStep ==
    ASSUME StateInv, HeldInv, AuthorInv, [Next]_vars
    PROVE  Kept
  <1>1. CASE Next
    BY <1>1, ListenerPromise, PipelinePromise DEF Next
  <1>2. CASE UNCHANGED vars
    <2>1. UNCHANGED <<page, entry, flight, parked, answered, dropped>>
      BY <1>2 DEF vars, pageVars, bufferVars, turnVars
    <2>2. TurnsAlike /\ PageStays
      BY <2>1 DEF TurnsAlike, Alike, UnderWay, PageStays
    <2>3. \A p \in Participants : EntryAlike(entry[p], entry'[p])
      BY <2>1 DEF EntryAlike
    <2> QED BY <2>1, <2>2, <2>3, MarksKept
  <1> QED BY <1>1, <1>2

\* The buffer implements the promise of TurnPromise: a row is taken up once, the
\* rows of one participant are closed into a turn that from then on neither grows
\* nor shrinks nor opens again, through the gate, the queue behind the job, the
\* failed attempts and the restores, until it is answered or dropped as a whole.
THEOREM PromiseKept == Spec => KeepsPromise
  <1>1. Init => AuthorInv /\ Promise!Init
    <2> SUFFICES ASSUME Init PROVE AuthorInv /\ Promise!Init
      OBVIOUS
    <2>1. ToSet(<<>>) = {}
      BY EmptySeq DEF ToSet
    <2>2. /\ \A p \in Participants : /\ ToSet(entry[p].parts) = {} /\ ToSet(entry[p].deferred) = {}
                                     /\ entry[p].state = "none"
          /\ UnderWay = {}
      BY <2>1 DEF Init, Absent, UnderWay
    <2>3. AuthorInv
      BY <2>2 DEF AuthorInv
    <2>4. (\A i : ~IsWaiting(i)) /\ (\A S : ~IsClosed(S))
      BY <2>2 DEF IsWaiting, IsClosed, Waits, Frozen
    <2>5. Waiting = {} /\ Closed = {}
      BY <2>4, Standing
    <2> QED BY <2>3, <2>5 DEF Init, Promise!Init
  <1>2. StateInv /\ HeldInv /\ AuthorInv /\ [Next]_vars => AuthorInv' /\ [Promise!Next]_(Promise!vars)
    BY PromiseStep DEF Kept
  <1>3. IInv => StateInv /\ HeldInv
    BY DEF IInv
  <1> QED BY <1>1, <1>2, <1>3, Invariance, PTL DEF Spec, KeepsPromise, Promise!Spec
=============================================================================
