-------------------------- MODULE RunSchedulerProofs --------------------------
(***************************************************************************)
(* Machine-checked proofs about RunScheduler, for any schedulers, any      *)
(* schedules and any clock.                                                *)
(***************************************************************************)
EXTENDS RunScheduler, WellFoundedInduction, FiniteSetTheorems, TLAPS

\* What a tick has still to hand over came due by the instant it began at, and a tick that
\* hands over has something left to hand over.
TicksInOrder ==
  \A k \in Schedulers :
    /\ tick[k].at <= now
    /\ tick[k].todo \subseteq 0..tick[k].at
    /\ (tick[k].pc = "starting" <=> tick[k].todo # {})

\* Unless time passes while a tick is under way, every tick is of this very instant.
TicksAreOfNow == ~SlowTicks => \A k \in Schedulers : tick[k].pc # "idle" => tick[k].at = now

\* No checkpoint goes back behind the schedule it belongs to.
CheckpointFollows ==
  since <= now /\ (~SlowTicks => checkpoint = None \/ checkpoint >= since)

TickInv == TypeOK /\ TicksInOrder /\ TicksAreOfNow /\ CheckpointFollows

-----------------------------------------------------------------------------
\* Arithmetic of the minute.

LEMMA FloorOf ==
  ASSUME NEW t \in Int
  PROVE  /\ Floor(t) \in Int /\ Minute \in Nat \ {0}
         /\ Floor(t) <= t /\ t < Floor(t) + Minute
         /\ t \in Nat => Floor(t) \in Nat
<1>1. Minute \in Nat /\ Minute > 0
  BY SchedulerAssumption
<1> DEFINE q == t \div Minute
<1>2. q \in Int /\ q * Minute <= t /\ t < q * Minute + Minute
  BY <1>1
<1>3. t \in Nat => q \in Nat
  BY <1>1
<1> QED
  BY <1>1, <1>2, <1>3 DEF Floor

\* An occurrence after an instant is not before the minute after it.
LEMMA NextMinute ==
  ASSUME NEW a \in Int, NEW t \in Nat, t % Minute = 0, a < t
  PROVE  Floor(a) + Minute <= t
<1>1. Minute \in Nat /\ Minute > 0
  BY SchedulerAssumption
<1> DEFINE p == a \div Minute
           q == t \div Minute
<1>2. p \in Int /\ p * Minute <= a
  BY <1>1
<1>3. q \in Int /\ t = q * Minute
  BY <1>1
<1> HIDE DEF p, q
<1>4. p < q
  <2> SUFFICES ASSUME q <= p PROVE FALSE
    BY <1>2, <1>3
  <2>1. q * Minute <= p * Minute
    BY <1>1, <1>2, <1>3
  <2> QED
    BY <1>1, <1>2, <1>3, <2>1
<1>5. (p + 1) * Minute <= q * Minute
  BY <1>1, <1>2, <1>3, <1>4
<1>6. (p + 1) * Minute = p * Minute + Minute
  BY <1>1, <1>2
<1> QED
  BY <1>1, <1>2, <1>3, <1>5, <1>6 DEF Floor, p

LEMMA MinIsIn ==
  ASSUME NEW S, S \subseteq Nat, S # {}
  PROVE  Min(S) \in S /\ \A y \in S : Min(S) <= y
<1> DEFINE R == OpToRel(<, Nat)
<1>1. IsWellFoundedOn(R, Nat)
  BY NatLessThanWellFounded
<1> HIDE DEF R
<1>2. PICK m \in S : \A y \in S : <<y, m>> \notin R
  BY <1>1, WFMin
<1>3. \A y \in S : m <= y
  <2> SUFFICES ASSUME NEW y \in S, y < m PROVE FALSE
    OBVIOUS
  <2>1. <<y, m>> \in R
    BY DEF R, OpToRel
  <2> QED
    BY <1>2, <2>1
<1> QED
  BY <1>3 DEF Min

\* A bounded set of numbers has a greatest.
LEMMA MaxIsIn ==
  ASSUME NEW n \in Nat, NEW S, S \subseteq 0..n, S # {}
  PROVE  Max(S) \in S /\ \A y \in S : Max(S) >= y
<1> DEFINE T == {n - x : x \in S}
           R == OpToRel(<, Nat)
<1>1. T \subseteq Nat /\ T # {}
  <2>1. \A x \in S : n - x \in Nat
    OBVIOUS
  <2>2. PICK x \in S : TRUE
    OBVIOUS
  <2> QED
    BY <2>1, <2>2
<1>2. IsWellFoundedOn(R, Nat)
  BY NatLessThanWellFounded
<1> HIDE DEF T, R
<1>3. PICK m \in T : \A y \in T : <<y, m>> \notin R
  BY <1>1, <1>2, WFMin
<1>4. PICK x \in S : m = n - x
  BY DEF T
<1>5. \A y \in S : x >= y
  <2> SUFFICES ASSUME NEW y \in S, y > x PROVE FALSE
    OBVIOUS
  <2>1. n - y \in T /\ n - y \in Nat /\ m \in Nat /\ n - y < m
    BY <1>1, <1>4 DEF T
  <2>2. <<n - y, m>> \in R
    BY <2>1 DEF R, OpToRel
  <2> QED
    BY <1>3, <2>1, <2>2
<1> QED
  BY <1>5 DEF Max

LEMMA UpTo ==
  ASSUME NEW n \in Nat, NEW S, S \subseteq 0..n
  PROVE  IsFiniteSet(S) /\ Cardinality(S) \in Nat
<1>1. IsFiniteSet(0..n)
  BY FS_Interval
<1>2. IsFiniteSet(S)
  BY <1>1, FS_Subset
<1> QED
  BY <1>2, FS_CardinalityType

-----------------------------------------------------------------------------
\* What a tick begins with.

From == IF checkpoint = None THEN now - Minute ELSE checkpoint
Due == OccurrencesBetween(schedule, From, now)

\* occurrencesBetween: what it returns lies after From and not after now.
LEMMA DueWithin ==
  ASSUME TypeOK
  PROVE  /\ From \in Int /\ Due \subseteq 0..now /\ Due \subseteq schedule
         /\ \A t \in Due : t > From
<1>1. now \in Nat /\ Minute \in Nat /\ From \in Int
  BY SchedulerAssumption DEF TypeOK, From
<1>2. schedule \subseteq Nat
  BY SchedulerAssumption DEF TypeOK
<1>3. From < Floor(From) + Minute /\ Floor(From) \in Int
  BY <1>1, FloorOf
<1>4. Due = {t \in schedule : Floor(From) + Minute <= t /\ t <= now /\ t <= From + MaxGap}
  BY DEF Due, OccurrencesBetween
<1> HIDE DEF Due, From
<1>5. Due \subseteq schedule
  BY <1>4
<1>6. \A t \in Due : t \in 0..now /\ t > From
  BY <1>1, <1>2, <1>3, <1>4
<1> QED
  BY <1>1, <1>5, <1>6

\* applyMissedRunPolicy: it returns a part of what was due, all of it under RunAll, and at
\* most the last under the other policies.
LEMMA PolicyChooses ==
  ASSUME NEW n \in Nat, NEW due, due \subseteq 0..n, NEW at
  PROVE  LET todo == ApplyMissedRunPolicy(due, at)
         IN  /\ todo \subseteq due
             /\ policy = "RunAll" => todo = due
             /\ policy # "RunAll" => \A t \in todo : \A u \in due : u <= t
<1> DEFINE one == {t \in {Max(due)} : policy = "RunOnce" \/ at - t <= Minute}
<1>1. IsFiniteSet(due) /\ Cardinality(due) \in Nat
  BY UpTo
<1>2. CASE policy = "RunAll"
  BY <1>2 DEF ApplyMissedRunPolicy
<1>3. CASE policy # "RunAll" /\ Cardinality(due) <= 1
  <2>1. ASSUME NEW t \in due, NEW u \in due, t # u PROVE FALSE
    <3>1. Cardinality({t}) = 1 /\ IsFiniteSet({t})
      BY FS_Singleton
    <3>2. Cardinality({t} \cup {u}) = 2
      BY <2>1, <3>1, FS_AddElement
    <3>3. {t} \cup {u} \subseteq due
      OBVIOUS
    <3>4. Cardinality({t} \cup {u}) <= Cardinality(due)
      BY <1>1, <3>3, FS_Subset
    <3> QED
      BY <1>1, <1>3, <3>2, <3>4
  <2>2. ApplyMissedRunPolicy(due, at) = due
    BY <1>3 DEF ApplyMissedRunPolicy
  <2>3. \A t \in due : \A u \in due : u = t
    BY <2>1
  <2>4. \A t \in due : \A u \in due : u <= t
    BY <2>3
  <2> HIDE DEF one
  <2> QED
    BY <1>3, <2>2, <2>4
<1>4. CASE policy # "RunAll" /\ ~(Cardinality(due) <= 1)
  <2>1. due # {}
    BY <1>4, FS_EmptySet
  <2>2. Max(due) \in due /\ \A u \in due : Max(due) >= u
    BY <2>1, MaxIsIn
  <2>3. one \subseteq due /\ \A t \in one : t = Max(due)
    BY <2>2
  <2> HIDE DEF one
  <2>4. ApplyMissedRunPolicy(due, at) = one
    BY <1>4 DEF ApplyMissedRunPolicy, one
  <2>5. \A t \in one : \A u \in due : u <= t
    BY <2>2, <2>3
  <2> QED
    BY <1>4, <2>3, <2>4, <2>5
<1> QED
  BY <1>2, <1>3, <1>4

\* nextOccurrenceAfter: no checkpoint when nothing is left, and otherwise the first that is.
LEMMA NextIsFirst ==
  ASSUME NEW plan, plan \in Schedules \union {{}}, NEW n \in Nat
  PROVE  LET next == NextOccurrenceAfter(plan, n)
         IN  /\ next \in Nat \union {None}
             /\ next # None => /\ next \in plan /\ next > n
                               /\ \A t \in plan : n < t => next <= t
             /\ next = None => \A t \in plan : t <= n
<1> DEFINE later == {t \in plan : t >= Floor(n) + Minute}
<1>1. plan \subseteq Nat /\ \A t \in plan : t % Minute = 0
  BY SchedulerAssumption
<1>2. Minute \in Nat /\ None \notin Int /\ Floor(n) \in Int /\ n < Floor(n) + Minute
  BY SchedulerAssumption, FloorOf
<1>3. \A t \in plan : n < t <=> t \in later
  BY <1>1, <1>2, NextMinute
<1>4. CASE later = {}
  BY <1>1, <1>3, <1>4 DEF NextOccurrenceAfter
<1>5. CASE later # {}
  <2>1. Min(later) \in later /\ \A t \in later : Min(later) <= t
    BY <1>1, <1>5, MinIsIn
  <2>2. NextOccurrenceAfter(plan, n) = Min(later)
    BY <1>5 DEF NextOccurrenceAfter
  <2> HIDE DEF later
  <2>3. Min(later) \in plan /\ Min(later) \in Nat /\ Min(later) > n
    BY <1>1, <1>3, <2>1 DEF later
  <2> QED
    BY <1>2, <1>3, <2>1, <2>2, <2>3
<1> QED
  BY <1>4, <1>5

-----------------------------------------------------------------------------
LEMMA InitTickInv == Init => TickInv
<1> SUFFICES ASSUME Init PROVE TickInv
  OBVIOUS
<1> USE SchedulerAssumption DEF Init, IdleTick
<1>1. TypeOK
  BY DEF TypeOK
<1>2. TicksInOrder
  <2> SUFFICES ASSUME NEW k \in Schedulers
               PROVE  /\ tick[k].at = 0 /\ tick[k].todo = {} /\ tick[k].pc = "idle"
                      /\ now = 0
    BY DEF TicksInOrder
  <2> QED
    OBVIOUS
<1>4. TicksAreOfNow /\ CheckpointFollows
  BY DEF TicksAreOfNow, CheckpointFollows
<1> QED
  BY <1>1, <1>2, <1>4 DEF TickInv

LEMMA BeginTickInv == ASSUME TickInv, NEW k \in Schedulers, BeginTick(k) PROVE TickInv'
<1> DEFINE todo == ApplyMissedRunPolicy(Due, now)
           row == [pc |-> IF todo = {} THEN "recording" ELSE "starting",
                   at |-> now, plan |-> schedule, todo |-> todo]
<1>1. now \in Nat /\ schedule \in Schedules
  BY SchedulerAssumption DEF TickInv, TypeOK
<1>2. todo \subseteq 0..now
  BY <1>1, DueWithin, PolicyChooses DEF TickInv
<1>3. tick' = [tick EXCEPT ![k] = row]
  BY DEF BeginTick, Due, From
<1> HIDE DEF todo
<1>4. /\ row \in [pc : {"idle", "starting", "recording"}, at : Nat,
                  plan : Schedules \union {{}}, todo : SUBSET Nat]
      /\ row.at = now /\ row.todo = todo /\ row.pc # "idle"
      /\ (row.pc = "starting" <=> todo # {})
  <2>1. CASE todo = {}
    BY <1>1, <2>1
  <2>2. CASE todo # {}
    <3>1. todo \subseteq Nat
      BY <1>1, <1>2
    <3> QED
      BY <1>1, <2>2, <3>1
  <2> QED
    BY <2>1, <2>2
<1> HIDE DEF row
<1>5. /\ tick' \in [Schedulers -> [pc : {"idle", "starting", "recording"}, at : Nat,
                                   plan : Schedules \union {{}}, todo : SUBSET Nat]]
      /\ \A j \in Schedulers : tick'[j] = IF j = k THEN row ELSE tick[j]
  BY <1>3, <1>4 DEF TickInv, TypeOK
<1>6. UNCHANGED <<now, schedule, policy, checkpoint, offered, since, recorded, changes, deaths>>
  BY DEF BeginTick
<1>7. TypeOK'
  BY <1>5, <1>6 DEF TickInv, TypeOK
<1>8. TicksInOrder' /\ TicksAreOfNow' /\ CheckpointFollows'
  BY <1>1, <1>2, <1>4, <1>5, <1>6 DEF TickInv, TicksInOrder, TicksAreOfNow, CheckpointFollows
<1> QED
  BY <1>7, <1>8 DEF TickInv

LEMMA StartOccurrenceInv ==
  ASSUME TickInv, NEW k \in Schedulers, StartOccurrence(k) PROVE TickInv'
<1> DEFINE first == Min(tick[k].todo)
           rest == tick[k].todo \ {first}
           row == [tick[k] EXCEPT !.todo = rest,
                                  !.pc = IF rest = {} THEN "recording" ELSE "starting"]
<1>1. /\ tick[k] \in [pc : {"idle", "starting", "recording"}, at : Nat,
                      plan : Schedules \union {{}}, todo : SUBSET Nat]
      /\ tick[k].at <= now /\ tick[k].todo \subseteq 0..tick[k].at /\ tick[k].todo # {}
      /\ now \in 0..LastInstant /\ LastInstant \in Nat
  BY SchedulerAssumption DEF TickInv, TypeOK, TicksInOrder, StartOccurrence
<1>2. first \in tick[k].todo
  BY <1>1, MinIsIn
<1>3. first \in 0..LastInstant /\ rest \subseteq tick[k].todo
  BY <1>1, <1>2
<1>5. tick' = [tick EXCEPT ![k] = row] /\ offered' = offered \union {<<first, tick[k].at>>}
  BY <1>1 DEF StartOccurrence, TickInv, TypeOK
<1>6. /\ row \in [pc : {"idle", "starting", "recording"}, at : Nat,
                  plan : Schedules \union {{}}, todo : SUBSET Nat]
      /\ row.at = tick[k].at /\ row.todo = rest /\ row.pc # "idle"
      /\ (row.pc = "starting" <=> rest # {})
  BY <1>1, <1>3
<1> HIDE DEF row, rest, first
<1>7. /\ tick' \in [Schedulers -> [pc : {"idle", "starting", "recording"}, at : Nat,
                                   plan : Schedules \union {{}}, todo : SUBSET Nat]]
      /\ \A j \in Schedulers : tick'[j] = IF j = k THEN row ELSE tick[j]
  BY <1>5, <1>6 DEF TickInv, TypeOK
<1>8. /\ UNCHANGED <<now, schedule, policy, checkpoint, since, recorded, changes, deaths>>
      /\ tick[k].pc = "starting"
  BY DEF StartOccurrence
<1>9. TypeOK'
  <2>1. offered' \subseteq (0..LastInstant) \X Nat
    BY <1>1, <1>3, <1>5 DEF TickInv, TypeOK
  <2> QED
    BY <1>7, <1>8, <2>1 DEF TickInv, TypeOK
<1>10. TicksInOrder' /\ TicksAreOfNow' /\ CheckpointFollows'
  BY <1>1, <1>3, <1>6, <1>7, <1>8 DEF TickInv, TicksInOrder, TicksAreOfNow, CheckpointFollows
<1> QED
  BY <1>9, <1>10 DEF TickInv

\* A tick that ends, by its record or with its process.
LEMMA EndsTick ==
  ASSUME TickInv, NEW k \in Schedulers, tick' = [tick EXCEPT ![k] = IdleTick],
         UNCHANGED now
  PROVE  /\ tick' \in [Schedulers -> [pc : {"idle", "starting", "recording"}, at : Nat,
                                      plan : Schedules \union {{}}, todo : SUBSET Nat]]
         /\ TicksInOrder' /\ TicksAreOfNow'
         /\ \A j \in Schedulers : tick'[j] = IF j = k THEN IdleTick ELSE tick[j]
<1>1. /\ IdleTick \in [pc : {"idle", "starting", "recording"}, at : Nat,
                       plan : Schedules \union {{}}, todo : SUBSET Nat]
      /\ IdleTick.pc = "idle" /\ IdleTick.todo = {} /\ IdleTick.at = 0
  BY DEF IdleTick
<1>2. /\ tick' \in [Schedulers -> [pc : {"idle", "starting", "recording"}, at : Nat,
                                   plan : Schedules \union {{}}, todo : SUBSET Nat]]
      /\ \A j \in Schedulers : tick'[j] = IF j = k THEN IdleTick ELSE tick[j]
  BY <1>1 DEF TickInv, TypeOK
<1>3. now \in Nat
  BY SchedulerAssumption DEF TickInv, TypeOK
<1>4. TicksInOrder' /\ TicksAreOfNow'
  BY <1>1, <1>2, <1>3 DEF TickInv, TicksInOrder, TicksAreOfNow
<1> QED
  BY <1>2, <1>4

LEMMA RecordNextInv == ASSUME TickInv, NEW k \in Schedulers, RecordNext(k) PROVE TickInv'
<1> DEFINE next == NextOccurrenceAfter(tick[k].plan, tick[k].at)
<1>1. /\ tick[k].plan \in Schedules \union {{}} /\ tick[k].at \in Nat
      /\ now \in Nat /\ since \in 0..LastInstant
  BY SchedulerAssumption DEF TickInv, TypeOK
<1>2. next \in Nat \union {None} /\ (next # None => next > tick[k].at)
  BY <1>1, NextIsFirst
<1>3. /\ checkpoint' = next /\ recorded' = recorded \union {<<tick[k].at, next>>}
      /\ tick' = [tick EXCEPT ![k] = IdleTick] /\ tick[k].pc = "recording"
      /\ UNCHANGED <<now, schedule, policy, offered, since, changes, deaths>>
  BY DEF RecordNext
<1> HIDE DEF next
<1>4. TypeOK'
  <2>1. tick' \in [Schedulers -> [pc : {"idle", "starting", "recording"}, at : Nat,
                                  plan : Schedules \union {{}}, todo : SUBSET Nat]]
    BY <1>3, EndsTick
  <2>2. recorded' \subseteq Nat \X (Nat \union {None})
    BY <1>1, <1>2, <1>3 DEF TickInv, TypeOK
  <2> QED
    BY <1>2, <1>3, <2>1, <2>2 DEF TickInv, TypeOK
<1>5. CheckpointFollows'
  <2> SUFFICES ASSUME ~SlowTicks, next # None PROVE next >= since
    BY <1>3 DEF TickInv, CheckpointFollows
  <2>1. tick[k].at = now /\ since <= now
    BY <1>3 DEF TickInv, TicksAreOfNow, CheckpointFollows
  <2> QED
    BY <1>1, <1>2, <2>1
<1> QED
  BY <1>3, <1>4, <1>5, EndsTick DEF TickInv

LEMMA StepInv == ASSUME TickInv, [Next]_vars PROVE TickInv'
<1>1. CASE TimePasses
  <2>1. /\ now' = now + 1 /\ now < LastInstant /\ now \in 0..LastInstant /\ LastInstant \in Nat
        /\ UNCHANGED <<schedule, policy, checkpoint, tick, offered, since, recorded, changes, deaths>>
        /\ SlowTicks \/ \A k \in Schedulers : tick[k].pc = "idle"
    BY <1>1, SchedulerAssumption DEF TimePasses, TickInv, TypeOK
  <2>2. TypeOK'
    BY <2>1 DEF TickInv, TypeOK
  <2>3. since \in Nat /\ \A k \in Schedulers : tick[k].at \in Nat
    BY <2>1 DEF TickInv, TypeOK
  <2>4. TicksInOrder' /\ TicksAreOfNow' /\ CheckpointFollows'
    BY <2>1, <2>3 DEF TickInv, TicksInOrder, TicksAreOfNow, CheckpointFollows
  <2> QED
    BY <2>2, <2>4 DEF TickInv
<1>2. ASSUME NEW s \in Schedules, SetSchedule(s) PROVE TickInv'
  <2>1. now \in 0..LastInstant /\ LastInstant \in Nat /\ MaxChanges \in Nat
    BY SchedulerAssumption DEF TickInv, TypeOK
  <2>2. TypeOK'
    BY <1>2, <2>1 DEF TickInv, TypeOK, SetSchedule
  <2>3. TicksInOrder' /\ TicksAreOfNow' /\ CheckpointFollows'
    BY <1>2, <2>1 DEF TickInv, SetSchedule, TicksInOrder, TicksAreOfNow, CheckpointFollows
  <2> QED
    BY <2>2, <2>3 DEF TickInv
<1>3. ASSUME NEW k \in Schedulers, Dies(k) PROVE TickInv'
  <2>1. tick' = [tick EXCEPT ![k] = IdleTick] /\ UNCHANGED now
    BY <1>3 DEF Dies
  <2>2. tick' \in [Schedulers -> [pc : {"idle", "starting", "recording"}, at : Nat,
                                  plan : Schedules \union {{}}, todo : SUBSET Nat]]
    BY <2>1, EndsTick
  <2>3. /\ UNCHANGED <<now, schedule, policy, checkpoint, offered, since, recorded, changes>>
        /\ deaths < MaxDeaths /\ deaths' = deaths + 1
    BY <1>3 DEF Dies
  <2>4. TypeOK' /\ CheckpointFollows'
    BY <2>2, <2>3, SchedulerAssumption DEF TickInv, TypeOK, CheckpointFollows
  <2> QED
    BY <2>1, <2>4, EndsTick DEF TickInv
<1>4. CASE UNCHANGED vars
  BY <1>4 DEF vars, TickInv, TypeOK, TicksInOrder, TicksAreOfNow, CheckpointFollows
<1> QED
  BY <1>1, <1>2, <1>3, <1>4, BeginTickInv, StartOccurrenceInv, RecordNextInv DEF Next

LEMMA TickInvAlways == Spec => []TickInv
<1> QED
  BY InitTickInv, StepInv, PTL DEF Spec

\* The type invariant.
THEOREM TypeCorrect == Spec => []TypeOK
<1>1. TickInv => TypeOK
  BY DEF TickInv
<1> QED
  BY <1>1, TickInvAlways, PTL

\* A tick goes back no further than the schedule it finds, as long as no tick that read an
\* older one is slow (setSchedule clears next_run_at).
THEOREM OldOccurrencesStayPast == ASSUME ~SlowTicks PROVE Spec => NothingReplayed
<1> DEFINE Fresh == \A k \in Schedulers :
                      (tick[k].pc = "idle" /\ tick'[k].pc # "idle")
                        => \A t \in tick'[k].todo : t > since - Minute
<1>1. ASSUME TickInv, [Next]_vars PROVE Fresh
  <2> SUFFICES ASSUME NEW k \in Schedulers, tick[k].pc = "idle", tick'[k].pc # "idle"
               PROVE  \A t \in tick'[k].todo : t > since - Minute
    OBVIOUS
  <2>1. IdleTick.pc = "idle"
    BY DEF IdleTick
  <2>2. tick \in [Schedulers -> [pc : {"idle", "starting", "recording"}, at : Nat,
                                 plan : Schedules \union {{}}, todo : SUBSET Nat]]
    BY <1>1 DEF TickInv, TypeOK
  <2>3. BeginTick(k)
    <3>1. ASSUME NEW j \in Schedulers, RecordNext(j) \/ Dies(j) PROVE FALSE
      BY <2>1, <2>2, <3>1 DEF RecordNext, Dies
    <3>2. ASSUME NEW j \in Schedulers, StartOccurrence(j) PROVE FALSE
      BY <2>2, <3>2 DEF StartOccurrence
    <3>3. ASSUME NEW j \in Schedulers, j # k, BeginTick(j) PROVE FALSE
      BY <2>2, <3>3 DEF BeginTick
    <3>4. ~TimePasses /\ ~(\E s \in Schedules : SetSchedule(s)) /\ ~UNCHANGED vars
      BY DEF TimePasses, SetSchedule, vars
    <3> QED
      BY <1>1, <3>1, <3>2, <3>3, <3>4 DEF Next
  <2>4. tick'[k].todo = ApplyMissedRunPolicy(Due, now)
    BY <2>2, <2>3 DEF BeginTick, Due, From
  <2>5. now \in Nat /\ since \in Nat /\ since <= now /\ Minute \in Nat /\ Minute > 0
    BY <1>1, SchedulerAssumption DEF TickInv, TypeOK, CheckpointFollows
  <2>6. From >= since - Minute /\ From \in Int
    BY <1>1, <2>5, DueWithin DEF TickInv, TypeOK, CheckpointFollows, From
  <2>7. Due \subseteq 0..now /\ \A t \in Due : t > From
    BY <1>1, DueWithin DEF TickInv
  <2>8. tick'[k].todo \subseteq Due
    BY ZenonT(60), <2>4, <2>5, <2>7, PolicyChooses
  <2> HIDE DEF Due, From
  <2>9. \A t \in Due : t > since - Minute
    BY <2>5, <2>6, <2>7
  <2> QED
    BY <2>8, <2>9
<1> QED
  BY <1>1, TickInvAlways, PTL DEF Spec, NothingReplayed

-----------------------------------------------------------------------------
(***************************************************************************)
(* Catching up.  Whatever came due since a tick of this schedule is with   *)
(* the engine, written down as next, or still ahead of the checkpoint;     *)
(* while a tick is under way, it may also be among what that tick has yet  *)
(* to hand over.                                                           *)
(***************************************************************************)
Covered(t) == (\E o \in offered : o[1] = t) \/ \E c \in recorded : c[2] = t

\* The occurrence came due after that tick and within what is walked from its checkpoint.
Within(a, t) == a[1] < t /\ a[2] # None /\ t <= a[2] + MaxGap

AheadOfCheckpoint ==
  \A a \in recorded :
    /\ a[1] <= now /\ (checkpoint # None => a[1] < checkpoint)
    /\ \A t \in schedule :
         Within(a, t) => Covered(t) \/ (checkpoint # None /\ checkpoint < t)

InHand ==
  \A k \in Schedulers : tick[k].pc # "idle" =>
    \A a \in recorded : \A t \in schedule :
      (Within(a, t) /\ t <= now) => Covered(t) \/ t \in tick[k].todo

\* With one schedule from the start, everything is written down from it.
OnSchedule ==
  /\ checkpoint # None => checkpoint \in schedule
  /\ \A k \in Schedulers : tick[k].pc # "idle" => tick[k].plan = schedule
  /\ \A a \in recorded : a[2] # None => \A t \in schedule : a[1] < t => a[2] <= t

CatchInv == (policy = "RunAll" /\ changes = 0) => OnSchedule /\ AheadOfCheckpoint /\ InHand

LEMMA OnScheduleStep ==
  ASSUME TickInv, OnSchedule, [Next]_vars, ~(\E s \in Schedules : SetSchedule(s))
  PROVE  OnSchedule'
<1>1. CASE TimePasses \/ UNCHANGED vars
  BY <1>1 DEF TimePasses, vars, OnSchedule
<1>2. ASSUME NEW k \in Schedulers, BeginTick(k) PROVE OnSchedule'
  <2>1. /\ UNCHANGED <<schedule, checkpoint, recorded>> /\ tick'[k].plan = schedule
        /\ \A j \in Schedulers : j # k => tick'[j] = tick[j]
    BY <1>2 DEF BeginTick, TickInv, TypeOK
  <2> QED
    BY <2>1 DEF OnSchedule
<1>3. ASSUME NEW k \in Schedulers, StartOccurrence(k) PROVE OnSchedule'
  <2>1. /\ UNCHANGED <<schedule, checkpoint, recorded>> /\ tick'[k].plan = tick[k].plan
        /\ tick[k].pc # "idle"
        /\ \A j \in Schedulers : j # k => tick'[j] = tick[j]
    BY <1>3 DEF StartOccurrence, TickInv, TypeOK
  <2> QED
    BY <2>1 DEF OnSchedule
<1>4. ASSUME NEW k \in Schedulers, Dies(k) PROVE OnSchedule'
  <2>1. /\ UNCHANGED <<schedule, checkpoint, recorded>> /\ tick'[k].pc = "idle"
        /\ \A j \in Schedulers : j # k => tick'[j] = tick[j]
    BY <1>4 DEF Dies, TickInv, TypeOK, IdleTick
  <2> QED
    BY <2>1 DEF OnSchedule
<1>5. ASSUME NEW k \in Schedulers, RecordNext(k) PROVE OnSchedule'
  <2> DEFINE next == NextOccurrenceAfter(schedule, tick[k].at)
  <2>1. /\ checkpoint' = next /\ recorded' = recorded \union {<<tick[k].at, next>>}
        /\ UNCHANGED schedule /\ tick'[k].pc = "idle"
        /\ \A j \in Schedulers : j # k => tick'[j] = tick[j]
    BY <1>5 DEF RecordNext, TickInv, TypeOK, IdleTick, OnSchedule
  <2>2. schedule \in Schedules /\ tick[k].at \in Nat
    BY DEF TickInv, TypeOK
  <2>3. next # None => next \in schedule /\ \A t \in schedule : tick[k].at < t => next <= t
    BY <2>2, NextIsFirst
  <2> HIDE DEF next
  <2> QED
    BY <2>1, <2>3 DEF OnSchedule
<1> QED
  BY <1>1, <1>2, <1>3, <1>4, <1>5 DEF Next

LEMMA CatchBegin ==
  ASSUME TickInv, OnSchedule, AheadOfCheckpoint, InHand, policy = "RunAll",
         NEW k \in Schedulers, BeginTick(k)
  PROVE  AheadOfCheckpoint' /\ InHand'
<1>1. /\ now \in Nat /\ now <= LastInstant /\ LastInstant \in Nat /\ MaxGap \in Nat
      /\ Minute \in Nat /\ schedule \in Schedules /\ checkpoint \in Nat \union {None}
      /\ \A t \in schedule : t \in Nat /\ t % Minute = 0
  BY SchedulerAssumption DEF TickInv, TypeOK
<1>2. UNCHANGED <<now, schedule, policy, checkpoint, offered, since, recorded>>
  BY DEF BeginTick
<1>3. Due \subseteq 0..now
  BY DueWithin DEF TickInv
<1>4. ApplyMissedRunPolicy(Due, now) = Due
  BY <1>1, <1>3, PolicyChooses
<1>5. /\ tick'[k].todo = Due
      /\ \A j \in Schedulers : j # k => tick'[j] = tick[j]
  BY <1>4 DEF BeginTick, TickInv, TypeOK, Due, From
<1>6. AheadOfCheckpoint'
  BY <1>2 DEF AheadOfCheckpoint, Covered, Within
<1>7. ASSUME NEW a \in recorded, NEW t \in schedule, Within(a, t),
             checkpoint # None, checkpoint < t, t <= now
      PROVE  t \in Due
  <2>1. checkpoint \in Nat /\ From = checkpoint
    BY <1>1, <1>7 DEF From
  <2>2. Floor(checkpoint) + Minute <= t
    BY <1>1, <1>7, <2>1, NextMinute
  <2>4. a[2] \in Nat /\ a[2] <= checkpoint /\ t <= a[2] + MaxGap
    BY <1>7 DEF Within, OnSchedule, AheadOfCheckpoint, TickInv, TypeOK
  <2>3. t \in Nat /\ t <= checkpoint + MaxGap
    BY <1>1, <1>7, <2>1, <2>4
  <2> QED
    BY <1>7, <2>1, <2>2, <2>3 DEF Due, OccurrencesBetween
<1>8. InHand'
  <2> SUFFICES ASSUME NEW j \in Schedulers, tick'[j].pc # "idle"
               PROVE  \A a \in recorded : \A t \in schedule :
                        (Within(a, t) /\ t <= now) => Covered(t) \/ t \in tick'[j].todo
    BY <1>2 DEF InHand, Covered, Within
  <2>1. CASE j = k
    BY <1>5, <1>7, <2>1 DEF AheadOfCheckpoint
  <2>2. CASE j # k
    BY <1>5, <2>2 DEF InHand
  <2> QED
    BY <2>1, <2>2
<1> QED
  BY <1>6, <1>8

LEMMA CatchStart ==
  ASSUME TickInv, AheadOfCheckpoint, InHand, NEW k \in Schedulers, StartOccurrence(k)
  PROVE  AheadOfCheckpoint' /\ InHand'
<1> DEFINE first == Min(tick[k].todo)
<1>1. /\ UNCHANGED <<now, schedule, policy, checkpoint, since, recorded>>
      /\ offered' = offered \union {<<first, tick[k].at>>}
  BY DEF StartOccurrence
<1>2. /\ tick'[k].todo = tick[k].todo \ {first}
      /\ tick[k].pc # "idle"
      /\ \A j \in Schedulers : j # k => tick'[j] = tick[j]
  BY DEF StartOccurrence, TickInv, TypeOK
<1> HIDE DEF first
<1>3. \A t : Covered(t) \/ t = first => Covered(t)'
  <2>1. <<first, tick[k].at>>[1] = first
    OBVIOUS
  <2> QED
    BY <1>1, <2>1 DEF Covered
<1>4. AheadOfCheckpoint'
  BY <1>1, <1>3 DEF AheadOfCheckpoint, Within
<1>5. InHand'
  <2> SUFFICES ASSUME NEW j \in Schedulers, tick'[j].pc # "idle"
               PROVE  \A a \in recorded : \A t \in schedule :
                        (Within(a, t) /\ t <= now) => Covered(t)' \/ t \in tick'[j].todo
    BY <1>1 DEF InHand, Within
  <2>1. CASE j = k
    BY <1>2, <1>3, <2>1 DEF InHand
  <2>2. CASE j # k
    BY <1>2, <1>3, <2>2 DEF InHand
  <2> QED
    BY <2>1, <2>2
<1> QED
  BY <1>4, <1>5

LEMMA CatchRecord ==
  ASSUME TickInv, OnSchedule, AheadOfCheckpoint, InHand, ~SlowTicks,
         NEW k \in Schedulers, RecordNext(k)
  PROVE  AheadOfCheckpoint' /\ InHand'
<1> DEFINE next == NextOccurrenceAfter(schedule, now)
<1>1. /\ now \in Nat /\ schedule \in Schedules /\ recorded \subseteq Nat \X (Nat \union {None})
      /\ \A t \in schedule : t \in Nat
  BY SchedulerAssumption DEF TickInv, TypeOK
<1>2. /\ tick[k].pc = "recording" /\ tick[k].plan = schedule /\ tick[k].at = now
      /\ tick[k].todo = {}
  BY DEF RecordNext, TickInv, TicksInOrder, TicksAreOfNow, OnSchedule
<1>3. /\ checkpoint' = next /\ recorded' = recorded \union {<<now, next>>}
      /\ UNCHANGED <<now, schedule, policy, offered, since>>
  BY <1>2 DEF RecordNext
<1>4. /\ next \in Nat \union {None}
      /\ (next # None => next > now /\ \A t \in schedule : now < t => next <= t)
      /\ (next = None => \A t \in schedule : t <= now)
  BY <1>1, NextIsFirst
<1> HIDE DEF next
<1>5. /\ tick'[k].pc = "idle"
      /\ \A j \in Schedulers : j # k => tick'[j] = tick[j]
  BY DEF RecordNext, TickInv, TypeOK, IdleTick
<1>6. (\A t : Covered(t) => Covered(t)') /\ \E c \in recorded' : c[2] = next
  <2>1. \A t : Covered(t) => Covered(t)'
    BY <1>3 DEF Covered
  <2>2. <<now, next>> \in recorded' /\ <<now, next>>[2] = next
    BY <1>3
  <2> QED
    BY <2>1, <2>2
<1>7. ASSUME NEW t \in schedule, now < t PROVE Covered(t)' \/ (next # None /\ next < t)
  <2>1. next # None /\ next \in Nat /\ next <= t /\ t \in Nat
    BY <1>1, <1>4, <1>7
  <2>2. CASE next = t
    BY <1>6, <2>2 DEF Covered
  <2>3. CASE next # t
    BY <2>1, <2>3
  <2> QED
    BY <2>2, <2>3
<1>8. \A a \in recorded : a[1] \in Nat /\ a[1] <= now
  BY <1>1 DEF AheadOfCheckpoint
<1>9. \A a \in recorded : \A t \in schedule : (Within(a, t) /\ t <= now) => Covered(t)
  BY <1>2 DEF InHand
<1>10. AheadOfCheckpoint'
  <2> SUFFICES ASSUME NEW a \in recorded \union {<<now, next>>}
               PROVE  /\ a[1] <= now /\ (next # None => a[1] < next)
                      /\ \A t \in schedule :
                           Within(a, t) => Covered(t)' \/ (next # None /\ next < t)
    BY <1>3 DEF AheadOfCheckpoint, Within
  <2>1. CASE a \in recorded
    <3>1. a[1] <= now /\ a[1] \in Nat
      BY <1>8, <2>1
    <3>2. ASSUME NEW t \in schedule, Within(a, t)
          PROVE  Covered(t)' \/ (next # None /\ next < t)
      <4>1. CASE t <= now
        BY <1>6, <1>9, <2>1, <3>2, <4>1
      <4>2. CASE now < t
        BY <1>7, <4>2
      <4> QED
        BY <1>1, <4>1, <4>2
    <3> QED
      BY <1>1, <1>4, <3>1, <3>2
  <2>2. CASE a = <<now, next>>
    BY <1>1, <1>4, <1>7, <2>2 DEF Within
  <2> QED
    BY <2>1, <2>2
<1>11. InHand'
  <2> SUFFICES ASSUME NEW j \in Schedulers, tick'[j].pc # "idle"
               PROVE  \A a \in recorded \union {<<now, next>>} : \A t \in schedule :
                        (Within(a, t) /\ t <= now) => Covered(t)' \/ t \in tick'[j].todo
    BY <1>3 DEF InHand, Within
  <2>1. tick'[j] = tick[j] /\ tick[j].pc # "idle"
    BY <1>5
  <2>2. \A t \in schedule : ~(now < t /\ t <= now)
    BY <1>1
  <2> QED
    BY <1>6, <2>1, <2>2 DEF InHand, Within
<1> QED
  BY <1>10, <1>11

LEMMA CatchStep ==
  ASSUME TickInv, CatchInv, [Next]_vars, ~SlowTicks
  PROVE  CatchInv'
<1> SUFFICES ASSUME (policy = "RunAll" /\ changes = 0)'
             PROVE  (OnSchedule /\ AheadOfCheckpoint /\ InHand)'
  BY DEF CatchInv
<1>1. CASE \E s \in Schedules : SetSchedule(s)
  <2>1. changes \in Nat /\ changes' = changes + 1
    BY <1>1, SchedulerAssumption DEF SetSchedule, TickInv, TypeOK
  <2> QED
    BY <2>1
<1> SUFFICES ASSUME ~(\E s \in Schedules : SetSchedule(s))
             PROVE  (OnSchedule /\ AheadOfCheckpoint /\ InHand)'
  BY <1>1
<1>2. OnSchedule /\ AheadOfCheckpoint /\ InHand /\ policy = "RunAll"
  BY DEF CatchInv, Next, vars, TimePasses, BeginTick, StartOccurrence, RecordNext, Dies
<1>6. OnSchedule'
  BY <1>2, OnScheduleStep
<1>3. ASSUME TimePasses PROVE AheadOfCheckpoint' /\ InHand'
  <2>1. /\ now' = now + 1 /\ now \in Nat /\ recorded \subseteq Nat \X (Nat \union {None})
        /\ UNCHANGED <<schedule, policy, checkpoint, tick, offered, since, recorded>>
        /\ \A k \in Schedulers : tick[k].pc = "idle"
    BY <1>3, SchedulerAssumption DEF TimePasses, TickInv, TypeOK
  <2>2. \A a \in recorded : a[1] \in Nat
    BY <2>1
  <2>3. AheadOfCheckpoint'
    BY <1>2, <2>1, <2>2 DEF AheadOfCheckpoint, Covered, Within
  <2>4. InHand'
    BY <2>1 DEF InHand
  <2> QED
    BY <2>3, <2>4
<1>4. ASSUME NEW k \in Schedulers, Dies(k) PROVE AheadOfCheckpoint' /\ InHand'
  <2>1. /\ UNCHANGED <<now, schedule, policy, checkpoint, offered, since, recorded>>
        /\ tick'[k].pc = "idle"
        /\ \A j \in Schedulers : j # k => tick'[j] = tick[j]
    BY <1>4 DEF Dies, TickInv, TypeOK, IdleTick
  <2> QED
    BY <1>2, <2>1 DEF AheadOfCheckpoint, InHand, Covered, Within
<1>5. ASSUME UNCHANGED vars PROVE AheadOfCheckpoint' /\ InHand'
  BY <1>2, <1>5 DEF vars, AheadOfCheckpoint, InHand, Covered, Within
<1>7. ASSUME NEW k \in Schedulers, BeginTick(k) \/ StartOccurrence(k) \/ RecordNext(k)
      PROVE  AheadOfCheckpoint' /\ InHand'
  BY <1>2, <1>7, CatchBegin, CatchStart, CatchRecord
<1> QED
  BY <1>3, <1>4, <1>5, <1>6, <1>7 DEF Next

\* Catching up after an outage loses nothing that a tick still reaches: with RunAll and
\* ticks that are short against the clock, every occurrence between two ticks, and not
\* further than the walk of occurrencesBetween behind the occurrence the earlier of them
\* wrote down, is handed to the engine or was written down as next, however many instances
\* tick the agent and whichever of them die (tick, recordNext).
THEOREM CatchUpLosesNothing ==
  ASSUME ~SlowTicks
  PROVE  Spec => []CatchesUp
<1>1. Init => CatchInv
  BY SchedulerAssumption DEF Init, IdleTick, CatchInv, OnSchedule, AheadOfCheckpoint, InHand
<1>2. TickInv /\ CatchInv /\ [Next]_vars => CatchInv'
  BY CatchStep
<1>3. TickInv /\ CatchInv => CatchesUp
  <2> SUFFICES ASSUME TickInv, CatchInv, policy = "RunAll", changes = 0,
                      NEW a \in recorded, NEW b \in recorded, NEW t \in schedule,
                      Within(a, t), t <= b[1]
               PROVE  t \in {o[1] : o \in offered} \union {c[2] : c \in recorded}
    BY DEF CatchesUp, Within
  <2>1. /\ b[1] \in Nat /\ t \in Nat /\ checkpoint \in Nat \union {None}
    BY SchedulerAssumption DEF TickInv, TypeOK
  <2>2. checkpoint # None => b[1] < checkpoint
    BY DEF CatchInv, AheadOfCheckpoint
  <2>3. Covered(t) \/ (checkpoint # None /\ checkpoint < t)
    BY DEF CatchInv, AheadOfCheckpoint
  <2>4. Covered(t)
    BY <2>1, <2>2, <2>3
  <2> QED
    BY <2>4 DEF Covered
<1> QED
  BY <1>1, <1>2, <1>3, TickInvAlways, PTL DEF Spec

-----------------------------------------------------------------------------
(***************************************************************************)
(* Catching up once.  Of what had come due when an occurrence was handed   *)
(* over, all that is later lies behind the checkpoint or out of its walk,  *)
(* where no tick looks again; the occurrence itself lies within the walk.  *)
(***************************************************************************)
\* A schedule is weekly: it comes again, whenever one looks.
SchedulesGoOn == \A s \in Schedules : \E t \in s : t > LastInstant

\* t was handed over, or is about to be, by a tick that began at n.
Handed(t, n) ==
  << t, n >> \in offered \/ \E k \in Schedulers : t \in tick[k].todo /\ n = tick[k].at

\* No tick that begins now would find it.
OutOfReach(s) == checkpoint # None /\ (s <= checkpoint \/ s > checkpoint + MaxGap)

Settled ==
  \A t \in Nat, n \in Nat : Handed(t, n) =>
    /\ t \in schedule /\ t <= n /\ n <= now
    /\ checkpoint # None => t <= checkpoint + MaxGap
    /\ \A s \in schedule : (t < s /\ s <= n) => OutOfReach(s)

HandedOnce ==
  \A t, n, u, m \in Nat : (Handed(t, n) /\ Handed(u, m) /\ t < u) => n < u

OnceInv == (policy # "RunAll" /\ changes = 0) => OnSchedule /\ Settled /\ HandedOnce

\* What the policy leaves of what is due is all of it that a later tick could find.
LEMMA ChosenIsLast ==
  ASSUME TickInv, policy # "RunAll",
         NEW m \in ApplyMissedRunPolicy(Due, now), NEW s \in schedule, m < s, s <= now
  PROVE  checkpoint # None /\ s > checkpoint + MaxGap
<1>1. /\ now \in Nat /\ Minute \in Nat \ {0} /\ MaxGap \in Nat
      /\ checkpoint \in Nat \union {None} /\ s \in Nat /\ s % Minute = 0
  BY SchedulerAssumption DEF TickInv, TypeOK
<1>2. /\ From \in Int /\ Due \subseteq 0..now /\ Due \subseteq schedule
      /\ \A t \in Due : t > From
  BY DueWithin DEF TickInv
<1>3. m \in Due /\ \A u \in Due : u <= m
  BY <1>1, <1>2, PolicyChooses
<1>4. m \in Nat /\ m > From /\ m % Minute = 0
  BY <1>2, <1>3, SchedulerAssumption DEF TickInv, TypeOK
<1>5. s \notin Due
  BY <1>1, <1>3, <1>4
<1>6. Floor(From) + Minute <= s
  BY <1>1, <1>2, <1>4, NextMinute
<1>7. s > From + MaxGap
  <2>1. ~(s <= From + MaxGap)
    BY <1>5, <1>6 DEF Due, OccurrencesBetween
  <2> HIDE DEF From
  <2> QED
    BY <1>1, <1>2, <2>1
<1>8. CASE checkpoint = None
  <2>1. Floor(m) = m
    BY <1>1, <1>4 DEF Floor
  <2>2. m + Minute <= s
    BY <1>1, <1>4, <2>1, NextMinute
  <2>3. From = now - Minute
    BY <1>8 DEF From
  <2> QED
    BY <1>1, <1>4, <2>2, <2>3
<1>9. CASE checkpoint # None
  BY <1>7, <1>9 DEF From
<1> QED
  BY <1>8, <1>9

LEMMA OnceBegin ==
  ASSUME TickInv, Settled, HandedOnce, policy # "RunAll", NEW k \in Schedulers, BeginTick(k)
  PROVE  Settled' /\ HandedOnce'
<1> DEFINE todo == ApplyMissedRunPolicy(Due, now)
<1>1. /\ now \in Nat /\ MaxGap \in Nat /\ checkpoint \in Nat \union {None}
      /\ \A s \in schedule : s \in Nat
  BY SchedulerAssumption DEF TickInv, TypeOK
<1>2. UNCHANGED <<now, schedule, checkpoint, offered>>
  BY DEF BeginTick
<1>3. /\ tick'[k].todo = todo /\ tick'[k].at = now
      /\ \A j \in Schedulers : j # k => tick'[j] = tick[j]
  BY DEF BeginTick, TickInv, TypeOK, Due, From
<1>4. /\ todo \subseteq Due /\ \A t \in todo : \A u \in Due : u <= t
  BY <1>1, DueWithin, PolicyChooses DEF TickInv
<1>5. ASSUME NEW m \in todo
      PROVE  /\ m \in schedule /\ m \in Nat /\ m <= now /\ ~OutOfReach(m)
             /\ \A s \in schedule : (m < s /\ s <= now) => OutOfReach(s)
             /\ checkpoint # None => m <= checkpoint + MaxGap
  <2>1. m \in Due /\ m \in schedule /\ m \in 0..now /\ m > From
    BY <1>4, DueWithin DEF TickInv
  <2>2. m <= From + MaxGap
    BY <2>1 DEF Due, OccurrencesBetween
  <2>3. checkpoint # None => m > checkpoint /\ m <= checkpoint + MaxGap
    BY <2>1, <2>2 DEF From
  <2>4. \A s \in schedule : (m < s /\ s <= now) => OutOfReach(s)
    BY <1>5, ChosenIsLast DEF OutOfReach
  <2> QED
    BY <1>1, <2>1, <2>3, <2>4 DEF OutOfReach
<1> HIDE DEF todo
<1>6. \A t \in Nat, n \in Nat : Handed(t, n)' => Handed(t, n) \/ (t \in todo /\ n = now)
  BY <1>2, <1>3 DEF Handed
<1>7. OutOfReach(0)' <=> OutOfReach(0)
  BY <1>2 DEF OutOfReach
<1>8. Settled'
  <2> SUFFICES ASSUME NEW t \in Nat, NEW n \in Nat, Handed(t, n)'
               PROVE  /\ t \in schedule /\ t <= n /\ n <= now
                      /\ checkpoint # None => t <= checkpoint + MaxGap
                      /\ \A s \in schedule : (t < s /\ s <= n) => OutOfReach(s)
    BY <1>2 DEF Settled, OutOfReach
  <2>1. CASE Handed(t, n)
    BY <2>1 DEF Settled
  <2>2. CASE t \in todo /\ n = now
    BY <1>1, <1>5, <2>2
  <2> QED
    BY <1>6, <2>1, <2>2
<1>9. HandedOnce'
  <2> SUFFICES ASSUME NEW t \in Nat, NEW n \in Nat, NEW u \in Nat, NEW m \in Nat,
                      Handed(t, n)', Handed(u, m)', t < u
               PROVE  n < u
    BY DEF HandedOnce
  <2>1. CASE Handed(t, n) /\ Handed(u, m)
    BY <2>1 DEF HandedOnce
  <2>2. CASE Handed(t, n) /\ u \in todo /\ m = now
    <3>1. ~OutOfReach(u) /\ u \in schedule
      BY <1>5, <2>2
    <3>2. ~(u <= n)
      BY <2>2, <3>1 DEF Settled
    <3> QED
      BY <3>2
  <2>3. CASE t \in todo /\ n = now /\ Handed(u, m)
    <3>1. /\ u \in schedule /\ u <= now
          /\ checkpoint # None => u <= checkpoint + MaxGap
      BY <1>1, <2>3 DEF Settled
    <3>2. checkpoint # None /\ u > checkpoint + MaxGap
      BY <2>3, <3>1, ChosenIsLast DEF todo
    <3> QED
      BY <1>1, <3>1, <3>2
  <2>4. CASE t \in todo /\ u \in todo
    BY <1>4, <2>4
  <2> QED
    BY <1>6, <2>1, <2>2, <2>3, <2>4
<1> QED
  BY <1>8, <1>9

LEMMA OnceRecord ==
  ASSUME TickInv, OnSchedule, Settled, HandedOnce, ~SlowTicks, SchedulesGoOn,
         NEW k \in Schedulers, RecordNext(k)
  PROVE  Settled' /\ HandedOnce'
<1> DEFINE next == NextOccurrenceAfter(schedule, now)
<1>1. /\ now \in Nat /\ now <= LastInstant /\ LastInstant \in Nat /\ schedule \in Schedules
      /\ MaxGap \in Nat /\ \A t \in schedule : t \in Nat
  BY SchedulerAssumption DEF TickInv, TypeOK
<1>2. /\ checkpoint' = next /\ UNCHANGED <<now, schedule, offered>>
      /\ tick'[k].todo = {} /\ \A j \in Schedulers : j # k => tick'[j] = tick[j]
  BY DEF RecordNext, TickInv, TypeOK, TicksAreOfNow, OnSchedule, IdleTick
<1>3. /\ next \in Nat \union {None} /\ (next # None => next > now)
      /\ (next = None => \A t \in schedule : t <= now)
  BY <1>1, NextIsFirst
<1>4. next \in Nat /\ next # None /\ next > now
  BY <1>1, <1>3, SchedulerAssumption DEF SchedulesGoOn
<1> HIDE DEF next
<1>5. \A t \in Nat, n \in Nat : Handed(t, n)' => Handed(t, n)
  BY <1>2 DEF Handed
<1>6. Settled'
  <2> SUFFICES ASSUME NEW t \in Nat, NEW n \in Nat, Handed(t, n)
               PROVE  /\ t \in schedule /\ t <= n /\ n <= now
                      /\ t <= next + MaxGap
                      /\ \A s \in schedule : (t < s /\ s <= n) => s <= next
    BY <1>2, <1>4, <1>5 DEF Settled, OutOfReach
  <2>1. t \in schedule /\ t <= n /\ n <= now
    BY DEF Settled
  <2> QED
    BY <1>1, <1>4, <2>1
<1>7. HandedOnce'
  BY <1>5 DEF HandedOnce
<1> QED
  BY <1>6, <1>7

\* The other steps hand over nothing that was not to be handed over before.
LEMMA OnceElse ==
  ASSUME Settled, HandedOnce, UNCHANGED <<schedule, checkpoint>>, now' >= now,
         now \in Nat, now' \in Nat,
         \A t \in Nat, n \in Nat : Handed(t, n)' => Handed(t, n)
  PROVE  Settled' /\ HandedOnce'
<1>1. HandedOnce'
  BY DEF HandedOnce
<1>2. Settled'
  <2> SUFFICES ASSUME NEW t \in Nat, NEW n \in Nat, Handed(t, n)
               PROVE  /\ t \in schedule /\ t <= n /\ n <= now'
                      /\ checkpoint # None => t <= checkpoint + MaxGap
                      /\ \A s \in schedule : (t < s /\ s <= n) => OutOfReach(s)
    BY DEF Settled, OutOfReach
  <2> QED
    BY DEF Settled
<1> QED
  BY <1>1, <1>2

LEMMA OnceStep ==
  ASSUME TickInv, OnceInv, [Next]_vars, ~SlowTicks, SchedulesGoOn
  PROVE  OnceInv'
<1> SUFFICES ASSUME (policy # "RunAll" /\ changes = 0)'
             PROVE  (OnSchedule /\ Settled /\ HandedOnce)'
  BY DEF OnceInv
<1>1. CASE \E s \in Schedules : SetSchedule(s)
  <2>1. changes \in Nat /\ changes' = changes + 1
    BY <1>1, SchedulerAssumption DEF SetSchedule, TickInv, TypeOK
  <2> QED
    BY <2>1
<1> SUFFICES ASSUME ~(\E s \in Schedules : SetSchedule(s))
             PROVE  (OnSchedule /\ Settled /\ HandedOnce)'
  BY <1>1
<1>2. OnSchedule /\ Settled /\ HandedOnce /\ policy # "RunAll"
  BY DEF OnceInv, Next, vars, TimePasses, BeginTick, StartOccurrence, RecordNext, Dies
<1>3. OnSchedule'
  BY <1>2, OnScheduleStep
<1>4. now \in Nat
  BY SchedulerAssumption DEF TickInv, TypeOK
<1>5. CASE TimePasses \/ UNCHANGED vars
  <2>1. /\ UNCHANGED <<schedule, checkpoint, tick, offered>> /\ now' >= now /\ now' \in Nat
    BY <1>4, <1>5 DEF TimePasses, vars
  <2> QED
    BY <1>2, <1>3, <1>4, <2>1, OnceElse DEF Handed
<1>6. ASSUME NEW k \in Schedulers, Dies(k) PROVE (Settled /\ HandedOnce)'
  <2>1. /\ UNCHANGED <<now, schedule, checkpoint, offered>> /\ tick'[k].todo = {}
        /\ \A j \in Schedulers : j # k => tick'[j] = tick[j]
    BY <1>6 DEF Dies, TickInv, TypeOK, IdleTick
  <2>2. \A t \in Nat, n \in Nat : Handed(t, n)' => Handed(t, n)
    BY <2>1 DEF Handed
  <2> QED
    BY <1>2, <1>4, <2>1, <2>2, OnceElse
<1>7. ASSUME NEW k \in Schedulers, StartOccurrence(k) PROVE (Settled /\ HandedOnce)'
  <2> DEFINE first == Min(tick[k].todo)
  <2>1. /\ UNCHANGED <<now, schedule, checkpoint>>
        /\ offered' = offered \union {<<first, tick[k].at>>}
        /\ tick'[k].todo \subseteq tick[k].todo /\ tick'[k].at = tick[k].at
        /\ \A j \in Schedulers : j # k => tick'[j] = tick[j]
    BY <1>7 DEF StartOccurrence, TickInv, TypeOK
  <2>2. first \in tick[k].todo
    <3>1. tick[k].todo # {} /\ tick[k].todo \subseteq Nat
      BY <1>7 DEF StartOccurrence, TickInv, TypeOK, TicksInOrder
    <3> QED
      BY <3>1, MinIsIn
  <2> HIDE DEF first
  <2>3. ASSUME NEW t \in Nat, NEW n \in Nat, Handed(t, n)' PROVE Handed(t, n)
    <3>1. CASE <<t, n>> \in offered
      BY <3>1 DEF Handed
    <3>2. CASE <<t, n>> = <<first, tick[k].at>>
      BY <2>2, <3>2 DEF Handed
    <3>3. CASE \E j \in Schedulers : t \in tick'[j].todo /\ n = tick'[j].at
      BY <2>1, <3>3 DEF Handed
    <3> QED
      BY <2>1, <2>3, <3>1, <3>2, <3>3 DEF Handed
  <2> QED
    BY <1>2, <1>4, <2>1, <2>3, OnceElse
<1> QED
  BY <1>2, <1>3, <1>5, <1>6, <1>7, OnceBegin, OnceRecord DEF Next

\* An outage is caught up once: under RunOnce and Skip, of the occurrences due at the same
\* time one at most is ever handed over, the last that the tick reached, by whatever
\* instances tick the agent, whichever of them die and however often they tick again, as
\* long as ticks are short against the clock and the schedule comes again
\* (applyMissedRunPolicy, recordNext).
THEOREM OutageIsCaughtUpOnce ==
  ASSUME ~SlowTicks, SchedulesGoOn
  PROVE  Spec => []OneCatchUp
<1>1. Init => OnceInv
  <2> SUFFICES ASSUME Init PROVE OnceInv
    OBVIOUS
  <2>1. \A t \in Nat, n \in Nat : ~Handed(t, n)
    BY DEF Init, IdleTick, Handed
  <2>2. OnSchedule
    BY DEF Init, IdleTick, OnSchedule
  <2> QED
    BY <2>1, <2>2 DEF OnceInv, Settled, HandedOnce
<1>2. TickInv /\ OnceInv /\ [Next]_vars => OnceInv'
  BY OnceStep
<1>3. TickInv /\ OnceInv => OneCatchUp
  <2> SUFFICES ASSUME TickInv, OnceInv, policy # "RunAll", changes = 0,
                      NEW x \in offered, NEW y \in offered, x[1] < y[1]
               PROVE  x[2] < y[1]
    BY DEF OneCatchUp
  <2>1. /\ x = <<x[1], x[2]>> /\ y = <<y[1], y[2]>>
        /\ x[1] \in Nat /\ x[2] \in Nat /\ y[1] \in Nat /\ y[2] \in Nat
    BY SchedulerAssumption DEF TickInv, TypeOK
  <2>2. Handed(x[1], x[2]) /\ Handed(y[1], y[2])
    BY <2>1 DEF Handed
  <2> QED
    BY <2>1, <2>2 DEF OnceInv, HandedOnce
<1> QED
  BY <1>1, <1>2, <1>3, TickInvAlways, PTL DEF Spec
=============================================================================
