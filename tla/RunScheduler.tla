----------------------------- MODULE RunScheduler -----------------------------
(***************************************************************************)
(* The scheduler of one Engine Agent: which occurrences of its schedule a  *)
(* tick hands to the run engine, and the checkpoint it leaves for the next *)
(* tick.  Several API instances may tick at once.                          *)
(*                                                                         *)
(* Time is counted in instants, Minute of them to a minute, so that a tick *)
(* may come between two minutes.  A schedule, and the company calendar it  *)
(* is read through, is the set of instants at which it fires.              *)
(***************************************************************************)
EXTENDS Integers, FiniteSets, FiniteSetsExt

CONSTANTS Schedulers,   \* processes that may tick the company
          Schedules,    \* what setSchedule may put the agent on
          Policies,     \* the missed-run policies the agent may have
          Minute,       \* instants in a minute
          MaxGap,       \* the seven days occurrencesBetween walks at most
          SlowTicks,    \* whether time passes while a tick is under way
          LastInstant, MaxChanges, MaxDeaths,   \* bounds of the model
          None          \* no checkpoint

ASSUME SchedulerAssumption ==
  /\ Minute \in Nat \ {0} /\ MaxGap \in Nat /\ LastInstant \in Nat
  /\ MaxChanges \in Nat /\ MaxDeaths \in Nat
  /\ Policies \subseteq {"RunOnce", "RunAll", "Skip"}
  /\ SlowTicks \in BOOLEAN
  /\ \A s \in Schedules : IsFiniteSet(s) /\ \A t \in s : t \in Nat /\ t % Minute = 0
  /\ None \notin Int

VARIABLES now,
          schedule,     \* engine_agents.schedule_cron
          policy,       \* its missed_run_policy, or the company's
          checkpoint,   \* engine_agents.next_run_at
          tick,         \* what each scheduler is doing
          offered,      \* history: << occurrence handed to RunEngineService.start, tick >>
          since,        \* history: when the schedule was set
          recorded,     \* history: << tick, checkpoint >> of each tick under it
          changes, deaths

vars == << now, schedule, policy, checkpoint, tick, offered, since, recorded, changes, deaths >>

-----------------------------------------------------------------------------
Floor(t) == (t \div Minute) * Minute

\* Mutant: starts at the minute after the next.
OccurrencesSkippingOne(plan, from, to) ==
  {t \in plan : Floor(from) + 2 * Minute <= t /\ t <= to /\ t <= from + MaxGap}

\* occurrencesBetween: (from, to], cut off at MaxGap.
OccurrencesBetween(plan, from, to) ==
  {t \in plan : Floor(from) + Minute <= t /\ t <= to /\ t <= from + MaxGap}

\* nextOccurrenceAfter; its limit of a year is beyond every schedule here.
NextOccurrenceAfter(plan, after) ==
  LET later == {t \in plan : t >= Floor(after) + Minute}
  IN  IF later = {} THEN None ELSE Min(later)

\* Mutant: the policy is not consulted.
NoPolicy(due, at) == due

ApplyMissedRunPolicy(due, at) ==
  IF Cardinality(due) <= 1 \/ policy = "RunAll" THEN due
  ELSE {t \in {Max(due)} : policy = "RunOnce" \/ at - t <= Minute}

-----------------------------------------------------------------------------
IdleTick == [pc |-> "idle", at |-> 0, plan |-> {}, todo |-> {}]

TypeOK ==
  /\ now \in 0..LastInstant
  /\ schedule \in Schedules /\ policy \in Policies
  /\ checkpoint \in Nat \union {None}
  /\ tick \in [Schedulers -> [pc : {"idle", "starting", "recording"}, at : Nat,
                              plan : Schedules \union {{}}, todo : SUBSET Nat]]
  /\ offered \subseteq (0..LastInstant) \X Nat
  /\ since \in 0..LastInstant
  /\ recorded \subseteq Nat \X (Nat \union {None})
  /\ changes \in 0..MaxChanges /\ deaths \in 0..MaxDeaths

Init ==
  /\ now = 0
  /\ schedule \in Schedules /\ policy \in Policies
  /\ checkpoint = None
  /\ tick = [k \in Schedulers |-> IdleTick]
  /\ offered = {} /\ since = 0 /\ recorded = {}
  /\ changes = 0 /\ deaths = 0

TimePasses ==
  /\ now < LastInstant
  /\ SlowTicks \/ \A k \in Schedulers : tick[k].pc = "idle"
  /\ now' = now + 1
  /\ UNCHANGED << schedule, policy, checkpoint, tick, offered, since, recorded, changes, deaths >>

\* Mutant: the checkpoint survives the change.
SetScheduleKeepingCheckpoint(s) ==
  /\ changes < MaxChanges /\ changes' = changes + 1
  /\ schedule' = s /\ since' = now /\ recorded' = {}
  /\ UNCHANGED << now, policy, checkpoint, tick, offered, deaths >>

SetSchedule(s) ==
  /\ changes < MaxChanges /\ changes' = changes + 1
  /\ schedule' = s
  /\ checkpoint' = None
  /\ since' = now /\ recorded' = {}
  /\ UNCHANGED << now, policy, tick, offered, deaths >>

\* tick reads the agent and works out what is due.
BeginTick(k) ==
  /\ tick[k].pc = "idle"
  /\ LET from == IF checkpoint = None THEN now - Minute ELSE checkpoint
         todo == ApplyMissedRunPolicy(OccurrencesBetween(schedule, from, now), now)
     IN  tick' = [tick EXCEPT ![k] = [pc |-> IF todo = {} THEN "recording" ELSE "starting",
                                      at |-> now, plan |-> schedule, todo |-> todo]]
  /\ UNCHANGED << now, schedule, policy, checkpoint, offered, since, recorded, changes, deaths >>

\* Oldest first.  A refusal by the run engine is caught, so the loop goes on either way.
StartOccurrence(k) ==
  /\ tick[k].pc = "starting"
  /\ LET rest == tick[k].todo \ {Min(tick[k].todo)}
     IN  /\ offered' = offered \union {<< Min(tick[k].todo), tick[k].at >>}
         /\ tick' = [tick EXCEPT ![k].todo = rest,
                                 ![k].pc = IF rest = {} THEN "recording" ELSE "starting"]
  /\ UNCHANGED << now, schedule, policy, checkpoint, since, recorded, changes, deaths >>

\* Mutant: the checkpoint goes on by one occurrence, whatever the time.
RecordNextFromCheckpoint(k) ==
  /\ tick[k].pc = "recording"
  /\ checkpoint' = NextOccurrenceAfter(tick[k].plan,
                                      IF checkpoint = None THEN tick[k].at ELSE checkpoint)
  /\ recorded' = recorded \union {<< tick[k].at, checkpoint' >>}
  /\ tick' = [tick EXCEPT ![k] = IdleTick]
  /\ UNCHANGED << now, schedule, policy, offered, since, changes, deaths >>

\* The next occurrence of the schedule the tick read, after the tick's own now.
RecordNext(k) ==
  /\ tick[k].pc = "recording"
  /\ checkpoint' = NextOccurrenceAfter(tick[k].plan, tick[k].at)
  /\ recorded' = recorded \union {<< tick[k].at, checkpoint' >>}
  /\ tick' = [tick EXCEPT ![k] = IdleTick]
  /\ UNCHANGED << now, schedule, policy, offered, since, changes, deaths >>

\* The process dies in the middle of a tick.
Dies(k) ==
  /\ tick[k].pc # "idle"
  /\ deaths < MaxDeaths /\ deaths' = deaths + 1
  /\ tick' = [tick EXCEPT ![k] = IdleTick]
  /\ UNCHANGED << now, schedule, policy, checkpoint, offered, since, recorded, changes >>

Next ==
  \/ TimePasses
  \/ \E s \in Schedules : SetSchedule(s)
  \/ \E k \in Schedulers : BeginTick(k) \/ StartOccurrence(k) \/ RecordNext(k) \/ Dies(k)

Spec == Init /\ [][Next]_vars

-----------------------------------------------------------------------------
\* Nobody who sets a schedule finds occurrences replayed from before it was set: a tick
\* that begins afterwards goes back no further (setSchedule: "Cleared, the next tick starts
\* from now").
NothingReplayed ==
  [][\A k \in Schedulers :
       (tick[k].pc = "idle" /\ tick'[k].pc # "idle")
         => \A t \in tick'[k].todo : t > since - Minute]_vars

\* Catch-up: what was due between two ticks of the same schedule is handed to the engine,
\* also when a scheduler dies halfway through a tick, in every case but two: the
\* occurrence a tick wrote down as next, and what lies further behind the occurrence
\* written down at the earlier tick than a tick walks.
CatchesUp ==
  (policy = "RunAll" /\ changes = 0) =>
    \A a, b \in recorded : \A t \in schedule :
      (a[1] < t /\ t <= b[1] /\ a[2] # None /\ t <= a[2] + MaxGap)
        => t \in {o[1] : o \in offered} \union {c[2] : c \in recorded}

\* One catch-up: under the other policies, of all that had come due when an occurrence was
\* handed over nothing later is ever handed over, by that tick, by another instance or by
\* the ticks that follow a death ("can flood a provider and spend a budget in minutes").
OneCatchUp ==
  (policy # "RunAll" /\ changes = 0) =>
    \A x, y \in offered : x[1] < y[1] => x[2] < y[1]
=============================================================================
