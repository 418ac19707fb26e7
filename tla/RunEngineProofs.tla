---------------------------- MODULE RunEngineProofs ----------------------------
(***************************************************************************)
(* Machine-checked proofs about RunEngine, for every number of runs,       *)
(* workers, callers and attempts.  Up to the refinement of RunOutcome they *)
(* hold whatever goes wrong; the theorems about who performs a run, and    *)
(* about runs nobody remembers, name the requests and mishaps they leave   *)
(* out.                                                                    *)
(***************************************************************************)
EXTENDS RunEngineProperties, FiniteSetTheorems, TLAPS

LEMMA MovedTyped ==
  ASSUME NEW x \in Row, NEW to \in RunState, NEW a \in 1..MaxAttempts
  PROVE  Moved(x, to, a) \in Row
BY ZenonT(60) DEF Moved, Row

LEMMA ToppedUpTyped ==
  ASSUME NEW x \in Row
  PROVE  ToppedUp(x) \in Row
BY DEF ToppedUp, Row, RunState

LEMMA NewRowTyped == NoRow \in Row /\ NewRow \in Row /\ NewRow.state = "Queued"
<1>1. NoRow \in Row
  BY MaxAttemptsAssumption DEF NoRow, Row
<1>2. NewRow \in Row /\ NewRow.state = "Queued"
  BY <1>1 DEF NewRow, Row, RunState
<1> QED
  BY <1>1, <1>2

LEMMA WriteTyped ==
  ASSUME TypeOK, NEW r \in Runs, NEW to \in RunState, NEW a \in 1..MaxAttempts,
         Write(r, to, a)
  PROVE  row' \in [Runs -> Row] /\ live' \in [Runs -> RunState \union {Absent}]
BY MovedTyped DEF TypeOK, Write

LEMMA AddedTyped ==
  ASSUME TypeOK, NEW id \in JobIds, NEW a \in 1..MaxAttempts
  PROVE  Added(job, id, a) \in [JobIds -> Job]
BY DEF TypeOK, Added, Job, JobStatus

WorkersTyped ==
  /\ worker \in [Workers -> Worker]
  /\ \A w \in Workers : worker[w].pc # "idle" => worker[w].job \in JobIds

LEMMA IntendTyped ==
  ASSUME TypeOK, NEW w \in Workers, worker[w].pc # "idle", NEW pc \in WorkerPc,
         NEW to \in RunState, NEW a \in 1..MaxAttempts, Intend(w, pc, to, a)
  PROVE  WorkersTyped'
BY ZenonT(60) DEF TypeOK, Intend, WorkersTyped, Worker

LEMMA GotoTyped ==
  ASSUME TypeOK, NEW w \in Workers, worker[w].pc # "idle", NEW pc \in WorkerPc,
         Goto(w, pc)
  PROVE  WorkersTyped'
BY DEF TypeOK, Goto, WorkersTyped, Worker

LEMMA LeaveTyped ==
  ASSUME TypeOK, NEW w \in Workers, worker[w].pc # "idle", Leave(w)
  PROVE  WorkersTyped'
BY IntendTyped, MaxAttemptsAssumption DEF Leave, WorkerPc, RunState

LEMMA CallerTyped ==
  ASSUME TypeOK, NEW c \in Callers, NEW pc \in CallerPc, NEW rs \in SUBSET Runs,
         NEW to \in RunState, NEW a \in 1..MaxAttempts,
         CallerDoes(c, pc, rs, to, a)
  PROVE  caller' \in [Callers -> Caller]
BY DEF TypeOK, CallerDoes, Caller

LEMMA CallerReturnsTyped ==
  ASSUME TypeOK, NEW c \in Callers, CallerReturns(c)
  PROVE  caller' \in [Callers -> Caller]
BY MaxAttemptsAssumption DEF TypeOK, CallerReturns, IdleCaller, Caller, CallerPc, RunState

LEMMA FailsTyped ==
  ASSUME TypeOK, NEW kind, Fails(kind)
  PROVE  mishaps' \in 0..MaxMishaps
BY ConstantsAssumption DEF TypeOK, Fails

LEMMA RunOfTyped ==
  ASSUME TypeOK, NEW w \in Workers, worker[w].pc # "idle"
  PROVE  /\ worker[w].job \in JobIds /\ RunOf(w) \in Runs
         /\ \A k \in 1..MaxAttempts : << RunOf(w), k >> \in JobIds
         /\ worker[w].attempt \in 1..MaxAttempts /\ worker[w].to \in RunState
BY DEF TypeOK, RunOf, JobIds, Worker

-----------------------------------------------------------------------------
(* Types.                                                                  *)

LEMMA TypeInit == Init => TypeOK
<1> SUFFICES ASSUME Init PROVE TypeOK
  OBVIOUS
<1>1. row \in [Runs -> Row] /\ live \in [Runs -> RunState \union {Absent}]
  BY NewRowTyped DEF Init
<1>2. job \in [JobIds -> Job]
  BY MaxAttemptsAssumption DEF Init, UnknownJob, Job, JobStatus
<1>3. worker \in [Workers -> Worker] /\ \A w \in Workers : worker[w].pc = "idle"
  BY MaxAttemptsAssumption DEF Init, IdleWorker, Worker, WorkerPc, RunState
<1>4. caller \in [Callers -> Caller]
  BY MaxAttemptsAssumption DEF Init, IdleCaller, Caller, CallerPc, RunState
<1>5. mishaps \in 0..MaxMishaps
  BY ConstantsAssumption DEF Init
<1> QED
  BY <1>1, <1>2, <1>3, <1>4, <1>5 DEF TypeOK

LEMMA WorkerStepTyped ==
  ASSUME TypeOK, NEW w \in Workers, WorkerStep(w)
  PROVE  TypeOK'
<1> USE DEF WorkersTyped
<1>0. 1 \in 1..MaxAttempts
  BY MaxAttemptsAssumption
<1>1. ASSUME NEW id \in JobIds, Pickup(w, id) \/ Hold(w, id)
      PROVE  TypeOK'
  <2>1. ASSUME NEW pc \in {"admitted", "deferring"}, Take(w, id, pc)
        PROVE  WorkersTyped' /\ job' \in [JobIds -> Job]
    BY ZenonT(60), <2>1, <1>0 DEF Take, TypeOK, Worker, WorkerPc, IdleWorker, Job, JobStatus, RunState
  <2> QED
    BY <1>1, <2>1 DEF Pickup, Hold, TypeOK
<1>2. CASE Defer(w)
  BY <1>2, RunOfTyped, AddedTyped, LeaveTyped DEF Defer, WorkerAt, TypeOK
<1>3. CASE ReadToReserve(w)
  BY <1>3, GotoTyped, LeaveTyped DEF ReadToReserve, WorkerAt, TypeOK, WorkerPc
<1>4. CASE Reserve(w)
  <2>1. row' \in [Runs -> Row] /\ live' \in [Runs -> RunState \union {Absent}]
    BY <1>0, <1>4, RunOfTyped, WriteTyped DEF Reserve, WorkerAt, RunState, InFlight
  <2> QED
    BY <1>4, <2>1, GotoTyped DEF Reserve, WorkerAt, TypeOK, WorkerPc
<1>5. CASE ReadToStart(w)
  BY <1>5, GotoTyped, LeaveTyped DEF ReadToStart, WorkerAt, TypeOK, WorkerPc
<1>6. CASE Start(w)
  <2>1. row' \in [Runs -> Row] /\ live' \in [Runs -> RunState \union {Absent}]
    BY <1>0, <1>6, RunOfTyped, WriteTyped DEF Start, WorkerAt, RunState, InFlight
  <2> QED
    BY <1>6, <2>1, GotoTyped DEF Start, WorkerAt, TypeOK, WorkerPc
<1>7. CASE GiveUp(w)
  <2>1. mishaps' \in 0..MaxMishaps
    BY <1>7, FailsTyped DEF GiveUp, WriteRefused, TypeOK
  <2> QED
    BY <1>7, <2>1, LeaveTyped DEF GiveUp, WorkerAt, TypeOK
<1>8. CASE Execute(w)
  BY <1>0, <1>8, GotoTyped, IntendTyped
  DEF Execute, WorkerAt, TypeOK, WorkerPc, RunState, Blocked, Waiting, Terminal
<1>9. CASE Complete(w)
  <2>1. row' \in [Runs -> Row] /\ live' \in [Runs -> RunState \union {Absent}]
    BY <1>0, <1>9, RunOfTyped, WriteTyped DEF Complete, WorkerAt, RunState, Terminal
  <2> QED
    BY <1>9, <2>1, LeaveTyped DEF Complete, WorkerAt, TypeOK
<1>10. CASE CompletionRolledBack(w)
  <2>1. mishaps' \in 0..MaxMishaps
    BY <1>10, FailsTyped DEF CompletionRolledBack, WriteRefused, TypeOK
  <2>2. live' \in [Runs -> RunState \union {Absent}]
    BY <1>10, RunOfTyped DEF CompletionRolledBack, WorkerAt, TypeOK, RunState, Terminal
  <2>3. WorkersTyped'
    BY <1>0, <1>10, IntendTyped DEF CompletionRolledBack, WorkerAt, WorkerPc, RunState
  <2> QED
    BY <1>10, <2>1, <2>2, <2>3 DEF CompletionRolledBack, TypeOK
<1>11. CASE ReadToFail(w)
  <2> DEFINE r  == RunOf(w)
             to == FailureTarget(worker[w].to, row[r].attempt)
  <2>1. r \in Runs /\ worker[w].pc # "idle" /\ row[r].attempt \in 1..MaxAttempts
    BY <1>11, RunOfTyped DEF ReadToFail, WorkerAt, TypeOK, Row
  <2>2. to \in RunState
    BY <2>1, RunOfTyped DEF FailureTarget, RunState, Terminal
  <2>3. to = "Retrying" => row[r].attempt + 1 \in 1..MaxAttempts
    BY <2>1, MaxAttemptsAssumption DEF FailureTarget, MayRetry
  <2>4. WorkersTyped'
    <3> DEFINE a == IF to = "Retrying" THEN row[r].attempt + 1 ELSE row[r].attempt
    <3>1. a \in 1..MaxAttempts
      BY <2>1, <2>3
    <3>2. CASE Leave(w)
      BY <2>1, <3>2, LeaveTyped
    <3>3. CASE Intend(w, "recording", to, a)
      <4> HIDE DEF a, to, r
      <4> QED
        BY <2>1, <2>2, <3>1, <3>3, IntendTyped DEF WorkerPc
    <3> QED
      BY <1>11, <3>2, <3>3 DEF ReadToFail
  <2> QED
    BY <1>11, <2>4 DEF ReadToFail, TypeOK
<1>12. CASE RecordFailure(w)
  <2>1. row' \in [Runs -> Row] /\ live' \in [Runs -> RunState \union {Absent}]
    BY <1>12, RunOfTyped, WriteTyped DEF RecordFailure, WorkerAt
  <2> QED
    BY <1>12, <2>1, GotoTyped, LeaveTyped DEF RecordFailure, WorkerAt, TypeOK, WorkerPc
<1>13. CASE Requeue(w)
  BY <1>13, RunOfTyped, AddedTyped, LeaveTyped DEF Requeue, WorkerAt, TypeOK
<1>14. CASE Finish(w)
  <2>1. WorkersTyped'
    BY <1>0, <1>14 DEF Finish, TypeOK, Worker, WorkerPc, IdleWorker, RunState
  <2>2. job' \in [JobIds -> Job]
    BY <1>14, RunOfTyped DEF Finish, WorkerAt, TypeOK, Job, JobStatus
  <2> QED
    BY <1>14, <2>1, <2>2 DEF Finish, TypeOK
<1> QED
  BY <1>1, <1>2, <1>3, <1>4, <1>5, <1>6, <1>7, <1>8, <1>9, <1>10, <1>11, <1>12,
     <1>13, <1>14
  DEF WorkerStep

LEMMA CallerStepTyped ==
  ASSUME TypeOK, NEW c \in Callers, CallerStep(c)
  PROVE  TypeOK'
<1> USE DEF CallerAt
<1>0. /\ 1 \in 1..MaxAttempts
      /\ caller[c].runs \in SUBSET Runs /\ caller[c].to \in RunState
      /\ caller[c].attempt \in 1..MaxAttempts
  BY MaxAttemptsAssumption DEF TypeOK, Caller
<1>1. CASE Insert(c)
  <2>1. PICK r \in caller[c].runs :
          \/ /\ row' = [row EXCEPT ![r] = NewRow]
             /\ live' = [live EXCEPT ![r] = "Queued"]
             /\ CallerDoes(c, "enqueuing", {r}, "Queued", 1)
          \/ CallerDoes(c, "error", {r}, "Queued", 1) /\ UNCHANGED << row, live >>
    BY <1>1 DEF Insert
  <2>2. row' \in [Runs -> Row] /\ live' \in [Runs -> RunState \union {Absent}]
    BY <1>0, <2>1, NewRowTyped DEF TypeOK, RunState
  <2>3. caller' \in [Callers -> Caller]
    BY <1>0, <2>1, CallerTyped DEF CallerPc, RunState
  <2> QED
    BY <1>1, <2>2, <2>3 DEF Insert, TypeOK
<1>2. CASE Enqueue(c)
  <2>1. job' \in [JobIds -> Job]
    <3>1. PICK r \in Runs : job' = Added(job, << r, 0 >>, caller[c].attempt)
      BY <1>0, <1>2 DEF Enqueue
    <3>2. << r, 0 >> \in JobIds
      BY MaxAttemptsAssumption DEF JobIds
    <3> QED
      BY <1>0, <3>1, <3>2, AddedTyped
  <2> QED
    BY <1>2, <2>1, CallerReturnsTyped DEF Enqueue, TypeOK
<1>3. CASE MoveRun(c)
  <2>1. PICK r \in Runs :
          /\ Write(r, caller[c].to, caller[c].attempt)
          /\ \/ CallerDoes(c, "enqueuing", {r}, "Queued", caller[c].attempt)
             \/ CallerReturns(c)
    BY <1>0, <1>3 DEF MoveRun
  <2>2. row' \in [Runs -> Row] /\ live' \in [Runs -> RunState \union {Absent}]
    BY <1>0, <2>1, WriteTyped
  <2>3. caller' \in [Callers -> Caller]
    BY <1>0, <2>1, CallerTyped, CallerReturnsTyped DEF CallerPc, RunState
  <2> QED
    BY <1>3, <2>2, <2>3 DEF MoveRun, TypeOK
<1>4. CASE RequestRefused(c)
  <2>1. mishaps' \in 0..MaxMishaps
    BY <1>4, FailsTyped DEF RequestRefused, WriteRefused, TypeOK
  <2>2. caller' \in [Callers -> Caller]
    BY <1>4 DEF RequestRefused, TypeOK, Caller, CallerPc
  <2> QED
    BY <1>4, <2>1, <2>2 DEF RequestRefused, TypeOK
<1>5. CASE TopUp(c)
  <2>1. PICK r \in Runs :
          /\ row' = [row EXCEPT ![r] = ToppedUp(@)]
          /\ \/ CallerReturns(c)
             \/ caller' = [caller EXCEPT ![c].runs = @ \ {r}]
    BY <1>0, <1>5 DEF TopUp
  <2>2. row' \in [Runs -> Row]
    BY <2>1, ToppedUpTyped DEF TypeOK
  <2>3. caller' \in [Callers -> Caller]
    BY <1>0, <2>1, CallerReturnsTyped DEF TypeOK, Caller
  <2> QED
    BY <1>5, <2>2, <2>3 DEF TopUp, TypeOK
<1>6. CASE ErrorAnswered(c)
  BY <1>6, CallerReturnsTyped DEF ErrorAnswered, TypeOK
<1> QED
  BY <1>1, <1>2, <1>3, <1>4, <1>5, <1>6 DEF CallerStep

LEMMA NewRequestTyped ==
  ASSUME TypeOK, NEW c \in Callers, NewRequest(c)
  PROVE  TypeOK'
<1>0. 1 \in 1..MaxAttempts /\ \A r \in Runs : row[r].attempt \in 1..MaxAttempts
  BY MaxAttemptsAssumption DEF TypeOK, Row
<1>1. ASSUME NEW r \in Runs, ReadToInsert(c, r)
      PROVE  TypeOK'
  BY <1>0, <1>1, CallerTyped DEF ReadToInsert, TypeOK, CallerPc, RunState
<1>2. ASSUME NEW r \in Runs, ReadToCancel(c, r)
      PROVE  TypeOK'
  BY <1>0, <1>2, CallerTyped DEF ReadToCancel, TypeOK, CallerPc, RunState, Terminal
<1>3. ASSUME NEW r \in Runs, ReadToResume(c, r)
      PROVE  TypeOK'
  <2>1. PICK to \in {"Running", "Queued"} : CallerDoes(c, "moving", {r}, to, row[r].attempt)
    BY <1>3 DEF ReadToResume
  <2> QED
    BY <1>0, <1>3, <2>1, CallerTyped DEF ReadToResume, TypeOK, CallerPc, RunState, InFlight
<1>4. ASSUME NEW r \in Runs, NEW to \in Waiting, ReadToPark(c, r, to)
      PROVE  TypeOK'
  BY <1>0, <1>4, CallerTyped DEF ReadToPark, TypeOK, CallerPc, RunState
<1>5. CASE ReadToTopUp(c)
  BY <1>0, <1>5, CallerTyped DEF ReadToTopUp, TypeOK, CallerPc, RunState
<1> QED
  BY <1>1, <1>2, <1>3, <1>4, <1>5 DEF NewRequest

LEMMA EnvironmentTyped ==
  ASSUME TypeOK, Environment
  PROVE  TypeOK'
<1>1. IdleWorker \in Worker
  BY MaxAttemptsAssumption DEF IdleWorker, Worker, WorkerPc, RunState
<1>2. ASSUME NEW id \in JobIds
      PROVE  Released(job, id) \in [JobIds -> Job]
  BY DEF Released, TypeOK, Job, JobStatus
<1>3. ASSUME NEW w \in Workers, Crash(w)
      PROVE  TypeOK'
  <2>1. WorkersTyped'
    BY <1>1, <1>3 DEF Crash, TypeOK, WorkersTyped, IdleWorker
  <2>2. mishaps' \in 0..MaxMishaps /\ job' \in [JobIds -> Job]
    BY <1>2, <1>3, FailsTyped, RunOfTyped DEF Crash, WorkerAt, TypeOK
  <2> QED
    BY <1>3, <2>1, <2>2 DEF Crash, TypeOK, WorkersTyped
<1>4. ASSUME NEW w \in Workers, Stall(w)
      PROVE  TypeOK'
  <2>1. WorkersTyped'
    BY <1>4 DEF Stall, TypeOK, WorkersTyped, Worker
  <2>2. mishaps' \in 0..MaxMishaps /\ job' \in [JobIds -> Job]
    BY <1>2, <1>4, FailsTyped, RunOfTyped DEF Stall, WorkerAt, TypeOK
  <2> QED
    BY <1>4, <2>1, <2>2 DEF Stall, TypeOK, WorkersTyped
<1>5. ASSUME NEW c \in Callers, RequestDies(c)
      PROVE  TypeOK'
  BY <1>5, FailsTyped, CallerReturnsTyped DEF RequestDies, TypeOK
<1>6. ASSUME NEW id \in JobIds, Forget(id)
      PROVE  TypeOK'
  BY <1>6, MaxAttemptsAssumption DEF Forget, UnknownJob, TypeOK, Job, JobStatus
<1> QED
  BY <1>3, <1>4, <1>5, <1>6 DEF Environment

LEMMA TypeStep == TypeOK /\ [Next]_vars => TypeOK'
<1> SUFFICES ASSUME TypeOK, [Next]_vars PROVE TypeOK'
  OBVIOUS
<1>1. CASE UNCHANGED vars
  BY <1>1 DEF vars, TypeOK
<1> QED
  BY <1>1, WorkerStepTyped, CallerStepTyped, NewRequestTyped, EnvironmentTyped DEF Next

\* Every variable keeps its type: in particular no job and no row ever carries an attempt
\* beyond max_attempts, which is what keeps the attempt CHECK of agent_runs unviolated.
THEOREM TypeCorrect == Spec => []TypeOK
BY TypeInit, TypeStep, PTL DEF Spec

-----------------------------------------------------------------------------
(* Rows.                                                                   *)

\* What one step may make of a row.
RowMayBecome(old, new) ==
  \/ old.state = Absent /\ new = NewRow
  \/ /\ old.state # Absent
     /\ Accepted(new)
     /\ \/ \E to \in RunState, a \in 1..MaxAttempts : new = Moved(old, to, a)
        \/ new = ToppedUp(old)

RowStep ==
  \/ row' = row
  \/ \E r \in Runs, x \in Row : row' = [row EXCEPT ![r] = x] /\ RowMayBecome(row[r], x)

LEMMA WriteIsRowStep ==
  ASSUME TypeOK, NEW r \in Runs, NEW to \in RunState, NEW a \in 1..MaxAttempts,
         row[r].state # Absent, Write(r, to, a)
  PROVE  RowStep
<1> DEFINE x == Moved(row[r], to, a)
<1>1. x \in Row
  BY MovedTyped DEF TypeOK
<1>2. row' = [row EXCEPT ![r] = x] /\ RowMayBecome(row[r], x)
  <2>1. row' = [row EXCEPT ![r] = x] /\ Accepted(x)
    BY DEF Write, TypeOK
  <2> HIDE DEF x
  <2>2. x = Moved(row[r], to, a)
    BY DEF x
  <2> QED
    BY <2>1, <2>2 DEF RowMayBecome
<1> HIDE DEF x
<1> QED
  BY <1>1, <1>2 DEF RowStep

\* Every step leaves the rows alone, or changes one row in one of three ways.
LEMMA OneRowPerStep ==
  ASSUME TypeOK, RowBeforeJob, [Next]_vars
  PROVE  RowStep
<1>1. ASSUME NEW w \in Workers, WorkerStep(w)
      PROVE  RowStep
  <2> USE DEF WorkerAt
  <2>0. /\ 1 \in 1..MaxAttempts
        /\ worker[w].pc # "idle" => /\ RunOf(w) \in Runs /\ row[RunOf(w)].state # Absent
                                   /\ worker[w].to \in RunState
                                   /\ worker[w].attempt \in 1..MaxAttempts
        /\ {"Reserved", "Running", "Completed"} \subseteq RunState
    BY MaxAttemptsAssumption, RunOfTyped DEF RowBeforeJob, RunState, InFlight, Terminal
  <2>1. CASE Reserve(w)
    BY <2>0, <2>1, WriteIsRowStep DEF Reserve
  <2>2. CASE Start(w)
    BY <2>0, <2>2, WriteIsRowStep DEF Start
  <2>3. CASE Complete(w)
    BY <2>0, <2>3, WriteIsRowStep DEF Complete
  <2>4. CASE RecordFailure(w)
    BY <2>0, <2>4, WriteIsRowStep DEF RecordFailure
  <2> QED
    BY <1>1, <2>1, <2>2, <2>3, <2>4
    DEF WorkerStep, Pickup, Hold, Defer, ReadToReserve, ReadToStart, GiveUp, Execute,
        CompletionRolledBack, ReadToFail, Requeue, Finish, RowStep
<1>2. ASSUME NEW c \in Callers, CallerStep(c)
      PROVE  RowStep
  <2> USE DEF CallerAt
  <2>0. /\ caller[c].runs \in SUBSET Runs /\ caller[c].to \in RunState
        /\ caller[c].attempt \in 1..MaxAttempts
    BY DEF TypeOK, Caller
  <2>1. CASE Insert(c)
    <3>1. PICK r \in Runs :
            \/ row[r].state = Absent /\ row' = [row EXCEPT ![r] = NewRow]
            \/ row' = row
      BY <2>0, <2>1 DEF Insert
    <3>2. row[r].state = Absent => RowMayBecome(row[r], NewRow)
      BY DEF RowMayBecome
    <3> QED
      BY <3>1, <3>2, NewRowTyped DEF RowStep
  <2>2. CASE MoveRun(c)
    <3>1. PICK r \in Runs : /\ Write(r, caller[c].to, caller[c].attempt)
                            /\ row[r].state # Absent
      BY <2>0, <2>2 DEF MoveRun, RowBeforeJob
    <3> QED
      BY <2>0, <3>1, WriteIsRowStep
  <2>3. CASE TopUp(c)
    <3>1. PICK r \in Runs : /\ Accepted(ToppedUp(row[r]))
                            /\ row' = [row EXCEPT ![r] = ToppedUp(row[r])]
                            /\ row[r].state # Absent
      BY <2>0, <2>3 DEF TopUp, RowBeforeJob, TypeOK
    <3>2. ToppedUp(row[r]) \in Row /\ RowMayBecome(row[r], ToppedUp(row[r]))
      BY <3>1, ToppedUpTyped DEF RowMayBecome, TypeOK
    <3> QED
      BY <3>1, <3>2 DEF RowStep
  <2> QED
    BY <1>2, <2>1, <2>2, <2>3
    DEF CallerStep, Enqueue, RequestRefused, ErrorAnswered, RowStep
<1>3. ASSUME NEW c \in Callers, NewRequest(c)
      PROVE  RowStep
  BY <1>3 DEF NewRequest, ReadToInsert, ReadToCancel, ReadToResume, ReadToPark,
              ReadToTopUp, RowStep
<1>4. CASE Environment
  BY <1>4 DEF Environment, Crash, Stall, RequestDies, Forget, RowStep
<1>5. CASE UNCHANGED vars
  BY <1>5 DEF vars, RowStep
<1> QED
  BY <1>1, <1>2, <1>3, <1>4, <1>5 DEF Next

LEMMA RowsStay ==
  ASSUME TypeOK, RowStep, NEW r \in Runs, row[r].state # Absent
  PROVE  row'[r].state # Absent
<1>1. ASSUME NEW x \in Row, RowMayBecome(row[r], x)
      PROVE  x.state # Absent
  BY <1>1 DEF RowMayBecome, Moved, ToppedUp, Row, TypeOK, Absent, RunState, InFlight,
              Waiting, Blocked, Terminal
<1> QED
  BY <1>1 DEF RowStep, TypeOK

LEMMA AddedJobs ==
  ASSUME TypeOK, RowBeforeJob, RowStep, NEW r \in Runs, row[r].state # Absent,
         NEW k \in 0..MaxAttempts, NEW a \in 1..MaxAttempts, job' = Added(job, << r, k >>, a)
  PROVE  \A id \in JobIds : job'[id].st # "unknown" => row'[id[1]].state # Absent
<1>1. \A id \in JobIds : id[1] \in Runs
  BY DEF JobIds
<1>2. \A id \in JobIds : job'[id].st # "unknown" => row[id[1]].state # Absent
  BY DEF Added, RowBeforeJob, TypeOK
<1> QED
  BY <1>1, <1>2, RowsStay

\* The three parts of RowBeforeJob.
JobsHaveRows == \A id \in JobIds : job[id].st # "unknown" => row[id[1]].state # Absent
WorkersHaveRows == \A w \in Workers : worker[w].pc # "idle" => row[RunOf(w)].state # Absent
CallersHaveRows ==
  \A c \in Callers : caller[c].pc \in {"moving", "toppingUp", "enqueuing"}
                       => \A r \in caller[c].runs : row[r].state # Absent

LEMMA RowBeforeJobStep == TypeOK /\ RowBeforeJob /\ [Next]_vars => RowBeforeJob'
<1> SUFFICES ASSUME TypeOK, RowBeforeJob, [Next]_vars
             PROVE  JobsHaveRows' /\ WorkersHaveRows' /\ CallersHaveRows'
  BY DEF RowBeforeJob, JobsHaveRows, WorkersHaveRows, CallersHaveRows
<1>1. RowStep
  BY OneRowPerStep
<1>2. /\ TypeOK'
      /\ \A r \in Runs : row[r].state # Absent => row'[r].state # Absent
      /\ \A id \in JobIds : id[1] \in Runs
      /\ \A w \in Workers : worker[w].pc # "idle" => RunOf(w) \in Runs
      /\ \A c \in Callers : caller[c].runs \subseteq Runs
  BY <1>1, TypeStep, RowsStay, RunOfTyped DEF JobIds, TypeOK, Caller
<1>3. JobsHaveRows /\ WorkersHaveRows /\ CallersHaveRows
  BY DEF RowBeforeJob, JobsHaveRows, WorkersHaveRows, CallersHaveRows
<1>4. UNCHANGED job => JobsHaveRows'
  BY <1>2, <1>3 DEF JobsHaveRows
<1>5. ASSUME \A w \in Workers : worker'[w].pc # "idle"
                                 => worker[w].pc # "idle" /\ worker'[w].job = worker[w].job
      PROVE  WorkersHaveRows'
  BY <1>2, <1>3, <1>5 DEF WorkersHaveRows, RunOf
<1>6. UNCHANGED caller => CallersHaveRows'
  BY <1>2, <1>3 DEF CallersHaveRows
<1>7. ASSUME NEW w \in Workers, worker[w].pc # "idle",
             \/ \E pc : Goto(w, pc)
             \/ \E pc, to, a : Intend(w, pc, to, a)
             \/ worker' = [worker EXCEPT ![w] = IdleWorker]
             \/ worker' = [worker EXCEPT ![w].owns = FALSE]
      PROVE  WorkersHaveRows'
  <2>1. \A v \in Workers : v # w => worker'[v] = worker[v]
    BY <1>7 DEF Goto, Intend, TypeOK
  <2>2. worker'[w].pc = "idle" \/ worker'[w].job = worker[w].job
    <3>1. IdleWorker.pc = "idle"
      BY DEF IdleWorker
    <3>2. CASE (\E pc : Goto(w, pc)) \/ worker' = [worker EXCEPT ![w].owns = FALSE]
      BY <3>2 DEF Goto, TypeOK, Worker
    <3>3. CASE \E pc, to, a : Intend(w, pc, to, a)
      BY <3>3 DEF Intend, TypeOK, Worker
    <3> QED
      BY <1>7, <3>1, <3>2, <3>3 DEF TypeOK
  <2> QED
    BY <1>5, <1>7, <2>1, <2>2
<1>8. ASSUME NEW w \in Workers, WorkerStep(w)
      PROVE  JobsHaveRows' /\ WorkersHaveRows' /\ CallersHaveRows'
  <2> USE DEF WorkerAt
  <2>1. CallersHaveRows'
    BY <1>6, <1>8
    DEF WorkerStep, Pickup, Hold, Defer, ReadToReserve, Reserve, ReadToStart, Start, GiveUp,
        Execute, Complete, CompletionRolledBack, ReadToFail, RecordFailure, Requeue, Finish
  <2>2. ASSUME NEW id \in JobIds, Pickup(w, id) \/ Hold(w, id)
        PROVE  JobsHaveRows' /\ WorkersHaveRows'
    <3>1. /\ job[id].st = "waiting"
          /\ job' = [job EXCEPT ![id].st = "active"]
          /\ \A v \in Workers : v # w => worker'[v] = worker[v]
          /\ worker'[w].job = id
      <4>1. job[id].st = "waiting" /\ \E pc : Take(w, id, pc)
        BY <2>2 DEF Pickup, Hold
      <4>2. \A pc : [IdleWorker EXCEPT !.pc = pc, !.job = id, !.owns = TRUE,
                                      !.attempt = job[id].attempt].job = id
        BY DEF IdleWorker
      <4> HIDE DEF IdleWorker
      <4> QED
        BY <4>1, <4>2 DEF Take, TypeOK
    <3>2. row'[id[1]].state # Absent
      BY <1>2, <1>3, <3>1 DEF JobsHaveRows
    <3>3. JobsHaveRows'
      BY <1>2, <1>3, <3>1 DEF JobsHaveRows, TypeOK
    <3> QED
      BY <1>2, <1>3, <3>1, <3>2, <3>3 DEF WorkersHaveRows, RunOf
  <2>3. CASE Defer(w) \/ Requeue(w)
    <3>1. /\ worker[w].pc # "idle" /\ Leave(w)
          /\ job' = Added(job, << RunOf(w), worker[w].attempt >>, worker[w].attempt)
      BY <2>3 DEF Defer, Requeue
    <3>2. /\ RunOf(w) \in Runs /\ worker[w].attempt \in 1..MaxAttempts
          /\ worker[w].attempt \in 0..MaxAttempts
      BY <3>1, RunOfTyped, MaxAttemptsAssumption
    <3>3. JobsHaveRows'
      BY <1>1, <1>3, <3>1, <3>2, AddedJobs DEF JobsHaveRows, WorkersHaveRows
    <3>4. WorkersHaveRows'
      BY <1>5, <3>1 DEF Leave, Intend, TypeOK, Worker
    <3> QED
      BY <2>1, <3>3, <3>4
  <2>4. CASE Finish(w)
    <3>1. /\ worker[w].pc # "idle" /\ worker[w].job \in JobIds
          /\ worker' = [worker EXCEPT ![w] = IdleWorker]
          /\ job' = job \/ job' = [job EXCEPT ![worker[w].job].st = "kept"]
      BY <2>4, RunOfTyped DEF Finish
    <3>2. WorkersHaveRows'
      BY <1>7, <3>1
    <3>3. row'[worker[w].job[1]].state # Absent
      BY <1>2, <1>3, <3>1 DEF WorkersHaveRows, RunOf
    <3>4. JobsHaveRows'
      BY <1>2, <1>3, <3>1, <3>3 DEF JobsHaveRows, TypeOK
    <3> QED
      BY <2>1, <3>2, <3>4
  <2>5. CASE \/ ReadToReserve(w) \/ Reserve(w) \/ ReadToStart(w) \/ Start(w) \/ GiveUp(w)
             \/ Execute(w) \/ Complete(w) \/ CompletionRolledBack(w)
             \/ ReadToFail(w) \/ RecordFailure(w)
    <3>1. worker[w].pc # "idle" /\ UNCHANGED job
      BY <2>5 DEF ReadToReserve, Reserve, ReadToStart, Start, GiveUp, Execute, Complete,
                  CompletionRolledBack, ReadToFail, RecordFailure
    <3>2. (\E pc : Goto(w, pc)) \/ (\E pc, to, a : Intend(w, pc, to, a))
      <4>1. CASE ReadToReserve(w) \/ Reserve(w) \/ ReadToStart(w) \/ Start(w) \/ GiveUp(w)
        BY <4>1 DEF ReadToReserve, Reserve, ReadToStart, Start, GiveUp, Leave
      <4>2. CASE Execute(w)
        BY <4>2 DEF Execute
      <4>3. CASE Complete(w) \/ CompletionRolledBack(w) \/ RecordFailure(w)
        BY <4>3 DEF Complete, CompletionRolledBack, RecordFailure, Leave
      <4>4. CASE ReadToFail(w)
        BY <4>4 DEF ReadToFail, Leave
      <4> QED
        BY <2>5, <4>1, <4>2, <4>3, <4>4
    <3> QED
      BY <1>4, <1>7, <2>1, <3>1, <3>2
  <2> QED
    BY <1>8, <2>1, <2>2, <2>3, <2>4, <2>5 DEF WorkerStep
<1>9. ASSUME NEW c \in Callers, CallerStep(c)
      PROVE  JobsHaveRows' /\ WorkersHaveRows' /\ CallersHaveRows'
  <2> USE DEF CallerAt
  <2>1. WorkersHaveRows'
    BY <1>5, <1>9 DEF CallerStep, Insert, Enqueue, MoveRun, RequestRefused, TopUp, ErrorAnswered
  <2>2. ASSUME CallerReturns(c)
        PROVE  CallersHaveRows'
    BY <1>2, <1>3, <2>2 DEF CallerReturns, IdleCaller, CallersHaveRows, TypeOK
  <2>3. ASSUME NEW r \in Runs, row'[r].state # Absent, NEW pc, NEW to, NEW a,
               CallerDoes(c, pc, {r}, to, a)
        PROVE  CallersHaveRows'
    BY <1>2, <1>3, <2>3 DEF CallerDoes, CallersHaveRows, TypeOK
  <2>4. CASE Insert(c)
    <3>1. PICK r \in Runs :
            \/ /\ row' = [row EXCEPT ![r] = NewRow]
               /\ CallerDoes(c, "enqueuing", {r}, "Queued", 1)
            \/ /\ row[r].state # Absent
               /\ CallerDoes(c, "error", {r}, "Queued", 1)
      BY <1>2, <2>4 DEF Insert
    <3>2. row'[r].state # Absent
      BY <1>2, <3>1, NewRowTyped DEF TypeOK, Absent
    <3> QED
      BY <1>4, <2>1, <2>3, <2>4, <3>1, <3>2 DEF Insert
  <2>5. CASE Enqueue(c)
    <3>1. PICK r \in Runs : /\ job' = Added(job, << r, 0 >>, caller[c].attempt)
                            /\ row[r].state # Absent
      BY <1>2, <1>3, <2>5 DEF Enqueue, CallersHaveRows
    <3>2. caller[c].attempt \in 1..MaxAttempts /\ 0 \in 0..MaxAttempts
      BY MaxAttemptsAssumption DEF TypeOK, Caller
    <3>3. JobsHaveRows'
      BY <1>1, <3>1, <3>2, AddedJobs DEF JobsHaveRows
    <3> QED
      BY <2>1, <2>2, <2>5, <3>3 DEF Enqueue
  <2>6. CASE MoveRun(c)
    <3>1. PICK r \in Runs : /\ row[r].state # Absent
                            /\ \/ CallerDoes(c, "enqueuing", {r}, "Queued", caller[c].attempt)
                               \/ CallerReturns(c)
      BY <1>2, <1>3, <2>6 DEF MoveRun, CallersHaveRows
    <3> QED
      BY <1>2, <1>4, <2>1, <2>2, <2>3, <2>6, <3>1 DEF MoveRun
  <2>7. CASE RequestRefused(c)
    <3>1. \A d \in Callers : /\ caller'[d].runs = caller[d].runs
                              /\ caller'[d].pc \in {caller[d].pc, "error"}
      BY <2>7 DEF RequestRefused, TypeOK, Caller
    <3> QED
      BY <1>2, <1>3, <1>4, <2>1, <2>7, <3>1 DEF RequestRefused, CallersHaveRows
  <2>8. CASE TopUp(c)
    <3>1. CASE CallerReturns(c)
      BY <1>4, <2>1, <2>2, <2>8, <3>1 DEF TopUp
    <3>2. CASE \E r \in Runs : caller' = [caller EXCEPT ![c].runs = @ \ {r}]
      <4>1. \A d \in Callers : /\ caller'[d].runs \subseteq caller[d].runs
                                /\ caller'[d].pc = caller[d].pc
        BY <3>2 DEF TypeOK, Caller
      <4> QED
        BY <1>2, <1>3, <1>4, <2>1, <2>8, <4>1 DEF TopUp, CallersHaveRows
    <3> QED
      BY <1>2, <2>8, <3>1, <3>2 DEF TopUp
  <2>9. CASE ErrorAnswered(c)
    BY <1>4, <2>1, <2>2, <2>9 DEF ErrorAnswered
  <2> QED
    BY <1>9, <2>4, <2>5, <2>6, <2>7, <2>8, <2>9 DEF CallerStep
<1>10. ASSUME NEW c \in Callers, NewRequest(c)
       PROVE  JobsHaveRows' /\ WorkersHaveRows' /\ CallersHaveRows'
  <2>1. ASSUME NEW rs \in SUBSET Runs, NEW pc, NEW to, NEW a, CallerDoes(c, pc, rs, to, a),
               pc = "inserting" \/ \A r \in rs : row[r].state # Absent
        PROVE  CallersHaveRows'
    BY <1>2, <1>3, <2>1 DEF CallerDoes, CallersHaveRows, TypeOK
  <2>2. CallersHaveRows'
    <3> USE DEF Absent, MayMove, MoveAdmits, Allowed, Waiting, Blocked, InFlight
    <3>1. ASSUME NEW r \in Runs, ReadToInsert(c, r)
          PROVE  CallersHaveRows'
      BY <2>1, <3>1 DEF ReadToInsert
    <3>2. ASSUME NEW r \in Runs, ReadToCancel(c, r)
          PROVE  CallersHaveRows'
      BY <2>1, <3>2 DEF ReadToCancel
    <3>3. ASSUME NEW r \in Runs, ReadToResume(c, r)
          PROVE  CallersHaveRows'
      BY <2>1, <3>3 DEF ReadToResume
    <3>4. ASSUME NEW r \in Runs, NEW to \in Waiting, ReadToPark(c, r, to)
          PROVE  CallersHaveRows'
      BY <2>1, <3>4 DEF ReadToPark
    <3>5. ASSUME ReadToTopUp(c)
          PROVE  CallersHaveRows'
      BY <2>1, <3>5 DEF ReadToTopUp
    <3> QED
      BY <1>10, <3>1, <3>2, <3>3, <3>4, <3>5 DEF NewRequest
  <2>3. UNCHANGED << job, worker >>
    BY <1>10 DEF NewRequest, ReadToInsert, ReadToCancel, ReadToResume, ReadToPark, ReadToTopUp
  <2> QED
    BY <1>4, <1>5, <2>2, <2>3
<1>11. CASE Environment
  <2>2. ASSUME NEW w \in Workers, worker[w].pc # "idle"
        PROVE  \A k \in JobIds : Released(job, worker[w].job)[k].st # "unknown"
                                   => row'[k[1]].state # Absent
    <3>1. worker[w].job \in JobIds /\ row'[worker[w].job[1]].state # Absent
      BY <1>2, <1>3, <2>2, RunOfTyped DEF WorkersHaveRows, RunOf
    <3>2. \A k \in JobIds : k # worker[w].job
                               => Released(job, worker[w].job)[k] = job[k]
      BY <3>1 DEF Released, TypeOK
    <3> QED
      BY <1>2, <1>3, <3>1, <3>2 DEF JobsHaveRows
  <2>3. ASSUME NEW w \in Workers, Crash(w) \/ Stall(w)
        PROVE  JobsHaveRows' /\ WorkersHaveRows' /\ CallersHaveRows'
    <3>1. worker[w].pc # "idle" /\ UNCHANGED caller
          /\ (job' = job \/ job' = Released(job, worker[w].job))
      BY <2>3 DEF Crash, Stall, WorkerAt
    <3>2. WorkersHaveRows'
      BY <1>7, <2>3, <3>1 DEF Crash, Stall
    <3> QED
      BY <1>4, <1>6, <2>2, <3>1, <3>2 DEF JobsHaveRows
  <2>4. ASSUME NEW c \in Callers, RequestDies(c)
        PROVE  JobsHaveRows' /\ WorkersHaveRows' /\ CallersHaveRows'
    <3>1. CallersHaveRows'
      BY <1>2, <1>3, <2>4 DEF RequestDies, CallerReturns, IdleCaller, CallersHaveRows, TypeOK
    <3> QED
      BY <1>4, <1>5, <2>4, <3>1 DEF RequestDies
  <2>5. ASSUME NEW id \in JobIds, Forget(id)
        PROVE  JobsHaveRows' /\ WorkersHaveRows' /\ CallersHaveRows'
    <3>1. \A k \in JobIds : job'[k].st # "unknown" => job[k].st # "unknown"
      BY <2>5 DEF Forget, UnknownJob, TypeOK
    <3> QED
      BY <1>2, <1>3, <1>5, <1>6, <2>5, <3>1 DEF Forget, JobsHaveRows
  <2> QED
    BY <1>11, <2>3, <2>4, <2>5 DEF Environment
<1>12. CASE UNCHANGED vars
  BY <1>4, <1>5, <1>6, <1>12 DEF vars
<1> QED
  BY <1>8, <1>9, <1>10, <1>11, <1>12 DEF Next

-----------------------------------------------------------------------------
(* The inductive invariant, and what follows from it.                      *)

\* What CancelledAndFailedAreFinal needs of a failed run: without dead_lettered_at set,
\* nothing in the row would tell the database that it may not become Completed.
FailedIsDeadLettered == \A r \in Runs : row[r].state = "Failed" => row[r].deadLettered

\* The part of the invariant that bounds what a row can look like: Write and TopUp let
\* nothing else through.
RowsConsistent ==
  \A r \in Runs : /\ Accepted(row[r])
                  /\ row[r].state = "Retrying" => ~row[r].reserved

RowInv == TypeOK /\ RowBeforeJob /\ RowsConsistent /\ FailedIsDeadLettered

LEMMA RowInvInit == Init => RowInv
<1> SUFFICES ASSUME Init PROVE RowBeforeJob /\ RowsConsistent /\ FailedIsDeadLettered
  BY TypeInit DEF RowInv
<1>1. RowBeforeJob
  <2>1. \A id \in JobIds : job[id].st = "unknown"
    BY DEF Init, UnknownJob
  <2>2. \A w \in Workers : worker[w].pc = "idle"
    BY DEF Init, IdleWorker
  <2>3. \A c \in Callers : caller[c].pc = "idle"
    BY DEF Init, IdleCaller
  <2> QED
    BY <2>1, <2>2, <2>3 DEF RowBeforeJob
<1>2. Accepted(NoRow) /\ NoRow.state = Absent
  BY MaxAttemptsAssumption
  DEF NoRow, Accepted, AttemptWithinCeiling, FinishTimeIffFinished, CancelTimeIffCancelled,
      DeadLetteredIsFailed, ReservedBeforeRunning, Absent, Terminal
<1>3. \A r \in Runs : row[r] = NoRow
  BY DEF Init
<1> QED
  BY <1>1, <1>2, <1>3 DEF RowsConsistent, FailedIsDeadLettered, Absent

\* What the three ways a row may change keep.
LEMMA RowChangeKeeps ==
  ASSUME NEW old \in Row, NEW new \in Row, RowMayBecome(old, new), Accepted(old),
         old.state = "Failed" => old.deadLettered
  PROVE  /\ Accepted(new)
         /\ new.state = "Retrying" => ~new.reserved
         /\ new.state = "Failed" => new.deadLettered
         /\ old.state \in Terminal => new.state \in Terminal
         /\ old.state \in {"Cancelled", "Failed"} => new.state = old.state
<1>1. CASE old.state = Absent /\ new = NewRow
  <2>1. /\ NewRow.state = "Queued" /\ NewRow.attempt = 1
        /\ ~NewRow.reserved /\ ~NewRow.finished /\ ~NewRow.cancelled /\ ~NewRow.deadLettered
    BY DEF NewRow, NoRow
  <2> QED
    BY <1>1, <2>1, MaxAttemptsAssumption
    DEF Accepted, AttemptWithinCeiling, FinishTimeIffFinished, CancelTimeIffCancelled,
        DeadLetteredIsFailed, ReservedBeforeRunning, Absent, Terminal
<1>2. ASSUME NEW to \in RunState, NEW a \in 1..MaxAttempts, new = Moved(old, to, a),
             Accepted(new)
      PROVE  /\ new.state = "Retrying" => ~new.reserved
             /\ new.state = "Failed" => new.deadLettered
             /\ old.state \in Terminal => new.state \in Terminal
             /\ old.state \in {"Cancelled", "Failed"} => new.state = old.state
  <2>1. /\ new.state = to
        /\ new.reserved = ((to = "Reserved") \/ (old.reserved /\ to # "Retrying"))
        /\ new.finished = (old.finished \/ to \in Terminal)
        /\ new.cancelled = (old.cancelled \/ to = "Cancelled")
        /\ new.deadLettered = (old.deadLettered \/ to = "Failed")
    BY <1>2 DEF Moved, Row
  <2> QED
    BY <1>2, <2>1
    DEF Accepted, FinishTimeIffFinished, CancelTimeIffCancelled, DeadLetteredIsFailed, Terminal
<1>3. ASSUME new = ToppedUp(old), Accepted(new)
      PROVE  new.state = "Queued" /\ old.state \notin Terminal
  <2>1. new.state = "Queued" /\ new.finished = old.finished
    BY <1>3 DEF ToppedUp, Row
  <2> QED
    BY <1>3, <2>1 DEF Accepted, FinishTimeIffFinished, Terminal
<1> QED
  BY <1>1, <1>2, <1>3 DEF RowMayBecome, Terminal

LEMMA RowInvStep == RowInv /\ [Next]_vars => RowInv'
<1> SUFFICES ASSUME RowInv, [Next]_vars PROVE RowInv'
  OBVIOUS
<1>1. RowStep /\ TypeOK' /\ RowBeforeJob'
  BY OneRowPerStep, TypeStep, RowBeforeJobStep DEF RowInv
<1>2. RowsConsistent' /\ FailedIsDeadLettered'
  <2>1. CASE row' = row
    BY <2>1 DEF RowInv, RowsConsistent, FailedIsDeadLettered
  <2>2. ASSUME NEW r \in Runs, NEW x \in Row, row' = [row EXCEPT ![r] = x],
               RowMayBecome(row[r], x)
        PROVE  RowsConsistent' /\ FailedIsDeadLettered'
    BY <2>2, RowChangeKeeps DEF RowInv, TypeOK, RowsConsistent, FailedIsDeadLettered
  <2> QED
    BY <1>1, <2>1, <2>2 DEF RowStep
<1> QED
  BY <1>1, <1>2 DEF RowInv

LEMMA RowInvInvariant == Spec => []RowInv
BY RowInvInit, RowInvStep, PTL DEF Spec

\* The row exists before its job, its worker and its requests, at every moment and
\* whatever crashes (start: insert, commit, then enqueue).
THEOREM RowBeforeJobInvariant == Spec => []RowBeforeJob
<1>1. RowInv => RowBeforeJob
  BY DEF RowInv
<1> QED
  BY <1>1, RowInvInvariant, PTL

\* No step reopens a finished run.
THEOREM FinishedRunsStayFinished == Spec => FinishedNeverReopens
<1>1. ASSUME RowInv, [Next]_vars
      PROVE  [\A r \in Runs : row[r].state \in Terminal => row'[r].state \in Terminal]_vars
  <2>1. RowStep
    BY <1>1, OneRowPerStep DEF RowInv
  <2> QED
    BY <1>1, <2>1, RowChangeKeeps DEF RowInv, RowStep, TypeOK, RowsConsistent, FailedIsDeadLettered
<1> QED
  BY <1>1, RowInvInvariant, PTL DEF Spec, FinishedNeverReopens

\* No step changes the ending of a cancelled or a dead-lettered run.
THEOREM CancelledAndFailedStay == Spec => CancelledAndFailedAreFinal
<1>1. ASSUME RowInv, [Next]_vars
      PROVE  [\A r \in Runs : row[r].state \in {"Cancelled", "Failed"}
                                => row'[r].state = row[r].state]_vars
  <2>1. RowStep
    BY <1>1, OneRowPerStep DEF RowInv
  <2> QED
    BY <1>1, <2>1, RowChangeKeeps DEF RowInv, RowStep, TypeOK, RowsConsistent, FailedIsDeadLettered
<1> QED
  BY <1>1, RowInvInvariant, PTL DEF Spec, CancelledAndFailedAreFinal

\* A request that moves a run moves that run alone.
MovingOneRun == \A c \in Callers : caller[c].pc = "moving" => \E r \in Runs : caller[c].runs = {r}

\* What a step may make of the callers: one of them does something.
LEMMA OneCallerPerStep ==
  ASSUME TypeOK, [Next]_vars
  PROVE  \/ UNCHANGED caller
         \/ \E c \in Callers :
              /\ \A d \in Callers : d # c => caller'[d] = caller[d]
              /\ \/ RequestRefused(c)
                 \/ caller[c].pc # "moving"
                 \/ caller'[c].pc \in {"idle", "enqueuing"}
              /\ caller'[c].pc = "moving" => \E r \in Runs : caller'[c].runs = {r}
<1>0. IdleCaller.pc = "idle"
  BY DEF IdleCaller
<1>1. ASSUME NEW w \in Workers, WorkerStep(w) \/ Crash(w) \/ Stall(w)
      PROVE  UNCHANGED caller
  BY <1>1
  DEF WorkerStep, Pickup, Hold, Defer, ReadToReserve, Reserve, ReadToStart, Start, GiveUp,
      Execute, Complete, CompletionRolledBack, ReadToFail, RecordFailure, Requeue, Finish,
      Crash, Stall
<1>2. ASSUME NEW c \in Callers, CallerStep(c) \/ NewRequest(c) \/ RequestDies(c)
      PROVE  /\ \A d \in Callers : d # c => caller'[d] = caller[d]
             /\ \/ RequestRefused(c)
                \/ caller[c].pc # "moving"
                \/ caller'[c].pc \in {"idle", "enqueuing"}
             /\ caller'[c].pc = "moving" => \E r \in Runs : caller'[c].runs = {r}
  <2> USE <1>0 DEF CallerAt, CallerDoes, CallerReturns, TypeOK
  <2>1. CASE Insert(c)
    BY <2>1 DEF Insert
  <2>2. CASE Enqueue(c) \/ ErrorAnswered(c) \/ RequestDies(c)
    BY <2>2 DEF Enqueue, ErrorAnswered, RequestDies
  <2>3. CASE MoveRun(c)
    BY <2>3 DEF MoveRun
  <2>4. CASE RequestRefused(c)
    BY <2>4 DEF RequestRefused, Caller
  <2>5. CASE TopUp(c)
    BY <2>5 DEF TopUp, Caller
  <2>6. CASE NewRequest(c)
    BY <2>6 DEF NewRequest, ReadToInsert, ReadToCancel, ReadToResume, ReadToPark, ReadToTopUp
  <2> QED
    BY <1>2, <2>1, <2>2, <2>3, <2>4, <2>5, <2>6 DEF CallerStep
<1> QED
  BY <1>1, <1>2 DEF Next, Environment, Forget, vars

LEMMA MovingOneRunInvariant == Spec => []MovingOneRun
<1>1. Init => MovingOneRun
  BY DEF Init, IdleCaller, MovingOneRun
<1>2. TypeOK /\ MovingOneRun /\ [Next]_vars => MovingOneRun'
  BY OneCallerPerStep DEF MovingOneRun
<1> QED
  BY <1>1, <1>2, TypeCorrect, PTL DEF Spec

\* The database never refuses to cancel a run that has not finished.
THEOREM CancelIsNeverRefused == Spec => UnfinishedRunsCanBeCancelled
<1>1. ASSUME NEW x \in Row, NEW a \in 1..MaxAttempts, Accepted(x),
             ~Accepted(Moved(x, "Cancelled", a))
      PROVE  x.state \in Terminal
  <2> DEFINE y == Moved(x, "Cancelled", a)
  <2>1. /\ y.state = "Cancelled" /\ y.attempt = x.attempt /\ x.attempt <= MaxAttempts
        /\ y.finished = (x.finished \/ "Cancelled" \in Terminal)
        /\ y.cancelled = (x.cancelled \/ "Cancelled" = "Cancelled")
        /\ y.deadLettered = (x.deadLettered \/ "Cancelled" = "Failed")
    BY <1>1, MaxAttemptsAssumption DEF Moved, Row
  <2> HIDE DEF y
  <2>2. ~Accepted(y)
    BY <1>1 DEF y
  <2> QED
    BY <1>1, <2>1, <2>2
    DEF Accepted, AttemptWithinCeiling, FinishTimeIffFinished, CancelTimeIffCancelled,
        DeadLetteredIsFailed, ReservedBeforeRunning, Terminal
<1>2. ASSUME RowInv, MovingOneRun, [Next]_vars
      PROVE  [\A c \in Callers, r \in Runs :
                (/\ CallerAt(c, "moving") /\ caller[c].to = "Cancelled" /\ r \in caller[c].runs
                 /\ caller'[c].pc = "error" /\ mishaps' = mishaps)
                  => row[r].state \in Terminal]_vars
  <2> SUFFICES ASSUME NEW c \in Callers, NEW r \in Runs,
                      caller[c].pc = "moving", caller[c].to = "Cancelled",
                      r \in caller[c].runs, caller'[c].pc = "error", mishaps' = mishaps
               PROVE  row[r].state \in Terminal
    BY DEF CallerAt
  <2>1. RequestRefused(c)
    BY <1>2, OneCallerPerStep DEF RowInv
  <2>2. ~Fails("writeFails")
    <3>1. mishaps \in 0..MaxMishaps
      BY <1>2 DEF RowInv, TypeOK
    <3> QED
      BY <3>1, ConstantsAssumption DEF Fails
  <2>3. ~Accepted(Moved(row[r], "Cancelled", caller[c].attempt))
    BY <1>2, <2>1, <2>2 DEF RequestRefused, WriteRefused, CallerAt, MovingOneRun
  <2>4. row[r] \in Row /\ Accepted(row[r]) /\ caller[c].attempt \in 1..MaxAttempts
    BY <1>2 DEF RowInv, TypeOK, RowsConsistent, MovingOneRun, Caller
  <2> QED
    BY <1>1, <2>3, <2>4
<1> QED
  BY <1>2, RowInvInvariant, MovingOneRunInvariant, PTL DEF Spec, UnfinishedRunsCanBeCancelled

-----------------------------------------------------------------------------
(* The engine implements RunOutcome.                                       *)

OutcomeMap == [r \in Runs |-> OutcomeOf(row[r].state)]

LEMMA OutcomeStep ==
  ASSUME RowInv, [Next]_vars
  PROVE  [Outcome!OutcomeNext]_OutcomeMap
<1>1. ASSUME NEW old \in Row, NEW new \in Row, RowMayBecome(old, new), Accepted(old),
             old.state = "Failed" => old.deadLettered
      PROVE  \/ OutcomeOf(new.state) = OutcomeOf(old.state)
             \/ OutcomeOf(old.state) = "none" /\ OutcomeOf(new.state) = "open"
             \/ OutcomeOf(old.state) = "open" /\ OutcomeOf(new.state) \in Terminal
             \/ /\ OutcomeOf(old.state) = "Completed"
                /\ OutcomeOf(new.state) \in {"Failed", "Cancelled"}
  <2>1. /\ old.state \in Terminal => new.state \in Terminal
        /\ old.state \in {"Cancelled", "Failed"} => new.state = old.state
    BY <1>1, RowChangeKeeps
  <2>2. /\ old.state = Absent => new.state = "Queued"
        /\ old.state # Absent => new.state # Absent
    BY ZenonT(60), <1>1, NewRowTyped DEF RowMayBecome, Moved, ToppedUp, Row, Absent, RunState, InFlight,
                             Waiting, Blocked, Terminal
  <2> QED
    BY <2>1, <2>2 DEF OutcomeOf, Terminal, Absent
<1>2. RowStep
  BY OneRowPerStep DEF RowInv
<1>3. CASE row' = row
  BY <1>3 DEF OutcomeMap
<1>4. ASSUME NEW r \in Runs, NEW x \in Row, row' = [row EXCEPT ![r] = x],
             RowMayBecome(row[r], x)
      PROVE  [Outcome!OutcomeNext]_OutcomeMap
  <2>1. /\ OutcomeMap' = [OutcomeMap EXCEPT ![r] = OutcomeOf(x.state)]
        /\ OutcomeMap[r] = OutcomeOf(row[r].state)
    BY <1>4 DEF OutcomeMap, RowInv, TypeOK
  <2>2. \/ OutcomeOf(x.state) = OutcomeMap[r]
        \/ OutcomeMap[r] = "none" /\ OutcomeOf(x.state) = "open"
        \/ OutcomeMap[r] = "open" /\ OutcomeOf(x.state) \in Terminal
        \/ OutcomeMap[r] = "Completed" /\ OutcomeOf(x.state) \in {"Failed", "Cancelled"}
    BY <1>1, <1>4, <2>1 DEF RowInv, RowsConsistent, FailedIsDeadLettered, TypeOK
  <2>3. CASE OutcomeOf(x.state) = OutcomeMap[r]
    BY <2>1, <2>3 DEF OutcomeMap
  <2>4. CASE OutcomeMap[r] = "none" /\ OutcomeOf(x.state) = "open"
    BY <2>1, <2>4 DEF Outcome!OutcomeNext, Outcome!Begin, OutcomeMap
  <2>5. CASE OutcomeMap[r] = "open" /\ OutcomeOf(x.state) \in Terminal
    BY <2>1, <2>5 DEF Outcome!OutcomeNext, Outcome!End, Outcome!Endings, OutcomeMap, Terminal
  <2>6. CASE OutcomeMap[r] = "Completed" /\ OutcomeOf(x.state) \in {"Failed", "Cancelled"}
    BY <2>1, <2>6 DEF Outcome!OutcomeNext, Outcome!Overrule, OutcomeMap
  <2> QED
    BY <2>2, <2>3, <2>4, <2>5, <2>6
<1> QED
  BY <1>2, <1>3, <1>4 DEF RowStep

\* The engine implements the abstract specification of how runs end: every behaviour of
\* workers, requests, crashes and stalls begins, ends and overrules runs only as RunOutcome
\* allows.
THEOREM EngineImplementsOutcome == Spec => ImplementsOutcome
<1>1. Init => Outcome!OutcomeInit
  <2>1. OutcomeOf(NoRow.state) = "none"
    <3>1. NoRow.state = Absent
      BY DEF NoRow
    <3> QED
      BY <3>1 DEF OutcomeOf, Absent, Terminal
  <2> QED
    BY <2>1 DEF Init, Outcome!OutcomeInit
<1>2. RowInv /\ [Next]_vars => [Outcome!OutcomeNext]_OutcomeMap
  BY OutcomeStep
<1> QED
  BY <1>1, <1>2, RowInvInvariant, PTL DEF Spec, ImplementsOutcome, Outcome!OutcomeSpec, OutcomeMap

-----------------------------------------------------------------------------
(* One worker per run.                                                     *)

\* No two requests are resuming the same run at the same time.
ResumesApart ==
  \A c, d \in Callers :
    (/\ CallerAt(c, "moving") /\ caller[c].to = "Queued"
     /\ CallerAt(d, "moving") /\ caller[d].to = "Queued"
     /\ caller[c].runs \intersect caller[d].runs # {}) => c = d

\* In whose hands a run is: of the workers at it, the jobs offered for it, the requests
\* that enqueue it or resume it.
Performing(w, r) == worker[w].pc \notin {"idle", "leaving"} /\ RunOf(w) = r
Offered(id, r) == job[id].st = "waiting" /\ id[1] = r
Sending(c, r) ==
  /\ r \in caller[c].runs
  /\ CallerAt(c, "enqueuing") \/ (CallerAt(c, "moving") /\ caller[c].to = "Queued")

Hands(r) ==
  {<< "worker", w >> : w \in {v \in Workers : Performing(v, r)}}
    \union {<< "job", id >> : id \in {i \in JobIds : Offered(i, r)}}
    \union {<< "caller", c >> : c \in {d \in Callers : Sending(d, r)}}

InOneHand == \A r \in Runs : \A x, y \in Hands(r) : x = y

\* A run that is blocked is in nobody's hands, unless it is being resumed.
BlockedRests ==
  \A r \in Runs : row[r].state \in Blocked =>
    /\ \A w \in Workers : ~Performing(w, r)
    /\ \A id \in JobIds : ~Offered(id, r)
    /\ \A c \in Callers : CallerAt(c, "enqueuing") => r \notin caller[c].runs

\* No request moves a run to where only a worker takes it.
CallersKeepOut ==
  \A c \in Callers : CallerAt(c, "moving")
                       => caller[c].to \in {"Cancelled", "Running", "Queued"} \union Waiting

\* A run changes hands: it is given away, perhaps to somebody, or taken up by the first.
ChangesHands(S, T) ==
  \/ T \subseteq S
  \/ \E x \in S : \E y : T \subseteq (S \ {x}) \union {y}
  \/ S = {} /\ \E y : T \subseteq {y}

LEMMA OneHandAgain ==
  ASSUME NEW S, NEW T, \A x, y \in S : x = y, ChangesHands(S, T)
  PROVE  \A x, y \in T : x = y
BY DEF ChangesHands

LEMMA WhoseHands ==
  ASSUME NEW r
  PROVE  /\ \A w \in Workers : << "worker", w >> \in Hands(r) <=> Performing(w, r)
         /\ \A id \in JobIds : << "job", id >> \in Hands(r) <=> Offered(id, r)
         /\ \A c \in Callers : << "caller", c >> \in Hands(r) <=> Sending(c, r)
         /\ \A x \in Hands(r) : \/ \E w \in Workers : x = << "worker", w >> /\ Performing(w, r)
                                \/ \E id \in JobIds : x = << "job", id >> /\ Offered(id, r)
                                \/ \E c \in Callers : x = << "caller", c >> /\ Sending(c, r)
BY DEF Hands

LEMMA WhoseHandsNext ==
  ASSUME NEW r
  PROVE  \A x \in Hands(r)' : \/ \E w \in Workers : x = << "worker", w >> /\ Performing(w, r)'
                              \/ \E id \in JobIds : x = << "job", id >> /\ Offered(id, r)'
                              \/ \E c \in Callers : x = << "caller", c >> /\ Sending(c, r)'
BY DEF Hands

\* The ten steps in which a worker stays at its job or is done with it.
LEMMA WorkerKeepsItsJob ==
  ASSUME TypeOK, NEW w \in Workers,
         \/ ReadToReserve(w) \/ Reserve(w) \/ ReadToStart(w) \/ Start(w) \/ GiveUp(w)
         \/ Execute(w) \/ Complete(w) \/ CompletionRolledBack(w)
         \/ ReadToFail(w) \/ RecordFailure(w)
  PROVE  /\ worker[w].pc \notin {"idle", "leaving"} /\ UNCHANGED << job, caller >>
         /\ \A v \in Workers : v # w => worker'[v] = worker[v]
         /\ worker'[w].job = worker[w].job /\ worker'[w].owns = worker[w].owns
         /\ worker'[w].pc \notin {"idle", "deferring"}
<1> USE DEF WorkerAt
<1> DEFINE Pcs == WorkerPc \ {"idle", "deferring"}
<1>1. worker[w].pc \notin {"idle", "leaving"} /\ UNCHANGED << job, caller >>
  BY DEF ReadToReserve, Reserve, ReadToStart, Start, GiveUp, Execute, Complete,
         CompletionRolledBack, ReadToFail, RecordFailure
<1>2. (\E pc \in Pcs : Goto(w, pc)) \/ (\E pc \in Pcs : \E to, a : Intend(w, pc, to, a))
  <2>1. CASE ReadToReserve(w) \/ Reserve(w) \/ ReadToStart(w) \/ Start(w) \/ GiveUp(w)
    BY <2>1 DEF ReadToReserve, Reserve, ReadToStart, Start, GiveUp, Leave, WorkerPc
  <2>2. CASE Execute(w)
    BY <2>2 DEF Execute, WorkerPc
  <2>3. CASE Complete(w) \/ CompletionRolledBack(w) \/ RecordFailure(w)
    BY <2>3 DEF Complete, CompletionRolledBack, RecordFailure, Leave, WorkerPc
  <2>4. CASE ReadToFail(w)
    BY <2>4 DEF ReadToFail, Leave, WorkerPc
  <2> QED
    BY <2>1, <2>2, <2>3, <2>4
<1>3. CASE \E pc \in Pcs : Goto(w, pc)
  BY <1>1, <1>3 DEF Goto, TypeOK, Worker
<1>4. CASE \E pc \in Pcs : \E to, a : Intend(w, pc, to, a)
  BY <1>1, <1>4 DEF Intend, TypeOK, Worker
<1> QED
  BY <1>2, <1>3, <1>4

LEMMA PickedUp ==
  ASSUME TypeOK, NEW w \in Workers, NEW id \in JobIds, Pickup(w, id) \/ Hold(w, id)
  PROVE  /\ worker[w].pc = "idle" /\ job[id].st = "waiting" /\ UNCHANGED << row, caller >>
         /\ \A v \in Workers : v # w => worker'[v] = worker[v]
         /\ worker'[w].job = id /\ worker'[w].pc \in {"admitted", "deferring"} /\ worker'[w].owns
         /\ Hold(w, id) \/ worker'[w].pc = "admitted"
         /\ job' = [job EXCEPT ![id].st = "active"]
<1>1. \A pc : LET x == [IdleWorker EXCEPT !.pc = pc, !.job = id, !.owns = TRUE,
                                         !.attempt = job[id].attempt]
              IN  x.job = id /\ x.pc = pc /\ x.owns
  BY DEF IdleWorker
<1>2. \/ Pickup(w, id) /\ Take(w, id, "admitted")
      \/ Hold(w, id) /\ Take(w, id, "deferring")
  BY DEF Pickup, Hold
<1>3. /\ worker[w].pc = "idle" /\ job[id].st = "waiting" /\ UNCHANGED << row, caller >>
  BY DEF Pickup, Hold, WorkerAt
<1>4. ASSUME NEW pc, Take(w, id, pc)
      PROVE  /\ \A v \in Workers : v # w => worker'[v] = worker[v]
             /\ worker'[w].job = id /\ worker'[w].pc = pc /\ worker'[w].owns
             /\ job' = [job EXCEPT ![id].st = "active"]
  <2> HIDE DEF IdleWorker
  <2> QED
    BY <1>1, <1>4 DEF Take, TypeOK
<1> QED
  BY <1>2, <1>3, <1>4

LEMMA OneWorkerMoves ==
  ASSUME TypeOK, NEW w \in Workers, WorkerStep(w)
  PROVE  \A v \in Workers : v # w => worker'[v] = worker[v]
<1>1. ASSUME NEW id \in JobIds, Pickup(w, id) \/ Hold(w, id)
      PROVE  \A v \in Workers : v # w => worker'[v] = worker[v]
  BY <1>1, PickedUp
<1>2. CASE Requeue(w) \/ Defer(w) \/ Finish(w)
  BY <1>2 DEF Requeue, Defer, Finish, Leave, Intend, TypeOK
<1> QED
  BY <1>1, <1>2, WorkerKeepsItsJob DEF WorkerStep

LEMMA WorkersLeaveRequestsAlone ==
  ASSUME NEW w \in Workers, WorkerStep(w) \/ Crash(w) \/ Stall(w)
  PROVE  UNCHANGED caller
BY DEF WorkerStep, Pickup, Hold, Defer, ReadToReserve, Reserve, ReadToStart, Start, GiveUp,
       Execute, Complete, CompletionRolledBack, ReadToFail, RecordFailure, Requeue, Finish,
       Crash, Stall

LEMMA RequestsLeaveWorkersAlone ==
  ASSUME NEW c \in Callers, CallerStep(c) \/ NewRequest(c) \/ RequestDies(c)
  PROVE  /\ UNCHANGED worker
         /\ ~Enqueue(c) => UNCHANGED job
BY DEF CallerStep, Insert, Enqueue, MoveRun, RequestRefused, TopUp, ErrorAnswered, NewRequest,
       ReadToInsert, ReadToCancel, ReadToResume, ReadToPark, ReadToTopUp, RequestDies

LEMMA OneRequestMoves ==
  ASSUME TypeOK, NEW c \in Callers, CallerStep(c) \/ NewRequest(c) \/ RequestDies(c)
  PROVE  \A d \in Callers : d # c => caller'[d] = caller[d]
BY DEF CallerStep, Insert, Enqueue, MoveRun, RequestRefused, TopUp, ErrorAnswered, NewRequest,
       ReadToInsert, ReadToCancel, ReadToResume, ReadToPark, ReadToTopUp, RequestDies,
       CallerDoes, CallerReturns, TypeOK

\* Nobody new has a hand on the run.
LEMMA NoNewHand ==
  ASSUME NEW r,
         \A w \in Workers : Performing(w, r)' => Performing(w, r),
         \A id \in JobIds : Offered(id, r)' => Offered(id, r),
         \A c \in Callers : Sending(c, r)' => Sending(c, r)
  PROVE  ChangesHands(Hands(r), Hands(r)')
<1>1. \A x \in Hands(r)' : x \in Hands(r)
  BY WhoseHands, WhoseHandsNext
<1> QED
  BY <1>1 DEF ChangesHands

\* A worker takes the job, or hands its run over to a job; a request enqueues its run.
LEMMA WorkerStepChangesHands ==
  ASSUME TypeOK, NEW w \in Workers, WorkerStep(w), NEW r \in Runs
  PROVE  ChangesHands(Hands(r), Hands(r)')
<1>1. ASSUME NEW id \in JobIds, Pickup(w, id) \/ Hold(w, id)
      PROVE  ChangesHands(Hands(r), Hands(r)')
  <2>1. /\ \A v \in Workers : v # w => (Performing(v, r)' => Performing(v, r))
        /\ Performing(w, r)' => id[1] = r
        /\ \A k \in JobIds : Offered(k, r)' => k # id /\ Offered(k, r)
        /\ \A c \in Callers : Sending(c, r)' => Sending(c, r)
    <3>1. \A k \in JobIds : job'[k].st = "waiting" => k # id /\ job[k].st = "waiting"
      BY <1>1, PickedUp DEF TypeOK, Job
    <3> QED
      BY <1>1, <3>1, PickedUp DEF Performing, Offered, Sending, RunOf, CallerAt
  <2>2. CASE Performing(w, r)'
    <3>1. << "job", id >> \in Hands(r)
      BY <1>1, <2>1, <2>2, PickedUp, WhoseHands DEF Offered
    <3>2. \A x \in Hands(r)' : x # << "job", id >>
      <4>1. \A k \in JobIds : << "job", k >> = << "job", id >> => k = id
        OBVIOUS
      <4>2. \A k : << "worker", k >> # << "job", id >> /\ << "caller", k >> # << "job", id >>
        OBVIOUS
      <4> QED
        BY <2>1, <4>1, <4>2, WhoseHandsNext
    <3>3. \A x \in Hands(r)' : x \in (Hands(r) \ {<< "job", id >>}) \union {<< "worker", w >>}
      BY <2>1, <3>2, WhoseHands, WhoseHandsNext
    <3> QED
      BY <3>1, <3>3 DEF ChangesHands
  <2>3. CASE ~Performing(w, r)'
    BY <2>1, <2>3, NoNewHand
  <2> QED
    BY <2>2, <2>3
<1>2. CASE Defer(w) \/ Requeue(w)
  <2> DEFINE id == << RunOf(w), worker[w].attempt >>
  <2>1. /\ worker[w].pc \in {"deferring", "requeuing"} /\ UNCHANGED << row, caller >>
        /\ job' = Added(job, id, worker[w].attempt) /\ Leave(w)
    BY <1>2 DEF Defer, Requeue, WorkerAt
  <2>2. id \in JobIds /\ RunOf(w) \in Runs /\ id[1] = RunOf(w)
    BY <2>1, RunOfTyped
  <2>3. /\ worker'[w].pc = "leaving"
        /\ \A v \in Workers : v # w => worker'[v] = worker[v]
    BY <2>1 DEF Leave, Intend, TypeOK, Worker
  <2>4. \A k \in JobIds : k # id => job'[k] = job[k]
    BY <2>1, <2>2 DEF Added, TypeOK
  <2>5. /\ \A v \in Workers : Performing(v, r)' => v # w /\ Performing(v, r)
        /\ \A k \in JobIds : Offered(k, r)' => Offered(k, r) \/ (k = id /\ r = RunOf(w))
        /\ \A c \in Callers : Sending(c, r)' => Sending(c, r)
    BY <2>1, <2>2, <2>3, <2>4 DEF Performing, Offered, Sending, CallerAt, RunOf
  <2>6. CASE r = RunOf(w)
    <3> HIDE DEF id
    <3>1. << "worker", w >> \in Hands(r)
      BY <2>1, <2>6, WhoseHands DEF Performing
    <3>2. \A x \in Hands(r)' : x # << "worker", w >>
      <4>1. \A v : << "worker", v >> = << "worker", w >> => v = w
        OBVIOUS
      <4>2. \A v : << "job", v >> # << "worker", w >> /\ << "caller", v >> # << "worker", w >>
        OBVIOUS
      <4> QED
        BY <2>5, <4>1, <4>2, WhoseHandsNext
    <3>3. \A x \in Hands(r)' : x \in (Hands(r) \ {<< "worker", w >>}) \union {<< "job", id >>}
      BY <2>5, <3>2, WhoseHands, WhoseHandsNext
    <3> QED
      BY <3>1, <3>3 DEF ChangesHands
  <2>7. CASE r # RunOf(w)
    BY <2>5, <2>7, NoNewHand
  <2> QED
    BY <2>6, <2>7
<1>3. CASE \/ ReadToReserve(w) \/ Reserve(w) \/ ReadToStart(w) \/ Start(w) \/ GiveUp(w)
           \/ Execute(w) \/ Complete(w) \/ CompletionRolledBack(w)
           \/ ReadToFail(w) \/ RecordFailure(w)
  <2>1. /\ worker[w].pc \notin {"idle", "leaving"} /\ UNCHANGED << job, caller >>
        /\ \A v \in Workers : v # w => worker'[v] = worker[v]
        /\ worker'[w].job = worker[w].job
    BY <1>3, WorkerKeepsItsJob
  <2>2. /\ \A v \in Workers : Performing(v, r)' => Performing(v, r)
        /\ \A k \in JobIds : Offered(k, r)' => Offered(k, r)
        /\ \A c \in Callers : Sending(c, r)' => Sending(c, r)
    BY <2>1 DEF Performing, Offered, Sending, CallerAt, RunOf
  <2> QED
    BY <2>2, NoNewHand
<1>4. CASE Finish(w)
  <2>1. /\ \A v \in Workers : Performing(v, r)' => Performing(v, r)
        /\ \A k \in JobIds : Offered(k, r)' => Offered(k, r)
        /\ \A c \in Callers : Sending(c, r)' => Sending(c, r)
    <3>1. UNCHANGED caller /\ worker' = [worker EXCEPT ![w] = IdleWorker] /\ IdleWorker.pc = "idle"
      BY <1>4 DEF Finish, IdleWorker
    <3>2. \A k \in JobIds : job'[k].st = "waiting" => job[k].st = "waiting"
      BY <1>4, RunOfTyped DEF Finish, WorkerAt, TypeOK, Job
    <3> HIDE DEF IdleWorker
    <3> QED
      BY <3>1, <3>2 DEF Performing, Offered, Sending, CallerAt, RunOf, TypeOK
  <2> QED
    BY <2>1, NoNewHand
<1> QED
  BY <1>1, <1>2, <1>3, <1>4 DEF WorkerStep

\* A request enqueues the run it has in hand; one that inserts a row is the first to have it.
LEMMA CallerStepChangesHands ==
  ASSUME TypeOK, RowBeforeJob, NEW c \in Callers, CallerStep(c), NEW r \in Runs
  PROVE  ChangesHands(Hands(r), Hands(r)')
<1> USE DEF CallerAt
<1>1. CASE Insert(c)
  <2>1. PICK q \in caller[c].runs :
          \/ row[q].state = Absent /\ CallerDoes(c, "enqueuing", {q}, "Queued", 1)
          \/ CallerDoes(c, "error", {q}, "Queued", 1)
    BY <1>1 DEF Insert
  <2>2. /\ \A d \in Callers : d # c => caller'[d] = caller[d]
        /\ Sending(c, r)' => r = q /\ row[r].state = Absent
    BY <2>1 DEF CallerDoes, Sending, TypeOK
  <2>3. UNCHANGED << job, worker >>
    BY <1>1 DEF Insert
  <2>4. /\ \A w \in Workers : Performing(w, r)' => Performing(w, r)
        /\ \A id \in JobIds : Offered(id, r)' => Offered(id, r)
        /\ \A d \in Callers : Sending(d, r)' => d = c \/ Sending(d, r)
    BY <2>2, <2>3 DEF Performing, Offered, Sending, RunOf
  <2>5. CASE Sending(c, r)'
    <3>1. row[r].state = Absent
      BY <2>2, <2>5
    <3>2. /\ \A w \in Workers : ~Performing(w, r)
          /\ \A id \in JobIds : ~Offered(id, r)
          /\ \A d \in Callers : ~Sending(d, r)
      BY <3>1 DEF RowBeforeJob, Performing, Offered, Sending
    <3>3. Hands(r) = {}
      BY <3>2, WhoseHands
    <3>4. \A x \in Hands(r)' : x = << "caller", c >>
      BY <2>4, <3>2, WhoseHandsNext
    <3> QED
      BY <3>3, <3>4 DEF ChangesHands
  <2>6. CASE ~Sending(c, r)'
    BY <2>4, <2>6, NoNewHand
  <2> QED
    BY <2>5, <2>6
<1>2. CASE Enqueue(c)
  <2>1. PICK q \in caller[c].runs : job' = Added(job, << q, 0 >>, caller[c].attempt)
    BY <1>2 DEF Enqueue
  <2> DEFINE id == << q, 0 >>
  <2>2. id \in JobIds /\ id[1] = q
    BY <2>1, MaxAttemptsAssumption DEF JobIds, TypeOK, Caller
  <2>3. /\ caller[c].pc = "enqueuing" /\ UNCHANGED worker
        /\ \A d \in Callers : d # c => caller'[d] = caller[d]
        /\ caller'[c].pc = "idle"
    BY <1>2 DEF Enqueue, CallerReturns, IdleCaller, TypeOK
  <2>4. \A k \in JobIds : k # id => job'[k] = job[k]
    BY <2>1, <2>2 DEF Added, TypeOK
  <2>5. /\ \A w \in Workers : Performing(w, r)' => Performing(w, r)
        /\ \A k \in JobIds : Offered(k, r)' => Offered(k, r) \/ (k = id /\ r = q)
        /\ \A d \in Callers : Sending(d, r)' => d # c /\ Sending(d, r)
    BY <2>2, <2>3, <2>4 DEF Performing, Offered, Sending, RunOf
  <2>6. CASE r = q
    <3> HIDE DEF id
    <3>1. << "caller", c >> \in Hands(r)
      BY <2>1, <2>3, <2>6, WhoseHands DEF Sending
    <3>2. \A x \in Hands(r)' : x # << "caller", c >>
      <4>1. \A d : << "caller", d >> = << "caller", c >> => d = c
        OBVIOUS
      <4>2. \A d : << "job", d >> # << "caller", c >> /\ << "worker", d >> # << "caller", c >>
        OBVIOUS
      <4> QED
        BY <2>5, <4>1, <4>2, WhoseHandsNext
    <3>3. \A x \in Hands(r)' : x \in (Hands(r) \ {<< "caller", c >>}) \union {<< "job", id >>}
      BY <2>5, <3>2, WhoseHands, WhoseHandsNext
    <3> QED
      BY <3>1, <3>3 DEF ChangesHands
  <2>7. CASE r # q
    BY <2>5, <2>7, NoNewHand
  <2> QED
    BY <2>6, <2>7
<1>3. CASE MoveRun(c) \/ RequestRefused(c) \/ TopUp(c) \/ ErrorAnswered(c)
  <2>1. UNCHANGED << job, worker >>
    BY <1>3 DEF MoveRun, RequestRefused, TopUp, ErrorAnswered
  <2>2. \A d \in Callers : d # c => caller'[d] = caller[d]
    BY <1>3 DEF MoveRun, RequestRefused, TopUp, ErrorAnswered, CallerDoes, CallerReturns, TypeOK
  <2>3. Sending(c, r)' => Sending(c, r)
    <3>1. CASE MoveRun(c)
      BY <3>1 DEF MoveRun, CallerDoes, CallerReturns, IdleCaller, Sending, TypeOK
    <3>2. CASE RequestRefused(c)
      BY <3>2 DEF RequestRefused, Sending, TypeOK, Caller
    <3>3. CASE TopUp(c)
      BY <3>3 DEF TopUp, CallerReturns, IdleCaller, Sending, TypeOK, Caller
    <3>4. CASE ErrorAnswered(c)
      BY <3>4 DEF ErrorAnswered, CallerReturns, IdleCaller, Sending, TypeOK
    <3> QED
      BY <1>3, <3>1, <3>2, <3>3, <3>4
  <2>4. /\ \A w \in Workers : Performing(w, r)' => Performing(w, r)
        /\ \A id \in JobIds : Offered(id, r)' => Offered(id, r)
        /\ \A d \in Callers : Sending(d, r)' => Sending(d, r)
    BY <2>1, <2>2, <2>3 DEF Performing, Offered, Sending, RunOf
  <2> QED
    BY <2>4, NoNewHand
<1> QED
  BY <1>1, <1>2, <1>3 DEF CallerStep

\* The only request that takes a run in hand is the one that resumes it: the run is
\* blocked, so nobody but other requests resuming it could have it.
LEMMA NewRequestChangesHands ==
  ASSUME TypeOK, BlockedRests, ResumesApart', NEW c \in Callers, NewRequest(c), NEW r \in Runs
  PROVE  ChangesHands(Hands(r), Hands(r)')
<1> USE DEF CallerAt
<1>1. /\ UNCHANGED << row, job, worker >> /\ caller[c].pc = "idle"
      /\ \A d \in Callers : d # c => caller'[d] = caller[d]
  BY DEF NewRequest, ReadToInsert, ReadToCancel, ReadToResume, ReadToPark, ReadToTopUp,
         CallerDoes, TypeOK
<1>2. /\ \A w \in Workers : Performing(w, r)' => Performing(w, r)
      /\ \A id \in JobIds : Offered(id, r)' => Offered(id, r)
      /\ \A d \in Callers : Sending(d, r)' => d = c \/ Sending(d, r)
  BY <1>1 DEF Performing, Offered, Sending, RunOf
<1>3. CASE Sending(c, r)'
  <2>1. row[r].state \in Blocked /\ caller'[c].pc = "moving" /\ caller'[c].to = "Queued"
        /\ r \in caller'[c].runs
    <3>1. ASSUME NEW q \in Runs, ReadToInsert(c, q) \/ ReadToCancel(c, q)
          PROVE  FALSE
      BY <1>3, <3>1 DEF ReadToInsert, ReadToCancel, CallerDoes, Sending, TypeOK
    <3>2. ASSUME NEW q \in Runs, NEW to \in Waiting, ReadToPark(c, q, to)
          PROVE  FALSE
      BY <1>3, <3>2 DEF ReadToPark, CallerDoes, Sending, TypeOK, Waiting
    <3>3. CASE ReadToTopUp(c)
      BY <1>3, <3>3 DEF ReadToTopUp, CallerDoes, Sending, TypeOK
    <3>4. PICK q \in Runs : ReadToResume(c, q)
      BY <3>1, <3>2, <3>3, <1>3 DEF NewRequest, ReadToTopUp, CallerDoes, Sending, TypeOK
    <3>5. PICK to \in {"Running", "Queued"} :
            MayMove(row[q].state, to) /\ CallerDoes(c, "moving", {q}, to, row[q].attempt)
      BY <3>4 DEF ReadToResume
    <3>6. caller'[c].runs = {q} /\ caller'[c].to = to /\ caller'[c].pc = "moving"
      BY <3>5 DEF CallerDoes, TypeOK
    <3>7. to = "Queued" /\ q = r
      BY <1>3, <3>6 DEF Sending
    <3>8. row[q].state \in Blocked
      BY <3>5, <3>7 DEF MayMove, Allowed, Blocked, Waiting, Terminal, InFlight
    <3> QED
      BY <3>6, <3>7, <3>8
  <2>2. /\ \A w \in Workers : ~Performing(w, r)
        /\ \A id \in JobIds : ~Offered(id, r)
    BY <2>1 DEF BlockedRests
  <2>3. \A d \in Callers : ~Sending(d, r)
    <3> SUFFICES ASSUME NEW d \in Callers, Sending(d, r) PROVE FALSE
      OBVIOUS
    <3>1. caller[d].pc = "moving" /\ caller[d].to = "Queued" /\ r \in caller[d].runs /\ d # c
      BY <1>1, <2>1 DEF BlockedRests, Sending
    <3>2. caller'[d] = caller[d] /\ r \in caller'[c].runs \intersect caller'[d].runs
      BY <1>1, <2>1, <3>1
    <3> QED
      BY <2>1, <3>1, <3>2 DEF ResumesApart
  <2>4. Hands(r) = {}
    BY <2>2, <2>3, WhoseHands
  <2>5. \A x \in Hands(r)' : x = << "caller", c >>
    BY <1>2, <2>2, <2>3, WhoseHandsNext
  <2> QED
    BY <2>4, <2>5 DEF ChangesHands
<1>4. CASE ~Sending(c, r)'
  BY <1>2, <1>4, NoNewHand
<1> QED
  BY <1>3, <1>4

\* Nobody works on the run, offers it or enqueues it.
AtRest(r) ==
  /\ \A w \in Workers : ~Performing(w, r)
  /\ \A id \in JobIds : ~Offered(id, r)
  /\ \A c \in Callers : CallerAt(c, "enqueuing") => r \notin caller[c].runs

NoCrashNoStall == {"crash", "stall"} \intersect Mishaps = {}

\* A run at rest stays at rest, unless its row is put back to Queued.
LEMMA RestIsKept ==
  ASSUME NoCrashNoStall, TypeOK, [Next]_vars, NEW r \in Runs, AtRest(r), row[r].state # Absent
  PROVE  AtRest(r)' \/ row'[r].state = "Queued"
<1>1. ASSUME NEW w \in Workers, WorkerStep(w)
      PROVE  AtRest(r)'
  <2>1. ASSUME NEW id \in JobIds, Pickup(w, id) \/ Hold(w, id)
        PROVE  AtRest(r)'
    <3>1. id[1] # r
      BY <2>1, PickedUp DEF AtRest, Offered
    <3>2. \A k \in JobIds : job'[k].st = "waiting" => job[k].st = "waiting"
      BY <2>1, PickedUp DEF TypeOK, Job
    <3> QED
      BY <2>1, <3>1, <3>2, PickedUp DEF AtRest, Performing, Offered, RunOf, CallerAt
  <2>2. CASE Defer(w) \/ Requeue(w)
    <3> DEFINE id == << RunOf(w), worker[w].attempt >>
    <3>1. /\ worker[w].pc \in {"deferring", "requeuing"} /\ UNCHANGED << row, caller >>
          /\ job' = Added(job, id, worker[w].attempt) /\ Leave(w)
      BY <2>2 DEF Defer, Requeue, WorkerAt
    <3>2. id \in JobIds /\ id[1] = RunOf(w) /\ RunOf(w) # r
      BY <3>1, RunOfTyped DEF AtRest, Performing
    <3>3. /\ worker'[w].pc = "leaving"
          /\ \A v \in Workers : v # w => worker'[v] = worker[v]
      BY <3>1 DEF Leave, Intend, TypeOK, Worker
    <3>4. \A k \in JobIds : k # id => job'[k] = job[k]
      BY <3>1, <3>2 DEF Added, TypeOK
    <3> QED
      BY <3>1, <3>2, <3>3, <3>4 DEF AtRest, Performing, Offered, CallerAt, RunOf
  <2>3. CASE \/ ReadToReserve(w) \/ Reserve(w) \/ ReadToStart(w) \/ Start(w) \/ GiveUp(w)
             \/ Execute(w) \/ Complete(w) \/ CompletionRolledBack(w)
             \/ ReadToFail(w) \/ RecordFailure(w)
    BY <2>3, WorkerKeepsItsJob DEF AtRest, Performing, Offered, CallerAt, RunOf
  <2>4. CASE Finish(w)
    <3>1. UNCHANGED caller /\ worker' = [worker EXCEPT ![w] = IdleWorker] /\ IdleWorker.pc = "idle"
      BY <2>4 DEF Finish, IdleWorker
    <3>2. \A k \in JobIds : job'[k].st = "waiting" => job[k].st = "waiting"
      BY <2>4, RunOfTyped DEF Finish, WorkerAt, TypeOK, Job
    <3> HIDE DEF IdleWorker
    <3> QED
      BY <3>1, <3>2 DEF AtRest, Performing, Offered, CallerAt, RunOf, TypeOK
  <2> QED
    BY <1>1, <2>1, <2>2, <2>3, <2>4 DEF WorkerStep
<1>2. ASSUME NEW c \in Callers, Enqueue(c)
      PROVE  AtRest(r)'
  <2>1. PICK q \in caller[c].runs : job' = Added(job, << q, 0 >>, caller[c].attempt)
    BY <1>2 DEF Enqueue
  <2>2. << q, 0 >> \in JobIds /\ q # r
    BY <1>2, MaxAttemptsAssumption DEF JobIds, TypeOK, Caller, AtRest, Enqueue
  <2>3. \A k \in JobIds : k # << q, 0 >> => job'[k] = job[k]
    BY <2>1, <2>2 DEF Added, TypeOK
  <2>4. \A k \in JobIds : ~Offered(k, r)'
    BY <2>2, <2>3 DEF AtRest, Offered
  <2>5. /\ UNCHANGED worker /\ caller'[c].pc = "idle"
        /\ \A d \in Callers : d # c => caller'[d] = caller[d]
    BY <1>2 DEF Enqueue, CallerReturns, IdleCaller, TypeOK
  <2> QED
    BY <2>4, <2>5 DEF AtRest, Performing, CallerAt, RunOf
<1>3. ASSUME NEW c \in Callers,
             \/ Insert(c) \/ MoveRun(c) \/ RequestRefused(c) \/ TopUp(c) \/ ErrorAnswered(c)
             \/ NewRequest(c) \/ RequestDies(c)
      PROVE  AtRest(r)' \/ row'[r].state = "Queued"
  <2> USE DEF CallerAt
  <2>1. UNCHANGED << job, worker >> /\ \A d \in Callers : d # c => caller'[d] = caller[d]
    BY <1>3 DEF Insert, MoveRun, RequestRefused, TopUp, ErrorAnswered, NewRequest, RequestDies,
                ReadToInsert, ReadToCancel, ReadToResume, ReadToPark, ReadToTopUp,
                CallerDoes, CallerReturns, TypeOK
  <2>2. \/ row'[r].state = "Queued"
        \/ caller'[c].pc = "enqueuing" => r \notin caller'[c].runs
    <3>1. CASE Insert(c)
      BY <3>1 DEF Insert, CallerDoes, TypeOK
    <3>2. CASE MoveRun(c)
      <4>1. PICK q \in Runs : 
              /\ Write(q, caller[c].to, caller[c].attempt)
              /\ \/ /\ caller[c].to = "Queued"
                    /\ CallerDoes(c, "enqueuing", {q}, "Queued", caller[c].attempt)
                 \/ CallerReturns(c)
        BY <3>2 DEF MoveRun, TypeOK, Caller
      <4>2. CASE CallerReturns(c)
        BY <4>2 DEF CallerReturns, IdleCaller, TypeOK
      <4>3. CASE /\ caller[c].to = "Queued"
                 /\ CallerDoes(c, "enqueuing", {q}, "Queued", caller[c].attempt)
        <5>1. row'[q].state = "Queued"
          BY <4>1, <4>3 DEF Write, Moved, TypeOK, Row
        <5> QED
          BY <4>3, <5>1 DEF CallerDoes, TypeOK
      <4> QED
        BY <4>1, <4>2, <4>3
    <3>3. CASE RequestRefused(c) \/ TopUp(c) \/ ErrorAnswered(c) \/ RequestDies(c)
      BY <3>3 DEF RequestRefused, TopUp, ErrorAnswered, RequestDies, CallerReturns, IdleCaller,
                  TypeOK, Caller, AtRest
    <3>4. CASE NewRequest(c)
      BY <3>4 DEF NewRequest, ReadToInsert, ReadToCancel, ReadToResume, ReadToPark,
                  ReadToTopUp, CallerDoes, TypeOK
    <3> QED
      BY <1>3, <3>1, <3>2, <3>3, <3>4
  <2> QED
    BY <2>1, <2>2 DEF AtRest, Performing, Offered, RunOf
<1>4. ASSUME NEW id \in JobIds, Forget(id)
      PROVE  AtRest(r)'
  BY <1>4 DEF Forget, UnknownJob, AtRest, Performing, Offered, RunOf, CallerAt, TypeOK
<1>5. CASE UNCHANGED vars
  BY <1>5 DEF vars, AtRest, Performing, Offered, RunOf, CallerAt
<1> QED
  BY <1>1, <1>2, <1>3, <1>4, <1>5
  DEF Next, CallerStep, Environment, Crash, Stall, Fails, NoCrashNoStall

\* A row becomes blocked only when the worker at the run records that and leaves.
LEMMA BlockedByItsWorker ==
  ASSUME NoCrashNoStall, TypeOK, CallersKeepOut, [Next]_vars, NEW r \in Runs,
         row[r].state \notin Blocked, row'[r].state \in Blocked
  PROVE  \E w \in Workers : /\ Performing(w, r) /\ UNCHANGED << job, caller >>
                            /\ worker'[w].pc = "leaving"
                            /\ \A v \in Workers : v # w => worker'[v] = worker[v]
<1>1. ASSUME NEW q \in Runs, NEW to \in RunState \ Blocked, NEW a, Write(q, to, a)
      PROVE  FALSE
  <2>1. Moved(row[q], to, a).state = to
    BY DEF Moved, TypeOK, Row
  <2> HIDE DEF Moved
  <2> QED
    BY <1>1, <2>1 DEF Write, TypeOK
<1>2. ASSUME NEW w \in Workers, WorkerStep(w)
      PROVE  RecordFailure(w) /\ RunOf(w) = r /\ worker[w].to # "Retrying"
  <2>1. ASSUME UNCHANGED row
        PROVE  FALSE
    BY <2>1
  <2>2. ~Reserve(w) /\ ~Start(w) /\ ~Complete(w)
    <3>1. {"Reserved", "Running", "Completed"} \subseteq RunState \ Blocked
      BY DEF RunState, InFlight, Terminal, Blocked
    <3> QED
      BY <1>1, <3>1, RunOfTyped DEF Reserve, Start, Complete, WorkerAt
  <2>3. RecordFailure(w)
    BY <1>2, <2>1, <2>2
    DEF WorkerStep, Pickup, Hold, Defer, ReadToReserve, ReadToStart, GiveUp, Execute,
        CompletionRolledBack, ReadToFail, Requeue, Finish
  <2>4. /\ worker[w].pc # "idle" /\ Write(RunOf(w), worker[w].to, worker[w].attempt)
    BY <2>3 DEF RecordFailure, WorkerAt
  <2>5. RunOf(w) \in Runs /\ worker[w].to \in RunState
    BY <2>4, RunOfTyped
  <2>6. RunOf(w) = r
    BY <2>4, <2>5 DEF Write, TypeOK
  <2>7. worker[w].to \in Blocked
    BY <1>1, <2>4, <2>5
  <2> QED
    BY <2>3, <2>6, <2>7 DEF Blocked
<1>3. ASSUME NEW c \in Callers, CallerStep(c) \/ NewRequest(c)
      PROVE  FALSE
  <2>1. ~MoveRun(c)
    <3>1. {"Cancelled", "Running", "Queued"} \union Waiting \subseteq RunState \ Blocked
      BY DEF RunState, InFlight, Terminal, Blocked, Waiting
    <3>2. MoveRun(c) => caller[c].runs \subseteq Runs /\ caller[c].to \in RunState \ Blocked
      BY <3>1 DEF MoveRun, CallersKeepOut, CallerAt, TypeOK, Caller
    <3> QED
      BY <1>1, <3>2 DEF MoveRun
  <2>2. ~Insert(c)
    <3>1. NewRow.state = "Queued"
      BY NewRowTyped
    <3> QED
      BY <3>1 DEF Insert, TypeOK, Blocked
  <2>3. ~TopUp(c)
    <3>1. \A q \in Runs : ToppedUp(row[q]).state = "Queued"
      BY DEF ToppedUp, TypeOK, Row
    <3> HIDE DEF ToppedUp
    <3> QED
      BY <3>1 DEF TopUp, TypeOK, Blocked, Caller
  <2> QED
    BY <1>3, <2>1, <2>2, <2>3
    DEF CallerStep, NewRequest, Enqueue, RequestRefused, ErrorAnswered, ReadToInsert,
        ReadToCancel, ReadToResume, ReadToPark, ReadToTopUp
<1>4. PICK w \in Workers : RecordFailure(w) /\ RunOf(w) = r /\ worker[w].to # "Retrying"
  BY <1>2, <1>3 DEF Next, Environment, Crash, Stall, RequestDies, Forget, vars
<1>5. Leave(w) /\ UNCHANGED << job, caller >> /\ worker[w].pc = "recording"
  BY <1>4 DEF RecordFailure, WorkerAt
<1>6. worker'[w].pc = "leaving" /\ \A v \in Workers : v # w => worker'[v] = worker[v]
  BY <1>5 DEF Leave, Intend, TypeOK, Worker
<1> QED
  BY <1>4, <1>5, <1>6 DEF Performing

LEMMA CallersKeepOutStep ==
  ASSUME TypeOK, CallersKeepOut, [Next]_vars
  PROVE  CallersKeepOut'
<1> USE DEF CallersKeepOut, CallerAt
<1>1. ASSUME NEW c \in Callers, CallerStep(c) \/ NewRequest(c) \/ RequestDies(c)
      PROVE  CallersKeepOut'
  <2> USE DEF CallerDoes, CallerReturns, TypeOK
  <2>0. IdleCaller.pc = "idle"
    BY DEF IdleCaller
  <2>1. CASE Insert(c) \/ MoveRun(c)
    BY <2>0, <2>1 DEF Insert, MoveRun
  <2>2. CASE Enqueue(c) \/ ErrorAnswered(c) \/ RequestDies(c)
    BY <2>0, <2>2 DEF Enqueue, ErrorAnswered, RequestDies
  <2>3. CASE RequestRefused(c) \/ TopUp(c)
    BY <2>0, <2>3 DEF RequestRefused, TopUp, Caller
  <2>4. CASE NewRequest(c)
    BY <2>4 DEF NewRequest, ReadToInsert, ReadToCancel, ReadToResume, ReadToPark, ReadToTopUp
  <2> QED
    BY <1>1, <2>1, <2>2, <2>3, <2>4 DEF CallerStep
<1>2. CASE UNCHANGED caller
  BY <1>2
<1>3. ASSUME NEW w \in Workers, WorkerStep(w) \/ Crash(w) \/ Stall(w)
      PROVE  UNCHANGED caller
  BY <1>3, WorkersLeaveRequestsAlone
<1> QED
  BY <1>1, <1>2, <1>3 DEF Next, Environment, Forget, vars

\* The inductive invariant of OneWorkerPerRun: not only the worker that performs a run is
\* alone, so is whatever will bring the next one.
HandsInv == RowInv /\ InOneHand /\ BlockedRests /\ CallersKeepOut

LEMMA HandsInit == Init => HandsInv
<1> SUFFICES ASSUME Init PROVE InOneHand /\ BlockedRests /\ CallersKeepOut
  BY RowInvInit DEF HandsInv
<1>1. /\ \A w \in Workers : worker[w].pc = "idle"
      /\ \A id \in JobIds : job[id].st = "unknown"
      /\ \A c \in Callers : caller[c].pc = "idle"
  BY DEF Init, IdleWorker, UnknownJob, IdleCaller
<1>2. BlockedRests /\ CallersKeepOut
  BY <1>1 DEF BlockedRests, CallersKeepOut, Performing, Offered, CallerAt
<1>3. \A r \in Runs : Hands(r) = {}
  BY <1>1, WhoseHands DEF Performing, Offered, Sending, CallerAt
<1> QED
  BY <1>2, <1>3 DEF InOneHand

LEMMA HandsStep ==
  ASSUME NoCrashNoStall, HandsInv, ResumesApart', [Next]_vars
  PROVE  HandsInv'
<1>0. TypeOK /\ RowBeforeJob /\ InOneHand /\ BlockedRests /\ CallersKeepOut
  BY DEF HandsInv, RowInv
<1>1. RowInv' /\ CallersKeepOut'
  BY <1>0, RowInvStep, CallersKeepOutStep DEF HandsInv
<1>2. ASSUME NEW r \in Runs
      PROVE  ChangesHands(Hands(r), Hands(r)')
  <2>1. ASSUME NEW c \in Callers, RequestDies(c)
        PROVE  ChangesHands(Hands(r), Hands(r)')
    <3>1. /\ UNCHANGED << job, worker >> /\ caller'[c].pc = "idle"
          /\ \A d \in Callers : d # c => caller'[d] = caller[d]
      BY <1>0, <2>1 DEF RequestDies, CallerReturns, IdleCaller, TypeOK
    <3> QED
      BY <3>1, NoNewHand DEF Performing, Offered, Sending, RunOf, CallerAt
  <2>2. ASSUME NEW id \in JobIds, Forget(id)
        PROVE  ChangesHands(Hands(r), Hands(r)')
    <3>1. /\ UNCHANGED << worker, caller >>
          /\ \A k \in JobIds : job'[k].st = "waiting" => job[k].st = "waiting"
      BY <1>0, <2>2 DEF Forget, UnknownJob, TypeOK
    <3> QED
      BY <3>1, NoNewHand DEF Performing, Offered, Sending, RunOf, CallerAt
  <2>3. CASE UNCHANGED vars
    BY <2>3, NoNewHand DEF vars, Performing, Offered, Sending, RunOf, CallerAt
  <2>4. ASSUME NEW w \in Workers, Crash(w) \/ Stall(w)
        PROVE  FALSE
    BY <2>4 DEF Crash, Stall, Fails, NoCrashNoStall
  <2> QED
    BY <1>0, <2>1, <2>2, <2>3, <2>4, WorkerStepChangesHands, CallerStepChangesHands,
       NewRequestChangesHands
    DEF Next, Environment
<1>3. InOneHand'
  BY <1>0, <1>2, OneHandAgain DEF InOneHand
<1>4. ASSUME NEW r \in Runs, row'[r].state \in Blocked
      PROVE  AtRest(r)'
  <2>1. CASE row[r].state \in Blocked
    <3>1. AtRest(r) /\ row[r].state # Absent
      BY <1>0, <2>1 DEF BlockedRests, AtRest, Blocked, Absent
    <3> QED
      BY <1>0, <1>4, <3>1, RestIsKept DEF Blocked
  <2>2. CASE row[r].state \notin Blocked
    <3>1. PICK w \in Workers : /\ Performing(w, r) /\ UNCHANGED << job, caller >>
                               /\ worker'[w].pc = "leaving"
                               /\ \A v \in Workers : v # w => worker'[v] = worker[v]
      BY <1>0, <1>4, <2>2, BlockedByItsWorker
    <3>2. \A x \in Hands(r) : x = << "worker", w >>
      BY <1>0, <3>1, WhoseHands DEF InOneHand
    <3>3. /\ \A v \in Workers : v # w => ~Performing(v, r)
          /\ \A id \in JobIds : ~Offered(id, r)
          /\ \A c \in Callers : ~Sending(c, r)
      <4>1. \A v : << "worker", v >> = << "worker", w >> => v = w
        OBVIOUS
      <4>2. \A v : << "job", v >> # << "worker", w >> /\ << "caller", v >> # << "worker", w >>
        OBVIOUS
      <4> QED
        BY <3>2, <4>1, <4>2, WhoseHands
    <3> QED
      BY <3>1, <3>3 DEF AtRest, Performing, Offered, Sending, CallerAt, RunOf
  <2> QED
    BY <2>1, <2>2
<1>5. BlockedRests'
  BY <1>4 DEF BlockedRests, AtRest
<1> QED
  BY <1>1, <1>3, <1>5 DEF HandsInv

LEMMA OneHandOneWorker ==
  ASSUME HandsInv
  PROVE  OneWorkerPerRun
<1> SUFFICES ASSUME NEW r \in Runs
             PROVE  Cardinality({w \in Workers : Holds(w, r)}) <= 1
  BY DEF OneWorkerPerRun
<1> DEFINE S == {w \in Workers : Holds(w, r)}
<1>1. ASSUME NEW v \in S, NEW w \in S
      PROVE  v = w
  <2>1. << "worker", v >> \in Hands(r) /\ << "worker", w >> \in Hands(r)
    BY <1>1, WhoseHands DEF Holds, Performing
  <2>2. << "worker", v >> = << "worker", w >>
    BY <2>1 DEF HandsInv, InOneHand
  <2> QED
    BY <2>2
<1>2. CASE S = {}
  BY <1>2, FS_EmptySet
<1>3. CASE S # {}
  <2>1. PICK w \in S : S = {w}
    BY <1>1, <1>3
  <2> HIDE DEF S
  <2>2. Cardinality(S) = 1
    BY <2>1, FS_Singleton
  <2> QED
    BY <2>2 DEF S
<1> QED
  BY <1>2, <1>3

\* A run is performed by one worker at a time, whatever is cancelled, parked, topped up or
\* resumed, whatever UPDATE fails and whatever request dies, as long as no worker dies or
\* stalls and no run is resumed by two requests at once.
THEOREM PerformedByOneWorker ==
  ASSUME NoCrashNoStall
  PROVE  Spec /\ []ResumesApart => []OneWorkerPerRun
<1>1. HandsInv /\ ResumesApart' /\ [Next]_vars => HandsInv'
  BY HandsStep
<1>2. HandsInv => OneWorkerPerRun
  BY OneHandOneWorker
<1> QED
  BY <1>1, <1>2, HandsInit, PTL DEF Spec

NobodyResumes ==
  \A c \in Callers : CallerAt(c, "moving") => caller[c].to \in {"Cancelled"} \union Waiting

LEMMA NobodyResumesStep ==
  ASSUME "resume" \notin Requests, TypeOK, NobodyResumes, [Next]_vars
  PROVE  NobodyResumes'
<1> USE DEF NobodyResumes, CallerAt
<1>1. ASSUME NEW c \in Callers, CallerStep(c) \/ NewRequest(c) \/ RequestDies(c)
      PROVE  NobodyResumes'
  <2> USE DEF CallerDoes, CallerReturns, TypeOK
  <2>0. IdleCaller.pc = "idle"
    BY DEF IdleCaller
  <2>1. CASE Insert(c) \/ MoveRun(c)
    BY <2>0, <2>1 DEF Insert, MoveRun
  <2>2. CASE Enqueue(c) \/ ErrorAnswered(c) \/ RequestDies(c)
    BY <2>0, <2>2 DEF Enqueue, ErrorAnswered, RequestDies
  <2>3. CASE RequestRefused(c) \/ TopUp(c)
    BY <2>0, <2>3 DEF RequestRefused, TopUp, Caller
  <2>4. CASE NewRequest(c)
    BY <2>4 DEF NewRequest, ReadToInsert, ReadToCancel, ReadToResume, ReadToPark, ReadToTopUp,
                Waiting
  <2> QED
    BY <1>1, <2>1, <2>2, <2>3, <2>4 DEF CallerStep
<1>2. CASE UNCHANGED caller
  BY <1>2
<1>3. ASSUME NEW w \in Workers, WorkerStep(w) \/ Crash(w) \/ Stall(w)
      PROVE  UNCHANGED caller
  BY <1>3, WorkersLeaveRequestsAlone
<1> QED
  BY <1>1, <1>2, <1>3 DEF Next, Environment, Forget, vars

\* Where nobody resumes, or one request is served at a time, resumes cannot cross.
THEOREM PerformedByOneWorkerUnlessResumesCross ==
  ASSUME NoCrashNoStall, "resume" \notin Requests \/ \A c, d \in Callers : c = d
  PROVE  Spec => []OneWorkerPerRun
<1> DEFINE Inv == HandsInv /\ ("resume" \notin Requests => NobodyResumes)
<1>1. Init => Inv
  BY HandsInit DEF Init, IdleCaller, NobodyResumes, CallerAt
<1>2. Inv /\ [Next]_vars => Inv'
  <2> SUFFICES ASSUME Inv, [Next]_vars PROVE Inv'
    OBVIOUS
  <2>1. "resume" \notin Requests => NobodyResumes'
    BY NobodyResumesStep DEF HandsInv, RowInv
  <2>2. ResumesApart'
    BY <2>1 DEF ResumesApart, NobodyResumes, Waiting
  <2> QED
    BY <2>1, <2>2, HandsStep
<1>3. Inv => OneWorkerPerRun
  BY OneHandOneWorker
<1> QED
  BY <1>1, <1>2, <1>3, PTL DEF Spec

-----------------------------------------------------------------------------
(* Every run in flight is worked on.                                       *)

\* A worker that executes its run, or is done executing it, has taken the row past Reserved.
PastReserved(w) == worker[w].pc \in {"executing", "completing", "failed", "recording"}

\* What a failure makes of a run.
FailureStates == {"Retrying", "Failed"} \union Blocked \union Waiting

FailuresAsClassified ==
  \A w \in Workers : worker[w].pc \in {"failed", "recording"} => worker[w].to \in FailureStates

ReservedIsNotExecuted ==
  \A w \in Workers : PastReserved(w) => row[RunOf(w)].state # "Reserved"

WorkedOnInv ==
  HandsInv /\ NobodyResumes /\ FailuresAsClassified /\ ReservedIsNotExecuted /\ InFlightIsWorkedOn

LEMMA FailuresAsClassifiedStep ==
  ASSUME TypeOK, FailuresAsClassified, [Next]_vars
  PROVE  FailuresAsClassified'
<1>1. ASSUME NEW w \in Workers, WorkerStep(w) \/ Crash(w) \/ Stall(w)
      PROVE  FailuresAsClassified'
  <2> USE DEF WorkerAt
  <2>1. \A v \in Workers : v # w => worker'[v] = worker[v]
    <3>1. CASE WorkerStep(w)
      BY <3>1, OneWorkerMoves
    <3>2. CASE Crash(w) \/ Stall(w)
      BY <3>2 DEF Crash, Stall, TypeOK
    <3> QED
      BY <1>1, <3>1, <3>2
  <2>2. worker'[w].pc \in {"failed", "recording"} => worker'[w].to \in FailureStates
    <3> USE DEF TypeOK, Worker
    <3>1. ASSUME NEW id \in JobIds, Pickup(w, id) \/ Hold(w, id)
          PROVE  worker'[w].pc \notin {"failed", "recording"}
      BY <3>1, PickedUp
    <3>2. CASE \/ Requeue(w) \/ Defer(w) \/ GiveUp(w) \/ Complete(w) \/ ReadToReserve(w)
               \/ Reserve(w) \/ ReadToStart(w) \/ Start(w)
      BY <3>2 DEF Requeue, Defer, GiveUp, Complete, ReadToReserve, Reserve, ReadToStart, Start,
                  Leave, Intend, Goto
    <3>3. CASE Finish(w) \/ Crash(w)
      <4>1. IdleWorker.pc = "idle"
        BY DEF IdleWorker
      <4> QED
        BY <3>3, <4>1 DEF Finish, Crash
    <3>4. CASE Stall(w)
      BY <3>4 DEF Stall, FailuresAsClassified
    <3>5. CASE Execute(w)
      <4>1. ASSUME NEW to \in FailureStates, Intend(w, "failed", to, 1)
            PROVE  worker'[w].to \in FailureStates
        BY <4>1 DEF Intend
      <4>2. CASE Goto(w, "completing")
        BY <4>2 DEF Goto
      <4> QED
        BY <3>5, <4>1, <4>2 DEF Execute, FailureStates
    <3>6. CASE CompletionRolledBack(w)
      BY <3>6 DEF CompletionRolledBack, Intend, FailureStates
    <3>7. CASE ReadToFail(w)
      <4>1. FailureTarget(worker[w].to, row[RunOf(w)].attempt) \in FailureStates
        BY <3>7 DEF ReadToFail, FailureTarget, FailuresAsClassified, FailureStates
      <4> HIDE DEF FailureTarget
      <4> QED
        BY <3>7, <4>1 DEF ReadToFail, Leave, Intend
    <3>8. CASE RecordFailure(w)
      BY <3>8 DEF RecordFailure, Goto, Leave, Intend
    <3> QED
      BY <1>1, <3>1, <3>2, <3>3, <3>4, <3>5, <3>6, <3>7, <3>8 DEF WorkerStep
  <2> QED
    BY <2>1, <2>2 DEF FailuresAsClassified
<1>2. CASE UNCHANGED worker
  BY <1>2 DEF FailuresAsClassified
<1>3. ASSUME NEW c \in Callers, CallerStep(c) \/ NewRequest(c) \/ RequestDies(c)
      PROVE  UNCHANGED worker
  BY <1>3, RequestsLeaveWorkersAlone
<1> QED
  BY <1>1, <1>2, <1>3 DEF Next, Environment, Forget, vars

LEMMA WrittenState ==
  ASSUME TypeOK, NEW q \in Runs, NEW to, NEW a, Write(q, to, a)
  PROVE  /\ row'[q].state = to
         /\ \A r \in Runs : r # q => row'[r] = row[r]
<1>1. Moved(row[q], to, a).state = to
  BY DEF Moved, TypeOK, Row
<1> HIDE DEF Moved
<1> QED
  BY <1>1 DEF Write, TypeOK

\* Only the worker at a run takes its row into a state that counts as in flight.
LEMMA InFlightByItsWorker ==
  ASSUME TypeOK, NobodyResumes, FailuresAsClassified, [Next]_vars, NEW r \in Runs,
         row'[r] # row[r], row'[r].state \in InFlight
  PROVE  \E w \in Workers : /\ Reserve(w) \/ (Start(w) /\ row'[r].state = "Running")
                            /\ Performing(w, r)
                            /\ Holds(w, r)'
<1>1. ASSUME NEW w \in Workers, WorkerStep(w)
      PROVE  /\ Reserve(w) \/ (Start(w) /\ row'[r].state = "Running")
             /\ Performing(w, r)
             /\ Holds(w, r)'
  <2> USE DEF WorkerAt
  <2>1. ~Complete(w)
    BY RunOfTyped, WrittenState DEF Complete, InFlight
  <2>2. ~RecordFailure(w)
    <3>1. RecordFailure(w) => worker[w].to \in FailureStates
      BY DEF RecordFailure, FailuresAsClassified
    <3> QED
      BY <3>1, RunOfTyped, WrittenState
      DEF RecordFailure, InFlight, FailureStates, Blocked, Waiting
  <2>3. Reserve(w) \/ Start(w)
    BY <1>1, <2>1, <2>2
    DEF WorkerStep, Pickup, Hold, Defer, ReadToReserve, ReadToStart, GiveUp, Execute,
        CompletionRolledBack, ReadToFail, Requeue, Finish
  <2>4. /\ worker[w].pc \in {"reserving", "starting"}
        /\ worker'[w].pc \in {"reserved", "executing"} /\ worker'[w].job = worker[w].job
    BY <2>3 DEF Reserve, Start, Goto, TypeOK, Worker
  <2>5. /\ RunOf(w) = r
        /\ Start(w) => row'[r].state = "Running"
    BY <2>3, <2>4, RunOfTyped, WrittenState DEF Reserve, Start
  <2> QED
    BY <2>3, <2>4, <2>5 DEF Performing, Holds, RunOf
<1>2. ASSUME NEW c \in Callers, CallerStep(c) \/ NewRequest(c)
      PROVE  FALSE
  <2>1. ~MoveRun(c)
    <3>1. MoveRun(c) => caller[c].to \in {"Cancelled"} \union Waiting 
      BY DEF MoveRun, NobodyResumes, CallerAt
    <3> QED
      BY <3>1, WrittenState DEF MoveRun, InFlight, Waiting, TypeOK, Caller
  <2>2. ~Insert(c)
    <3>1. NewRow.state = "Queued"
      BY NewRowTyped
    <3> QED
      BY <3>1 DEF Insert, TypeOK, InFlight
  <2>3. ~TopUp(c)
    <3>1. \A q \in Runs : ToppedUp(row[q]).state = "Queued"
      BY DEF ToppedUp, TypeOK, Row
    <3> HIDE DEF ToppedUp
    <3> QED
      BY <3>1 DEF TopUp, TypeOK, InFlight, Caller
  <2> QED
    BY <1>2, <2>1, <2>2, <2>3
    DEF CallerStep, NewRequest, Enqueue, RequestRefused, ErrorAnswered, ReadToInsert,
        ReadToCancel, ReadToResume, ReadToPark, ReadToTopUp
<1> QED
  BY <1>1, <1>2 DEF Next, Environment, Crash, Stall, RequestDies, Forget, vars

LEMMA ReservedIsNotExecutedStep ==
  ASSUME TypeOK, InOneHand, NobodyResumes, FailuresAsClassified, ReservedIsNotExecuted,
         [Next]_vars
  PROVE  ReservedIsNotExecuted'
<1> SUFFICES ASSUME NEW v \in Workers, PastReserved(v)', row'[RunOf(v)'].state = "Reserved"
             PROVE  FALSE
  BY DEF ReservedIsNotExecuted
<1> DEFINE r == RunOf(v)'
<1>1. CASE Start(v)
  <2>1. worker[v].pc = "starting" /\ r = RunOf(v)
    BY <1>1 DEF Start, WorkerAt, Goto, RunOf, TypeOK, Worker
  <2>2. row'[r].state = "Running"
    BY <1>1, <2>1, RunOfTyped, WrittenState DEF Start
  <2> QED
    BY <2>2
<1>2. CASE ~Start(v)
  <2>1. PastReserved(v) /\ RunOf(v) = r
    <3>1. CASE WorkerStep(v)
      <4> USE DEF WorkerAt
      <4>1. ~(\E id \in JobIds : Pickup(v, id) \/ Hold(v, id))
        BY PickedUp DEF PastReserved
      <4>2. ~Requeue(v) /\ ~Defer(v) /\ ~Finish(v)
        <5>1. IdleWorker.pc = "idle"
          BY DEF IdleWorker
        <5> QED
          BY <5>1 DEF Requeue, Defer, Finish, Leave, Intend, PastReserved, TypeOK, Worker
      <4>3. ~ReadToReserve(v) /\ ~Reserve(v) /\ ~ReadToStart(v) /\ ~GiveUp(v) /\ ~Complete(v)
        BY DEF ReadToReserve, Reserve, ReadToStart, GiveUp, Complete, Leave, Intend, Goto,
               PastReserved, TypeOK, Worker
      <4>4. Execute(v) \/ CompletionRolledBack(v) \/ ReadToFail(v) \/ RecordFailure(v)
        BY <1>2, <3>1, <4>1, <4>2, <4>3 DEF WorkerStep
      <4>5. PastReserved(v)
        BY <4>4 DEF Execute, CompletionRolledBack, ReadToFail, RecordFailure, PastReserved
      <4>6. worker'[v].job = worker[v].job
        BY <4>4, WorkerKeepsItsJob
      <4> QED
        BY <4>5, <4>6 DEF RunOf
    <3>2. CASE ~WorkerStep(v)
      <4>1. worker'[v].pc = worker[v].pc /\ worker'[v].job = worker[v].job
        <5>1. ASSUME NEW w \in Workers, w # v, WorkerStep(w)
              PROVE  worker'[v] = worker[v]
          BY <5>1, OneWorkerMoves
        <5>2. ASSUME NEW w \in Workers, Crash(w) \/ Stall(w)
              PROVE  worker'[v].pc = worker[v].pc /\ worker'[v].job = worker[v].job
          <6>1. IdleWorker.pc = "idle"
            BY DEF IdleWorker
          <6>2. ~Crash(w) \/ w # v
            BY <6>1 DEF Crash, PastReserved, TypeOK
          <6> QED
            BY <5>2, <6>2 DEF Crash, Stall, TypeOK, Worker
        <5>3. ASSUME NEW c \in Callers, CallerStep(c) \/ NewRequest(c) \/ RequestDies(c)
              PROVE  UNCHANGED worker
          BY <5>3, RequestsLeaveWorkersAlone
        <5> QED
          BY <3>2, <5>1, <5>2, <5>3 DEF Next, Environment, Forget, vars
      <4> QED
        BY <4>1 DEF PastReserved, RunOf
    <3> QED
      BY <3>1, <3>2
  <2>2. r \in Runs /\ row[r].state # "Reserved"
    BY <2>1, RunOfTyped DEF PastReserved, ReservedIsNotExecuted
  <2>3. PICK w \in Workers : Reserve(w) /\ Performing(w, r)
    <3> HIDE DEF r
    <3>1. row'[r] # row[r] /\ row'[r].state = "Reserved"
      BY <2>2 DEF r
    <3>2. PICK w \in Workers : /\ Reserve(w) \/ (Start(w) /\ row'[r].state = "Running")
                               /\ Performing(w, r)
      BY <2>2, <3>1, InFlightByItsWorker DEF InFlight
    <3> QED
      BY <3>1, <3>2
  <2>4. Performing(v, r)
    BY <2>1 DEF PastReserved, Performing
  <2>5. << "worker", v >> = << "worker", w >>
    BY <2>2, <2>3, <2>4, WhoseHands DEF InOneHand
  <2>6. ~PastReserved(w)
    BY <2>3 DEF Reserve, WorkerAt, PastReserved
  <2> QED
    BY <2>1, <2>5, <2>6
<1> QED
  BY <1>1, <1>2

LEMMA AllowedInFlight ==
  /\ Allowed("Reserved") = {"Running", "Cancelled"} \union Blocked
  /\ Allowed("Running") = Waiting \union Blocked \union Terminal \union {"Retrying"}
<1>1. Allowed("Reserved") = {"Running", "Cancelled"} \union Blocked
  BY DEF Allowed, Waiting, Blocked
<1>2. Allowed("Running") = Waiting \union Blocked \union Terminal \union {"Retrying"}
  BY DEF Allowed, Waiting, Blocked
<1> QED
  BY <1>1, <1>2

\* A worker lets go of a run in flight only by taking its row out of flight.
LEMMA HolderHoldsOn ==
  ASSUME TypeOK, RowsConsistent, FailuresAsClassified, ReservedIsNotExecuted,
         "writeFails" \notin Mishaps,
         NEW w \in Workers, NEW r \in Runs, WorkerStep(w), Holds(w, r),
         row[r].state \in InFlight, row'[r].state \in InFlight
  PROVE  Holds(w, r)'
<1> USE DEF WorkerAt
<1>1. /\ worker[w].pc \in {"reserved", "starting", "executing", "completing", "failed",
                           "recording"}
      /\ RunOf(w) = r
      /\ row[r] \in Row /\ Accepted(row[r])
      /\ worker[w].to \in RunState /\ worker[w].attempt \in 1..MaxAttempts
  BY RunOfTyped DEF Holds, TypeOK, RowsConsistent
<1>2. ~Complete(w) /\ ~RecordFailure(w)
  <2>1. RecordFailure(w) => worker[w].to \in FailureStates
    BY DEF RecordFailure, FailuresAsClassified
  <2> QED
    BY <1>1, <2>1, WrittenState
    DEF Complete, RecordFailure, FailureStates, InFlight, Blocked, Waiting
<1>3. ~GiveUp(w)
  <2>1. row[r].reserved /\ ~row[r].finished /\ ~row[r].cancelled /\ ~row[r].deadLettered
        /\ row[r].attempt <= MaxAttempts
    BY <1>1 DEF Accepted, ReservedBeforeRunning, FinishTimeIffFinished, CancelTimeIffCancelled,
                DeadLetteredIsFailed, AttemptWithinCeiling, InFlight, Blocked, Terminal, Absent,
                Row
  <2>2. ASSUME NEW to \in {"Running"} \union FailureStates, NEW a \in 1..MaxAttempts
        PROVE  Accepted(Moved(row[r], to, a))
    <3> DEFINE x == Moved(row[r], to, a)
    <3>1. /\ x.state = to /\ x.attempt \in 1..MaxAttempts
          /\ x.reserved = (to = "Reserved" \/ (row[r].reserved /\ to # "Retrying"))
          /\ x.finished = (row[r].finished \/ to \in Terminal)
          /\ x.cancelled = (row[r].cancelled \/ to = "Cancelled")
          /\ x.deadLettered = (row[r].deadLettered \/ to = "Failed")
      BY <1>1 DEF Moved, Row
    <3> HIDE DEF x
    <3>2. x.attempt <= MaxAttempts
      BY <3>1, MaxAttemptsAssumption
    <3>3. Accepted(x)
      BY <2>1, <2>2, <3>1, <3>2
      DEF Accepted, ReservedBeforeRunning, FinishTimeIffFinished, CancelTimeIffCancelled,
          DeadLetteredIsFailed, AttemptWithinCeiling, FailureStates, Blocked, Waiting, Terminal,
          Absent
    <3> QED
      BY <3>3 DEF x
  <2>3. worker[w].pc = "recording" => worker[w].to \in FailureStates
    BY DEF FailuresAsClassified
  <2>4. 1 \in 1..MaxAttempts
    BY MaxAttemptsAssumption
  <2> QED
    BY <1>1, <2>2, <2>3, <2>4 DEF GiveUp, WriteRefused, Fails
<1>4. \/ ReadToStart(w) \/ Start(w) \/ Execute(w) \/ CompletionRolledBack(w) \/ ReadToFail(w)
  <2>1. ~(\E id \in JobIds : Pickup(w, id) \/ Hold(w, id))
    BY <1>1 DEF Pickup, Hold
  <2> QED
    BY <1>1, <1>2, <1>3, <2>1 DEF WorkerStep, ReadToReserve, Reserve, Requeue, Defer, Finish
<1>5. worker'[w].job = worker[w].job
  BY <1>4, WorkerKeepsItsJob
<1>6. worker'[w].pc \in {"starting", "executing", "completing", "failed", "recording"}
  <2> USE DEF TypeOK, Worker
  <2>1. CASE ReadToStart(w)
    <3>1. MoveAdmits(row[r].state, "Running")
      BY AllowedInFlight DEF MoveAdmits, MayMove, InFlight
    <3> QED
      BY <1>1, <2>1, <3>1 DEF ReadToStart, Goto
  <2>2. CASE Start(w)
    BY <2>2 DEF Start, Goto
  <2>3. CASE Execute(w)
    BY ZenonT(60), <2>3 DEF Execute, Goto, Intend
  <2>4. CASE CompletionRolledBack(w)
    BY <2>4 DEF CompletionRolledBack, Intend
  <2>5. CASE ReadToFail(w)
    <3> DEFINE to == FailureTarget(worker[w].to, row[r].attempt)
    <3>1. worker[w].to \in FailureStates /\ row[r].state = "Running"
      BY <1>1, <2>5 DEF ReadToFail, FailuresAsClassified, ReservedIsNotExecuted, PastReserved,
                        InFlight
    <3>2. to \in FailureStates
      BY <3>1 DEF FailureTarget, FailureStates
    <3> HIDE DEF to
    <3>3. MoveAdmits("Running", to) /\ "Running" \notin Terminal
      BY <3>2, AllowedInFlight DEF MoveAdmits, MayMove, FailureStates, Terminal
    <3> QED
      BY <1>1, <2>5, <3>1, <3>3 DEF ReadToFail, Intend, to
  <2> QED
    BY <1>4, <2>1, <2>2, <2>3, <2>4, <2>5
<1> QED
  BY <1>1, <1>5, <1>6 DEF Holds, RunOf

LEMMA WorkedOnStep ==
  ASSUME "resume" \notin Requests, Mishaps \subseteq {"requestDies", "releaseFails"},
         WorkedOnInv, [Next]_vars
  PROVE  WorkedOnInv'
<1>0. /\ TypeOK /\ RowsConsistent /\ InOneHand /\ NobodyResumes /\ FailuresAsClassified
      /\ ReservedIsNotExecuted
  BY DEF WorkedOnInv, HandsInv, RowInv
<1>1. NobodyResumes' /\ FailuresAsClassified' /\ ReservedIsNotExecuted'
  BY <1>0, NobodyResumesStep, FailuresAsClassifiedStep, ReservedIsNotExecutedStep
<1>2. HandsInv'
  <2>1. ResumesApart'
    BY <1>1 DEF NobodyResumes, ResumesApart, Waiting
  <2>2. NoCrashNoStall
    BY DEF NoCrashNoStall
  <2> QED
    BY <2>1, <2>2, HandsStep DEF WorkedOnInv
<1>3. ASSUME NEW r \in Runs, row'[r].state \in InFlight
      PROVE  \E w \in Workers : Holds(w, r)'
  <2>1. CASE row'[r] # row[r]
    BY <1>0, <1>3, <2>1, InFlightByItsWorker
  <2>2. CASE row'[r] = row[r]
    <3>1. row[r].state \in InFlight
      BY <1>3, <2>2
    <3>2. PICK w \in Workers : Holds(w, r)
      BY <3>1 DEF WorkedOnInv, InFlightIsWorkedOn, RunsInFlight
    <3>3. CASE worker'[w] = worker[w]
      BY <3>2, <3>3 DEF Holds, RunOf
    <3>4. CASE worker'[w] # worker[w]
      <4>1. WorkerStep(w)
        <5>1. ASSUME NEW v \in Workers, WorkerStep(v), v # w
              PROVE  FALSE
          BY <1>0, <3>4, <5>1, OneWorkerMoves
        <5>2. ASSUME NEW c \in Callers, CallerStep(c) \/ NewRequest(c) \/ RequestDies(c)
              PROVE  UNCHANGED worker
          BY <5>2, RequestsLeaveWorkersAlone
        <5> QED
          BY <3>4, <5>1, <5>2 DEF Next, Environment, Crash, Stall, Fails, Forget, vars
      <4>2. "writeFails" \notin Mishaps
        OBVIOUS
      <4> QED
        BY <1>0, <1>3, <3>1, <3>2, <4>1, <4>2, HolderHoldsOn
    <3> QED
      BY <3>3, <3>4
  <2> QED
    BY <2>1, <2>2
<1>4. InFlightIsWorkedOn'
  BY <1>3 DEF InFlightIsWorkedOn, RunsInFlight
<1> QED
  BY <1>1, <1>2, <1>4 DEF WorkedOnInv

LEMMA WorkedOnInit == Init => WorkedOnInv
<1> SUFFICES ASSUME Init
             PROVE  /\ NobodyResumes /\ FailuresAsClassified /\ ReservedIsNotExecuted
                    /\ InFlightIsWorkedOn
  BY HandsInit DEF WorkedOnInv
<1>1. /\ \A w \in Workers : worker[w].pc = "idle"
      /\ \A c \in Callers : caller[c].pc = "idle"
      /\ \A r \in Runs : row[r].state = Absent
  BY DEF Init, IdleWorker, IdleCaller, NoRow
<1>2. NobodyResumes /\ FailuresAsClassified /\ ReservedIsNotExecuted
  BY <1>1 DEF NobodyResumes, CallerAt, FailuresAsClassified, ReservedIsNotExecuted, PastReserved
<1>3. InFlightIsWorkedOn
  BY <1>1 DEF InFlightIsWorkedOn, RunsInFlight, InFlight, Absent
<1> QED
  BY <1>2, <1>3

\* The cap on runs in flight counts only runs some worker performs: a worker never lets go of
\* a run it has reserved or started without taking the row out of flight, whatever is
\* cancelled, parked or topped up meanwhile.  It takes an environment in which the database
\* accepts what the constraints allow, no worker is lost, and nobody resumes a parked run
\* (resume puts the row in flight and leaves it to no worker).
THEOREM InFlightRunsAreWorkedOn ==
  ASSUME "resume" \notin Requests, Mishaps \subseteq {"requestDies", "releaseFails"}
  PROVE  Spec => []InFlightIsWorkedOn
<1>1. WorkedOnInv /\ [Next]_vars => WorkedOnInv'
  BY WorkedOnStep
<1>2. WorkedOnInv => InFlightIsWorkedOn
  BY DEF WorkedOnInv
<1> QED
  BY <1>1, <1>2, WorkedOnInit, PTL DEF Spec

-----------------------------------------------------------------------------
(* No run is forgotten.                                                    *)

\* A worker has its job to itself, and none is ever held back.
WorkersHaveTheirJobs ==
  \A w \in Workers : worker[w].pc # "idle" =>
    /\ worker[w].pc # "deferring" /\ worker[w].owns /\ job[worker[w].job].st = "active"
    /\ \A v \in Workers : worker[v].pc # "idle" /\ worker[v].job = worker[w].job => v = w

\* The broker knows no job of an attempt the row has not reached.
JobsWithinAttempts ==
  \A r \in Runs, k \in 1..MaxAttempts : job[<< r, k >>].st # "unknown" => k <= row[r].attempt

\* A retry is recorded under the attempt after the row's, and enqueued under an id that is new.
RetriesAreNew ==
  \A w \in Workers :
    /\ worker[w].pc = "recording" /\ worker[w].to = "Retrying"
         => worker[w].attempt = row[RunOf(w)].attempt + 1
    /\ worker[w].pc = "requeuing"
         => /\ worker[w].attempt = row[RunOf(w)].attempt
            /\ job[<< RunOf(w), worker[w].attempt >>].st = "unknown"

EnqueuesAreNew ==
  \A c \in Callers : CallerAt(c, "enqueuing") =>
    \E r \in Runs : caller[c].runs = {r} /\ job[<< r, 0 >>].st = "unknown"

NobodyTopsUp == \A c \in Callers : ~CallerAt(c, "toppingUp")

\* What looks after a run that waits for a worker.
Attended(r) ==
  \/ \E c \in Callers : CallerAt(c, "enqueuing") /\ r \in caller[c].runs
  \/ \E id \in JobIds : Offered(id, r)
  \/ \E w \in Workers : worker[w].pc \in {"admitted", "reserving", "requeuing"} /\ RunOf(w) = r

WaitingIsAttended == \A r \in Runs : row[r].state \in {"Queued", "Retrying"} => Attended(r)

RememberedInv ==
  /\ WorkedOnInv /\ WorkersHaveTheirJobs /\ JobsWithinAttempts /\ RetriesAreNew
  /\ EnqueuesAreNew /\ NobodyTopsUp /\ WaitingIsAttended

\* What the theorem assumes: nothing of a run is lost, nobody puts a run back to Queued, and
\* the company's cap leaves a slot for every worker.
NothingLost ==
  /\ Requests \subseteq {"cancel", "wait"} /\ Mishaps \subseteq {"releaseFails"}
  /\ IsFiniteSet(Workers) /\ Cardinality(Workers) <= RunLimit

\* An idle worker leaves a slot free: the runs in flight are all in other workers' hands.
LEMMA IdleWorkerFindsASlot ==
  ASSUME NothingLost, WorkedOnInv, NEW w \in Workers, worker[w].pc = "idle"
  PROVE  SlotFree
<1> DEFINE Others == Workers \ {w}
           holder == [r \in RunsInFlight |-> CHOOSE v \in Workers : Holds(v, r)]
<1>1. ASSUME NEW r \in RunsInFlight
      PROVE  holder[r] \in Workers /\ Holds(holder[r], r)
  BY DEF WorkedOnInv, InFlightIsWorkedOn
<1>2. \A r \in RunsInFlight : holder[r] \in Others /\ RunOf(holder[r]) = r
  BY <1>1 DEF Holds
<1>3. holder \in Injection(RunsInFlight, Others)
  <2>1. holder \in [RunsInFlight -> Others]
    BY <1>2
  <2>2. \A q, r \in RunsInFlight : holder[q] = holder[r] => q = r
    BY <1>2
  <2> HIDE DEF holder
  <2> QED
    BY <2>1, <2>2 DEF Injection, IsInjective
<1>4. /\ IsFiniteSet(Others) /\ Cardinality(Others) = Cardinality(Workers) - 1
      /\ Cardinality(Workers) \in Nat
  BY FS_RemoveElement, FS_CardinalityType DEF NothingLost
<1> HIDE DEF holder, Others
<1>5. IsFiniteSet(RunsInFlight) /\ Cardinality(RunsInFlight) <= Cardinality(Others)
  BY <1>3, <1>4, FS_Injection
<1>6. Cardinality(RunsInFlight) \in Nat
  BY <1>5, FS_CardinalityType
<1> QED
  BY <1>4, <1>5, <1>6, ConstantsAssumption DEF SlotFree, NothingLost

(* Whose step changed what. *)

LEMMA WhoMovedTheWorker ==
  ASSUME NothingLost, TypeOK, [Next]_vars, NEW w \in Workers, worker'[w] # worker[w]
  PROVE  WorkerStep(w)
<1>1. ASSUME NEW v \in Workers, WorkerStep(v), v # w
      PROVE  FALSE
  BY <1>1, OneWorkerMoves
<1>2. ASSUME NEW c \in Callers, CallerStep(c) \/ NewRequest(c) \/ RequestDies(c)
      PROVE  FALSE
  BY <1>2, RequestsLeaveWorkersAlone
<1> QED
  BY <1>1, <1>2 DEF Next, Environment, Crash, Stall, Fails, NothingLost, Forget, vars

LEMMA WhoMovedTheRequest ==
  ASSUME NothingLost, TypeOK, [Next]_vars, NEW c \in Callers, caller'[c] # caller[c]
  PROVE  CallerStep(c) \/ NewRequest(c)
<1>1. ASSUME NEW d \in Callers, CallerStep(d) \/ NewRequest(d), d # c
      PROVE  FALSE
  BY <1>1, OneRequestMoves
<1>2. ASSUME NEW w \in Workers, WorkerStep(w) \/ Crash(w) \/ Stall(w)
      PROVE  FALSE
  BY <1>2, WorkersLeaveRequestsAlone
<1> QED
  BY <1>1, <1>2 DEF Next, Environment, RequestDies, Fails, NothingLost, Forget, vars

LEMMA WhoMovedTheJob ==
  ASSUME NothingLost, TypeOK, [Next]_vars, NEW id \in JobIds, job'[id] # job[id]
  PROVE  \/ \E w \in Workers :
              \/ Pickup(w, id) \/ Hold(w, id)
              \/ /\ Requeue(w) \/ Defer(w)
                 /\ id = << RunOf(w), worker[w].attempt >> /\ job[id].st = "unknown"
              \/ Finish(w) /\ worker[w].job = id
         \/ \E c \in Callers : /\ Enqueue(c) /\ job[id].st = "unknown"
                              /\ \E r \in caller[c].runs : id = << r, 0 >>
         \/ Forget(id)
<1>1. ASSUME NEW w \in Workers, WorkerStep(w)
      PROVE  \/ Pickup(w, id) \/ Hold(w, id)
             \/ /\ Requeue(w) \/ Defer(w)
                /\ id = << RunOf(w), worker[w].attempt >> /\ job[id].st = "unknown"
             \/ Finish(w) /\ worker[w].job = id
  <2>1. ASSUME NEW k \in JobIds, Pickup(w, k) \/ Hold(w, k)
        PROVE  k = id
    BY <2>1, PickedUp DEF TypeOK
  <2>2. CASE Requeue(w) \/ Defer(w)
    BY <2>2 DEF Requeue, Defer, Added, TypeOK
  <2>3. CASE Finish(w)
    BY <2>3 DEF Finish, TypeOK
  <2> QED
    BY <1>1, <2>1, <2>2, <2>3, WorkerKeepsItsJob DEF WorkerStep
<1>2. ASSUME NEW c \in Callers, CallerStep(c) \/ NewRequest(c) \/ RequestDies(c)
      PROVE  /\ Enqueue(c) /\ job[id].st = "unknown"
             /\ \E r \in caller[c].runs : id = << r, 0 >>
  <2>1. Enqueue(c)
    BY <1>2, RequestsLeaveWorkersAlone
  <2> QED
    BY <2>1 DEF Enqueue, Added, TypeOK
<1>3. ASSUME NEW k \in JobIds, Forget(k)
      PROVE  Forget(id)
  BY <1>3 DEF Forget, TypeOK
<1> QED
  BY <1>1, <1>2, <1>3 DEF Next, Environment, Crash, Stall, Fails, NothingLost, vars

LEMMA WhoMovedTheRow ==
  ASSUME TypeOK, [Next]_vars, NEW r \in Runs, row'[r] # row[r]
  PROVE  \/ \E w \in Workers : /\ Reserve(w) \/ Start(w) \/ Complete(w) \/ RecordFailure(w)
                               /\ Performing(w, r)
         \/ \E c \in Callers : /\ Insert(c) \/ MoveRun(c) \/ TopUp(c)
                              /\ r \in caller[c].runs
<1>1. ASSUME NEW w \in Workers, WorkerStep(w)
      PROVE  /\ Reserve(w) \/ Start(w) \/ Complete(w) \/ RecordFailure(w)
             /\ Performing(w, r)
  <2>1. Reserve(w) \/ Start(w) \/ Complete(w) \/ RecordFailure(w)
    BY <1>1
    DEF WorkerStep, Pickup, Hold, Defer, ReadToReserve, ReadToStart, GiveUp, Execute,
        CompletionRolledBack, ReadToFail, Requeue, Finish
  <2>2. /\ worker[w].pc \notin {"idle", "leaving"}
        /\ \E to, a : Write(RunOf(w), to, a)
    BY <2>1 DEF Reserve, Start, Complete, RecordFailure, WorkerAt
  <2>3. RunOf(w) = r
    BY <2>2, RunOfTyped DEF Write, TypeOK
  <2> QED
    BY <2>1, <2>2, <2>3 DEF Performing
<1>2. ASSUME NEW c \in Callers, CallerStep(c) \/ NewRequest(c)
      PROVE  (Insert(c) \/ MoveRun(c) \/ TopUp(c)) /\ r \in caller[c].runs
  <2>1. Insert(c) \/ MoveRun(c) \/ TopUp(c)
    BY <1>2
    DEF CallerStep, NewRequest, Enqueue, RequestRefused, ErrorAnswered, ReadToInsert,
        ReadToCancel, ReadToResume, ReadToPark, ReadToTopUp
  <2>2. PICK q, x : q \in caller[c].runs /\ (row' = row \/ row' = [row EXCEPT ![q] = x])
    <3>1. CASE Insert(c)
      BY <3>1 DEF Insert
    <3>2. CASE MoveRun(c)
      BY <3>2 DEF MoveRun, Write
    <3>3. CASE TopUp(c)
      BY <3>3 DEF TopUp
    <3> QED
      BY <2>1, <3>1, <3>2, <3>3
  <2> QED
    BY <2>1, <2>2 DEF TypeOK
<1> QED
  BY <1>1, <1>2 DEF Next, Environment, Crash, Stall, RequestDies, Forget, vars

(* Each part of the invariant is kept. *)

LEMMA JobsStayWithWorkers ==
  ASSUME NothingLost, RememberedInv, [Next]_vars
  PROVE  WorkersHaveTheirJobs'
<1>0. TypeOK /\ WorkersHaveTheirJobs
  BY DEF RememberedInv, WorkedOnInv, HandsInv, RowInv
\* How a worker comes by its job, or keeps it.
<1>1. ASSUME NEW w \in Workers, worker'[w].pc # "idle"
      PROVE  /\ worker'[w].pc # "deferring" /\ worker'[w].owns
             /\ \/ \E id \in JobIds : Pickup(w, id) /\ worker'[w].job = id
                \/ worker[w].pc # "idle" /\ worker'[w].job = worker[w].job
  <2>1. CASE worker'[w] = worker[w]
    BY <1>0, <1>1, <2>1 DEF WorkersHaveTheirJobs
  <2>2. CASE WorkerStep(w)
    <3>1. ASSUME NEW id \in JobIds, Hold(w, id)
          PROVE  FALSE
      BY <3>1, IdleWorkerFindsASlot DEF Hold, WorkerAt, RememberedInv
    <3>2. ASSUME NEW id \in JobIds, Pickup(w, id)
          PROVE  /\ worker'[w].job = id
                 /\ worker'[w].pc = "admitted" /\ worker'[w].owns
      BY <1>0, <3>1, <3>2, PickedUp
    <3>3. CASE Requeue(w) \/ Defer(w)
      <4>1. /\ worker[w].pc \in {"requeuing", "deferring"}
            /\ worker'[w].pc = "leaving" /\ worker'[w].job = worker[w].job
            /\ worker'[w].owns = worker[w].owns
        BY <1>0, <3>3 DEF Requeue, Defer, WorkerAt, Leave, Intend, TypeOK, Worker
      <4> QED
        BY <1>0, <4>1 DEF WorkersHaveTheirJobs
    <3>4. CASE Finish(w)
      BY <1>0, <1>1, <3>4 DEF Finish, IdleWorker, TypeOK
    <3>5. CASE \/ ReadToReserve(w) \/ Reserve(w) \/ ReadToStart(w) \/ Start(w) \/ GiveUp(w)
               \/ Execute(w) \/ Complete(w) \/ CompletionRolledBack(w)
               \/ ReadToFail(w) \/ RecordFailure(w)
      BY <1>0, <3>5, WorkerKeepsItsJob DEF WorkersHaveTheirJobs
    <3> QED
      BY <2>2, <3>1, <3>2, <3>3, <3>4, <3>5 DEF WorkerStep
  <2> QED
    <3>1. worker'[w] = worker[w] \/ WorkerStep(w)
      BY <1>0, WhoMovedTheWorker
    <3> QED
      BY <2>1, <2>2, <3>1
<1>2. ASSUME NEW w \in Workers, worker'[w].pc # "idle"
      PROVE  job'[worker'[w].job].st = "active"
  <2>1. CASE \E id \in JobIds : Pickup(w, id) /\ worker'[w].job = id
    BY <1>0, <2>1 DEF Pickup, Take, TypeOK, Job
  <2>2. CASE worker[w].pc # "idle" /\ worker'[w].job = worker[w].job
    <3> DEFINE id == worker[w].job
    <3>1. id \in JobIds /\ job[id].st = "active"
      BY <1>0, <2>2, RunOfTyped DEF WorkersHaveTheirJobs
    <3>2. ASSUME NEW v \in Workers, Finish(v), worker[v].job = id
          PROVE  FALSE
      <4>1. v = w
        BY <1>0, <2>2, <3>2 DEF WorkersHaveTheirJobs, Finish, WorkerAt
      <4> QED
        BY <1>0, <1>2, <3>2, <4>1 DEF Finish, IdleWorker, TypeOK
    <3>3. ASSUME NEW v \in Workers, Pickup(v, id) \/ Hold(v, id)
          PROVE  FALSE
      BY <3>1, <3>3 DEF Pickup, Hold
    <3>4. ~Forget(id)
      BY <3>1 DEF Forget
    <3>5. job'[id] = job[id]
      <4> HIDE DEF id
      <4> QED
        BY <1>0, <3>1, <3>2, <3>3, <3>4, WhoMovedTheJob DEF id
    <3> QED
      BY <2>2, <3>1, <3>5
  <2> QED
    BY <1>1, <1>2, <2>1, <2>2
<1>3. ASSUME NEW v \in Workers, NEW w \in Workers, v # w,
             worker'[v].pc # "idle", worker'[w].pc # "idle", worker'[v].job = worker'[w].job
      PROVE  FALSE
  <2>1. ASSUME NEW x \in Workers, NEW y \in Workers, x # y,
               worker'[x].pc # "idle", worker'[y].pc # "idle", worker'[x].job = worker'[y].job,
               NEW id \in JobIds, Pickup(x, id), worker'[x].job = id
        PROVE  FALSE
    <3>1. worker'[y] = worker[y]
      BY <1>0, <2>1, PickedUp
    <3>2. job[worker[y].job].st = "active"
      BY <1>0, <2>1, <3>1 DEF WorkersHaveTheirJobs
    <3> QED
      BY <2>1, <3>1, <3>2 DEF Pickup
  <2>2. /\ worker[v].pc # "idle" /\ worker'[v].job = worker[v].job
        /\ worker[w].pc # "idle" /\ worker'[w].job = worker[w].job
    BY <1>1, <1>3, <2>1
  <2> QED
    BY <1>0, <1>3, <2>2 DEF WorkersHaveTheirJobs
<1> QED
  BY <1>1, <1>2, <1>3 DEF WorkersHaveTheirJobs

\* The attempt of a row changes when the worker at the run records a retry.
LEMMA WhoMovedTheAttempt ==
  ASSUME TypeOK, NobodyResumes, [Next]_vars, NEW r \in Runs, row[r].state # Absent,
         row'[r].attempt # row[r].attempt
  PROVE  \E w \in Workers : /\ RecordFailure(w) /\ Performing(w, r)
                            /\ worker[w].to = "Retrying"
                            /\ row'[r].attempt = worker[w].attempt
<1>1. ASSUME NEW to, NEW a, Write(r, to, a)
      PROVE  to = "Retrying" /\ row'[r].attempt = a
  <2>1. Moved(row[r], to, a).attempt = IF to = "Retrying" THEN a ELSE row[r].attempt
    BY DEF Moved, TypeOK, Row
  <2> HIDE DEF Moved
  <2> QED
    BY <1>1, <2>1 DEF Write, TypeOK
<1>2. ASSUME NEW w \in Workers, Performing(w, r),
             Reserve(w) \/ Start(w) \/ Complete(w) \/ RecordFailure(w)
      PROVE  RecordFailure(w) /\ worker[w].to = "Retrying" /\ row'[r].attempt = worker[w].attempt
  BY <1>1, <1>2 DEF Performing, Reserve, Start, Complete, RecordFailure
<1>3. ASSUME NEW c \in Callers, r \in caller[c].runs, Insert(c) \/ MoveRun(c) \/ TopUp(c)
      PROVE  FALSE
  <2>1. CASE Insert(c)
    <3>1. row'[r] = row[r]
      BY <2>1 DEF Insert, TypeOK
    <3> QED
      BY <3>1
  <2>2. CASE MoveRun(c)
    <3>1. caller[c].to # "Retrying"
      BY <2>2 DEF MoveRun, NobodyResumes, Waiting
    <3>2. PICK q \in caller[c].runs : Write(q, caller[c].to, caller[c].attempt)
      BY <2>2 DEF MoveRun
    <3>3. q = r
      BY <3>2 DEF Write, TypeOK
    <3> QED
      BY <1>1, <3>1, <3>2, <3>3
  <2>3. CASE TopUp(c)
    <3>1. ToppedUp(row[r]).attempt = row[r].attempt
      BY DEF ToppedUp, TypeOK, Row
    <3> HIDE DEF ToppedUp
    <3> QED
      BY <2>3, <3>1 DEF TopUp, TypeOK
  <2> QED
    BY <1>3, <2>1, <2>2, <2>3
<1>4. row'[r] # row[r]
  OBVIOUS
<1> QED
  BY <1>2, <1>3, <1>4, WhoMovedTheRow

LEMMA JobsWithinAttemptsStep ==
  ASSUME NothingLost, RememberedInv, [Next]_vars
  PROVE  JobsWithinAttempts'
<1>0. /\ TypeOK /\ RowBeforeJob /\ NobodyResumes /\ WorkersHaveTheirJobs
      /\ JobsWithinAttempts /\ RetriesAreNew
  BY DEF RememberedInv, WorkedOnInv, HandsInv, RowInv
<1> SUFFICES ASSUME NEW r \in Runs, NEW k \in 1..MaxAttempts, job'[<< r, k >>].st # "unknown"
             PROVE  k <= row'[r].attempt
  BY DEF JobsWithinAttempts
<1> DEFINE id == << r, k >>
<1>1. id \in JobIds /\ row[r].attempt \in Nat /\ row'[r].attempt \in Nat
  <2>1. TypeOK'
    BY <1>0, TypeStep
  <2> QED
    BY <1>0, <2>1 DEF JobIds, TypeOK, Row
<1>2. CASE job[id].st = "unknown"
  <2>1. PICK w \in Workers : Requeue(w) /\ id = << RunOf(w), worker[w].attempt >>
    <3>1. ~Forget(id) /\ \A w \in Workers : ~Pickup(w, id) /\ ~Hold(w, id)
      BY <1>2 DEF Forget, Pickup, Hold
    <3>2. ASSUME NEW w \in Workers, Finish(w), worker[w].job = id
          PROVE  FALSE
      BY <1>0, <1>2, <3>2 DEF Finish, WorkerAt, WorkersHaveTheirJobs
    <3>3. ASSUME NEW w \in Workers, Defer(w)
          PROVE  FALSE
      BY <1>0, <3>3 DEF Defer, WorkerAt, WorkersHaveTheirJobs
    <3>4. ASSUME NEW q, id = << q, 0 >>
          PROVE  FALSE
      BY <3>4
    <3>5. job'[id] # job[id]
      BY <1>2
    <3> HIDE DEF id
    <3> QED
      BY <1>0, <1>1, <3>1, <3>2, <3>3, <3>4, <3>5, WhoMovedTheJob
  <2>2. worker[w].pc = "requeuing" /\ RunOf(w) = r /\ worker[w].attempt = k /\ UNCHANGED row
    BY <2>1 DEF Requeue, WorkerAt
  <2> QED
    BY <1>0, <1>1, <2>2 DEF RetriesAreNew
<1>3. CASE job[id].st # "unknown"
  <2>1. k <= row[r].attempt /\ row[r].state # Absent
    BY <1>0, <1>1, <1>3 DEF JobsWithinAttempts, RowBeforeJob
  <2>2. CASE row'[r].attempt # row[r].attempt
    <3>1. PICK w \in Workers : /\ worker[w].pc = "recording" /\ RunOf(w) = r
                               /\ worker[w].to = "Retrying"
                               /\ row'[r].attempt = worker[w].attempt
      BY <1>0, <2>1, <2>2, WhoMovedTheAttempt DEF RecordFailure, WorkerAt, Performing
    <3>2. row'[r].attempt = row[r].attempt + 1
      BY <1>0, <3>1 DEF RetriesAreNew
    <3> QED
      BY <1>1, <2>1, <3>2
  <2> QED
    BY <2>1, <2>2
<1> QED
  BY <1>2, <1>3

\* Nobody but the worker at a run adds jobs for its retries.
LEMMA RetriesAreNewStep ==
  ASSUME NothingLost, RememberedInv, [Next]_vars
  PROVE  RetriesAreNew'
<1>0. /\ TypeOK /\ RowBeforeJob /\ InOneHand /\ NobodyResumes /\ WorkersHaveTheirJobs
      /\ JobsWithinAttempts /\ RetriesAreNew
  BY DEF RememberedInv, WorkedOnInv, HandsInv, RowInv
<1>a. TypeOK'
  BY <1>0, TypeStep
\* What does not touch the worker does not touch its run's attempt, nor the retry's job.
<1>1. ASSUME NEW w \in Workers, worker[w].pc \in {"recording", "requeuing"},
             ~RecordFailure(w)
      PROVE  row'[RunOf(w)].attempt = row[RunOf(w)].attempt
  <2>1. RunOf(w) \in Runs /\ row[RunOf(w)].state # Absent /\ Performing(w, RunOf(w))
    BY <1>0, <1>1, RunOfTyped DEF RowBeforeJob, Performing
  <2>2. ASSUME NEW v \in Workers, RecordFailure(v), Performing(v, RunOf(w))
        PROVE  FALSE
    <3>1. << "worker", v >> = << "worker", w >>
      BY <1>0, <2>1, <2>2, WhoseHands DEF InOneHand
    <3> QED
      BY <1>1, <2>2, <3>1
  <2> QED
    BY <1>0, <2>1, <2>2, WhoMovedTheAttempt
<1>2. ASSUME NEW w \in Workers, worker'[w].pc = "recording", worker'[w].to = "Retrying"
      PROVE  worker'[w].attempt = row'[RunOf(w)'].attempt + 1
  <2>1. CASE worker'[w] = worker[w]
    <3>1. worker[w].pc = "recording" /\ worker[w].to = "Retrying" /\ RunOf(w)' = RunOf(w)
      BY <1>2, <2>1 DEF RunOf
    <3>2. ~RecordFailure(w)
      BY <1>0, <1>2 DEF RecordFailure, Leave, Goto, Intend, TypeOK, Worker
    <3> QED
      BY <1>0, <1>1, <2>1, <3>1, <3>2 DEF RetriesAreNew
  <2>2. CASE WorkerStep(w)
    <3>1. ReadToFail(w)
      <4>1. ~(\E id \in JobIds : Pickup(w, id) \/ Hold(w, id))
        BY <1>0, <1>2, PickedUp
      <4>2. /\ ~Requeue(w) /\ ~Defer(w) /\ ~Finish(w) /\ ~GiveUp(w) /\ ~Complete(w)
            /\ ~ReadToReserve(w) /\ ~Reserve(w) /\ ~ReadToStart(w) /\ ~Start(w)
            /\ ~Execute(w) /\ ~CompletionRolledBack(w) /\ ~RecordFailure(w)
        <5> USE <1>0, <1>2 DEF Leave, Intend, Goto, TypeOK, Worker
        <5>1. IdleWorker.pc = "idle"
          BY DEF IdleWorker
        <5>2. ~Requeue(w) /\ ~Defer(w) /\ ~Finish(w) /\ ~GiveUp(w) /\ ~Complete(w)
          BY <5>1 DEF Requeue, Defer, Finish, GiveUp, Complete
        <5>3. ~ReadToReserve(w) /\ ~Reserve(w) /\ ~ReadToStart(w) /\ ~Start(w)
          BY DEF ReadToReserve, Reserve, ReadToStart, Start
        <5>4. ~Execute(w)
          BY ZenonT(60) DEF Execute
        <5>5. ~CompletionRolledBack(w)
          BY ZenonT(60) DEF CompletionRolledBack
        <5>6. ~RecordFailure(w)
          BY DEF RecordFailure
        <5> QED
          BY <5>2, <5>3, <5>4, <5>5, <5>6
      <4> QED
        BY <2>2, <4>1, <4>2 DEF WorkerStep
    <3>2. RunOf(w)' = RunOf(w) /\ UNCHANGED row
      BY <1>0, <3>1, WorkerKeepsItsJob DEF ReadToFail, RunOf
    <3>3. worker'[w].attempt = row[RunOf(w)].attempt + 1
      <4> DEFINE to == FailureTarget(worker[w].to, row[RunOf(w)].attempt)
      <4> HIDE DEF to
      <4>1. Intend(w, "recording", to,
                   IF to = "Retrying" THEN row[RunOf(w)].attempt + 1 ELSE row[RunOf(w)].attempt)
        <5>1. ~Leave(w)
          BY <1>0, <1>2 DEF Leave, Intend, TypeOK, Worker
        <5> QED
          BY <3>1, <5>1 DEF ReadToFail, to
      <4> QED
        BY <1>0, <1>2, <4>1 DEF Intend, TypeOK, Worker
    <3> QED
      BY <3>2, <3>3
  <2> QED
    BY <1>0, <2>1, <2>2, WhoMovedTheWorker
<1>3. ASSUME NEW w \in Workers, worker'[w].pc = "requeuing"
      PROVE  /\ worker'[w].attempt = row'[RunOf(w)'].attempt
             /\ job'[<< RunOf(w)', worker'[w].attempt >>].st = "unknown"
  <2>1. CASE worker'[w] = worker[w]
    <3>1. worker[w].pc = "requeuing" /\ RunOf(w)' = RunOf(w)
      BY <1>3, <2>1 DEF RunOf
    <3>2. row'[RunOf(w)].attempt = row[RunOf(w)].attempt
      BY <1>1, <3>1 DEF RecordFailure, WorkerAt
    <3> DEFINE id == << RunOf(w), worker[w].attempt >>
    <3>3. /\ id \in JobIds /\ job[id].st = "unknown" /\ worker[w].attempt \in 1..MaxAttempts
          /\ RunOf(w) \in Runs
      BY <1>0, <3>1, RunOfTyped DEF RetriesAreNew
    <3>4. ASSUME NEW v \in Workers, Requeue(v) \/ Defer(v), id = << RunOf(v), worker[v].attempt >>
          PROVE  FALSE
      <4>1. RunOf(v) = RunOf(w)
        BY <3>4
      <4>2. worker[v].pc \in {"requeuing", "deferring"} /\ worker'[v].pc = "leaving"
        BY <1>0, <3>4 DEF Requeue, Defer, WorkerAt, Leave, Intend, TypeOK, Worker
      <4>3. << "worker", v >> = << "worker", w >>
        <5>1. Performing(v, RunOf(w)) /\ Performing(w, RunOf(w))
          BY <3>1, <4>1, <4>2 DEF Performing
        <5> QED
          BY ZenonT(60), <1>0, <3>3, <5>1, WhoseHands DEF InOneHand
      <4> QED
        BY <2>1, <3>1, <4>2, <4>3
    <3>5. ASSUME NEW q, id = << q, 0 >>
          PROVE  FALSE
      BY <3>3, <3>5
    <3>6. ~Forget(id) /\ \A v \in Workers : ~Pickup(v, id) /\ ~Hold(v, id)
      BY <3>3 DEF Forget, Pickup, Hold
    <3>7. ASSUME NEW v \in Workers, Finish(v), worker[v].job = id
          PROVE  FALSE
      BY <1>0, <3>3, <3>7 DEF Finish, WorkerAt, WorkersHaveTheirJobs
    <3>8. job'[id] = job[id]
      <4> HIDE DEF id
      <4> QED
        BY <1>0, <3>3, <3>4, <3>5, <3>6, <3>7, WhoMovedTheJob
    <3> QED
      BY <1>0, <2>1, <3>1, <3>2, <3>3, <3>8 DEF RetriesAreNew
  <2>2. CASE WorkerStep(w)
    <3>1. RecordFailure(w)
      <4>1. ~(\E id \in JobIds : Pickup(w, id) \/ Hold(w, id))
        BY <1>0, <1>3, PickedUp
      <4>2. /\ ~Requeue(w) /\ ~Defer(w) /\ ~Finish(w) /\ ~GiveUp(w) /\ ~Complete(w)
            /\ ~ReadToReserve(w) /\ ~Reserve(w) /\ ~ReadToStart(w) /\ ~Start(w)
            /\ ~Execute(w) /\ ~CompletionRolledBack(w) /\ ~ReadToFail(w)
        <5> USE <1>0, <1>3 DEF Leave, Intend, Goto, TypeOK, Worker
        <5>1. IdleWorker.pc = "idle"
          BY DEF IdleWorker
        <5>2. ~Requeue(w) /\ ~Defer(w) /\ ~Finish(w) /\ ~GiveUp(w) /\ ~Complete(w)
          BY <5>1 DEF Requeue, Defer, Finish, GiveUp, Complete
        <5>3. ~ReadToReserve(w) /\ ~Reserve(w) /\ ~ReadToStart(w) /\ ~Start(w)
          BY DEF ReadToReserve, Reserve, ReadToStart, Start
        <5>4. ~Execute(w)
          BY ZenonT(60) DEF Execute
        <5>5. ~CompletionRolledBack(w)
          BY ZenonT(60) DEF CompletionRolledBack
        <5>6. ~ReadToFail(w)
          BY DEF ReadToFail
        <5> QED
          BY <5>2, <5>3, <5>4, <5>5, <5>6
      <4> QED
        BY <2>2, <4>1, <4>2 DEF WorkerStep
    <3> DEFINE r == RunOf(w)
    <3>2. /\ worker[w].pc = "recording" /\ worker[w].to = "Retrying" /\ UNCHANGED job
          /\ Write(r, "Retrying", worker[w].attempt)
          /\ worker'[w].attempt = worker[w].attempt /\ RunOf(w)' = r
      <4>1. worker[w].pc = "recording" /\ UNCHANGED job
            /\ Write(r, worker[w].to, worker[w].attempt)
        BY <3>1 DEF RecordFailure, WorkerAt
      <4>2. ~Leave(w)
        BY <1>0, <1>3 DEF Leave, Intend, TypeOK, Worker
      <4>3. worker[w].to = "Retrying" /\ Goto(w, "requeuing")
        BY <3>1, <4>2 DEF RecordFailure
      <4> QED
        BY <1>0, <4>1, <4>3 DEF Goto, TypeOK, Worker, RunOf
    <3>3. r \in Runs /\ worker[w].attempt \in 1..MaxAttempts
      BY <1>0, <3>2, RunOfTyped
    <3>4. row'[r].attempt = worker[w].attempt
      <4>1. Moved(row[r], "Retrying", worker[w].attempt).attempt = worker[w].attempt
        BY <1>0, <3>3 DEF Moved, TypeOK, Row
      <4> HIDE DEF Moved, r
      <4> QED
        BY <1>0, <3>2, <3>3, <4>1 DEF Write, TypeOK
    <3>5. job[<< r, worker[w].attempt >>].st = "unknown"
      <4>1. worker[w].attempt = row[r].attempt + 1
        BY <1>0, <3>2 DEF RetriesAreNew
      <4>2. row[r].attempt \in Nat
        BY <1>0, <3>3 DEF TypeOK, Row
      <4>3. ~(worker[w].attempt <= row[r].attempt)
        BY <4>1, <4>2
      <4> QED
        BY <1>0, <3>3, <4>3 DEF JobsWithinAttempts
    <3> QED
      BY <3>2, <3>4, <3>5
  <2> QED
    BY <1>0, <2>1, <2>2, WhoMovedTheWorker
<1> QED
  BY <1>2, <1>3 DEF RetriesAreNew

LEMMA NobodyTopsUpStep ==
  ASSUME NothingLost, RememberedInv, [Next]_vars
  PROVE  NobodyTopsUp'
<1>0. TypeOK /\ NobodyTopsUp
  BY DEF RememberedInv, WorkedOnInv, HandsInv, RowInv
<1> SUFFICES ASSUME NEW c \in Callers, caller'[c].pc = "toppingUp"
             PROVE  FALSE
  BY DEF NobodyTopsUp, CallerAt
<1>1. caller'[c] # caller[c]
  BY <1>0 DEF NobodyTopsUp, CallerAt
<1>2. CallerStep(c) \/ NewRequest(c)
  BY <1>0, <1>1, WhoMovedTheRequest
<1> USE <1>0 DEF CallerAt, CallerDoes, CallerReturns, TypeOK, Caller
<1>3. IdleCaller.pc = "idle"
  BY DEF IdleCaller
<1>4. ~Insert(c) /\ ~MoveRun(c) /\ ~Enqueue(c) /\ ~ErrorAnswered(c) /\ ~RequestRefused(c)
  BY <1>3 DEF Insert, MoveRun, Enqueue, ErrorAnswered, RequestRefused
<1>5. ~TopUp(c)
  BY DEF TopUp, NobodyTopsUp
<1>6. ~NewRequest(c)
  BY DEF NewRequest, ReadToInsert, ReadToCancel, ReadToResume, ReadToPark, ReadToTopUp,
         NothingLost
<1> QED
  BY <1>2, <1>4, <1>5, <1>6 DEF CallerStep

\* A run is enqueued under its own id once: by the request that inserted its row.
LEMMA EnqueuesAreNewStep ==
  ASSUME NothingLost, RememberedInv, [Next]_vars
  PROVE  EnqueuesAreNew'
<1>0. /\ TypeOK /\ RowBeforeJob /\ InOneHand /\ NobodyResumes /\ WorkersHaveTheirJobs
      /\ EnqueuesAreNew
  BY DEF RememberedInv, WorkedOnInv, HandsInv, RowInv
<1> SUFFICES ASSUME NEW c \in Callers, caller'[c].pc = "enqueuing"
             PROVE  \E r \in Runs : caller'[c].runs = {r} /\ job'[<< r, 0 >>].st = "unknown"
  BY DEF EnqueuesAreNew, CallerAt
<1> USE DEF CallerAt
<1>1. CASE caller'[c] = caller[c]
  <2>1. PICK r \in Runs : caller[c].runs = {r} /\ job[<< r, 0 >>].st = "unknown"
    BY <1>0, <1>1 DEF EnqueuesAreNew
  <2> DEFINE id == << r, 0 >>
  <2>2. id \in JobIds
    BY MaxAttemptsAssumption DEF JobIds
  <2>3. ASSUME NEW w \in Workers, Requeue(w) \/ Defer(w), id = << RunOf(w), worker[w].attempt >>
        PROVE  FALSE
    <3>1. worker[w].attempt \in 1..MaxAttempts
      BY <1>0, <2>3, RunOfTyped DEF Requeue, Defer, WorkerAt
    <3> QED
      BY <2>3, <3>1
  <2>4. ASSUME NEW d \in Callers, Enqueue(d), NEW q \in caller[d].runs, id = << q, 0 >>
        PROVE  FALSE
    <3>1. Sending(d, r) /\ Sending(c, r)
      BY <1>1, <2>1, <2>4 DEF Sending, Enqueue
    <3>2. << "caller", d >> = << "caller", c >>
      BY <1>0, <3>1, WhoseHands DEF InOneHand
    <3>3. caller'[d].pc = "idle"
      BY <1>0, <2>4 DEF Enqueue, CallerReturns, IdleCaller, TypeOK
    <3> QED
      BY <3>2, <3>3
  <2>5. ~Forget(id) /\ \A w \in Workers : ~Pickup(w, id) /\ ~Hold(w, id)
    BY <2>1 DEF Forget, Pickup, Hold
  <2>6. ASSUME NEW w \in Workers, Finish(w), worker[w].job = id
        PROVE  FALSE
    BY <1>0, <2>1, <2>6 DEF Finish, WorkerAt, WorkersHaveTheirJobs
  <2>7. job'[id] = job[id]
    <3> HIDE DEF id
    <3> QED
      BY <1>0, <2>2, <2>3, <2>4, <2>5, <2>6, WhoMovedTheJob
  <2> QED
    BY <1>1, <2>1, <2>7
<1>2. CASE caller'[c] # caller[c]
  <2> USE <1>0 DEF CallerDoes, CallerReturns, TypeOK, Caller
  <2>1. CallerStep(c) \/ NewRequest(c)
    BY <1>2, WhoMovedTheRequest
  <2>2. IdleCaller.pc = "idle"
    BY DEF IdleCaller
  <2>3. ~Enqueue(c) /\ ~ErrorAnswered(c) /\ ~RequestRefused(c) /\ ~TopUp(c)
    BY <2>2 DEF Enqueue, ErrorAnswered, RequestRefused, TopUp
  <2>4. ~MoveRun(c)
    BY <2>2 DEF MoveRun, NobodyResumes, Waiting
  <2>5. ~NewRequest(c)
    BY DEF NewRequest, ReadToInsert, ReadToCancel, ReadToResume, ReadToPark, ReadToTopUp
  <2>6. Insert(c)
    BY <2>1, <2>3, <2>4, <2>5 DEF CallerStep
  <2>7. PICK r \in caller[c].runs :
          row[r].state = Absent /\ CallerDoes(c, "enqueuing", {r}, "Queued", 1)
    BY <2>6 DEF Insert
  <2>8. caller'[c].runs = {r} /\ r \in Runs
    BY <2>7
  <2>9. << r, 0 >> \in JobIds /\ job' = job
    BY <2>6, <2>8, MaxAttemptsAssumption DEF JobIds, Insert
  <2>10. job[<< r, 0 >>].st = "unknown"
    BY <2>7, <2>9 DEF RowBeforeJob
  <2> QED
    BY <2>8, <2>9, <2>10
<1> QED
  BY <1>1, <1>2

\* A run becomes Queued or Retrying in the hands of whoever enqueues it next.
LEMMA AttendedFromTheStart ==
  ASSUME NothingLost, RememberedInv, [Next]_vars, NEW r \in Runs,
         row'[r] # row[r], row'[r].state \in {"Queued", "Retrying"}
  PROVE  Attended(r)'
<1>0. TypeOK /\ NobodyResumes /\ NobodyTopsUp
  BY DEF RememberedInv, WorkedOnInv, HandsInv, RowInv
<1> USE DEF CallerAt, WorkerAt
<1>1. ASSUME NEW w \in Workers, Performing(w, r),
             Reserve(w) \/ Start(w) \/ Complete(w) \/ RecordFailure(w)
      PROVE  Attended(r)'
  <2>1. RunOf(w) = r /\ worker[w].pc # "idle"
    BY <1>1 DEF Performing
  <2>2. RecordFailure(w)
    BY <1>0, <1>1, <2>1, WrittenState DEF Reserve, Start, Complete
  <2>3. row'[r].state = worker[w].to
    BY <1>0, <2>1, <2>2, WrittenState DEF RecordFailure
  <2>4. Goto(w, "requeuing")
    <3>1. worker[w].to = "Retrying"
      BY <1>0, <2>2, <2>3 DEF RecordFailure, RememberedInv, WorkedOnInv, FailuresAsClassified,
                              FailureStates, Blocked, Waiting
    <3> QED
      BY <2>2, <3>1 DEF RecordFailure
  <2>5. worker'[w].pc = "requeuing" /\ worker'[w].job = worker[w].job
    BY <1>0, <2>4 DEF Goto, TypeOK, Worker
  <2> QED
    BY <2>1, <2>5 DEF Attended, RunOf
<1>2. ASSUME NEW c \in Callers, r \in caller[c].runs, Insert(c) \/ MoveRun(c) \/ TopUp(c)
      PROVE  Attended(r)'
  <2>1. ~TopUp(c)
    BY <1>0 DEF TopUp, NobodyTopsUp
  <2>2. ~MoveRun(c)
    <3>1. ASSUME NEW q \in caller[c].runs, Write(q, caller[c].to, caller[c].attempt)
          PROVE  row'[r].state = caller[c].to
      <4>1. q = r /\ q \in Runs
        BY <1>0, <3>1 DEF Write, TypeOK, Caller
      <4> QED
        BY <1>0, <3>1, <4>1, WrittenState
    <3> QED
      BY <1>0, <3>1 DEF MoveRun, NobodyResumes, Waiting
  <2>3. PICK q \in caller[c].runs :
          row' = [row EXCEPT ![q] = NewRow] /\ CallerDoes(c, "enqueuing", {q}, "Queued", 1)
    BY <1>2, <2>1, <2>2 DEF Insert
  <2>4. q = r
    BY <1>0, <2>3 DEF TypeOK
  <2> QED
    BY <1>0, <2>3, <2>4 DEF CallerDoes, Attended, TypeOK
<1> QED
  BY <1>0, <1>1, <1>2, WhoMovedTheRow

\* Whoever looks after a waiting run hands it on, until a worker has reserved it.
LEMMA AttendedUntilReserved ==
  ASSUME NothingLost, RememberedInv, [Next]_vars, NEW r \in Runs, Attended(r),
         row'[r] = row[r], row[r].state \in {"Queued", "Retrying"}
  PROVE  Attended(r)'
<1>0. /\ TypeOK /\ RowsConsistent /\ RowBeforeJob /\ InOneHand /\ NobodyResumes
      /\ WorkersHaveTheirJobs /\ RetriesAreNew /\ EnqueuesAreNew
  BY DEF RememberedInv, WorkedOnInv, HandsInv, RowInv
<1> USE DEF CallerAt, WorkerAt
<1>1. ASSUME NEW c \in Callers, caller[c].pc = "enqueuing", r \in caller[c].runs
      PROVE  Attended(r)'
  <2>1. caller[c].runs = {r} /\ job[<< r, 0 >>].st = "unknown" /\ << r, 0 >> \in JobIds
    <3>1. PICK q \in Runs : caller[c].runs = {q} /\ job[<< q, 0 >>].st = "unknown"
      BY <1>0, <1>1 DEF EnqueuesAreNew
    <3>2. q = r
      BY <1>1, <3>1
    <3> QED
      BY <3>1, <3>2, MaxAttemptsAssumption DEF JobIds
  <2>2. CASE caller'[c] = caller[c]
    BY <1>1, <2>2 DEF Attended
  <2>3. CASE caller'[c] # caller[c]
    <3>1. CallerStep(c) \/ NewRequest(c)
      BY <1>0, <2>3, WhoMovedTheRequest
    <3>2. Enqueue(c)
      BY <1>1, <3>1 DEF CallerStep, Insert, MoveRun, RequestRefused, TopUp, ErrorAnswered,
                        NewRequest, ReadToInsert, ReadToCancel, ReadToResume, ReadToPark,
                        ReadToTopUp
    <3>3. job' = Added(job, << r, 0 >>, caller[c].attempt)
      BY <2>1, <3>2 DEF Enqueue
    <3>4. job'[<< r, 0 >>].st = "waiting"
      BY <1>0, <2>1, <3>3 DEF Added, TypeOK
    <3> QED
      BY <2>1, <3>4 DEF Attended, Offered
  <2> QED
    BY <2>2, <2>3
<1>2. ASSUME NEW id \in JobIds, Offered(id, r)
      PROVE  Attended(r)'
  <2>1. job[id].st = "waiting" /\ id[1] = r
    BY <1>2 DEF Offered
  <2>2. CASE job'[id] = job[id]
    BY <2>1, <2>2 DEF Attended, Offered
  <2>3. CASE job'[id] # job[id]
    <3>1. ~Forget(id)
      BY <2>1 DEF Forget
    <3>2. ASSUME NEW w \in Workers, Finish(w), worker[w].job = id
          PROVE  FALSE
      BY <1>0, <2>1, <3>2 DEF Finish, WorkersHaveTheirJobs
    <3>3. PICK w \in Workers : Pickup(w, id) \/ Hold(w, id)
      BY <1>0, <2>1, <2>3, <3>1, <3>2, WhoMovedTheJob
    <3>4. ~Hold(w, id)
      BY IdleWorkerFindsASlot DEF Hold, RememberedInv
    <3>5. worker'[w].pc = "admitted" /\ worker'[w].job = id
      BY <1>0, <3>3, <3>4, PickedUp
    <3> QED
      BY <2>1, <3>5 DEF Attended, RunOf
  <2> QED
    BY <2>2, <2>3
<1>3. ASSUME NEW w \in Workers, worker[w].pc \in {"admitted", "reserving", "requeuing"},
             RunOf(w) = r
      PROVE  Attended(r)'
  <2>1. CASE worker'[w] = worker[w]
    BY <1>3, <2>1 DEF Attended, RunOf
  <2>2. CASE worker'[w] # worker[w]
    <3>1. WorkerStep(w)
      BY <1>0, <2>2, WhoMovedTheWorker
    <3>2. ReadToReserve(w) \/ Reserve(w) \/ GiveUp(w) \/ Requeue(w)
      <4>1. ~(\E id \in JobIds : Pickup(w, id) \/ Hold(w, id))
        BY <1>3 DEF Pickup, Hold
      <4> QED
        BY <1>3, <3>1, <4>1
        DEF WorkerStep, ReadToStart, Start, Execute, Complete, CompletionRolledBack,
            ReadToFail, RecordFailure, Defer, Finish
    <3>3. ~Reserve(w)
      BY <1>0, <1>3, WrittenState DEF Reserve
    <3>4. ~GiveUp(w)
      <4> DEFINE x == Moved(row[r], "Reserved", 1)
      <4>1. /\ x.state = "Reserved" /\ x.attempt = row[r].attempt
            /\ x.reserved = (\/ "Reserved" = "Reserved"
                             \/ row[r].reserved /\ "Reserved" # "Retrying")
            /\ x.finished = (row[r].finished \/ "Reserved" \in Terminal)
            /\ x.cancelled = (row[r].cancelled \/ "Reserved" = "Cancelled")
            /\ x.deadLettered = (row[r].deadLettered \/ "Reserved" = "Failed")
        BY ZenonT(60), <1>0 DEF Moved, TypeOK, Row
      <4> HIDE DEF x
      <4>2. Accepted(row[r])
        BY <1>0 DEF RowsConsistent
      <4>3. Accepted(x)
        BY <4>1, <4>2
        DEF Accepted, ReservedBeforeRunning, FinishTimeIffFinished, CancelTimeIffCancelled,
            DeadLetteredIsFailed, AttemptWithinCeiling, Blocked, Terminal, Absent
      <4> QED
        BY <1>3, <4>3 DEF GiveUp, WriteRefused, Fails, NothingLost, x
    <3>5. CASE ReadToReserve(w)
      <4>1. MayMove(row[r].state, "Reserved")
        BY DEF MayMove, Allowed, Waiting, Blocked
      <4>2. Goto(w, "reserving")
        BY <1>3, <3>5, <4>1 DEF ReadToReserve
      <4>3. worker'[w].pc = "reserving" /\ worker'[w].job = worker[w].job
        BY <1>0, <4>2 DEF Goto, TypeOK, Worker
      <4> QED
        BY <1>3, <4>3 DEF Attended, RunOf
    <3>6. CASE Requeue(w)
      <4> DEFINE id == << r, worker[w].attempt >>
      <4>1. id \in JobIds /\ job[id].st = "unknown" /\ id[1] = r
        BY <1>0, <1>3, <3>6, RunOfTyped DEF Requeue, RetriesAreNew
      <4>2. job' = Added(job, id, worker[w].attempt)
        BY <1>3, <3>6 DEF Requeue
      <4> HIDE DEF id
      <4>3. job'[id].st = "waiting"
        BY <1>0, <4>1, <4>2 DEF Added, TypeOK
      <4> QED
        BY <4>1, <4>3 DEF Attended, Offered
    <3> QED
      BY <3>2, <3>3, <3>4, <3>5, <3>6
  <2> QED
    BY <2>1, <2>2
<1> QED
  BY <1>1, <1>2, <1>3 DEF Attended

LEMMA RememberedStep ==
  ASSUME NothingLost, RememberedInv, [Next]_vars
  PROVE  RememberedInv'
<1>1. WorkedOnInv'
  BY WorkedOnStep DEF RememberedInv, NothingLost
<1>2. WaitingIsAttended'
  BY AttendedFromTheStart, AttendedUntilReserved DEF RememberedInv, WaitingIsAttended
<1> QED
  BY <1>1, <1>2, JobsStayWithWorkers, JobsWithinAttemptsStep, RetriesAreNewStep,
     EnqueuesAreNewStep, NobodyTopsUpStep DEF RememberedInv

LEMMA RememberedInit == Init => RememberedInv
<1> SUFFICES ASSUME Init
             PROVE  /\ WorkersHaveTheirJobs /\ JobsWithinAttempts /\ RetriesAreNew
                    /\ EnqueuesAreNew /\ NobodyTopsUp /\ WaitingIsAttended
  BY WorkedOnInit DEF RememberedInv
<1>1. /\ \A w \in Workers : worker[w].pc = "idle"
      /\ \A c \in Callers : caller[c].pc = "idle"
      /\ \A r \in Runs : row[r].state = Absent
      /\ \A id \in JobIds : job[id].st = "unknown"
  BY DEF Init, IdleWorker, IdleCaller, NoRow, UnknownJob
<1>2. \A r \in Runs, k \in 1..MaxAttempts : << r, k >> \in JobIds
  BY DEF JobIds
<1> QED
  BY <1>1, <1>2
  DEF WorkersHaveTheirJobs, JobsWithinAttempts, RetriesAreNew, EnqueuesAreNew, NobodyTopsUp,
      WaitingIsAttended, CallerAt, Absent

LEMMA AttendedIsDispatched ==
  ASSUME RememberedInv
  PROVE  NoRunIsForgotten
<1> SUFFICES ASSUME NEW r \in Runs, Attended(r)
             PROVE  Dispatched(r)
  BY DEF RememberedInv, WaitingIsAttended, NoRunIsForgotten
<1>0. TypeOK /\ WorkersHaveTheirJobs
  BY DEF RememberedInv, WorkedOnInv, HandsInv, RowInv
<1>1. ASSUME NEW id \in JobIds, id[1] = r, job[id].st \in {"waiting", "active"}
      PROVE  Dispatched(r)
  <2>1. id[2] \in 0..MaxAttempts /\ id = << r, id[2] >>
    BY <1>1 DEF JobIds
  <2> QED
    BY <1>1, <2>1 DEF Dispatched
<1>2. ASSUME NEW w \in Workers, worker[w].pc # "idle", RunOf(w) = r
      PROVE  Dispatched(r)
  BY <1>0, <1>1, <1>2, RunOfTyped DEF WorkersHaveTheirJobs, RunOf
<1> QED
  BY <1>1, <1>2 DEF Attended, Dispatched, Offered

\* A run that is Queued or Retrying always has a job, or a request about to add it, as long as
\* nothing is lost and nobody resumes: between the row's commit and the enqueue, between the
\* record of a failure and its retry, and however runs are cancelled or parked meanwhile.
THEOREM RunsAreNotForgotten ==
  ASSUME NothingLost
  PROVE  Spec => []NoRunIsForgotten
<1>1. RememberedInv /\ [Next]_vars => RememberedInv'
  BY RememberedStep
<1>2. RememberedInv => NoRunIsForgotten
  BY AttendedIsDispatched
<1> QED
  BY <1>1, <1>2, RememberedInit, PTL DEF Spec
=============================================================================
