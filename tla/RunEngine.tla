------------------------------ MODULE RunEngine ------------------------------
(***************************************************************************)
(* The run engine of one company and one Engine Agent: the agent_runs rows *)
(* in PostgreSQL, the BullMQ queue, the workers that perform jobs, and the *)
(* callers (people, the scheduler, the credit service) that start, cancel, *)
(* resume and park runs.                                                   *)
(*                                                                         *)
(* Every state change in the code is `read the row; decide; UPDATE ...     *)
(* WHERE id`, in a READ COMMITTED transaction with no version check, so    *)
(* each is two steps here: one that reads and decides, one that writes.    *)
(* Anything may happen between them.  The UPDATE merges its columns onto   *)
(* the row as it then is, and the CHECK constraints judge the result.      *)
(* perform, fail, resume and cancel read the row and then call move, which *)
(* reads it again: where the second read lets the move through, the write  *)
(* is the one a single, earlier read would have made.                      *)
(***************************************************************************)
EXTENDS RunStates, FiniteSets

CONSTANTS Runs,         \* occurrences of the agent: one idempotency key each
          Workers,      \* concurrency slots of the BullMQ workers
          Callers,      \* concurrent API requests and scheduler ticks
          RunLimit,     \* the company's limit of runs in flight
          Overlap,      \* the agent's overlap policy
          Outcomes,     \* how an execution may end
          Requests,     \* what callers ask for besides starting runs
          Mishaps,      \* the failures of the environment that may occur
          MaxMishaps    \* and how many of them: a bound of the model

ASSUME ConstantsAssumption ==
  /\ RunLimit \in Nat \ {0}
  /\ Overlap \in {"Skip", "Queue", "Allow"}
  /\ Outcomes \subseteq {"ok", "retryable", "terminal"} \union Blocked \union Waiting
  /\ Requests \subseteq {"cancel", "resume", "wait", "topUp"}
  /\ Mishaps \subseteq {"crash", "stall", "requestDies", "writeFails", "releaseFails"}
  /\ MaxMishaps \in Nat

VARIABLES row,      \* the agent_runs row of each run
          live,     \* the state the last live progress frame of a run showed
          job,      \* what the broker knows of each job id
          worker,   \* what each worker slot is doing
          caller,   \* what each request is doing
          mishaps   \* failures of the environment so far

vars == << row, live, job, worker, caller, mishaps >>

-----------------------------------------------------------------------------
\* <<r, 0>> is the job id of a first dispatch (the run id itself), <<r, k>>
\* with k > 0 is retryJobId(r, k).
JobIds == Runs \X (0..MaxAttempts)
NoJob  == << >>
RunOf(w) == worker[w].job[1]

JobStatus == {"unknown", "waiting", "active", "kept"}
Job == [st : JobStatus, attempt : 1..MaxAttempts, stalled : BOOLEAN]

UnknownJob == [st |-> "unknown", attempt |-> 1, stalled |-> FALSE]

\* BullMQ ignores an add whose id it still knows: waiting or delayed, active,
\* or finished and kept (removeOnComplete, removeOnFail).
Added(jobs, id, attempt) ==
  IF jobs[id].st = "unknown"
  THEN [jobs EXCEPT ![id] = [st |-> "waiting", attempt |-> attempt, stalled |-> FALSE]]
  ELSE jobs

WorkerPc == {"idle", "admitted", "reserving", "reserved", "starting", "executing",
             "completing", "failed", "recording", "requeuing", "deferring", "leaving"}
Worker == [pc : WorkerPc, job : JobIds \union {NoJob}, owns : BOOLEAN,
           to : RunState, attempt : 1..MaxAttempts]
IdleWorker == [pc |-> "idle", job |-> NoJob, owns |-> FALSE, to |-> "Queued", attempt |-> 1]

CallerPc == {"idle", "inserting", "moving", "toppingUp", "enqueuing", "error"}
Caller == [pc : CallerPc, runs : SUBSET Runs, to : RunState, attempt : 1..MaxAttempts]
IdleCaller == [pc |-> "idle", runs |-> {}, to |-> "Queued", attempt |-> 1]

TypeOK ==
  /\ row \in [Runs -> Row]
  /\ live \in [Runs -> RunState \union {Absent}]
  /\ job \in [JobIds -> Job]
  /\ worker \in [Workers -> Worker]
  /\ \A w \in Workers : worker[w].pc # "idle" => worker[w].job \in JobIds
  /\ caller \in [Callers -> Caller]
  /\ mishaps \in 0..MaxMishaps

-----------------------------------------------------------------------------
Unfinished == {r \in Runs : row[r].state \notin Terminal \union {Absent}}
RunsInFlight == {r \in Runs : row[r].state \in InFlight}

\* overlapDecision: whether start goes on to write a row.
OverlapAllows == Unfinished = {} \/ Overlap \in {"Allow", "Queue"}

\* mayStart: the count a worker makes when it picks a job up.
SlotFree == Cardinality(RunsInFlight) < RunLimit

\* Mutant: the attempts are not counted.
FailureTargetUncounted(kind, attempt) == kind

\* Where a failure takes the run, given the attempt the row is on.
FailureTarget(kind, attempt) ==
  IF kind = "Retrying" /\ ~MayRetry(attempt) THEN "Failed" ELSE kind

\* The UPDATE of move(), its live frame and the commit.
Write(r, to, attempt) ==
  /\ Accepted(Moved(row[r], to, attempt))
  /\ row' = [row EXCEPT ![r] = Moved(@, to, attempt)]
  /\ live' = [live EXCEPT ![r] = to]

Fails(kind) == kind \in Mishaps /\ mishaps < MaxMishaps /\ mishaps' = mishaps + 1

\* The UPDATE is refused by a constraint, or fails for a reason of its own (the
\* database is unreachable; two workers' clocks put started_at before reserved_at).
WriteRefused(r, to, attempt) ==
  \/ ~Accepted(Moved(row[r], to, attempt)) /\ UNCHANGED mishaps
  \/ Fails("writeFails")

WorkerAt(w, pc) == worker[w].pc = pc
Goto(w, pc) == worker' = [worker EXCEPT ![w].pc = pc]
Intend(w, pc, to, attempt) ==
  worker' = [worker EXCEPT ![w].pc = pc, ![w].to = to, ![w].attempt = attempt]

\* The handler returns or throws.
Leave(w) == Intend(w, "leaving", "Queued", 1)

Init ==
  /\ row = [r \in Runs |-> NoRow]
  /\ live = [r \in Runs |-> Absent]
  /\ job = [id \in JobIds |-> UnknownJob]
  /\ worker = [w \in Workers |-> IdleWorker]
  /\ caller = [c \in Callers |-> IdleCaller]
  /\ mishaps = 0

-----------------------------------------------------------------------------
(* Workers: perform and fail.                                              *)

Take(w, id, pc) ==
  /\ job' = [job EXCEPT ![id].st = "active"]
  /\ worker' = [worker EXCEPT ![w] = [IdleWorker EXCEPT !.pc = pc, !.job = id, !.owns = TRUE,
                                                        !.attempt = job[id].attempt]]

\* A worker takes a waiting job and the fairness count admits it.
Pickup(w, id) ==
  /\ WorkerAt(w, "idle")
  /\ job[id].st = "waiting"
  /\ SlotFree
  /\ Take(w, id, "admitted")
  /\ UNCHANGED << row, live, caller, mishaps >>

\* The count refuses it.
Hold(w, id) ==
  /\ WorkerAt(w, "idle")
  /\ job[id].st = "waiting"
  /\ ~SlotFree
  /\ Take(w, id, "deferring")
  /\ UNCHANGED << row, live, caller, mishaps >>

\* The run is re-enqueued under the retry id of the attempt its job carries, while
\* that job is still active.
Defer(w) ==
  /\ WorkerAt(w, "deferring")
  /\ job' = Added(job, << RunOf(w), worker[w].attempt >>, worker[w].attempt)
  /\ Leave(w)
  /\ UNCHANGED << row, live, caller, mishaps >>

\* The first transaction reads: a finished run, or one that may not be reserved,
\* ends the job.
ReadToReserve(w) ==
  /\ WorkerAt(w, "admitted")
  /\ \/ /\ MayMove(row[RunOf(w)].state, "Reserved")
        /\ Goto(w, "reserving")
     \/ /\ ~MayMove(row[RunOf(w)].state, "Reserved")
        /\ Leave(w)
  /\ UNCHANGED << row, live, job, caller, mishaps >>

Reserve(w) ==
  /\ WorkerAt(w, "reserving")
  /\ Write(RunOf(w), "Reserved", 1)
  /\ Goto(w, "reserved")
  /\ UNCHANGED << job, caller, mishaps >>

\* The second transaction: move(..., 'Running'), which also lets a run that
\* already is Running stay there.
ReadToStart(w) ==
  /\ WorkerAt(w, "reserved")
  /\ \/ /\ MoveAdmits(row[RunOf(w)].state, "Running")
        /\ Goto(w, "starting")
     \/ /\ ~MoveAdmits(row[RunOf(w)].state, "Running")
        /\ Leave(w)
  /\ UNCHANGED << row, live, job, caller, mishaps >>

Start(w) ==
  /\ WorkerAt(w, "starting")
  /\ Write(RunOf(w), "Running", 1)
  /\ Goto(w, "executing")
  /\ UNCHANGED << job, caller, mishaps >>

\* A transaction of perform or fail throws, and nothing catches it: the job is over.
GiveUp(w) ==
  /\ \/ WorkerAt(w, "reserving") /\ WriteRefused(RunOf(w), "Reserved", 1)
     \/ WorkerAt(w, "starting")  /\ WriteRefused(RunOf(w), "Running", 1)
     \/ WorkerAt(w, "recording") /\ WriteRefused(RunOf(w), worker[w].to, worker[w].attempt)
     \/ worker[w].pc \in {"requeuing", "deferring"} /\ Fails("writeFails")
  /\ Leave(w)
  /\ UNCHANGED << row, live, job, caller >>

\* The executor returns, or throws (a RunFailure may name the state to stop in).  On
\* success the third transaction reads at once; a run that may no longer complete makes
\* move throw, which is caught and failed.
Execute(w) ==
  /\ WorkerAt(w, "executing")
  /\ \/ /\ "ok" \in Outcomes
        /\ MoveAdmits(row[RunOf(w)].state, "Completed")
        /\ Goto(w, "completing")
     \/ /\ "ok" \in Outcomes
        /\ ~MoveAdmits(row[RunOf(w)].state, "Completed")
        /\ Intend(w, "failed", "Retrying", 1)
     \/ "retryable" \in Outcomes /\ Intend(w, "failed", "Retrying", 1)
     \/ "terminal" \in Outcomes /\ Intend(w, "failed", "Failed", 1)
     \/ \E kind \in Outcomes \intersect (Blocked \union Waiting) : Intend(w, "failed", kind, 1)
  /\ UNCHANGED << row, live, job, caller, mishaps >>

\* The run and the release of its successors commit together.
Complete(w) ==
  /\ WorkerAt(w, "completing")
  /\ Write(RunOf(w), "Completed", 1)
  /\ Leave(w)
  /\ UNCHANGED << job, caller, mishaps >>

\* The completion is rolled back: by a constraint, or by a statement of the release
\* that fails after move() has already published its frame.
CompletionRolledBack(w) ==
  /\ WorkerAt(w, "completing")
  /\ \/ WriteRefused(RunOf(w), "Completed", 1) /\ UNCHANGED live
     \/ /\ Accepted(Moved(row[RunOf(w)], "Completed", 1))
        /\ Fails("releaseFails")
        /\ live' = [live EXCEPT ![RunOf(w)] = "Completed"]
  /\ Intend(w, "failed", "Retrying", 1)
  /\ UNCHANGED << row, job, caller >>

\* fail() reads the row and classifies.
ReadToFail(w) ==
  /\ WorkerAt(w, "failed")
  /\ LET r  == RunOf(w)
         to == FailureTarget(worker[w].to, row[r].attempt)
     IN  \/ /\ row[r].state \notin Terminal
            /\ MoveAdmits(row[r].state, to)
            /\ Intend(w, "recording", to,
                      IF to = "Retrying" THEN row[r].attempt + 1 ELSE row[r].attempt)
         \/ /\ row[r].state \in Terminal \/ ~MoveAdmits(row[r].state, to)
            /\ Leave(w)
  /\ UNCHANGED << row, live, job, caller, mishaps >>

RecordFailure(w) ==
  /\ WorkerAt(w, "recording")
  /\ Write(RunOf(w), worker[w].to, worker[w].attempt)
  /\ \/ worker[w].to = "Retrying" /\ Goto(w, "requeuing")
     \/ worker[w].to # "Retrying" /\ Leave(w)
  /\ UNCHANGED << job, caller, mishaps >>

\* Mutant: the retry is enqueued under the run id, which BullMQ still knows.
RequeueUnderRunId(w) ==
  /\ WorkerAt(w, "requeuing")
  /\ job' = Added(job, << RunOf(w), 0 >>, worker[w].attempt)
  /\ Leave(w)
  /\ UNCHANGED << row, live, caller, mishaps >>

\* enqueueAfter the backoff, after the commit.
Requeue(w) ==
  /\ WorkerAt(w, "requeuing")
  /\ job' = Added(job, << RunOf(w), worker[w].attempt >>, worker[w].attempt)
  /\ Leave(w)
  /\ UNCHANGED << row, live, caller, mishaps >>

\* BullMQ keeps the finished job for a while, unless it has meanwhile taken the job
\* away from this worker.
Finish(w) ==
  /\ WorkerAt(w, "leaving")
  /\ worker' = [worker EXCEPT ![w] = IdleWorker]
  /\ job' = IF worker[w].owns THEN [job EXCEPT ![worker[w].job].st = "kept"] ELSE job
  /\ UNCHANGED << row, live, caller, mishaps >>

-----------------------------------------------------------------------------
(* Callers: start, cancel, resume, waitFor and the credit service.         *)

CallerAt(c, pc) == caller[c].pc = pc
CallerDoes(c, pc, runs, to, attempt) ==
  caller' = [caller EXCEPT ![c] = [pc |-> pc, runs |-> runs, to |-> to, attempt |-> attempt]]
CallerReturns(c) == caller' = [caller EXCEPT ![c] = IdleCaller]

\* Mutant: the job is added inside the transaction, before its row is committed.
ReadToInsertEnqueuing(c, r) ==
  /\ CallerAt(c, "idle")
  /\ row[r].state = Absent
  /\ OverlapAllows
  /\ CallerDoes(c, "inserting", {r}, "Queued", 1)
  /\ job' = Added(job, << r, 0 >>, 1)
  /\ UNCHANGED << row, live, worker, mishaps >>

\* start reads: a run of the occurrence exists (it is returned), the overlap policy
\* refuses (nothing is written), or a row is about to be inserted.
ReadToInsert(c, r) ==
  /\ CallerAt(c, "idle")
  /\ row[r].state = Absent
  /\ OverlapAllows
  /\ CallerDoes(c, "inserting", {r}, "Queued", 1)
  /\ UNCHANGED << row, live, job, worker, mishaps >>

\* Mutant: the row is written and never enqueued.
InsertOnly(c) ==
  /\ CallerAt(c, "inserting")
  /\ \E r \in caller[c].runs : row' = [row EXCEPT ![r] = NewRow]
  /\ CallerReturns(c)
  /\ UNCHANGED << live, job, worker, mishaps >>

Insert(c) ==
  /\ CallerAt(c, "inserting")
  /\ \E r \in caller[c].runs :
       \/ /\ row[r].state = Absent
          /\ row' = [row EXCEPT ![r] = NewRow]
          /\ live' = [live EXCEPT ![r] = "Queued"]
          /\ CallerDoes(c, "enqueuing", {r}, "Queued", 1)
       \/ /\ row[r].state # Absent       \* the unique index on the idempotency key
          /\ CallerDoes(c, "error", {r}, "Queued", 1)
          /\ UNCHANGED << row, live >>
  /\ UNCHANGED << job, worker, mishaps >>

\* After the commit, by start and by resume.
Enqueue(c) ==
  /\ CallerAt(c, "enqueuing")
  /\ \E r \in caller[c].runs : job' = Added(job, << r, 0 >>, caller[c].attempt)
  /\ CallerReturns(c)
  /\ UNCHANGED << row, live, worker, mishaps >>

ReadToCancel(c, r) ==
  /\ "cancel" \in Requests /\ CallerAt(c, "idle")
  /\ MayMove(row[r].state, "Cancelled")
  /\ CallerDoes(c, "moving", {r}, "Cancelled", row[r].attempt)
  /\ UNCHANGED << row, live, job, worker, mishaps >>

\* Mutant: whatever cannot go to Running is put back to Queued.
ReadToResumeAnything(c, r) ==
  /\ "resume" \in Requests /\ CallerAt(c, "idle")
  /\ row[r].state \notin Terminal \union {Absent}
  /\ CallerDoes(c, "moving", {r},
                IF MayMove(row[r].state, "Running") THEN "Running" ELSE "Queued", row[r].attempt)
  /\ UNCHANGED << row, live, job, worker, mishaps >>

ReadToResume(c, r) ==
  /\ "resume" \in Requests /\ CallerAt(c, "idle")
  /\ LET to == IF MayMove(row[r].state, "Running") THEN "Running" ELSE "Queued"
     IN  /\ MayMove(row[r].state, to)
         /\ CallerDoes(c, "moving", {r}, to, row[r].attempt)
  /\ UNCHANGED << row, live, job, worker, mishaps >>

ReadToPark(c, r, to) ==
  /\ "wait" \in Requests /\ CallerAt(c, "idle")
  /\ MoveAdmits(row[r].state, to)
  /\ CallerDoes(c, "moving", {r}, to, row[r].attempt)
  /\ UNCHANGED << row, live, job, worker, mishaps >>

MoveRun(c) ==
  /\ CallerAt(c, "moving")
  /\ \E r \in caller[c].runs :
       /\ Write(r, caller[c].to, caller[c].attempt)
       /\ \/ /\ caller[c].to = "Queued"
             /\ CallerDoes(c, "enqueuing", {r}, "Queued", caller[c].attempt)
          \/ caller[c].to # "Queued" /\ CallerReturns(c)
  /\ UNCHANGED << job, worker, mishaps >>

\* The UPDATE fails: the request is answered with an error.
RequestRefused(c) ==
  /\ \/ /\ CallerAt(c, "moving")
        /\ \E r \in caller[c].runs : WriteRefused(r, caller[c].to, caller[c].attempt)
     \/ /\ CallerAt(c, "toppingUp")
        /\ \E r \in caller[c].runs : ~Accepted(ToppedUp(row[r]))
        /\ UNCHANGED mishaps
  /\ caller' = [caller EXCEPT ![c].pc = "error"]
  /\ UNCHANGED << row, live, job, worker >>

ErrorAnswered(c) ==
  /\ CallerAt(c, "error")
  /\ CallerReturns(c)
  /\ UNCHANGED << row, live, job, worker, mishaps >>

\* resumeRunsBlockedByBudget: one query lists the blocked runs, and each is then
\* written in a transaction of its own, with no look at its state and no enqueue.
ReadToTopUp(c) ==
  /\ "topUp" \in Requests /\ CallerAt(c, "idle")
  /\ LET blocked == {r \in Runs : row[r].state = "BlockedByBudget"}
     IN  /\ blocked # {}
         /\ CallerDoes(c, "toppingUp", blocked, "Queued", 1)
  /\ UNCHANGED << row, live, job, worker, mishaps >>

TopUp(c) ==
  /\ CallerAt(c, "toppingUp")
  /\ \E r \in caller[c].runs :
       /\ Accepted(ToppedUp(row[r]))
       /\ row' = [row EXCEPT ![r] = ToppedUp(@)]
       /\ IF caller[c].runs = {r}
          THEN CallerReturns(c)
          ELSE caller' = [caller EXCEPT ![c].runs = @ \ {r}]
  /\ UNCHANGED << live, job, worker, mishaps >>

-----------------------------------------------------------------------------
(* The environment.                                                        *)

\* BullMQ gives a job whose worker went silent to another worker once, and
\* fails it the second time (maxStalledCount is 1).
Released(jobs, id) ==
  IF jobs[id].stalled THEN [jobs EXCEPT ![id].st = "kept"]
  ELSE [jobs EXCEPT ![id].st = "waiting", ![id].stalled = TRUE]

\* The worker's process dies.
Crash(w) ==
  /\ ~WorkerAt(w, "idle")
  /\ Fails("crash")
  /\ worker' = [worker EXCEPT ![w] = IdleWorker]
  /\ job' = IF worker[w].owns THEN Released(job, worker[w].job) ELSE job
  /\ UNCHANGED << row, live, caller >>

\* The worker is silent for longer than its lock, and carries on afterwards.
Stall(w) ==
  /\ ~WorkerAt(w, "idle") /\ worker[w].owns
  /\ Fails("stall")
  /\ worker' = [worker EXCEPT ![w].owns = FALSE]
  /\ job' = Released(job, worker[w].job)
  /\ UNCHANGED << row, live, caller >>

\* The process serving a request dies between two of its steps.
RequestDies(c) ==
  /\ ~CallerAt(c, "idle")
  /\ Fails("requestDies")
  /\ CallerReturns(c)
  /\ UNCHANGED << row, live, job, worker >>

\* A finished job is dropped after 24 hours, or when 1000 newer ones are kept.
Forget(id) ==
  /\ job[id].st = "kept"
  /\ job' = [job EXCEPT ![id] = UnknownJob]
  /\ UNCHANGED << row, live, worker, caller, mishaps >>

-----------------------------------------------------------------------------
WorkerStep(w) ==
  \/ \E id \in JobIds : Pickup(w, id) \/ Hold(w, id)
  \/ ReadToReserve(w) \/ Reserve(w) \/ ReadToStart(w) \/ Start(w) \/ GiveUp(w)
  \/ Execute(w) \/ Complete(w) \/ CompletionRolledBack(w)
  \/ ReadToFail(w) \/ RecordFailure(w) \/ Requeue(w) \/ Defer(w) \/ Finish(w)

CallerStep(c) ==
  \/ Insert(c) \/ Enqueue(c) \/ MoveRun(c) \/ RequestRefused(c) \/ TopUp(c)
  \/ ErrorAnswered(c)

NewRequest(c) ==
  \/ \E r \in Runs :
       \/ ReadToInsert(c, r) \/ ReadToCancel(c, r) \/ ReadToResume(c, r)
       \/ \E to \in Waiting : ReadToPark(c, r, to)
  \/ ReadToTopUp(c)

Environment ==
  \/ \E w \in Workers : Crash(w) \/ Stall(w)
  \/ \E c \in Callers : RequestDies(c)
  \/ \E id \in JobIds : Forget(id)

Next ==
  \/ \E w \in Workers : WorkerStep(w)
  \/ \E c \in Callers : CallerStep(c) \/ NewRequest(c)
  \/ Environment

Spec == Init /\ [][Next]_vars

\* The processes are running: a worker that can step does, and a request once
\* accepted is carried out.  Nobody is obliged to ask for anything.
Fairness ==
  /\ \A w \in Workers : WF_vars(WorkerStep(w))
  /\ \A c \in Callers : WF_vars(CallerStep(c))

FairSpec == Spec /\ Fairness
=============================================================================
