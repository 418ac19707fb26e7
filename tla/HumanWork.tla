----------------------------- MODULE HumanWork ------------------------------
(***************************************************************************)
(* The human side of a live objective: the tasks of a published plan, the  *)
(* approval requests they raise, the plan's approval gates and the release *)
(* of what was waiting (human-task.service.ts, approval.service.ts,        *)
(* work-release.service.ts and the completion of a run in                  *)
(* run-engine.service.ts).                                                 *)
(*                                                                         *)
(* Every operation is one database transaction at READ COMMITTED, run by a *)
(* handler in these stages:                                                *)
(*   read      the rows are loaded and the rules checked, with no lock;    *)
(*   locked    the row has been written: its row lock is held, nobody else *)
(*             sees the write, and its CHECKs and triggers have passed on  *)
(*             the row as it then was;                                     *)
(*   commit    the rest of the transaction in one action.                  *)
(* The rest is one action because every one of these operations writes to  *)
(* the company's audit trail before it reads anything else, and the trail  *)
(* takes a lock that is held until the commit (audit-trail.repository.ts). *)
(* Only the completion of a run reads the plan without that lock.          *)
(* A transaction may be rolled back at any point: its process dies, or the *)
(* database picks it as the victim of a deadlock between a row lock and    *)
(* the trail's lock.                                                       *)
(***************************************************************************)
EXTENDS Naturals, FiniteSets, WorkRules

CONSTANTS
    Handlers,       \* requests in flight at once
    People,
    Admins,         \* those who hold CompanyAdmin
    AiSteps,
    Gates,
    Tasks,
    DependsOn,      \* for each task, the nodes its step names
    ApprovalKind,   \* for each task and gate, its step's approval kind
    Addressed,      \* for each task and gate, whom isAddressedTo finds its request sent to
    Owner,          \* for each task, whose work it is
    Assigner,       \* who assigned the plan, and so requested its gates
    Attempts,       \* bound: for each task, the operations somebody tries on it
    MaxSubmits,     \* bound: for each task, its submissions
    NoStep, Nobody

TaskOps == {"start", "block", "clarify", "submit"}

Steps == Tasks \cup AiSteps \cup Gates

(* A gate's request is raised at assignment; a task's at each submission,  *)
(* stamped with the instant of that submission.                            *)
Requests == (Gates \X {0}) \cup UNION {{t} \X (1 .. MaxSubmits[t]) : t \in Tasks}

ASSUME HumanWorkAssumption ==
    /\ Tasks \cap AiSteps = {} /\ Tasks \cap Gates = {} /\ AiSteps \cap Gates = {}
    /\ NoStep \notin Steps /\ Nobody \notin People
    /\ MaxSubmits \in [Tasks -> Nat]
    /\ Attempts \in [Tasks -> SUBSET TaskOps]
    /\ ApprovalKind \in [Tasks \cup Gates -> StepApprovalKinds]
    /\ Addressed \in [Tasks \cup Gates -> SUBSET People]
    /\ Owner \in [Tasks -> People]
    /\ Assigner \in People /\ Admins \subseteq People
    /\ IsFiniteSet(People)

VARIABLES
    task,       \* per task: its status, when it was submitted, and whether it records a blocker
    request,    \* per request: its status and who has approved it
    done,       \* the AI steps with a completed run
    clock,      \* per task, the last instant a submission was stamped with
    tx          \* per handler, the transaction it is in

vars == <<task, request, done, clock, tx>>

----------------------------------------------------------------------------
(* State *)

TaskRow == [status : TaskStatuses, submittedAt : Nat, blocker : BOOLEAN]

RequestRow == [status : {"None"} \cup RequestStatuses, eyes : SUBSET People]

Tx == [at : {"idle", "read", "eyed", "settling", "locked"},
       op : TaskOps \cup {"none", "decide", "finishRun"},
       step : Steps \cup {NoStep},
       stamp : Nat,
       who : People \cup {Nobody},
       decision : Decisions,
       reopens : BOOLEAN,
       ready : SUBSET Tasks]

NoTx == [at |-> "idle", op |-> "none", step |-> NoStep, stamp |-> 0, who |-> Nobody,
         decision |-> "Approve", reopens |-> FALSE, ready |-> {}]

TypeOK ==
    /\ task \in [Tasks -> TaskRow]
    /\ request \in [Requests -> RequestRow]
    /\ done \subseteq AiSteps
    /\ clock \in [Tasks -> Nat] /\ \A t \in Tasks : clock[t] <= MaxSubmits[t]
    /\ tx \in [Handlers -> Tx]

(* Approve & Assign: every task is created, waiting when its step depends  *)
(* on another; every gate's request is raised.                             *)
Init ==
    /\ task = [t \in Tasks |->
                  [status |-> IF DependenciesSatisfied(DependsOn[t], {}, Steps)
                                 THEN "Assigned" ELSE "Waiting",
                   submittedAt |-> 0, blocker |-> FALSE]]
    /\ request = [r \in Requests |->
                     [status |-> IF r[1] \in Gates THEN "Pending" ELSE "None", eyes |-> {}]]
    /\ done = {}
    /\ clock = [t \in Tasks |-> 0]
    /\ tx = [h \in Handlers |-> NoTx]

(* Which rows a transaction has written and not committed. *)
HoldsTask(h, t) == tx[h].at = "locked" /\ tx[h].op \in TaskOps /\ tx[h].step = t

HoldsRequest(h, r) ==
    tx[h].at = "locked" /\ tx[h].op = "decide" /\ <<tx[h].step, tx[h].stamp>> = r

TaskIsFree(h, t) == \A g \in Handlers \ {h} : ~HoldsTask(g, t)
RequestIsFree(h, r) == \A g \in Handlers \ {h} : ~HoldsRequest(g, r)

Close(h) == tx' = [tx EXCEPT ![h] = NoTx]

----------------------------------------------------------------------------
(* Release: what the plan permits, read back from the rows *)

Finished(tasks, requests, ran) ==
    {t \in Tasks : tasks[t].status \in {"Completed", "Cancelled"}}
       \cup ran
       \cup {g \in Gates : requests[<<g, 0>>].status \in {"Approved", "Cancelled"}}

\* Mutant: what has started or finished is released again.
ReleasableAgain(tasks, requests, ran) ==
    {t \in Tasks : DependenciesSatisfied(DependsOn[t], Finished(tasks, requests, ran), Steps)}

Releasable(tasks, requests, ran) ==
    {t \in Tasks : /\ MayReleaseHumanTask(tasks[t].status)
                   /\ DependenciesSatisfied(DependsOn[t], Finished(tasks, requests, ran), Steps)}

Released(tasks, ready) ==
    [t \in Tasks |-> IF t \in ready THEN [tasks[t] EXCEPT !.status = "Assigned"] ELSE tasks[t]]

\* Mutant: the plan is read before the completion is written.
ReleaseWithinUnwritten(tasks, requests, ran) ==
    task' = Released(tasks, Releasable(task, request, ran))

ReleaseWithin(tasks, requests, ran) ==
    task' = Released(tasks, Releasable(tasks, requests, ran))

----------------------------------------------------------------------------
(* Moving a task: start, block, ask for clarification, submit *)

NeedsApproval(t) == ApprovalKind[t] # "NotRequired"

(* load, the row's rules. A submission takes its instant here. *)
ReadTask(h, op, t) ==
    LET stamp == clock[t] + 1 IN
    /\ tx[h].at = "idle"
    /\ op \in Attempts[t]
    /\ MayMoveHumanTask(task[t].status, TargetOf[op])
    /\ op = "submit" => ~task[t].blocker /\ stamp <= MaxSubmits[t]
    /\ tx' = [tx EXCEPT ![h] =
                 [NoTx EXCEPT !.at = "read", !.op = op, !.step = t,
                              !.stamp = IF op = "submit" THEN stamp ELSE 0,
                              !.reopens = (op = "start" /\ task[t].status = "WaitingApproval")]]
    /\ clock' = IF op = "submit" THEN [clock EXCEPT ![t] = stamp] ELSE clock
    /\ UNCHANGED <<task, request, done>>

(* completed_task_records_when: no other status beside a completion time,  *)
(* and none of these writes clears it.                                     *)
RowAllows(row, op, t) ==
    row.status = "Completed" => op = "submit" /\ ~NeedsApproval(t)

(* The update by id: it waits for the row, and does not look at the status *)
(* again.                                                                  *)
WriteTask(h) ==
    LET t == tx[h].step IN
    /\ tx[h].at = "read" /\ tx[h].op \in TaskOps
    /\ TaskIsFree(h, t)
    /\ RowAllows(task[t], tx[h].op, t)
    /\ tx' = [tx EXCEPT ![h].at = "locked"]
    /\ UNCHANGED <<task, request, done, clock>>

(* A reopened task withdraws every request still pending on it. *)
Withdrawn(t) ==
    [r \in Requests |-> IF r[1] = t /\ request[r].status = "Pending"
                           THEN [request[r] EXCEPT !.status = "Cancelled"] ELSE request[r]]

CommitStart(h) ==
    LET t == tx[h].step IN
    /\ tx[h].at = "locked" /\ tx[h].op = "start"
    /\ tx[h].reopens =>
          \A r \in Requests : r[1] = t /\ request[r].status = "Pending" => RequestIsFree(h, r)
    /\ task' = [task EXCEPT ![t].status = "InProgress", ![t].blocker = FALSE]
    /\ request' = IF tx[h].reopens THEN Withdrawn(t) ELSE request
    /\ Close(h)
    /\ UNCHANGED <<done, clock>>

CommitStall(h) ==
    LET t == tx[h].step IN
    /\ tx[h].at = "locked" /\ tx[h].op \in {"block", "clarify"}
    /\ task' = [task EXCEPT ![t].status = TargetOf[tx[h].op],
                            ![t].blocker = @ \/ tx[h].op = "block"]
    /\ Close(h)
    /\ UNCHANGED <<request, done, clock>>

(* A submission that needs a decision raises its request; one that needs   *)
(* none completes the task and releases what waited for it.                *)
CommitSubmit(h) ==
    LET t == tx[h].step
        s == tx[h].stamp
        moved == [task EXCEPT ![t].status =
                                 IF NeedsApproval(t) THEN "WaitingApproval" ELSE "Completed",
                              ![t].submittedAt = s]
    IN  /\ tx[h].at = "locked" /\ tx[h].op = "submit"
        /\ IF NeedsApproval(t)
              THEN /\ task' = moved
                   /\ request' = [request EXCEPT ![<<t, s>>].status = "Pending"]
              ELSE /\ ReleaseWithin(moved, request, done)
                   /\ UNCHANGED request
        /\ Close(h)
        /\ UNCHANGED <<done, clock>>

----------------------------------------------------------------------------
(* Deciding a request *)

Requester(r) == IF r[1] \in Gates THEN Assigner ELSE Owner[r[1]]

(* The pending status, the routing and the separation of duties, on what   *)
(* the request and its history are now.                                    *)
ReadRequest(h, p, r, d) ==
    /\ tx[h].at = "idle"
    /\ request[r].status = "Pending"
    /\ p \in Addressed[r[1]]
    /\ SeparationOfDuties(p, Requester(r), p \in Admins, ApprovalKind[r[1]], request[r].eyes)
    /\ tx' = [tx EXCEPT ![h] = [NoTx EXCEPT !.at = "read", !.op = "decide", !.step = r[1],
                                            !.stamp = r[2], !.who = p, !.decision = d]]
    /\ UNCHANGED <<task, request, done, clock>>

(* The write transaction reads the status again, appends the decision, and *)
(* counts the distinct people who have approved a four-eyes gate.          *)
RecordDecision(h) ==
    LET r == <<tx[h].step, tx[h].stamp>>
        eyes == request[r].eyes \cup {tx[h].who}
        waits == /\ ApprovalKind[r[1]] = "FourEyes" /\ tx[h].decision = "Approve"
                 /\ Cardinality(eyes) < FourEyesRequired
    IN  /\ tx[h].at = "read" /\ tx[h].op = "decide"
        /\ request[r].status = "Pending"
        /\ tx' = [tx EXCEPT ![h].at = IF waits THEN "eyed" ELSE "settling"]
        /\ UNCHANGED <<task, request, done, clock>>

(* The first of two eyes: the decision is kept, the request stays open. *)
CommitEye(h) ==
    LET r == <<tx[h].step, tx[h].stamp>> IN
    /\ tx[h].at = "eyed"
    /\ request' = [request EXCEPT ![r].eyes = @ \cup {tx[h].who}]
    /\ Close(h)
    /\ UNCHANGED <<task, done, clock>>

(* The trigger uboss_approval_decision_is_final. *)
DecisionIsFinal(row) == row.status = "Pending"

SettleRequest(h) ==
    LET r == <<tx[h].step, tx[h].stamp>> IN
    /\ tx[h].at = "settling"
    /\ RequestIsFree(h, r)
    /\ DecisionIsFinal(request[r])
    /\ tx' = [tx EXCEPT ![h].at = "locked"]
    /\ UNCHANGED <<task, request, done, clock>>

(* The requests that govern the submission now on the table. *)
Governing(t, row, requests) ==
    LET live == {r \in Requests : r[1] = t /\ requests[r].status \notin {"None", "Cancelled"}}
        current == {r \in live : row.submittedAt # 0 /\ r[2] >= row.submittedAt}
    IN  IF current # {} THEN current ELSE live

\* Mutant: one approval is enough.
RequirementMetByOne(t, row, requests) ==
    /\ row.status = "WaitingApproval"
    /\ \E r \in Governing(t, row, requests) : requests[r].status = "Approved"

(* reconcileApprovalOutcome finishes a task that is waiting, when every    *)
(* request that governs it is approved.                                    *)
RequirementMet(t, row, requests) ==
    /\ row.status = "WaitingApproval"
    /\ Governing(t, row, requests) # {}
    /\ \A r \in Governing(t, row, requests) : requests[r].status = "Approved"

\* Mutant: the requests of earlier submissions count too.
ReconcilesWholeHistory(t, requests) ==
    /\ task[t].status = "WaitingApproval"
    /\ \A r \in Requests :
          r[1] = t => requests[r].status \in {"None", "Cancelled", "Approved"}

Reconciles(t, requests) == RequirementMet(t, task[t], requests)

CommitDecision(h) ==
    LET r == <<tx[h].step, tx[h].stamp>>
        n == tx[h].step
        d == tx[h].decision
        settled == [request EXCEPT ![r] =
                       [status |-> DecisionResult[d],
                        eyes |-> IF d = "Approve" THEN @.eyes \cup {tx[h].who} ELSE @.eyes]]
    IN  /\ tx[h].at = "locked" /\ tx[h].op = "decide"
        /\ request' = settled
        /\ IF n \in Tasks /\ Reconciles(n, settled)
              THEN /\ TaskIsFree(h, n)
                   /\ ReleaseWithin([task EXCEPT ![n].status = "Completed"], settled, done)
              ELSE IF n \in Gates /\ d = "Approve"
                      THEN ReleaseWithin(task, settled, done)
                      ELSE UNCHANGED task
        /\ Close(h)
        /\ UNCHANGED <<done, clock>>

----------------------------------------------------------------------------
(* An AI step's run completes: the plan is read without the trail's lock,  *)
(* and what it released is written by id.                                  *)
ReadPlan(h, a) ==
    /\ tx[h].at = "idle"
    /\ a \notin done
    /\ \A g \in Handlers : tx[g].step # a
    /\ tx' = [tx EXCEPT ![h] = [NoTx EXCEPT !.at = "read", !.op = "finishRun", !.step = a,
                                            !.ready = Releasable(task, request, done \cup {a})]]
    /\ UNCHANGED <<task, request, done, clock>>

CommitRun(h) ==
    /\ tx[h].at = "read" /\ tx[h].op = "finishRun"
    /\ \A t \in tx[h].ready : TaskIsFree(h, t) /\ task[t].status # "Completed"
    /\ done' = done \cup {tx[h].step}
    /\ task' = Released(task, tx[h].ready)
    /\ Close(h)
    /\ UNCHANGED <<request, clock>>

----------------------------------------------------------------------------
RollBack(h) ==
    /\ tx[h].at # "idle"
    /\ Close(h)
    /\ UNCHANGED <<task, request, done, clock>>

----------------------------------------------------------------------------
Operate(h) ==
    \/ \E t \in Tasks, op \in TaskOps : ReadTask(h, op, t)
    \/ WriteTask(h)
    \/ CommitStart(h)
    \/ CommitStall(h)
    \/ CommitSubmit(h)
    \/ \E p \in People, r \in Requests, d \in Decisions : ReadRequest(h, p, r, d)
    \/ RecordDecision(h)
    \/ CommitEye(h)
    \/ SettleRequest(h)
    \/ CommitDecision(h)
    \/ \E a \in AiSteps : ReadPlan(h, a)
    \/ CommitRun(h)
    \/ RollBack(h)

Next == \E h \in Handlers : Operate(h)

Spec == Init /\ [][Next]_vars
=============================================================================
