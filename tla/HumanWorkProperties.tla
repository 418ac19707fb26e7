------------------------ MODULE HumanWorkProperties -------------------------
EXTENDS HumanWork

(* The published plan is followed: no task opens before every step it      *)
(* depends on has finished, and nothing that finished or opened goes back, *)
(* however the transactions of the people, the approvers and the run       *)
(* engine interleave and whichever of them are rolled back.                *)
Plan == INSTANCE WorkPlan WITH
    Others <- AiSteps \cup Gates,
    stage <- [n \in Steps |->
                 IF n \in Finished(task, request, done) THEN "done"
                 ELSE IF n \in Tasks /\ task[n].status = "Waiting" THEN "waiting"
                 ELSE "open"]

PlanIsFollowed == Plan!Spec

(* An approved request was approved by somebody else than the person who   *)
(* asked, the administrator apart, and a four-eyes gate by two different   *)
(* people, neither of them the one who asked, even when two approvals are  *)
(* under way at once or the same one is sent twice.                        *)
ApprovalsAreIndependent ==
    \A r \in Requests :
        request[r].status = "Approved" =>
           /\ request[r].eyes \ {Requester(r)} # {} \/ Requester(r) \in Admins \cap request[r].eyes
           /\ ApprovalKind[r[1]] = "FourEyes" =>
                 /\ Cardinality(request[r].eyes) >= FourEyesRequired
                 /\ Requester(r) \notin request[r].eyes

(* A task whose step needs an approval is completed only by the approval   *)
(* of the submission that is on the table: no request that governs it is   *)
(* pending, rejected or sent back, although people submit twice, reopen    *)
(* and decide at the same time.                                            *)
CompletedOnItsApproval ==
    \A t \in Tasks :
        task[t].status = "Completed" /\ NeedsApproval(t) =>
           /\ task[t].submittedAt # 0
           /\ request[<<t, task[t].submittedAt>>].status = "Approved"
           /\ \A r \in Governing(t, task[t], request) : request[r].status = "Approved"

(* A task is never left waiting for an approval that has been given: the   *)
(* last decision on a submission and the completion of the task are one    *)
(* transaction.                                                            *)
ApprovedWorkCompletes == \A t \in Tasks : ~RequirementMet(t, task[t], request)

(* No release is lost among people and approvers: a task that still waits, *)
(* and depends on no AI step, waits for something that has not finished,   *)
(* even when its last two predecessors finish at the same moment.          *)
NothingWaitsInVain ==
    \A t \in Tasks :
        task[t].status = "Waiting" /\ DependsOn[t] \cap AiSteps = {} =>
           ~DependenciesSatisfied(DependsOn[t], Finished(task, request, done), Steps)

(* A settled request is settled: no decision, withdrawal or later          *)
(* submission changes its verdict.                                         *)
VerdictsAreFinal ==
    [][\A r \in Requests :
          request[r].status \notin {"None", "Pending"} => request'[r].status = request[r].status]_vars
=============================================================================
