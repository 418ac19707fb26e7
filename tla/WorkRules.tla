----------------------------- MODULE WorkRules ------------------------------
(***************************************************************************)
(* The rules of human work and of approvals that read no state:            *)
(* packages/types/src/assignments.ts, approvals.ts, scope-evaluation.ts.   *)
(***************************************************************************)

TaskStatuses == {"Waiting", "Assigned", "InProgress", "Blocked", "NeedsInput",
                 "WaitingApproval", "Submitted", "Completed", "Cancelled"}

StepApprovalKinds == {"NotRequired", "Manager", "Head", "FourEyes"}

RequestStatuses == {"Pending", "Approved", "Rejected", "SentBack", "Cancelled"}

AllowedHumanTaskTransitions ==
    [Waiting         |-> {"Cancelled"},
     Assigned        |-> {"InProgress", "Blocked", "NeedsInput", "Cancelled"},
     InProgress      |-> {"Blocked", "NeedsInput", "WaitingApproval", "Submitted", "Cancelled"},
     Blocked         |-> {"InProgress", "NeedsInput", "Cancelled"},
     NeedsInput      |-> {"InProgress", "Blocked", "Cancelled"},
     WaitingApproval |-> {"InProgress", "Submitted", "Cancelled"},
     Submitted       |-> {"InProgress", "WaitingApproval", "Completed", "Cancelled"},
     Completed       |-> {},
     Cancelled       |-> {}]

MayMoveHumanTask(from, to) == to \in AllowedHumanTaskTransitions[from]

(* What each operation of the task screen asks the table for. *)
TargetOf == [start |-> "InProgress", block |-> "Blocked",
             clarify |-> "NeedsInput", submit |-> "Submitted"]

MayReleaseHumanTask(status) == status = "Waiting"

DependenciesSatisfied(dependsOn, finished, planned) ==
    \A n \in dependsOn : n \notin planned \/ n \in finished

(* The decisions that settle. A comment settles nothing and counts in no   *)
(* rule.                                                                   *)
Decisions == {"Approve", "Reject", "SendBack"}

DecisionResult == [Approve |-> "Approved", Reject |-> "Rejected", SendBack |-> "SentBack"]

FourEyesRequired == 2

\* Mutant: only a four-eyes gate bars the one who asked.
SeparationAtFourEyesOnly(actor, requester, isAdmin, kind, priorActors) ==
    kind = "FourEyes" => actor # requester /\ actor \notin priorActors

(* checkSeparationOfDuties: the platform's NoSelfApproval, from which the  *)
(* administrator is exempt, and the FourEyes policy a gate carries, from   *)
(* which nobody is.                                                        *)
SeparationOfDuties(actor, requester, isAdmin, kind, priorActors) ==
    /\ actor = requester => isAdmin
    /\ kind = "FourEyes" => actor # requester /\ actor \notin priorActors
=============================================================================
