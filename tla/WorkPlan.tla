------------------------------ MODULE WorkPlan ------------------------------
(***************************************************************************)
(* What a published plan promises, whatever transactions carry it out.     *)
(*                                                                         *)
(* A plan is a set of steps. A human step is a task somebody does; the     *)
(* others are AI steps and approval gates. Each step is waiting, open or   *)
(* done. A step only goes forward, one stage at a time, and it opens only  *)
(* when every planned step it depends on is done.                          *)
(***************************************************************************)
CONSTANTS
    Tasks,          \* the human steps
    Others,         \* the AI steps and the approval gates
    DependsOn       \* for each task, the nodes its step names as dependencies

VARIABLE stage

Steps == Tasks \cup Others

Stages == {"waiting", "open", "done"}

(* A dependency on a node that is no step of the plan, a goal or a         *)
(* condition, is not something to wait for.                                *)
MayOpen(t, finished) == DependsOn[t] \cap Steps \subseteq finished

Init == stage = [n \in Steps |->
                    IF n \in Tasks /\ ~MayOpen(n, {}) THEN "waiting" ELSE "open"]

Forward == {<<"waiting", "open">>, <<"open", "done">>} \cup {<<s, s>> : s \in Stages}

Next ==
    /\ stage' \in [Steps -> Stages]
    /\ \A n \in Steps : <<stage[n], stage'[n]>> \in Forward
    /\ \A t \in Tasks :
          stage[t] = "waiting" /\ stage'[t] = "open"
             => MayOpen(t, {n \in Steps : stage'[n] = "done"})

Spec == Init /\ [][Next]_stage
=============================================================================
