------------------------------ MODULE RunOutcome ------------------------------
(***************************************************************************)
(* What a company may rely on about the ending of its runs, whatever the   *)
(* engine does in between: a run begins once and ends; a cancelled run and *)
(* a dead-lettered run stay that way; and the only ending that can still   *)
(* be overruled is a completion (a cancel, or a second worker's failure,   *)
(* decided while the run was still going, lands after it).                 *)
(***************************************************************************)
CONSTANT Runs

VARIABLE outcome    \* of each run: none, open, or how it ended

Endings == {"Completed", "Failed", "Cancelled"}

OutcomeInit == outcome = [r \in Runs |-> "none"]

Begin(r) ==
  /\ outcome[r] = "none"
  /\ outcome' = [outcome EXCEPT ![r] = "open"]

End(r, how) ==
  /\ outcome[r] = "open"
  /\ outcome' = [outcome EXCEPT ![r] = how]

Overrule(r, how) ==
  /\ outcome[r] = "Completed"
  /\ outcome' = [outcome EXCEPT ![r] = how]

OutcomeNext ==
  \E r \in Runs : \/ Begin(r)
                  \/ \E how \in Endings : End(r, how)
                  \/ \E how \in {"Failed", "Cancelled"} : Overrule(r, how)

OutcomeSpec == OutcomeInit /\ [][OutcomeNext]_outcome
=============================================================================
