------------------------------ MODULE RunStates ------------------------------
(***************************************************************************)
(* The states of an agent run, the moves the engine permits between them,  *)
(* the retry rule and the constraints PostgreSQL puts on a row of          *)
(* agent_runs.                                                             *)
(*                                                                         *)
(* A row is abstracted to what those rules look at: which of reserved_at,  *)
(* finished_at, cancelled_at and dead_lettered_at are set, the attempt     *)
(* number and the state.  started_at is left out: the only rule about it   *)
(* compares clocks of two machines (see RunEngine, WriteRefused).          *)
(***************************************************************************)
EXTENDS Naturals

CONSTANT MaxAttempts    \* DEFAULT_MAX_RUN_ATTEMPTS, the row's max_attempts

ASSUME MaxAttemptsAssumption == MaxAttempts \in Nat \ {0}

Terminal == {"Completed", "Failed", "Cancelled"}
Blocked  == {"BlockedByBudget", "BlockedByConnection",
             "BlockedByPermission", "BlockedByProvider"}
Waiting  == {"WaitingForHumanInput", "WaitingForApproval"}
InFlight == {"Reserved", "Running"}

\* RUN_STATES.
RunState == {"Queued", "Retrying"} \union InFlight \union Waiting
              \union Blocked \union Terminal

\* No row exists yet.
Absent == "Absent"

\* ALLOWED_RUN_TRANSITIONS.
Allowed(from) ==
  CASE from = "Queued"   -> {"Reserved", "Cancelled"} \union Blocked
    [] from = "Reserved" -> {"Running", "Cancelled"} \union Blocked
    [] from = "Running"  -> Waiting \union Blocked \union Terminal \union {"Retrying"}
    [] from \in Waiting  -> {"Running", "Cancelled", "Failed"}
    [] from = "Retrying" -> {"Reserved", "Failed", "Cancelled"}
    [] from = "BlockedByProvider" -> {"Queued", "Retrying", "Cancelled", "Failed"}
    [] from \in Blocked \ {"BlockedByProvider"} -> {"Queued", "Cancelled", "Failed"}
    [] OTHER -> {}

MayMove(from, to) == to \in Allowed(from)

\* What move() itself lets through: it refuses only a *different* state that
\* the table does not permit.
MoveAdmits(from, to) == from = to \/ MayMove(from, to)

\* mayRetryRun for a Retryable failure; the two other classes never retry.
MayRetry(attempt) == attempt < MaxAttempts

-----------------------------------------------------------------------------

Row == [state : RunState \union {Absent}, attempt : 1..MaxAttempts,
        reserved : BOOLEAN, finished : BOOLEAN,
        cancelled : BOOLEAN, deadLettered : BOOLEAN]

NoRow == [state |-> Absent, attempt |-> 1, reserved |-> FALSE, finished |-> FALSE,
          cancelled |-> FALSE, deadLettered |-> FALSE]

NewRow == [NoRow EXCEPT !.state = "Queued"]

\* The columns each call of move() sets, merged onto the row as it is when the
\* UPDATE runs.  finished_at, cancelled_at and dead_lettered_at are never cleared.
Moved(row, to, attempt) ==
  [row EXCEPT !.state = to,
              !.attempt = IF to = "Retrying" THEN attempt ELSE @,
              !.reserved = (to = "Reserved") \/ (@ /\ to # "Retrying"),
              !.finished = @ \/ to \in Terminal,
              !.cancelled = @ \/ to = "Cancelled",
              !.deadLettered = @ \/ to = "Failed"]

\* resumeRunsBlockedByBudget writes the row itself, not through move().
ToppedUp(row) == [row EXCEPT !.state = "Queued", !.reserved = FALSE]

\* Mutants: without unfinished_run_has_no_finish_time; with Cancelled left out of
\* running_run_was_reserved_first, as Retrying once was.
FinishTimeIfFinished(row) == row.state \in Terminal => row.finished
CancelledNeedsReservation(row) ==
  row.reserved \/ row.state \in {Absent, "Queued", "Retrying"} \union Blocked

\* The CHECK constraints of agent_runs, evaluated on the merged row.
AttemptWithinCeiling(row) == row.attempt <= MaxAttempts
FinishTimeIffFinished(row) == row.finished <=> row.state \in Terminal
CancelTimeIffCancelled(row) == row.cancelled <=> row.state = "Cancelled"
DeadLetteredIsFailed(row) == row.deadLettered => row.state = "Failed"
ReservedBeforeRunning(row) ==
  row.reserved \/ row.state \in {Absent, "Queued", "Retrying", "Cancelled"} \union Blocked

Accepted(row) ==
  /\ AttemptWithinCeiling(row)
  /\ FinishTimeIffFinished(row)
  /\ CancelTimeIffCancelled(row)
  /\ DeadLetteredIsFailed(row)
  /\ ReservedBeforeRunning(row)
=============================================================================
