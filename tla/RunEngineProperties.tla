-------------------------- MODULE RunEngineProperties --------------------------
(***************************************************************************)
(* What the run engine promises, stated over RunEngine.                    *)
(***************************************************************************)
EXTENDS RunEngine

\* A run that has finished is never unfinished again, whatever stale writes, crashed
\* or duplicated workers do: move() re-reads nothing before its UPDATE, so what stands
\* between a stale Running and a finished run is the CHECK on finished_at.
FinishedNeverReopens ==
  [][\A r \in Runs : row[r].state \in Terminal => row'[r].state \in Terminal]_vars

\* A cancelled run stays cancelled and a dead-lettered run stays failed: no worker
\* that was already executing it, and no second cancel, rewrites the ending.
CancelledAndFailedAreFinal ==
  [][\A r \in Runs : row[r].state \in {"Cancelled", "Failed"}
                       => row'[r].state = row[r].state]_vars

\* The durable row exists before anything that could execute it (runs.ts: "a durable
\* Run record exists before execution"): no job, worker or request names a run without
\* a row, also when the process dies between the insert and the enqueue.
RowBeforeJob ==
  /\ \A id \in JobIds : job[id].st # "unknown" => row[id[1]].state # Absent
  /\ \A w \in Workers : worker[w].pc # "idle" => row[RunOf(w)].state # Absent
  /\ \A c \in Callers : caller[c].pc \in {"moving", "toppingUp", "enqueuing"}
                          => \A r \in caller[c].runs : row[r].state # Absent

\* The refinement mapping to RunOutcome: how each run stands.
OutcomeOf(state) ==
  CASE state = Absent -> "none"
    [] state \in Terminal -> state
    [] OTHER -> "open"

Outcome == INSTANCE RunOutcome WITH outcome <- [r \in Runs |-> OutcomeOf(row[r].state)]

\* The engine implements RunOutcome: endings are reached and kept as it says.
ImplementsOutcome == Outcome!OutcomeSpec

Holds(w, r) ==
  /\ worker[w].pc \in {"reserved", "starting", "executing", "completing", "failed", "recording"}
  /\ RunOf(w) = r

\* A run is performed by one worker at a time.  The engine has no lock for it: it
\* follows from Queued and Retrying being left by the first worker that reserves, from
\* job ids, and from nobody putting a run that is being performed back to Queued.
OneWorkerPerRun ==
  \A r \in Runs : Cardinality({w \in Workers : Holds(w, r)}) <= 1

\* The runs the fairness cap counts are runs somebody is working on (run-fairness:
\* the count is derived from the rows, "so it self-heals").
InFlightIsWorkedOn ==
  \A r \in RunsInFlight : \E w \in Workers : Holds(w, r)

Dispatched(r) ==
  \/ \E k \in 0..MaxAttempts : job[<< r, k >>].st \in {"waiting", "active"}
  \/ \E c \in Callers : CallerAt(c, "enqueuing") /\ r \in caller[c].runs

\* No run is forgotten: while a row says Queued or Retrying, a job that will pick it
\* up exists or is about to be added (the row exists before the job does, the job is
\* added after the commit, and BullMQ drops an add whose id it still knows).
NoRunIsForgotten ==
  \A r \in Runs : row[r].state \in {"Queued", "Retrying"} => Dispatched(r)

\* A cancel of a run that has not finished is never refused (runs.ts: "must not be
\* un-cancellable"): a refused UPDATE means the run finished in the meantime.
UnfinishedRunsCanBeCancelled ==
  [][\A c \in Callers, r \in Runs :
       (/\ CallerAt(c, "moving") /\ caller[c].to = "Cancelled" /\ r \in caller[c].runs
        /\ caller'[c].pc = "error" /\ mishaps' = mishaps)
         => row[r].state \in Terminal]_vars

\* Every run that is queued ends: it finishes, or it stops in a state somebody owns.
EveryQueuedRunEnds ==
  \A r \in Runs :
    row[r].state = "Queued" ~> row[r].state \in Terminal \union Blocked \union Waiting
=============================================================================
