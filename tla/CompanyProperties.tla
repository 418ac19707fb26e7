-------------------------- MODULE CompanyProperties --------------------------
(***************************************************************************)
(* What a company, its people and the platform may rely on when its state  *)
(* changes.                                                                *)
(***************************************************************************)
EXTENDS CompanyLifecycle

ExitStates == DOMAIN AllowedExit
HandlerSteps ==
  {"idle", "claiming", "apply", "sync", "plan", "entitle", "move", "applied", "ignored", "failing"}

\* Every variable keeps to its type.
TypeOK ==
  /\ tenant \in [state : States, version : Nat, overdue : BOOLEAN]
  /\ history \in Seq([to : States, who : {"system", "person"}, applied : BOOLEAN])
  /\ planned \in Seq(States)
  /\ subscription \in [synced : Nat, paid : BOOLEAN, plan : Plans]
  /\ exit \in [state : ExitStates, by : People \cup {NoEvent}, approved : BOOLEAN,
               due : BOOLEAN, cancelled : BOOLEAN, deleted : BOOLEAN]
  /\ person \in [People -> [at : {"idle", "move", "listed", "due", "change", "exit"},
                            to : States, version : Nat, exit : ExitStates, row : Nat]]
  /\ moves \in 0..MaxMoves /\ madeBy \in {"system", "person", "schedule"} /\ crossed \in BOOLEAN
  /\ inbox \in [Events -> Outcomes \cup {"unseen"}]
  /\ owed \in [Events -> {"no", "yes", "early", "answered"}]
  /\ handler \in [Handlers -> [at : HandlerSteps, event : Events \cup {NoEvent},
                               seen : Nat \cup Outcomes \cup {"unseen", "nothing"}]]
  /\ failed \in [Events -> Seq(Watched \cup {"elsewhere"})] /\ deaths \in 0..MaxDeaths

\* Content is deleted only of a company that is closed, by an approved exit that nobody cancelled,
\* whoever cancels while somebody else deletes (deleteContent, cancel).
DeletedOnlyWhenClosed ==
  exit.deleted => tenant.state = "Closed" /\ exit.approved /\ ~exit.cancelled

\* A closed company stays closed, whatever had been read before it was (transition,
\* applyBillingEntitlement, applyDueTransitions).
ClosedStaysClosed == [][tenant.state = "Closed" => tenant'.state = "Closed"]_vars

\* A payment, or the want of one, never undoes what a person decided on the spot: the billing
\* leaves a state a person chose, except that it puts a working company into read-only
\* (applyBillingEntitlement).
PeopleAreNotOverruled ==
  [][(madeBy = "person" /\ madeBy' = "system") => tenant.state = "Active"]_vars

\* Nothing is under way, and the provider has no event left to deliver.
Settled ==
  /\ \A h \in Handlers : handler[h].at = "idle"
  /\ \A e \in Events : owed[e] \in {"early", "answered"} /\ ~Stranded(e)

Newest(e) ==
  /\ Verdict[e] # "unknown"
  /\ \A f \in Events : Verdict[f] # "unknown" => Stamp[f] <= Stamp[e]

\* When every event has been dealt with, in whatever order, after whatever failures, the company is
\* as the newest says, unless two of them were applied at the same time or a person had a say.
FollowsTheNewest ==
  (Settled /\ ~crossed) =>
    \A e \in Events : Newest(e) =>
      LET entitled == Verdict[e] = "entitled" IN
      /\ subscription.synced = Stamp[e] /\ subscription.paid = entitled
      /\ entitled => subscription.plan = Sells[e]
      /\ madeBy = "system" => tenant.state = IF entitled THEN "Active" ELSE "ReadOnly"
=============================================================================
