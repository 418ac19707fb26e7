--------------------------- MODULE CompanyLifecycle ---------------------------
(***************************************************************************)
(* Whether one company may use the product: what the platform's people     *)
(* decide, now or for a date; what the payment provider's subscription     *)
(* events say; and the contract end, which closes the company and deletes  *)
(* its content.                                                            *)
(***************************************************************************)
EXTENDS Webhook

CONSTANTS Stamp,        \* when each subscription event occurred
          Verdict,      \* what the status an event carries is mapped to
          Sells,        \* the plan an event says was paid for
          Plans, People,
          MaxMoves      \* bound: lifecycle changes people ask for outside an exit

ASSUME LifecycleAssumption ==
  /\ Stamp \in [Events -> Nat \ {0}]
  /\ Verdict \in [Events -> {"entitled", "lapsed", "unknown"}]
  /\ Sells \in [Events -> Plans] /\ Plans # {}
  /\ NoEvent \notin People \cup Events
  /\ MaxMoves \in Nat /\ MaxDeaths \in Nat

VARIABLES tenant,       \* lifecycleState, version and accessReasonCode of the company
          history,      \* tenant_lifecycle_transitions that are applied or due, by effectiveAt
          planned,      \* those whose date has not come
          subscription, \* stripeSyncedAt, whether the state is a paid one, and the plan
          exit,         \* the company_exits row
          person,       \* what each person of the platform is doing
          moves,        \* lifecycle changes asked for so far
          madeBy,       \* history: who last changed the state, and how
          crossed       \* history: two deliveries were applied at the same time

companyVars == <<tenant, history, planned, subscription, exit, person, moves, madeBy, crossed>>
vars == <<companyVars, webhookVars>>

States == {"Active", "Suspended", "ReadOnly", "Closed"}

AllowedNext ==
  [s \in States |->
     CASE s = "Active"    -> {"Suspended", "ReadOnly", "Closed"}
       [] s = "Suspended" -> {"Active", "ReadOnly", "Closed"}
       [] s = "ReadOnly"  -> {"Active", "Suspended", "Closed"}
       [] s = "Closed"    -> {}]

AllowedExit ==
  [s \in {"none", "Requested", "Approved", "ReadOnly", "RetentionHold", "Deleted", "Cancelled"} |->
     CASE s = "Requested"     -> {"Approved", "Cancelled"}
       [] s = "Approved"      -> {"ReadOnly", "Cancelled"}
       [] s = "ReadOnly"      -> {"RetentionHold", "Cancelled"}
       [] s = "RetentionHold" -> {"Deleted", "Cancelled"}
       [] OTHER               -> {}]

Free == [at |-> "idle", to |-> "Active", version |-> 0, exit |-> "none", row |-> 0]
NoExit == [state |-> "none", by |-> NoEvent, approved |-> FALSE, due |-> FALSE,
           cancelled |-> FALSE, deleted |-> FALSE]

Init ==
  /\ tenant = [state |-> "Active", version |-> 1, overdue |-> FALSE]
  /\ history = <<>> /\ planned = <<>>
  /\ subscription = [synced |-> 0, paid |-> TRUE, plan |-> CHOOSE p \in Plans : TRUE]
  /\ exit = NoExit
  /\ person = [p \in People |-> Free]
  /\ moves = 0 /\ madeBy = "system" /\ crossed = FALSE
  /\ WebhookInit
-----------------------------------------------------------------------------
(* The company row, and the record of its changes. *)

\* Mutant: the update does not ask for the version that was read.
VersionIsReadUnchecked(version) == TRUE

\* setLifecycleStateForPlatform changes the row its caller read, or nothing.
VersionIsRead(version) == version = tenant.version

\* Only the rows somebody will read again are kept: those into ReadOnly, and those due.
Record(to, who) ==
  history' = IF to = "ReadOnly" THEN Append(history, [to |-> to, who |-> who, applied |-> TRUE])
             ELSE history

Move(to, overdue, who) ==
  /\ tenant' = [state |-> to, version |-> tenant.version + 1, overdue |-> overdue]
  /\ madeBy' = who
-----------------------------------------------------------------------------
(* A person changes the state: transition. The read and the update are of one transaction, which *)
(* does not lock what it read.                                                                   *)

Decide(p, to, step, exitState) ==
  /\ to \in AllowedNext[tenant.state]
  /\ person' = [person EXCEPT ![p] =
       [at |-> step, to |-> to, version |-> tenant.version, exit |-> exitState, row |-> 0]]
  /\ UNCHANGED <<tenant, history, planned, subscription, exit, madeBy, crossed, webhookVars>>

Ask(p, to) ==
  /\ person[p].at = "idle" /\ moves < MaxMoves
  /\ Decide(p, to, "move", "none")
  /\ moves' = moves + 1

\* transition clears accessReasonCode.
ClearsReason == FALSE

\* Then the rest of an exit's step, if the change is part of one.
CommitMove(p) ==
  /\ person[p].at = "move" /\ VersionIsRead(person[p].version)
  /\ Move(person[p].to, ClearsReason, "person")
  /\ Record(person[p].to, "person")
  /\ person' = [person EXCEPT ![p] = [Free EXCEPT !.at = IF person[p].exit = "none" THEN "idle" ELSE "exit",
                                               !.exit = person[p].exit]]
  /\ UNCHANGED <<planned, subscription, exit, moves, crossed, webhookVars>>

MoveRefused(p) ==
  /\ person[p].at = "move" /\ ~VersionIsRead(person[p].version)
  /\ person' = [person EXCEPT ![p] = Free]
  /\ UNCHANGED <<tenant, history, planned, subscription, exit, moves, madeBy, crossed, webhookVars>>

\* The change is recorded for a date, and nothing else happens yet.
Schedule(p, to) ==
  /\ person[p].at = "idle" /\ moves < MaxMoves /\ planned = <<>>
  /\ to \in AllowedNext[tenant.state]
  /\ planned' = <<to>> /\ moves' = moves + 1
  /\ UNCHANGED <<tenant, history, subscription, exit, person, madeBy, crossed, webhookVars>>

\* Its date comes: from now on every later change has a later effectiveAt.
DateComes ==
  /\ planned # <<>> /\ planned' = <<>>
  /\ history' = Append(history, [to |-> planned[1], who |-> "person", applied |-> FALSE])
  /\ UNCHANGED <<tenant, subscription, exit, person, moves, madeBy, crossed, webhookVars>>

\* applyDueTransitions, in one transaction which locks nothing that it reads: what is due is listed,
\* and then each change in turn is looked at again. Here a call takes one change of its list.
Due == {i \in DOMAIN history : ~history[i].applied}

ListDue(p) ==
  /\ person[p].at = "idle"
  /\ \E i \in Due : person' = [person EXCEPT ![p] = [Free EXCEPT !.at = "listed", !.row = i]]
  /\ UNCHANGED <<tenant, history, planned, subscription, exit, moves, madeBy, crossed, webhookVars>>

\* The company is read: a change that is no longer legal is skipped, and stays due.
ReadDue(p) ==
  LET to == history[person[p].row].to IN
  /\ person[p].at = "listed"
  /\ person' = [person EXCEPT ![p] =
       IF to \in AllowedNext[tenant.state]
         THEN [@ EXCEPT !.at = "due", !.to = to, !.version = tenant.version]
         ELSE Free]
  /\ UNCHANGED <<tenant, history, planned, subscription, exit, moves, madeBy, crossed, webhookVars>>

\* The change is marked applied whether or not the update found the version that was read.
ApplyDue(p) ==
  /\ person[p].at = "due"
  /\ IF VersionIsRead(person[p].version)
       THEN Move(person[p].to, tenant.overdue, "schedule")
       ELSE UNCHANGED <<tenant, madeBy>>
  /\ history' = [history EXCEPT ![person[p].row].applied = TRUE]
  /\ person' = [person EXCEPT ![p] = Free]
  /\ UNCHANGED <<planned, subscription, exit, moves, crossed, webhookVars>>
-----------------------------------------------------------------------------
(* A subscription event: onSubscription and applyBillingEntitlement. *)

At(h, step) == handler[h].at = step
GoTo(h, step, seen) == handler' = [handler EXCEPT ![h].at = step, ![h].seen = seen]

\* Mutant: the stamp of what was applied is not looked at.
IsNewsAlways(e) == Verdict[e] # "unknown"

\* A status the mapping knows, and nothing newer applied.
IsNews(e) == Verdict[e] # "unknown" /\ subscription.synced <= Stamp[e]

ReadSubscription(h) ==
  /\ At(h, "apply")
  /\ GoTo(h, IF IsNews(handler[h].event) THEN "sync" ELSE "ignored", "nothing")
  /\ crossed' = (crossed \/ \E g \in Handlers \ {h} : handler[g].at \in {"sync", "plan", "entitle", "move"})
  /\ UNCHANGED <<tenant, history, planned, subscription, exit, person, moves, madeBy, inbox, owed, failed, deaths>>

Sync(h) ==
  LET e == handler[h].event IN
  /\ At(h, "sync")
  /\ subscription' = [subscription EXCEPT !.synced = Stamp[e], !.paid = (Verdict[e] = "entitled")]
  /\ GoTo(h, IF Verdict[e] = "entitled" THEN "plan" ELSE "entitle", "nothing")
  /\ UNCHANGED <<tenant, history, planned, exit, person, moves, madeBy, crossed, inbox, owed, failed, deaths>>

\* applyPaidPlanChange.
ChangePlan(h) ==
  /\ At(h, "plan")
  /\ subscription' = [subscription EXCEPT !.plan = Sells[handler[h].event]]
  /\ GoTo(h, "entitle", "nothing")
  /\ UNCHANGED <<tenant, history, planned, exit, person, moves, madeBy, crossed, inbox, owed, failed, deaths>>

\* Mutant: any ReadOnly is taken for the system's.
ReadOnlyWasSystemMadeAlways == TRUE

\* The latest applied change into ReadOnly, by effectiveAt, has no actor.
ReadOnlyWasSystemMade ==
  \E i \in DOMAIN history :
    /\ history[i].applied /\ history[i].to = "ReadOnly" /\ history[i].who = "system"
    /\ \A j \in DOMAIN history : j > i => ~(history[j].applied /\ history[j].to = "ReadOnly")

\* Only Active -> ReadOnly, and ReadOnly -> Active when the system made it so.
BillingMoves(e) ==
  IF Verdict[e] = "entitled" THEN tenant.state = "ReadOnly" /\ ReadOnlyWasSystemMade
  ELSE tenant.state = "Active"

ReadCompany(h) ==
  /\ At(h, "entitle")
  /\ IF BillingMoves(handler[h].event) THEN GoTo(h, "move", tenant.version) ELSE GoTo(h, "applied", "nothing")
  /\ UNCHANGED <<companyVars, inbox, owed, failed, deaths>>

CommitEntitlement(h) ==
  LET entitled == Verdict[handler[h].event] = "entitled"
      to == IF entitled THEN "Active" ELSE "ReadOnly" IN
  /\ At(h, "move") /\ VersionIsRead(handler[h].seen)
  /\ Move(to, ~entitled, "system")
  /\ Record(to, "system")
  /\ GoTo(h, "applied", "nothing")
  /\ UNCHANGED <<planned, subscription, exit, person, moves, crossed, inbox, owed, failed, deaths>>

\* ConflictException: somebody moved the company, and the delivery fails.
EntitlementRefused(h) ==
  /\ At(h, "move") /\ ~VersionIsRead(handler[h].seen)
  /\ GoTo(h, "failing", "nothing")
  /\ UNCHANGED <<companyVars, inbox, owed, failed, deaths>>
-----------------------------------------------------------------------------
(* The contract end. Its row is read first, and written by id later. *)

WriteExit(row) == exit' = row

RequestExit(p) ==
  /\ person[p].at = "idle" /\ exit.state = "none"
  /\ WriteExit([NoExit EXCEPT !.state = "Requested", !.by = p])
  /\ UNCHANGED <<tenant, history, planned, subscription, person, moves, madeBy, crossed, webhookVars>>

\* Every step of an exit reads the row and asserts the move.
ReadExit(p, to) ==
  /\ person[p].at = "idle" /\ to \in AllowedExit[exit.state]
  /\ to = "Approved" => exit.by # p
  /\ to = "Deleted" => exit.due /\ exit.approved
  /\ \/ /\ to \in {"Approved", "Deleted"} \/ (to = "Cancelled" /\ exit.state # "ReadOnly")
        /\ person' = [person EXCEPT ![p] = [Free EXCEPT !.at = "exit", !.exit = to]]
     \/ /\ to \in {"ReadOnly", "RetentionHold"} \/ (to = "Cancelled" /\ exit.state = "ReadOnly")
        /\ person' = [person EXCEPT ![p] = [Free EXCEPT !.at = "change", !.exit = to]]
  /\ UNCHANGED <<tenant, history, planned, subscription, exit, moves, madeBy, crossed, webhookVars>>

\* The lifecycle change an exit's step makes first, in a transaction of its own.
LifecycleOf == [to \in {"ReadOnly", "RetentionHold", "Cancelled"} |->
                  CASE to = "ReadOnly" -> "ReadOnly" [] to = "RetentionHold" -> "Closed" [] to = "Cancelled" -> "Active"]

BeginChange(p) ==
  /\ person[p].at = "change" /\ UNCHANGED moves
  /\ Decide(p, LifecycleOf[person[p].exit], "move", person[p].exit)

ChangeRefused(p) ==
  /\ person[p].at = "change" /\ LifecycleOf[person[p].exit] \notin AllowedNext[tenant.state]
  /\ person' = [person EXCEPT ![p] = Free]
  /\ UNCHANGED <<tenant, history, planned, subscription, exit, moves, madeBy, crossed, webhookVars>>

\* Mutant: the table does not forbid a row that is both cancelled and deleted.
RowAllowsBoth(row) == TRUE

\* deleted_at IS NULL OR cancelled_at IS NULL, and the approver is not who asked.
RowAllows(row) == ~(row.deleted /\ row.cancelled)

\* Who asked is read by the approval of a Requested exit only, and forgotten with that state.
NextRow(p) ==
  LET to == person[p].exit IN
  [exit EXCEPT !.state = to, !.by = NoEvent,
               !.approved = @ \/ to = "Approved",
               !.cancelled = @ \/ to = "Cancelled",
               !.deleted = @ \/ to = "Deleted"]

CommitExit(p) ==
  /\ person[p].at = "exit" /\ RowAllows(NextRow(p))
  /\ WriteExit(NextRow(p))
  /\ person' = [person EXCEPT ![p] = Free]
  /\ UNCHANGED <<tenant, history, planned, subscription, moves, madeBy, crossed, webhookVars>>

\* The constraint refuses the row: the transaction, and a deletion with it, is rolled back.
ExitRefused(p) ==
  /\ person[p].at = "exit" /\ ~RowAllows(NextRow(p))
  /\ person' = [person EXCEPT ![p] = Free]
  /\ UNCHANGED <<tenant, history, planned, subscription, exit, moves, madeBy, crossed, webhookVars>>

\* The process dies between two of the transactions of a step of the exit, or within one.
PersonDies(p) ==
  /\ person[p].at # "idle" /\ deaths < MaxDeaths
  /\ person' = [person EXCEPT ![p] = Free] /\ deaths' = deaths + 1
  /\ UNCHANGED <<tenant, history, planned, subscription, exit, moves, madeBy, crossed, inbox, owed, handler, failed>>

\* The retention window ends.
RetentionEnds ==
  /\ exit.state = "RetentionHold" /\ ~exit.due
  /\ exit' = [exit EXCEPT !.due = TRUE]
  /\ UNCHANGED <<tenant, history, planned, subscription, person, moves, madeBy, crossed, webhookVars>>
-----------------------------------------------------------------------------
\* The provider's events happen in the order of their stamps; their deliveries need not.
Happens(e) ==
  /\ owed[e] = "no" /\ \A f \in Events : Stamp[f] < Stamp[e] => owed[f] # "no"
  /\ owed' = [owed EXCEPT ![e] = "yes"]
  /\ UNCHANGED <<companyVars, inbox, handler, failed, deaths>>

HandlerStep(h) ==
  \/ WebhookStep(h) /\ UNCHANGED companyVars
  \/ ReadSubscription(h) \/ Sync(h) \/ ChangePlan(h)
  \/ ReadCompany(h) \/ CommitEntitlement(h) \/ EntitlementRefused(h)

ExitStep(p) ==
  \/ RequestExit(p) \/ \E to \in {"Approved", "ReadOnly", "RetentionHold", "Deleted", "Cancelled"} : ReadExit(p, to)
  \/ BeginChange(p) \/ ChangeRefused(p) \/ CommitExit(p) \/ ExitRefused(p)

PersonStep(p) ==
  \/ \E to \in States : Ask(p, to) \/ Schedule(p, to)
  \/ CommitMove(p) \/ MoveRefused(p) \/ ListDue(p) \/ ReadDue(p) \/ ApplyDue(p)
  \/ ExitStep(p) \/ PersonDies(p)

Next ==
  \/ \E e \in Events : Happens(e)
  \/ \E h \in Handlers : HandlerStep(h) \/ (WebhookFault(h) /\ UNCHANGED companyVars)
  \/ \E p \in People : PersonStep(p)
  \/ DateComes \/ RetentionEnds

Spec == Init /\ [][Next]_vars
=============================================================================
