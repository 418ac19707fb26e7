---------------------------- MODULE CompanyProofs ----------------------------
(***************************************************************************)
(* Machine-checked proofs about CompanyLifecycle, for any events, stamps   *)
(* and plans, any number of people and deliveries, and any number of       *)
(* changes, failures and deaths.                                           *)
(***************************************************************************)
EXTENDS CompanyProperties, SequenceTheorems, TLAPS

ExitTos == {"Approved", "ReadOnly", "RetentionHold", "Deleted", "Cancelled"}
Seen == Nat \cup Outcomes \cup {"unseen", "nothing"}
HandlerRow == [at : HandlerSteps, event : Events \cup {NoEvent}, seen : Seen]
ExitRow == [state : ExitStates, by : People \cup {NoEvent}, approved : BOOLEAN,
            due : BOOLEAN, cancelled : BOOLEAN, deleted : BOOLEAN]
PersonRow == [at : {"idle", "move", "listed", "due", "change", "exit"}, to : States,
              version : Nat, exit : ExitStates, row : Nat]

(* The type of what the two theorems look at. *)
Typed ==
  /\ tenant \in [state : States, version : Nat, overdue : BOOLEAN]
  /\ exit \in ExitRow
  /\ person \in [People -> PersonRow]
  /\ inbox \in [Events -> Outcomes \cup {"unseen"}]
  /\ handler \in [Handlers -> HandlerRow]

LEMMA LifecycleTable ==
  ASSUME NEW s \in States, NEW to \in AllowedNext[s]
  PROVE  to \in States /\ s # "Closed"
BY DEF States, AllowedNext

LEMMA ExitTable ==
  ASSUME NEW s \in ExitStates, NEW to \in AllowedExit[s]
  PROVE  to \in ExitTos /\ to \in ExitStates /\ s \in ExitStates \ {"none", "Deleted", "Cancelled"}
         /\ (to = "Deleted" => s = "RetentionHold")
BY DEF ExitStates, AllowedExit, ExitTos

LEMMA ExitLifecycle ==
  \A to \in {"ReadOnly", "RetentionHold", "Cancelled"} :
    LifecycleOf[to] \in States /\ (to = "RetentionHold" => LifecycleOf[to] = "Closed")
BY DEF LifecycleOf, States

LEMMA ExitToTypes == ExitTos \subseteq ExitStates /\ ExitStates = ExitTos \cup {"none", "Requested"}
BY DEF ExitTos, ExitStates, AllowedExit

(***************************************************************************)
(* What each kind of step may change.                                      *)
(***************************************************************************)

(* A handler's step leaves the other handlers, and the one that comes to   *)
(* the move has just read the version.                                     *)
HandlersMove ==
  \A h \in Handlers : handler'[h].at = "move" =>
     handler'[h] = handler[h] \/ (handler'[h].seen = tenant.version /\ tenant.state # "Closed")

LEMMA WebhookSteps ==
  ASSUME Typed, NEW h \in Handlers, WebhookStep(h) \/ WebhookFault(h)
  PROVE  /\ inbox' \in [Events -> Outcomes \cup {"unseen"}]
         /\ handler' \in [Handlers -> HandlerRow]
         /\ HandlersMove
<1> USE DEF Typed, HandlersMove, HandlerRow, HandlerSteps, Seen, Outcomes, Resting
<1>1. ASSUME NEW e \in Events, Receive(h, e)
      PROVE  /\ inbox' \in [Events -> Outcomes \cup {"unseen"}]
             /\ handler' \in [Handlers -> HandlerRow] /\ HandlersMove
  BY <1>1 DEF Receive
<1>2. CASE Claim(h)
  BY <1>2 DEF Claim, Claimable
<1>3. CASE Duplicate(h)
  BY <1>3 DEF Duplicate, Answer
<1>4. CASE Close(h)
  <2>1. handler' = [handler EXCEPT ![h] = Resting] /\ handler[h].at \in Outcomes
        /\ inbox' = [inbox EXCEPT ![handler[h].event] = handler[h].at]
    BY <1>4 DEF Close, Answer
  <2>2. inbox' \in [Events -> Outcomes \cup {"unseen"}]
    BY <2>1
  <2>3. handler' \in [Handlers -> HandlerRow] /\ HandlersMove
    BY <2>1
  <2> QED
    BY <2>2, <2>3
<1>5. CASE StepFails(h)
  BY ZenonT(60), <1>5 DEF StepFails
<1>6. CASE CloseFailed(h)
  BY <1>6 DEF CloseFailed
<1>7. CASE Die(h)
  BY <1>7 DEF Die
<1> QED
  BY <1>1, <1>2, <1>3, <1>4, <1>5, <1>6, <1>7 DEF WebhookStep, WebhookFault

(* The invariant behind ClosedStaysClosed: a version somebody read is not  *)
(* newer than the row's, and while it is the row's, the row is as it was   *)
(* read, which was not closed.                                             *)
FreshRead(version) ==
  /\ version \in Nat /\ version <= tenant.version
  /\ version = tenant.version => tenant.state # "Closed"

ReadsAreFresh ==
  /\ \A p \in People : person[p].at \in {"move", "due"} => FreshRead(person[p].version)
  /\ \A h \in Handlers : handler[h].at = "move" => FreshRead(handler[h].seen)

(* The invariant behind DeletedOnlyWhenClosed: from the retention window   *)
(* on the company is closed, also while the step that begins it is between *)
(* its two transactions, and the step that deletes has read an approval.   *)
ExitInOrder ==
  /\ exit.state = "none" => exit.approved = FALSE /\ \A p \in People : person[p].exit = "none"
  /\ \A p \in People :
       /\ person[p].at \in {"change", "exit"} => person[p].exit \in ExitTos
       /\ person[p].at \in {"idle", "listed", "due"} => person[p].exit = "none"
       /\ person[p].at = "move" /\ person[p].exit # "none" =>
            /\ person[p].exit \in ExitTos
            /\ person[p].exit = "RetentionHold" => person[p].to = "Closed"
            /\ person[p].exit # "Deleted"
       /\ person[p].at = "change" => person[p].exit \in {"ReadOnly", "RetentionHold", "Cancelled"}
       /\ person[p].at = "exit" /\ person[p].exit = "RetentionHold" => tenant.state = "Closed"
       /\ person[p].at = "exit" /\ person[p].exit = "Deleted" => exit.approved /\ tenant.state = "Closed"
  /\ exit.state = "RetentionHold" \/ exit.due => tenant.state = "Closed"
  /\ exit.deleted => tenant.state = "Closed" /\ exit.approved
  /\ ~(exit.deleted /\ exit.cancelled)

Inv == Typed /\ ReadsAreFresh /\ ExitInOrder

(* The record of the changes: what was scheduled is a person's, also when  *)
(* it has been marked applied, and a call that applies what is due holds a *)
(* row of it.                                                              *)
Change == [to : States, who : {"system", "person"}, applied : BOOLEAN]

HistoryInv ==
  /\ history \in Seq(Change) /\ planned \in Seq(States)
  /\ \A i \in DOMAIN history : ~history[i].applied => history[i].who = "person"
  /\ \A p \in People :
       /\ person[p].at \in {"listed", "due"} =>
            person[p].row \in DOMAIN history /\ history[person[p].row].who = "person"
       /\ person[p].at = "due" => history[person[p].row].to = person[p].to

LEMMA InitInv == Init => Inv
<1> SUFFICES ASSUME Init PROVE Inv
  OBVIOUS
<1>1. Typed
  BY DEF Init, WebhookInit, Typed, Free, NoExit, Resting, States, ExitRow, PersonRow, HandlerRow,
         HandlerSteps, Seen, Outcomes, ExitStates, AllowedExit
<1>2. ReadsAreFresh
  BY DEF Init, WebhookInit, ReadsAreFresh, Free, Resting
<1>3. ExitInOrder
  BY DEF Init, ExitInOrder, NoExit, Free
<1> QED
  BY <1>1, <1>2, <1>3 DEF Inv
LEMMA InitHistory == Init => HistoryInv
<1> SUFFICES ASSUME Init PROVE HistoryInv
  OBVIOUS
<1>1. history \in Seq(Change) /\ planned \in Seq(States) /\ DOMAIN history = {}
  BY DEF Init
<1> QED
  BY <1>1 DEF Init, HistoryInv, Free

(* A step that reads no change, and that records none or one.              *)
NoneRead == \A q \in People : person'[q].at \in {"listed", "due"} => person'[q] = person[q]

LEMMA HistoryRests ==
  ASSUME HistoryInv, history' = history, planned' \in Seq(States), NoneRead
  PROVE  HistoryInv'
BY DEF HistoryInv, NoneRead

LEMMA HistoryGrows ==
  ASSUME HistoryInv, NEW row \in Change, history' = Append(history, row),
         ~row.applied => row.who = "person", planned' \in Seq(States), NoneRead
  PROVE  HistoryInv'
<1>1. /\ history \in Seq(Change) /\ DOMAIN history = 1..Len(history) /\ Len(history) \in Nat
      /\ history' \in Seq(Change) /\ DOMAIN history' = 1..(Len(history) + 1)
      /\ \A i \in DOMAIN history : history'[i] = history[i]
      /\ history'[Len(history) + 1] = row
  BY LenProperties, AppendProperties DEF HistoryInv
<1>2. \A i \in DOMAIN history' : i \in DOMAIN history \/ i = Len(history) + 1
  BY <1>1
<1>3. \A i \in DOMAIN history' : ~history'[i].applied => history'[i].who = "person"
  BY <1>1, <1>2 DEF HistoryInv
<1>4. DOMAIN history \subseteq DOMAIN history'
  BY <1>1
<1>5. ASSUME NEW q \in People, person'[q].at \in {"listed", "due"}
      PROVE  /\ person'[q].row \in DOMAIN history' /\ history'[person'[q].row].who = "person"
             /\ person'[q].at = "due" => history'[person'[q].row].to = person'[q].to
  <2>1. person'[q] = person[q] /\ person[q].row \in DOMAIN history
    BY <1>5 DEF NoneRead, HistoryInv
  <2>2. history'[person[q].row] = history[person[q].row] /\ person[q].row \in DOMAIN history'
    BY <1>1, <1>4, <2>1
  <2> QED
    BY <1>5, <2>1, <2>2 DEF HistoryInv
<1> QED
  BY <1>1, <1>3, <1>5 DEF HistoryInv

(* A change is marked applied.                                             *)
LEMMA HistoryMarked ==
  ASSUME HistoryInv, NEW i \in DOMAIN history, history' = [history EXCEPT ![i].applied = TRUE],
         planned' = planned, NoneRead
  PROVE  /\ HistoryInv' /\ DOMAIN history' = DOMAIN history
         /\ \A j \in DOMAIN history : j # i => history'[j] = history[j]
         /\ history'[i].to = history[i].to /\ history'[i].who = history[i].who /\ history'[i].applied
<1> DEFINE row == [history[i] EXCEPT !.applied = TRUE]
<1>1. history \in Seq(Change) /\ DOMAIN history = 1..Len(history) /\ i \in 1..Len(history)
  BY LenProperties DEF HistoryInv
<1>2. \A j \in DOMAIN history : history[j] \in Change
  BY <1>1, ElementOfSeq
<1>3. row \in Change /\ row.to = history[i].to /\ row.who = history[i].who /\ row.applied = TRUE
  BY <1>2 DEF Change
<1>4. history' = [history EXCEPT ![i] = row]
  OBVIOUS
<1> HIDE DEF row
<1>5. history' \in Seq(Change) /\ Len(history') = Len(history)
      /\ \A j \in 1..Len(history) : history'[j] = IF j = i THEN row ELSE history[j]
  <2>1. /\ [history EXCEPT ![i] = row] \in Seq(Change) /\ Len([history EXCEPT ![i] = row]) = Len(history)
        /\ \A j \in 1..Len(history) : [history EXCEPT ![i] = row][j] = IF j = i THEN row ELSE history[j]
    BY <1>1, <1>3, ExceptSeq
  <2> QED
    BY <1>4, <2>1
<1>6. DOMAIN history' = DOMAIN history
  BY <1>1, <1>5, LenProperties
<1>7. /\ \A j \in DOMAIN history : j # i => history'[j] = history[j]
      /\ history'[i].to = history[i].to /\ history'[i].who = history[i].who /\ history'[i].applied
  BY <1>1, <1>3, <1>5
<1>8. HistoryInv'
  BY <1>5, <1>6, <1>7 DEF HistoryInv, NoneRead
<1> QED
  BY <1>6, <1>7, <1>8

LEMMA RecordedAs ==
  ASSUME HistoryInv, NEW to \in States, NEW who \in {"system", "person"}, Record(to, who),
         planned' = planned, NoneRead
  PROVE  HistoryInv'
<1>1. CASE to = "ReadOnly"
  <2>1. [to |-> to, who |-> who, applied |-> TRUE] \in Change
    BY DEF Change
  <2> QED
    BY <1>1, <2>1, HistoryGrows DEF Record, HistoryInv
<1>2. CASE to # "ReadOnly"
  BY <1>2, HistoryRests DEF Record, HistoryInv
<1> QED
  BY <1>1, <1>2

LEMMA FreshStays ==
  ASSUME Typed, NEW v, FreshRead(v),
         tenant' = tenant \/ tenant'.version = tenant.version + 1
  PROVE  v \in Nat /\ v <= tenant'.version /\ (v = tenant'.version => tenant'.state # "Closed")
BY DEF Typed, FreshRead

(* A step of a delivery that leaves the company, the exit and the people   *)
(* alone.                                                                  *)
LEMMA DeliverySteps ==
  ASSUME Inv, UNCHANGED <<tenant, exit, person>>, inbox' \in [Events -> Outcomes \cup {"unseen"}],
         handler' \in [Handlers -> HandlerRow], HandlersMove
  PROVE  Inv'
<1>1. Typed'
  BY DEF Inv, Typed
<1>2. ReadsAreFresh'
  BY DEF Inv, ReadsAreFresh, FreshRead, HandlersMove, Typed
<1>3. ExitInOrder'
  BY DEF Inv, ExitInOrder
<1> QED
  BY <1>1, <1>2, <1>3 DEF Inv

LEMMA NothingMoves ==
  ASSUME Inv, UNCHANGED <<tenant, exit, person, inbox, handler>>
  PROVE  Inv'
<1>1. inbox' \in [Events -> Outcomes \cup {"unseen"}] /\ handler' \in [Handlers -> HandlerRow] /\ HandlersMove
  BY DEF Inv, Typed, HandlersMove
<1> QED
  BY <1>1, DeliverySteps

LEMMA GoToTyped ==
  ASSUME Typed, NEW h \in Handlers, NEW step \in HandlerSteps, NEW seen \in Seen, GoTo(h, step, seen),
         step = "move" => seen = tenant.version /\ tenant.state # "Closed"
  PROVE  handler' \in [Handlers -> HandlerRow] /\ HandlersMove
BY ZenonT(60) DEF Typed, GoTo, HandlerRow, HandlersMove

LEMMA SubscriptionSteps ==
  ASSUME Inv, NEW h \in Handlers,
         \/ ReadSubscription(h) \/ Sync(h) \/ ChangePlan(h)
         \/ ReadCompany(h) \/ EntitlementRefused(h)
  PROVE  Inv'
<1>1. UNCHANGED <<tenant, exit, person>> /\ UNCHANGED inbox
  BY DEF ReadSubscription, Sync, ChangePlan, ReadCompany, EntitlementRefused, companyVars
<1>2. PICK step \in HandlerSteps, seen \in Seen :
        /\ GoTo(h, step, seen)
        /\ step = "move" => seen = tenant.version /\ tenant.state # "Closed"
  <2>1. CASE ReadCompany(h)
    <3>1. tenant.version \in Seen
      BY DEF Inv, Typed, Seen
    <3>2. CASE BillingMoves(handler[h].event)
      BY <2>1, <3>1, <3>2 DEF ReadCompany, BillingMoves, HandlerSteps
    <3>3. CASE ~BillingMoves(handler[h].event)
      BY <2>1, <3>3 DEF ReadCompany, HandlerSteps, Seen
    <3> QED
      BY <3>2, <3>3
  <2>2. CASE ReadSubscription(h)
    BY <2>2 DEF ReadSubscription, HandlerSteps, Seen
  <2>3. CASE Sync(h)
    BY <2>3 DEF Sync, HandlerSteps, Seen
  <2>4. CASE ChangePlan(h)
    BY <2>4 DEF ChangePlan, HandlerSteps, Seen
  <2>5. CASE EntitlementRefused(h)
    BY <2>5 DEF EntitlementRefused, HandlerSteps, Seen
  <2> QED
    BY <2>1, <2>2, <2>3, <2>4, <2>5
<1>3. handler' \in [Handlers -> HandlerRow] /\ HandlersMove
  BY <1>2, GoToTyped DEF Inv
<1> QED
  BY <1>1, <1>3, DeliverySteps DEF Inv, Typed

(* A person takes the place of p; the company does not move.               *)
LEMMA PersonTakes ==
  ASSUME Inv, NEW p \in People, NEW row \in PersonRow,
         person' = [person EXCEPT ![p] = row],
         row.at \in {"move", "due"} => row.version = tenant.version /\ tenant.state # "Closed",
         row.at \in {"idle", "listed", "due"} => row.exit = "none",
         row.exit # "none" => exit.state # "none",
         row.at \in {"change", "exit"} => row.exit \in ExitTos,
         row.at = "change" => row.exit \in {"ReadOnly", "RetentionHold", "Cancelled"},
         row.at = "move" /\ row.exit # "none" =>
           row.exit \in ExitTos /\ row.exit # "Deleted" /\ (row.exit = "RetentionHold" => row.to = "Closed"),
         row.at = "exit" => row.exit # "RetentionHold" /\ (row.exit = "Deleted" => exit.due /\ exit.approved),
         UNCHANGED <<tenant, exit, inbox, handler>>
  PROVE  Inv'
<1>1. Typed'
  BY DEF Inv, Typed
<1>2. \A q \in People : person'[q] = IF q = p THEN row ELSE person[q]
  BY DEF Inv, Typed
<1>3. ReadsAreFresh'
  BY <1>2 DEF Inv, ReadsAreFresh, FreshRead, Typed
<1>4. ExitInOrder'
  BY <1>2 DEF Inv, ExitInOrder
<1> QED
  BY <1>1, <1>3, <1>4 DEF Inv

LEMMA PersonFreed ==
  ASSUME Inv, NEW p \in People, person' = [person EXCEPT ![p] = Free],
         UNCHANGED <<tenant, exit, inbox, handler>>
  PROVE  Inv'
<1>1. Free \in PersonRow /\ Free.at = "idle" /\ Free.exit = "none"
  BY ExitToTypes DEF Free, PersonRow, States
<1> HIDE DEF Free
<1> QED
  BY <1>1, PersonTakes

LEMMA PersonDecides ==
  ASSUME Inv, NEW p \in People, NEW to, NEW e \in ExitStates, Decide(p, to, "move", e),
         e # "none" => /\ exit.state # "none" /\ e \in ExitTos /\ e # "Deleted"
                       /\ e = "RetentionHold" => to = "Closed"
  PROVE  Inv'
<1> DEFINE row == [at |-> "move", to |-> to, version |-> tenant.version, exit |-> e, row |-> 0]
<1>1. tenant.state \in States /\ tenant.version \in Nat
  BY DEF Inv, Typed
<1>2. to \in States /\ tenant.state # "Closed"
  BY <1>1, LifecycleTable DEF Decide
<1>3. row \in PersonRow /\ row.at = "move" /\ row.version = tenant.version /\ row.exit = e /\ row.to = to
  BY <1>1, <1>2 DEF PersonRow
<1>4. person' = [person EXCEPT ![p] = row] /\ UNCHANGED <<tenant, exit, inbox, handler>>
  BY DEF Decide, webhookVars
<1> HIDE DEF row
<1> QED
  BY <1>2, <1>3, <1>4, PersonTakes

LEMMA PeopleSteps ==
  ASSUME Inv, HistoryInv, NEW p \in People,
         \/ \E to \in States : Ask(p, to) \/ Schedule(p, to)
         \/ MoveRefused(p) \/ ListDue(p) \/ ReadDue(p) \/ BeginChange(p) \/ ChangeRefused(p) \/ ExitRefused(p)
         \/ PersonDies(p)
  PROVE  Inv'
<1>0. person[p] \in PersonRow /\ person \in [People -> PersonRow] /\ tenant.state \in States /\ tenant.version \in Nat
  BY DEF Inv, Typed
<1>1. ASSUME NEW to \in States, Ask(p, to)
      PROVE  Inv'
  <2>1. "none" \in ExitStates
    BY ExitToTypes
  <2>2. Decide(p, to, "move", "none")
    BY <1>1 DEF Ask
  <2> HIDE DEF Inv
  <2> QED
    BY <2>1, <2>2, PersonDecides
<1>2. ASSUME NEW to \in States, Schedule(p, to)
      PROVE  Inv'
  <2>1. UNCHANGED <<tenant, exit, person, inbox, handler>>
    BY <1>2 DEF Schedule, webhookVars
  <2> QED
    BY <2>1, NothingMoves
<1>3. CASE MoveRefused(p)
  BY <1>3, PersonFreed DEF MoveRefused, webhookVars
<1>4. CASE ReadDue(p)
  <2> DEFINE to == history[person[p].row].to
             row == [person[p] EXCEPT !.at = "due", !.to = to, !.version = tenant.version]
  <2>1. CASE to \notin AllowedNext[tenant.state]
    BY <1>4, <2>1, PersonFreed DEF ReadDue, webhookVars
  <2>2. CASE to \in AllowedNext[tenant.state]
    <3>1. to \in States /\ tenant.state # "Closed"
      BY <1>0, <2>2, LifecycleTable
    <3>2. person' = [person EXCEPT ![p] = row] /\ UNCHANGED <<tenant, exit, inbox, handler>>
      BY <1>4, <2>2 DEF ReadDue, webhookVars
    <3>3. person[p].exit = "none"
      BY <1>4 DEF ReadDue, Inv, ExitInOrder
    <3> HIDE DEF to
    <3>4. row \in PersonRow /\ row.at = "due" /\ row.version = tenant.version /\ row.exit = "none"
      BY <1>0, <3>1, <3>3 DEF PersonRow
    <3> HIDE DEF row
    <3> QED
      BY <3>1, <3>2, <3>4, PersonTakes
  <2> QED
    BY <2>1, <2>2
<1>9. CASE ListDue(p)
  <2>1. PICK i \in Due : person' = [person EXCEPT ![p] = [Free EXCEPT !.at = "listed", !.row = i]]
    BY <1>9 DEF ListDue
  <2> DEFINE row == [Free EXCEPT !.at = "listed", !.row = i]
  <2>2. i \in Nat
    <3>1. DOMAIN history = 1..Len(history) /\ Len(history) \in Nat
      BY LenProperties DEF HistoryInv
    <3> QED
      BY <2>1, <3>1 DEF Due
  <2>3. row \in PersonRow /\ row.at = "listed" /\ row.exit = "none"
    BY <2>2, ExitToTypes DEF PersonRow, Free, States
  <2>4. person' = [person EXCEPT ![p] = row] /\ UNCHANGED <<tenant, exit, inbox, handler>>
    BY <1>9, <2>1 DEF ListDue, webhookVars
  <2> HIDE DEF row
  <2> QED
    BY <2>3, <2>4, PersonTakes
<1>5. CASE BeginChange(p)
  <2>1. person[p].exit \in {"ReadOnly", "RetentionHold", "Cancelled"} /\ exit.state # "none"
    BY <1>5 DEF BeginChange, Inv, ExitInOrder
  <2>2. person[p].exit \in ExitStates /\ person[p].exit \in ExitTos
        /\ person[p].exit # "none" /\ person[p].exit # "Deleted"
    BY <2>1, ExitToTypes DEF ExitTos
  <2>3. person[p].exit = "RetentionHold" => LifecycleOf[person[p].exit] = "Closed"
    BY <2>1, ExitLifecycle
  <2> QED
    BY <1>5, <2>1, <2>2, <2>3, PersonDecides DEF BeginChange
<1>6. CASE ChangeRefused(p)
  BY <1>6, PersonFreed DEF ChangeRefused, webhookVars
<1>7. CASE ExitRefused(p)
  BY <1>7, PersonFreed DEF ExitRefused, webhookVars
<1>8. CASE PersonDies(p)
  BY <1>8, PersonFreed DEF PersonDies
<1> QED
  BY <1>1, <1>2, <1>3, <1>4, <1>5, <1>6, <1>7, <1>8, <1>9
LEMMA ReadExitInv ==
  ASSUME Inv, NEW p \in People, NEW to \in ExitTos, ReadExit(p, to)
  PROVE  Inv'
<1>1. exit.state \in ExitStates /\ to \in AllowedExit[exit.state]
  BY DEF ReadExit, Inv, Typed, ExitRow
<1>2. exit.state # "none" /\ to \in ExitStates
  BY <1>1, ExitTable
<1>3. PICK step \in {"change", "exit"} :
        /\ person' = [person EXCEPT ![p] = [Free EXCEPT !.at = step, !.exit = to]]
        /\ step = "exit" => to \in {"Approved", "Deleted", "Cancelled"}
        /\ step = "change" => to \in {"ReadOnly", "RetentionHold", "Cancelled"}
  BY DEF ReadExit
<1> DEFINE row == [Free EXCEPT !.at = step, !.exit = to]
<1>4. row \in PersonRow /\ row.at = step /\ row.exit = to
  BY <1>2 DEF PersonRow, Free, States
<1>5. /\ to = "Deleted" => exit.due /\ exit.approved
      /\ UNCHANGED <<tenant, exit, inbox, handler>> /\ person' = [person EXCEPT ![p] = row]
  BY <1>3 DEF ReadExit, webhookVars
<1> HIDE DEF row
<1> QED
  BY ZenonT(60), <1>2, <1>3, <1>4, <1>5, PersonTakes

LEMMA RequestExitInv ==
  ASSUME Inv, NEW p \in People, RequestExit(p)
  PROVE  Inv'
<1> DEFINE row == [NoExit EXCEPT !.state = "Requested", !.by = p]
<1>1. exit' = row /\ exit.state = "none" /\ UNCHANGED <<tenant, person, inbox, handler>>
  BY DEF RequestExit, WriteExit, webhookVars
<1>2. row \in ExitRow /\ row.state = "Requested" /\ ~row.due /\ ~row.deleted
  BY ExitToTypes DEF NoExit, ExitRow
<1> HIDE DEF row
<1>3. Typed'
  BY <1>1, <1>2 DEF Inv, Typed
<1>4. ReadsAreFresh'
  BY <1>1 DEF Inv, ReadsAreFresh, FreshRead
<1>5. ExitInOrder'
  BY <1>1, <1>2 DEF Inv, ExitInOrder, ExitTos
<1> QED
  BY <1>3, <1>4, <1>5 DEF Inv

LEMMA CommitExitInv ==
  ASSUME Inv, NEW p \in People, CommitExit(p)
  PROVE  Inv'
<1> DEFINE row == NextRow(p)
           to  == person[p].exit
<1>1. /\ exit' = row /\ RowAllows(row) /\ person' = [person EXCEPT ![p] = Free]
      /\ UNCHANGED <<tenant, inbox, handler>>
  BY DEF CommitExit, WriteExit, webhookVars
<1>2. to \in ExitTos /\ to \in ExitStates /\ exit \in ExitRow
  BY ExitToTypes DEF CommitExit, Inv, ExitInOrder, Typed
<1>3. /\ row \in ExitRow /\ row.state = to /\ row.due = exit.due
      /\ row.approved = (exit.approved \/ to = "Approved")
      /\ row.cancelled = (exit.cancelled \/ to = "Cancelled")
      /\ row.deleted = (exit.deleted \/ to = "Deleted")
  BY <1>2 DEF NextRow, ExitRow
<1>4. ~(row.deleted /\ row.cancelled)
  BY <1>1 DEF RowAllows
<1>5. /\ to = "RetentionHold" => tenant.state = "Closed"
      /\ to = "Deleted" => tenant.state = "Closed" /\ exit.approved
      /\ to # "none"
  BY <1>2 DEF CommitExit, Inv, ExitInOrder, ExitTos
<1>6. Free \in PersonRow /\ Free.at = "idle" /\ Free.exit = "none"
  BY ExitToTypes DEF Free, PersonRow, States
<1> HIDE DEF row, to, Free
<1>7. \A q \in People : person'[q] = IF q = p THEN Free ELSE person[q]
  BY <1>1 DEF Inv, Typed
<1>8. Typed'
  BY <1>1, <1>3, <1>6 DEF Inv, Typed
<1>9. ReadsAreFresh'
  BY <1>1, <1>6, <1>7 DEF Inv, ReadsAreFresh, FreshRead
<1>10. ExitInOrder'
  <2>1. exit'.state # "none" /\ (exit.approved => exit'.approved) /\ tenant' = tenant
    BY <1>1, <1>3, <1>5
  <2>2. \A q \in People : q # p => person'[q] = person[q]
    BY <1>7
  <2>3. person'[p] = Free
    BY <1>7
  <2>4. /\ exit'.state = "RetentionHold" \/ exit'.due => tenant'.state = "Closed"
        /\ exit'.deleted => tenant'.state = "Closed" /\ exit'.approved
        /\ ~(exit'.deleted /\ exit'.cancelled)
    BY <1>1, <1>3, <1>4, <1>5, <2>1 DEF Inv, ExitInOrder
  <2> QED
    BY <1>6, <2>1, <2>2, <2>3, <2>4 DEF Inv, ExitInOrder
<1> QED
  BY <1>8, <1>9, <1>10 DEF Inv

LEMMA RetentionEndsInv ==
  ASSUME Inv, RetentionEnds
  PROVE  Inv'
<1>1. /\ exit.state = "RetentionHold" /\ exit' = [exit EXCEPT !.due = TRUE]
      /\ UNCHANGED <<tenant, person, inbox, handler>>
  BY DEF RetentionEnds, webhookVars
<1>2. exit' \in ExitRow /\ exit'.state = exit.state /\ exit'.approved = exit.approved
      /\ exit'.deleted = exit.deleted /\ exit'.cancelled = exit.cancelled
  BY <1>1 DEF Inv, Typed, ExitRow
<1>3. Typed'
  BY <1>1, <1>2 DEF Inv, Typed
<1>4. ReadsAreFresh'
  BY <1>1 DEF Inv, ReadsAreFresh, FreshRead
<1>5. ExitInOrder'
  BY <1>1, <1>2 DEF Inv, ExitInOrder
<1> QED
  BY <1>3, <1>4, <1>5 DEF Inv

(* The company moves: whoever moves it had read the version it still has.  *)
LEMMA CompanyMoves ==
  ASSUME Inv, tenant.state # "Closed", NEW to \in States, NEW overdue \in BOOLEAN, NEW who, Move(to, overdue, who)
  PROVE  /\ tenant' \in [state : States, version : Nat, overdue : BOOLEAN]
         /\ tenant'.version = tenant.version + 1 /\ tenant'.state = to
BY DEF Inv, Typed, Move

LEMMA FreshAfterMove ==
  ASSUME Inv, tenant'.version = tenant.version + 1,
         \A q \in People : person'[q].at \in {"move", "due"} => person'[q] = person[q],
         \A h \in Handlers : handler'[h].at = "move" => handler'[h] = handler[h]
  PROVE  ReadsAreFresh'
<1>1. ASSUME NEW v, FreshRead(v)
      PROVE  FreshRead(v)'
  BY <1>1 DEF FreshRead, Inv, Typed
<1> QED
  BY <1>1 DEF Inv, ReadsAreFresh

LEMMA CommitMoveInv ==
  ASSUME Inv, NEW p \in People, CommitMove(p)
  PROVE  /\ Inv' /\ tenant.state # "Closed"
<1> DEFINE to  == person[p].to
           row == [Free EXCEPT !.at = IF person[p].exit = "none" THEN "idle" ELSE "exit", !.exit = person[p].exit]
<1>1. tenant.state # "Closed"
  BY DEF CommitMove, VersionIsRead, Inv, ReadsAreFresh, FreshRead
<1>2. person[p] \in PersonRow /\ person[p].at = "move" /\ to \in States
  BY DEF CommitMove, Inv, Typed, PersonRow
<1>3. Move(to, ClearsReason, "person") /\ person' = [person EXCEPT ![p] = row] /\ UNCHANGED <<exit, inbox, handler>>
  BY DEF CommitMove, webhookVars
<1>4. /\ tenant' \in [state : States, version : Nat, overdue : BOOLEAN]
      /\ tenant'.version = tenant.version + 1 /\ tenant'.state = to
  BY <1>1, <1>2, <1>3, CompanyMoves DEF ClearsReason
<1>5. /\ row \in PersonRow /\ row.at \in {"idle", "exit"}
      /\ row.at = "idle" => row.exit = "none"
      /\ row.at = "exit" => row.exit = person[p].exit /\ person[p].exit # "none"
      /\ row.exit = person[p].exit
  BY <1>2, ExitToTypes DEF PersonRow, Free, States
<1> HIDE DEF row, Free, ClearsReason
<1>6. \A q \in People : person'[q] = IF q = p THEN row ELSE person[q]
  BY <1>3 DEF Inv, Typed
<1>7. Typed'
  BY <1>3, <1>4, <1>5 DEF Inv, Typed
<1>8. ReadsAreFresh'
  <2>1. \A q \in People : person'[q].at \in {"move", "due"} => person'[q] = person[q]
    BY <1>5, <1>6
  <2> QED
    BY <1>3, <1>4, <2>1, FreshAfterMove
<1>9. ExitInOrder'
  <2>1. /\ person[p].exit # "none" => person[p].exit \in ExitTos /\ person[p].exit # "Deleted"
        /\ person[p].exit = "RetentionHold" => to = "Closed"
    BY <1>2 DEF Inv, ExitInOrder
  <2> QED
    BY <1>1, <1>3, <1>4, <1>5, <1>6, <2>1 DEF Inv, ExitInOrder
<1> QED
  BY <1>1, <1>7, <1>8, <1>9 DEF Inv
LEMMA CommitEntitlementInv ==
  ASSUME Inv, NEW h \in Handlers, CommitEntitlement(h)
  PROVE  /\ Inv' /\ tenant.state # "Closed"
<1> DEFINE entitled == Verdict[handler[h].event] = "entitled"
           to == IF entitled THEN "Active" ELSE "ReadOnly"
<1>1. tenant.state # "Closed"
  BY DEF CommitEntitlement, At, VersionIsRead, Inv, ReadsAreFresh, FreshRead
<1>2. Move(to, ~entitled, "system") /\ GoTo(h, "applied", "nothing") /\ UNCHANGED <<exit, person, inbox>>
  BY DEF CommitEntitlement
<1>3. to \in States /\ (~entitled) \in BOOLEAN
  BY DEF States
<1> HIDE DEF entitled, to
<1>4. /\ tenant' \in [state : States, version : Nat, overdue : BOOLEAN]
      /\ tenant'.version = tenant.version + 1
  BY <1>1, <1>2, <1>3, CompanyMoves
<1>5. /\ handler' \in [Handlers -> HandlerRow]
      /\ \A g \in Handlers : handler'[g].at = "move" => handler'[g] = handler[g]
  BY ZenonT(60), <1>2 DEF GoTo, Inv, Typed, HandlerRow, HandlerSteps, Seen
<1>6. Typed'
  BY <1>2, <1>4, <1>5 DEF Inv, Typed
<1>7. ReadsAreFresh'
  BY <1>2, <1>4, <1>5, FreshAfterMove
<1>8. ExitInOrder'
  BY <1>1, <1>2 DEF Inv, ExitInOrder
<1> QED
  BY <1>1, <1>6, <1>7, <1>8 DEF Inv

LEMMA ApplyDueInv ==
  ASSUME Inv, NEW p \in People, ApplyDue(p)
  PROVE  /\ Inv' /\ (tenant' # tenant => tenant.state # "Closed")
<1>1. /\ person' = [person EXCEPT ![p] = Free] /\ UNCHANGED <<exit, inbox, handler>>
      /\ person[p] \in PersonRow /\ tenant.overdue \in BOOLEAN
  BY DEF ApplyDue, webhookVars, Inv, Typed
<1>2. CASE ~VersionIsRead(person[p].version)
  <2>1. tenant' = tenant
    BY <1>2 DEF ApplyDue
  <2> QED
    BY <1>1, <2>1, PersonFreed
<1>3. CASE VersionIsRead(person[p].version)
  <2>1. tenant.state # "Closed"
    BY <1>3 DEF ApplyDue, VersionIsRead, Inv, ReadsAreFresh, FreshRead
  <2>2. Move(person[p].to, tenant.overdue, "schedule") /\ person[p].to \in States
    BY <1>1, <1>3 DEF ApplyDue, PersonRow
  <2>3. /\ tenant' \in [state : States, version : Nat, overdue : BOOLEAN]
        /\ tenant'.version = tenant.version + 1
    BY <1>1, <2>1, <2>2, CompanyMoves
  <2>4. Free \in PersonRow /\ Free.at = "idle" /\ Free.exit = "none"
    BY ExitToTypes DEF Free, PersonRow, States
  <2> HIDE DEF Free
  <2>5. \A q \in People : person'[q] = IF q = p THEN Free ELSE person[q]
    BY <1>1 DEF Inv, Typed
  <2>6. Typed'
    BY <1>1, <2>3, <2>4 DEF Inv, Typed
  <2>7. ReadsAreFresh'
    <3>1. \A q \in People : person'[q].at \in {"move", "due"} => person'[q] = person[q]
      BY <2>4, <2>5
    <3> QED
      BY <1>1, <2>3, <3>1, FreshAfterMove
  <2>8. ExitInOrder'
    BY <1>1, <2>1, <2>4, <2>5 DEF Inv, ExitInOrder
  <2> QED
    BY <2>1, <2>6, <2>7, <2>8 DEF Inv
<1> QED
  BY <1>2, <1>3

(* The record of the changes is kept by every step.                        *)
LEMMA HistoryStep ==
  ASSUME Inv, HistoryInv, [Next]_vars
  PROVE  HistoryInv'
<1>0. person \in [People -> PersonRow] /\ planned \in Seq(States)
  BY DEF Inv, Typed, HistoryInv
<1>1. CASE UNCHANGED <<person, history, planned>>
  BY <1>0, <1>1, HistoryRests DEF NoneRead
<1>2. ASSUME NEW h \in Handlers, HandlerStep(h)
      PROVE  HistoryInv'
  <2>1. CASE CommitEntitlement(h)
    <3>1. "Active" \in States /\ "ReadOnly" \in States
      BY DEF States
    <3>2. \E to \in States : Record(to, "system")
      BY <2>1, <3>1 DEF CommitEntitlement
    <3>3. planned' = planned /\ NoneRead
      BY <2>1 DEF CommitEntitlement, NoneRead
    <3> QED
      BY <3>2, <3>3, RecordedAs
  <2>2. CASE ~CommitEntitlement(h)
    <3>1. UNCHANGED <<person, history, planned>>
      BY <1>2, <2>2 DEF HandlerStep, companyVars, ReadSubscription, Sync, ChangePlan, ReadCompany, EntitlementRefused
    <3> QED
      BY <1>1, <3>1
  <2> QED
    BY <2>1, <2>2
<1>3. ASSUME NEW p \in People, NEW row, row.at \notin {"listed", "due"}, person' = [person EXCEPT ![p] = row],
             UNCHANGED <<history, planned>>
      PROVE  HistoryInv'
  BY <1>0, <1>3, HistoryRests DEF NoneRead
<1>4. ASSUME NEW p \in People, CommitMove(p)
      PROVE  HistoryInv'
  <2>1. Record(person[p].to, "person") /\ person[p].to \in States /\ planned' = planned
    BY <1>0, <1>4 DEF CommitMove, PersonRow
  <2>2. NoneRead
    BY <1>0, <1>4 DEF CommitMove, NoneRead, Free
  <2> QED
    BY <2>1, <2>2, RecordedAs
<1>5. ASSUME NEW p \in People, NEW to \in States, Schedule(p, to)
      PROVE  HistoryInv'
  BY <1>5, HistoryRests DEF Schedule, NoneRead
<1>6. ASSUME NEW p \in People, ListDue(p)
      PROVE  HistoryInv'
  <2>1. PICK i \in Due : person' = [person EXCEPT ![p] = [Free EXCEPT !.at = "listed", !.row = i]]
    BY <1>6 DEF ListDue
  <2>2. i \in DOMAIN history /\ history[i].who = "person" /\ UNCHANGED <<history, planned>>
    BY <1>6, <2>1 DEF ListDue, Due, HistoryInv
  <2>3. person'[p].at = "listed" /\ person'[p].row = i /\ \A q \in People \ {p} : person'[q] = person[q]
    BY <1>0, <2>1 DEF Free
  <2> QED
    BY <2>2, <2>3 DEF HistoryInv
<1>7. ASSUME NEW p \in People, ReadDue(p)
      PROVE  HistoryInv'
  <2> DEFINE to == history[person[p].row].to
  <2>1. CASE to \in AllowedNext[tenant.state]
    <3>1. /\ person'[p].at = "due" /\ person'[p].row = person[p].row /\ person'[p].to = to
          /\ \A q \in People \ {p} : person'[q] = person[q]
      BY <1>0, <1>7, <2>1 DEF ReadDue, PersonRow
    <3>2. person[p].at = "listed" /\ UNCHANGED <<history, planned>>
      BY <1>7 DEF ReadDue
    <3> QED
      BY <3>1, <3>2 DEF HistoryInv
  <2>2. CASE to \notin AllowedNext[tenant.state]
    BY <1>3, <1>7, <2>2 DEF ReadDue, Free
  <2> QED
    BY <2>1, <2>2
<1>8. ASSUME NEW p \in People, ApplyDue(p)
      PROVE  HistoryInv'
  <2>1. person[p].row \in DOMAIN history
    BY <1>8 DEF ApplyDue, HistoryInv
  <2>2. history' = [history EXCEPT ![person[p].row].applied = TRUE] /\ planned' = planned
    BY <1>8 DEF ApplyDue
  <2>3. NoneRead
    BY <1>0, <1>8 DEF ApplyDue, NoneRead, Free
  <2> QED
    BY <2>1, <2>2, <2>3, HistoryMarked
<1>9. CASE DateComes
  <2>1. planned[1] \in States
    <3>1. 1 \in 1..Len(planned)
      BY <1>0, <1>9, EmptySeq DEF DateComes
    <3> QED
      BY <1>0, <3>1, ElementOfSeq
  <2>2. [to |-> planned[1], who |-> "person", applied |-> FALSE] \in Change
    BY <2>1 DEF Change
  <2>3. planned' \in Seq(States) /\ NoneRead
    BY <1>9 DEF DateComes, NoneRead
  <2> QED
    BY <1>9, <2>2, <2>3, HistoryGrows DEF DateComes
<1>10. ASSUME NEW p \in People, MoveRefused(p) \/ ChangeRefused(p) \/ CommitExit(p) \/ ExitRefused(p) \/ PersonDies(p)
       PROVE  HistoryInv'
  <2>1. person' = [person EXCEPT ![p] = Free] /\ UNCHANGED <<history, planned>> /\ Free.at = "idle"
    BY <1>10 DEF MoveRefused, ChangeRefused, CommitExit, ExitRefused, PersonDies, Free
  <2> QED
    BY <1>3, <2>1
<1>11. ASSUME NEW p \in People, NEW to, NEW e, Decide(p, to, "move", e)
       PROVE  HistoryInv'
  BY <1>3, <1>11 DEF Decide
<1>12. ASSUME NEW p \in People, NEW to, ReadExit(p, to)
       PROVE  HistoryInv'
  <2>1. PICK step \in {"exit", "change"} : person' = [person EXCEPT ![p] = [Free EXCEPT !.at = step, !.exit = to]]
    BY <1>12 DEF ReadExit
  <2> QED
    BY <1>3, <1>12, <2>1 DEF ReadExit, Free
<1>13. ASSUME NEW p \in People, PersonStep(p)
       PROVE  HistoryInv'
  <2>1. CASE UNCHANGED <<person, history, planned>>
    BY <1>1, <2>1
  <2> QED
    BY <1>4, <1>5, <1>6, <1>7, <1>8, <1>10, <1>11, <1>12, <1>13, <2>1
       DEF PersonStep, ExitStep, Ask, RequestExit, BeginChange
<1> QED
  BY <1>1, <1>2, <1>9, <1>13 DEF Next, Happens, RetentionEnds, WebhookFault, companyVars, vars

(* Every step keeps the invariant, and only a company that is not closed   *)
(* changes its state.                                                      *)
LEMMA StepInv ==
  ASSUME Inv, HistoryInv, [Next]_vars
  PROVE  Inv' /\ (tenant.state = "Closed" => tenant' = tenant)
<1>2. ASSUME NEW e \in Events, Happens(e)
      PROVE  Inv' /\ tenant' = tenant
  <2>1. UNCHANGED <<tenant, exit, person, inbox, handler>>
    BY <1>2 DEF Happens, companyVars
  <2> QED
    BY <2>1, NothingMoves
<1>3. ASSUME NEW h \in Handlers, (WebhookStep(h) \/ WebhookFault(h)) /\ UNCHANGED companyVars
      PROVE  Inv' /\ tenant' = tenant
  BY <1>3, WebhookSteps, DeliverySteps DEF companyVars, Inv
<1>4. ASSUME NEW h \in Handlers, \/ ReadSubscription(h) \/ Sync(h) \/ ChangePlan(h)
                                \/ ReadCompany(h) \/ EntitlementRefused(h)
      PROVE  Inv' /\ tenant' = tenant
  <2>1. tenant' = tenant
    BY <1>4 DEF ReadSubscription, Sync, ChangePlan, ReadCompany, EntitlementRefused, companyVars
  <2> QED
    BY <1>4, <2>1, SubscriptionSteps
<1>5. ASSUME NEW h \in Handlers, CommitEntitlement(h)
      PROVE  Inv' /\ tenant.state # "Closed"
  BY <1>5, CommitEntitlementInv
<1>6. ASSUME NEW p \in People,
             \/ \E to \in States : Ask(p, to) \/ Schedule(p, to)
             \/ MoveRefused(p) \/ ListDue(p) \/ ReadDue(p) \/ BeginChange(p) \/ ChangeRefused(p) \/ ExitRefused(p)
             \/ PersonDies(p)
      PROVE  Inv' /\ tenant' = tenant
  <2>1. tenant' = tenant
    BY <1>6 DEF Ask, Schedule, MoveRefused, ListDue, ReadDue, BeginChange, ChangeRefused, ExitRefused, PersonDies, Decide
  <2> QED
    BY <1>6, <2>1, PeopleSteps
<1>7. ASSUME NEW p \in People, CommitMove(p)
      PROVE  Inv' /\ tenant.state # "Closed"
  BY <1>7, CommitMoveInv
<1>8. ASSUME NEW p \in People, ApplyDue(p)
      PROVE  Inv' /\ (tenant.state = "Closed" => tenant' = tenant)
  BY <1>8, ApplyDueInv
<1>9. ASSUME NEW p \in People, NEW to \in ExitTos, ReadExit(p, to)
      PROVE  Inv' /\ tenant' = tenant
  BY <1>9, ReadExitInv DEF ReadExit
<1>10. ASSUME NEW p \in People, RequestExit(p) \/ CommitExit(p)
       PROVE  Inv' /\ tenant' = tenant
  BY <1>10, RequestExitInv, CommitExitInv DEF RequestExit, CommitExit
<1>11. CASE DateComes
  <2>1. UNCHANGED <<tenant, exit, person, inbox, handler>>
    BY <1>11 DEF DateComes, webhookVars
  <2> QED
    BY <2>1, NothingMoves
<1>12. CASE RetentionEnds
  BY <1>12, RetentionEndsInv DEF RetentionEnds
<1>13. CASE UNCHANGED vars
  <2>1. UNCHANGED <<tenant, exit, person, inbox, handler>>
    BY <1>13 DEF vars, companyVars, webhookVars
  <2> QED
    BY <2>1, NothingMoves
<1> QED
  BY <1>2, <1>3, <1>4, <1>5, <1>6, <1>7, <1>8, <1>9, <1>10, <1>11, <1>12, <1>13
     DEF Next, HandlerStep, PersonStep, ExitStep, ExitTos

(* The strengthened invariant holds throughout.                            *)
LEMMA InvAlways == Spec => [](Inv /\ HistoryInv)
<1>1. Init => Inv /\ HistoryInv
  BY InitInv, InitHistory
<1>2. Inv /\ HistoryInv /\ [Next]_vars => (Inv /\ HistoryInv)'
  BY StepInv, HistoryStep
<1> QED
  BY <1>1, <1>2, PTL DEF Spec

(***************************************************************************)
(* The types of the rest.                                                  *)
(***************************************************************************)
TypedRest ==
  /\ subscription \in [synced : Nat, paid : BOOLEAN, plan : Plans]
  /\ moves \in 0..MaxMoves /\ madeBy \in {"system", "person", "schedule"} /\ crossed \in BOOLEAN
  /\ owed \in [Events -> {"no", "yes", "early", "answered"}]
  /\ \A h \in Handlers : handler[h].at # "idle" => handler[h].event \in Events
  /\ failed \in [Events -> Seq(Watched \cup {"elsewhere"})] /\ deaths \in 0..MaxDeaths

LEMMA MovesCount == ASSUME TypedRest, moves < MaxMoves PROVE moves + 1 \in 0..MaxMoves
BY LifecycleAssumption DEF TypedRest

LEMMA DeathsCount == ASSUME TypedRest, deaths < MaxDeaths PROVE deaths + 1 \in 0..MaxDeaths
BY LifecycleAssumption DEF TypedRest

(* The steps every event shares.                                           *)
LEMMA WebhookRest ==
  ASSUME Typed, TypedRest, NEW h \in Handlers, WebhookStep(h) \/ WebhookFault(h),
         UNCHANGED <<subscription, moves, madeBy, crossed>>
  PROVE  TypedRest'
<1> USE DEF Typed, TypedRest, HandlerRow
<1>1. ASSUME NEW e \in Events, Receive(h, e)
      PROVE  TypedRest'
  BY <1>1 DEF Receive
<1>2. CASE Claim(h)
  BY <1>2 DEF Claim
<1>3. CASE Duplicate(h)
  BY <1>3 DEF Duplicate, Answer, Resting
<1>4. CASE Close(h)
  BY <1>4 DEF Close, Answer, Resting
<1>5. CASE StepFails(h)
  <2> DEFINE e == handler[h].event
             step == IF handler[h].at \in Watched THEN handler[h].at ELSE "elsewhere"
  <2>1. e \in Events /\ failed' = [failed EXCEPT ![e] = Append(failed[e], step)] /\ UNCHANGED <<owed, deaths>>
    BY <1>5 DEF StepFails
  <2>2. step \in Watched \cup {"elsewhere"} /\ failed[e] \in Seq(Watched \cup {"elsewhere"})
    BY <2>1
  <2> HIDE DEF step
  <2>3. Append(failed[e], step) \in Seq(Watched \cup {"elsewhere"})
    BY <2>2, AppendProperties
  <2> HIDE DEF e
  <2>4. failed' \in [Events -> Seq(Watched \cup {"elsewhere"})]
    BY <2>1, <2>3
  <2>5. \A g \in Handlers : handler'[g].event = handler[g].event /\ (handler'[g].at # "idle" => handler[g].at # "idle")
    BY <1>5 DEF StepFails
  <2> QED
    BY <2>1, <2>4, <2>5
<1>6. CASE CloseFailed(h)
  BY <1>6 DEF CloseFailed, Resting
<1>7. CASE Die(h)
  BY <1>7, DeathsCount DEF Die, Resting
<1> QED
  BY <1>1, <1>2, <1>3, <1>4, <1>5, <1>6, <1>7 DEF WebhookStep, WebhookFault

(* The steps of a subscription event.                                      *)
LEMMA SubscriptionRest ==
  ASSUME Typed, TypedRest, NEW h \in Handlers,
         \/ ReadSubscription(h) \/ Sync(h) \/ ChangePlan(h)
         \/ ReadCompany(h) \/ EntitlementRefused(h) \/ CommitEntitlement(h)
  PROVE  TypedRest'
<1> DEFINE e == handler[h].event
<1>1. PICK step, seen : step \in HandlerSteps /\ GoTo(h, step, seen) /\ handler[h].at # "idle"
  BY DEF ReadSubscription, Sync, ChangePlan, ReadCompany, EntitlementRefused, CommitEntitlement, At, HandlerSteps
<1>2. e \in Events /\ \A g \in Handlers : handler'[g].at # "idle" => handler'[g].event \in Events
  BY <1>1 DEF GoTo, Typed, TypedRest, HandlerRow
<1>3. Stamp[e] \in Nat /\ Sells[e] \in Plans
  BY <1>2, LifecycleAssumption
<1>4. subscription' \in [synced : Nat, paid : BOOLEAN, plan : Plans]
  <2>1. CASE Sync(h)
    <3>1. subscription' = [subscription EXCEPT !.synced = Stamp[e], !.paid = (Verdict[e] = "entitled")]
      BY <2>1 DEF Sync
    <3> HIDE DEF e
    <3> QED
      BY <1>3, <3>1 DEF TypedRest
  <2>2. CASE ChangePlan(h)
    <3>1. subscription' = [subscription EXCEPT !.plan = Sells[e]]
      BY <2>2 DEF ChangePlan
    <3> HIDE DEF e
    <3> QED
      BY <1>3, <3>1 DEF TypedRest
  <2>3. CASE subscription' = subscription
    BY <2>3 DEF TypedRest
  <2> QED
    BY <2>1, <2>2, <2>3 DEF ReadSubscription, ReadCompany, EntitlementRefused, CommitEntitlement, companyVars
<1>5. madeBy' \in {"system", "person", "schedule"} /\ crossed' \in BOOLEAN
  <2>1. CASE ReadSubscription(h)
    BY <2>1 DEF ReadSubscription, TypedRest
  <2>2. CASE CommitEntitlement(h)
    BY <2>2 DEF CommitEntitlement, Move, TypedRest
  <2>3. CASE UNCHANGED <<madeBy, crossed>>
    BY <2>3 DEF TypedRest
  <2> QED
    BY <2>1, <2>2, <2>3 DEF Sync, ChangePlan, ReadCompany, EntitlementRefused, companyVars
<1>6. UNCHANGED <<moves, owed, failed, deaths>>
  BY DEF ReadSubscription, Sync, ChangePlan, ReadCompany, EntitlementRefused, CommitEntitlement, companyVars
<1> QED
  BY <1>2, <1>4, <1>5, <1>6 DEF TypedRest

(* The steps of a person, and of the calendar.                             *)
LEMMA PersonRest ==
  ASSUME TypedRest, NEW p \in People, PersonStep(p)
  PROVE  TypedRest'
<1>1. handler' = handler /\ UNCHANGED <<subscription, crossed, owed, failed>>
  BY DEF PersonStep, ExitStep, Ask, Schedule, CommitMove, MoveRefused, ListDue, ReadDue, ApplyDue, RequestExit, ReadExit,
         BeginChange, ChangeRefused, CommitExit, ExitRefused, PersonDies, Decide, WriteExit, webhookVars
<1>2. deaths' \in 0..MaxDeaths
  <2>1. CASE PersonDies(p)
    BY <2>1, DeathsCount DEF PersonDies
  <2>2. CASE deaths' = deaths
    BY <2>2 DEF TypedRest
  <2> QED
    BY <2>1, <2>2 DEF PersonStep, ExitStep, Ask, Schedule, CommitMove, MoveRefused, ListDue, ReadDue, ApplyDue, RequestExit,
       ReadExit, BeginChange, ChangeRefused, CommitExit, ExitRefused, Decide, WriteExit, webhookVars
<1>3. moves' \in 0..MaxMoves
  <2>1. CASE moves < MaxMoves /\ moves' = moves + 1
    BY <2>1, MovesCount
  <2>2. CASE moves' = moves
    BY <2>2 DEF TypedRest
  <2> QED
    BY <2>1, <2>2 DEF PersonStep, ExitStep, Ask, Schedule, CommitMove, MoveRefused, ListDue, ReadDue, ApplyDue, RequestExit,
       ReadExit, BeginChange, ChangeRefused, CommitExit, ExitRefused, PersonDies, WriteExit
<1>4. madeBy' \in {"system", "person", "schedule"}
  BY DEF PersonStep, ExitStep, Ask, Schedule, CommitMove, MoveRefused, ListDue, ReadDue, ApplyDue, RequestExit, ReadExit,
     BeginChange, ChangeRefused, CommitExit, ExitRefused, PersonDies, Decide, WriteExit, Move, TypedRest
<1> QED
  BY <1>1, <1>2, <1>3, <1>4 DEF TypedRest

LEMMA RestStep ==
  ASSUME Inv, TypedRest, [Next]_vars
  PROVE  TypedRest'
<1>1. ASSUME NEW e \in Events, Happens(e)
      PROVE  TypedRest'
  BY <1>1 DEF Happens, companyVars, TypedRest
<1>2. ASSUME NEW h \in Handlers, (WebhookStep(h) \/ WebhookFault(h)) /\ UNCHANGED companyVars
      PROVE  TypedRest'
  BY <1>2, WebhookRest DEF Inv, companyVars
<1>3. ASSUME NEW h \in Handlers, \/ ReadSubscription(h) \/ Sync(h) \/ ChangePlan(h)
                                \/ ReadCompany(h) \/ EntitlementRefused(h) \/ CommitEntitlement(h)
      PROVE  TypedRest'
  BY <1>3, SubscriptionRest DEF Inv
<1>4. CASE DateComes
  <2>1. UNCHANGED <<subscription, moves, madeBy, crossed, owed, handler, failed, deaths>>
    BY <1>4 DEF DateComes, webhookVars
  <2> QED
    BY <2>1 DEF TypedRest
<1>5. CASE RetentionEnds
  BY <1>5 DEF RetentionEnds, webhookVars, TypedRest
<1>6. CASE UNCHANGED vars
  BY <1>6 DEF vars, companyVars, webhookVars, TypedRest
<1> QED
  BY <1>1, <1>2, <1>3, <1>4, <1>5, <1>6, PersonRest DEF Next, HandlerStep

LEMMA RestAlways == Spec => []TypedRest
<1>1. Init => TypedRest
  <2> SUFFICES ASSUME Init PROVE TypedRest
    OBVIOUS
  <2>1. (CHOOSE p \in Plans : TRUE) \in Plans
    BY LifecycleAssumption
  <2>2. /\ subscription \in [synced : Nat, paid : BOOLEAN, plan : Plans]
        /\ moves \in 0..MaxMoves /\ deaths \in 0..MaxDeaths
    BY <2>1, LifecycleAssumption DEF Init, WebhookInit
  <2>3. failed \in [Events -> Seq(Watched \cup {"elsewhere"})] /\ owed \in [Events -> {"no", "yes", "early", "answered"}]
    BY DEF Init, WebhookInit
  <2>4. \A h \in Handlers : handler[h].at = "idle"
    BY DEF Init, WebhookInit, Resting
  <2> QED
    BY <2>2, <2>3, <2>4 DEF Init, TypedRest
<1>2. Inv /\ TypedRest /\ [Next]_vars => TypedRest'
  BY RestStep
<1> QED
  BY <1>1, <1>2, InvAlways, PTL DEF Spec

(* Every variable keeps to its type.                                       *)
THEOREM TypeCorrect == Spec => []TypeOK
<1>1. Inv /\ HistoryInv /\ TypedRest => TypeOK
  BY DEF Inv, HistoryInv, Change, Typed, TypedRest, TypeOK, ExitRow, PersonRow, HandlerRow, Seen
<1> QED
  BY <1>1, InvAlways, RestAlways, PTL

(* A closed company stays closed, whoever read it before it was closed and *)
(* writes afterwards: the version in the update of the lifecycle refuses   *)
(* the write (transition, applyBillingEntitlement, applyDueTransitions).   *)
THEOREM ClosedIsForEver == Spec => ClosedStaysClosed
<1>1. Inv /\ HistoryInv /\ [Next]_vars => [tenant.state = "Closed" => tenant'.state = "Closed"]_vars
  BY StepInv
<1> QED
  BY <1>1, InvAlways, PTL DEF Spec, ClosedStaysClosed

(* The content of a company is deleted only when the company is closed and *)
(* the exit approved and not cancelled, whatever the people of the platform*)
(* do at the same time and wherever their requests die (deleteContent,     *)
(* beginRetentionHold, cancel).                                            *)
THEOREM ContentOutlivesAccess == Spec => []DeletedOnlyWhenClosed
<1>1. Inv => DeletedOnlyWhenClosed
  BY DEF Inv, ExitInOrder, DeletedOnlyWhenClosed
<1> QED
  BY <1>1, InvAlways, PTL

(***************************************************************************)
(* Nobody's decision is overruled by the billing.                          *)
(***************************************************************************)
LatestByTheSystem(k) ==
  /\ history[k].applied /\ history[k].to = "ReadOnly" /\ history[k].who = "system"
  /\ \A j \in DOMAIN history : j > k => ~(history[j].applied /\ history[j].to = "ReadOnly")

(* While the company is read-only by the system's own doing, the latest    *)
(* change into it is the system's, and stays so: whoever is about to mark  *)
(* a change into it marks an earlier one.                                  *)
SystemsReadOnly ==
  madeBy = "system" /\ tenant.state = "ReadOnly" =>
    \E k \in DOMAIN history :
      /\ LatestByTheSystem(k)
      /\ \A p \in People : person[p].at = "due" /\ person[p].to = "ReadOnly" => person[p].row < k

(* A delivery that is about to move the company may still do so.           *)
BillingKnows(h) ==
  handler[h].at = "move" /\ handler[h].seen = tenant.version =>
    IF Verdict[handler[h].event] = "entitled" THEN tenant.state = "ReadOnly" /\ madeBy # "person"
    ELSE tenant.state = "Active"

MadeInv ==
  /\ tenant.state = "ReadOnly" /\ madeBy = "person" => ~ReadOnlyWasSystemMade
  /\ madeBy = "system" => tenant.state \in {"Active", "ReadOnly"}
  /\ SystemsReadOnly
  /\ \A h \in Handlers : BillingKnows(h)

(* What a step reads of the company: a delivery that comes to the move, or *)
(* a person to a due change, has just looked.                              *)
BillingLooked ==
  \A h \in Handlers : handler'[h].at = "move" =>
     \/ handler'[h] = handler[h]
     \/ /\ handler'[h].event = handler[h].event /\ BillingMoves(handler'[h].event)

DueLooked ==
  \A p \in People : person'[p].at = "due" =>
     person'[p] = person[p] \/ person'[p].to \in AllowedNext[tenant.state]

LEMMA NobodyMoves ==
  ASSUME MadeInv, UNCHANGED <<tenant, madeBy, history>>, BillingLooked, DueLooked
  PROVE  MadeInv'
<1>1. \A h \in Handlers : BillingKnows(h)'
  BY DEF MadeInv, BillingKnows, BillingLooked, BillingMoves
<1>2. SystemsReadOnly'
  <2> SUFFICES ASSUME madeBy = "system", tenant.state = "ReadOnly"
               PROVE  \E k \in DOMAIN history :
                        /\ LatestByTheSystem(k)
                        /\ \A p \in People : person'[p].at = "due" /\ person'[p].to = "ReadOnly" => person'[p].row < k
    BY DEF SystemsReadOnly, LatestByTheSystem
  <2>1. \A p \in People : person'[p].at = "due" /\ person'[p].to = "ReadOnly" => person'[p] = person[p]
    BY DEF DueLooked, AllowedNext, States
  <2> QED
    BY <2>1 DEF MadeInv, SystemsReadOnly
<1>3. ReadOnlyWasSystemMade' = ReadOnlyWasSystemMade
  BY DEF ReadOnlyWasSystemMade
<1> QED
  BY <1>1, <1>2, <1>3 DEF MadeInv

(* The record gains a change that is due, or one of it is marked applied,  *)
(* and the company stays as it is.                                         *)
LEMMA DueIsRecorded ==
  ASSUME HistoryInv, MadeInv, NEW to, history' = Append(history, [to |-> to, who |-> "person", applied |-> FALSE]),
         to \in States, UNCHANGED <<tenant, madeBy, person, handler>>
  PROVE  MadeInv'
<1>1. /\ DOMAIN history = 1..Len(history) /\ Len(history) \in Nat
      /\ DOMAIN history' = 1..(Len(history) + 1)
      /\ \A i \in DOMAIN history : history'[i] = history[i]
      /\ ~history'[Len(history) + 1].applied
  BY LenProperties, AppendProperties DEF HistoryInv, Change
<1>2. \A i \in DOMAIN history' : history'[i].applied => i \in DOMAIN history /\ history'[i] = history[i]
  BY <1>1
<1>3. ReadOnlyWasSystemMade' => ReadOnlyWasSystemMade
  BY <1>1, <1>2 DEF ReadOnlyWasSystemMade
<1>4. SystemsReadOnly'
  BY <1>1, <1>2 DEF MadeInv, SystemsReadOnly, LatestByTheSystem
<1> QED
  BY <1>3, <1>4 DEF MadeInv, BillingKnows

LEMMA DueIsMarked ==
  ASSUME Inv, HistoryInv, MadeInv, NEW p \in People, ApplyDue(p), ~VersionIsRead(person[p].version)
  PROVE  MadeInv'
<1> DEFINE i == person[p].row
<1>1. person \in [People -> PersonRow] /\ person[p].at = "due" /\ UNCHANGED <<tenant, madeBy, handler>>
      /\ i \in DOMAIN history /\ history[i].who = "person" /\ history[i].to = person[p].to
  BY DEF ApplyDue, Inv, Typed, HistoryInv, webhookVars
<1>2. NoneRead /\ DueLooked
  BY <1>1 DEF ApplyDue, NoneRead, DueLooked, Free
<1>3. /\ DOMAIN history' = DOMAIN history
      /\ \A j \in DOMAIN history : j # i => history'[j] = history[j]
      /\ history'[i].to = history[i].to /\ history'[i].who = "person" /\ history'[i].applied
  BY <1>1, <1>2, HistoryMarked DEF ApplyDue
<1>4. DOMAIN history \subseteq Nat /\ i \in Nat
  BY <1>1, LenProperties DEF HistoryInv
<1>5. ReadOnlyWasSystemMade' => ReadOnlyWasSystemMade
  BY <1>1, <1>3 DEF ReadOnlyWasSystemMade
<1>6. SystemsReadOnly'
  <2> SUFFICES ASSUME madeBy = "system", tenant.state = "ReadOnly"
               PROVE  (\E k \in DOMAIN history :
                        /\ LatestByTheSystem(k)
                        /\ \A q \in People : person[q].at = "due" /\ person[q].to = "ReadOnly" => person[q].row < k)'
    BY <1>1 DEF SystemsReadOnly
  <2>1. PICK k \in DOMAIN history :
          /\ LatestByTheSystem(k)
          /\ \A q \in People : person[q].at = "due" /\ person[q].to = "ReadOnly" => person[q].row < k
    BY DEF MadeInv, SystemsReadOnly
  <2>2. i < k \/ history[i].to # "ReadOnly"
    BY <1>1, <2>1
  <2>3. LatestByTheSystem(k)'
    BY <1>3, <1>4, <2>1, <2>2 DEF LatestByTheSystem
  <2>4. \A q \in People : person'[q].at = "due" => person'[q] = person[q]
    BY <1>2 DEF NoneRead
  <2> QED
    BY <1>3, <2>1, <2>3, <2>4
<1> QED
  BY <1>1, <1>5, <1>6 DEF MadeInv, BillingKnows

(* The company moves at somebody's word.                                   *)
LEMMA SomebodyMoves ==
  ASSUME Inv, HistoryInv, MadeInv, NEW to \in States, NEW overdue, NEW who \in {"person", "schedule"}, Move(to, overdue, who),
         who = "person" => Record(to, who), UNCHANGED handler
  PROVE  MadeInv'
<1>1. madeBy' = who /\ tenant'.state = to /\ tenant'.version = tenant.version + 1
  BY DEF Move
<1>2. \A h \in Handlers : BillingKnows(h)'
  <2>1. \A h \in Handlers : handler[h].at = "move" => handler[h].seen \in Nat /\ handler[h].seen <= tenant.version
    BY DEF Inv, ReadsAreFresh, FreshRead
  <2>2. tenant.version \in Nat
    BY DEF Inv, Typed
  <2> QED
    BY <1>1, <2>1, <2>2 DEF BillingKnows
<1>3. ASSUME who = "person", to = "ReadOnly"
      PROVE  ~ReadOnlyWasSystemMade'
  <2>1. history' = Append(history, [to |-> to, who |-> who, applied |-> TRUE])
    BY <1>3 DEF Record
  <2>2. [to |-> to, who |-> who, applied |-> TRUE] \in Change
    BY <1>3 DEF Change
  <2>3. /\ DOMAIN history' = 1..(Len(history) + 1) /\ Len(history) \in Nat
        /\ history'[Len(history) + 1] = [to |-> to, who |-> who, applied |-> TRUE]
    BY <2>1, <2>2, LenProperties, AppendProperties DEF HistoryInv
  <2>4. Len(history) + 1 \in DOMAIN history' /\ history'[Len(history) + 1].applied
        /\ history'[Len(history) + 1].to = "ReadOnly" /\ history'[Len(history) + 1].who = "person"
    BY <1>3, <2>3
  <2>5. \A i \in DOMAIN history' : i # Len(history) + 1 => Len(history) + 1 > i
    BY <2>3
  <2> QED
    BY <2>4, <2>5 DEF ReadOnlyWasSystemMade
<1> QED
  BY <1>1, <1>2, <1>3 DEF MadeInv, SystemsReadOnly

LEMMA BillingMovesIt ==
  ASSUME Inv, HistoryInv, MadeInv, NEW h \in Handlers, CommitEntitlement(h)
  PROVE  MadeInv' /\ (madeBy = "person" => tenant.state = "Active")
<1> DEFINE entitled == Verdict[handler[h].event] = "entitled"
           to == IF entitled THEN "Active" ELSE "ReadOnly"
           last == [to |-> "ReadOnly", who |-> "system", applied |-> TRUE]
<1>1. /\ madeBy' = "system" /\ tenant'.state = to /\ tenant'.version = tenant.version + 1
      /\ Record(to, "system") /\ GoTo(h, "applied", "nothing") /\ UNCHANGED person
  BY DEF CommitEntitlement, Move
<1>2. handler[h].at = "move" /\ handler[h].seen = tenant.version
  BY DEF CommitEntitlement, At, VersionIsRead
<1>3. madeBy = "person" => tenant.state = "Active"
  BY <1>2 DEF MadeInv, BillingKnows
<1>4. \A g \in Handlers : BillingKnows(g)'
  <2>1. \A g \in Handlers : handler'[g].at = "move" => handler'[g] = handler[g]
    BY <1>1 DEF GoTo, Inv, Typed, HandlerRow
  <2>2. \A g \in Handlers : handler[g].at = "move" => handler[g].seen \in Nat /\ handler[g].seen <= tenant.version
    BY DEF Inv, ReadsAreFresh, FreshRead
  <2>3. tenant.version \in Nat
    BY DEF Inv, Typed
  <2> QED
    BY <1>1, <2>1, <2>2, <2>3 DEF BillingKnows
<1>5. ASSUME to = "ReadOnly"
      PROVE  (\E k \in DOMAIN history :
                /\ LatestByTheSystem(k)
                /\ \A p \in People : person[p].at = "due" /\ person[p].to = "ReadOnly" => person[p].row < k)'
  <2>0. PICK k : k = Len(history) + 1
    OBVIOUS
  <2>1. history' = Append(history, last) /\ last \in Change
    BY <1>1, <1>5 DEF Record, Change, States
  <2>2. /\ DOMAIN history' = 1..k /\ DOMAIN history = 1..Len(history) /\ Len(history) \in Nat
        /\ history'[k] = last
    BY <2>0, <2>1, LenProperties, AppendProperties DEF HistoryInv
  <2>3. LatestByTheSystem(k)' /\ k \in DOMAIN history'
    BY <2>0, <2>2 DEF LatestByTheSystem
  <2>4. \A p \in People : person'[p].at = "due" => person'[p].row < k
    BY <1>1, <2>0, <2>2 DEF HistoryInv
  <2> QED
    BY <2>3, <2>4
<1>6. SystemsReadOnly'
  BY <1>1, <1>5 DEF SystemsReadOnly
<1> QED
  BY <1>1, <1>3, <1>4, <1>6 DEF MadeInv

(* A delivery's step looks at the company when it comes to the move.       *)
LEMMA DeliveryLooks ==
  ASSUME Inv, NEW h \in Handlers,
         \/ WebhookStep(h) \/ WebhookFault(h)
         \/ ReadSubscription(h) \/ Sync(h) \/ ChangePlan(h) \/ ReadCompany(h) \/ EntitlementRefused(h)
  PROVE  BillingLooked
<1>0. handler \in [Handlers -> HandlerRow]
  BY DEF Inv, Typed
<1>1. CASE WebhookStep(h) \/ WebhookFault(h)
  <2>1. ASSUME NEW row, row.at # "move", handler' = [handler EXCEPT ![h] = row]
        PROVE  BillingLooked
    BY <1>0, <2>1 DEF BillingLooked
  <2>2. ASSUME NEW row, row.at # "move", handler' = [handler EXCEPT ![h].at = row.at, ![h].seen = row.seen]
        PROVE  BillingLooked
    BY <1>0, <2>2 DEF BillingLooked, HandlerRow
  <2>3. Resting.at # "move" /\ \A e, s : [at |-> "claiming", event |-> e, seen |-> s].at # "move"
    BY DEF Resting
  <2>4. ASSUME NEW e \in Events, Receive(h, e) PROVE BillingLooked
    BY <2>1, <2>4 DEF Receive
  <2>5. CASE Claim(h)
    BY <1>0, <2>5 DEF Claim, BillingLooked, HandlerRow
  <2>6. CASE Duplicate(h) \/ Close(h) \/ CloseFailed(h) \/ Die(h)
    <3>1. handler' = [handler EXCEPT ![h] = Resting]
      BY <2>6 DEF Duplicate, Close, CloseFailed, Die, Answer
    <3> QED
      BY <2>1, <2>3, <3>1
  <2>7. CASE StepFails(h)
    BY <1>0, <2>7 DEF StepFails, BillingLooked, HandlerRow
  <2> QED
    BY <1>1, <2>4, <2>5, <2>6, <2>7 DEF WebhookStep, WebhookFault
<1>2. CASE ReadCompany(h)
  BY <1>0, <1>2 DEF ReadCompany, GoTo, BillingLooked, HandlerRow
<1>3. CASE ReadSubscription(h) \/ Sync(h) \/ ChangePlan(h) \/ EntitlementRefused(h)
  <2>1. PICK step \in {"sync", "ignored", "plan", "entitle", "failing"} : GoTo(h, step, "nothing")
    BY <1>3 DEF ReadSubscription, Sync, ChangePlan, EntitlementRefused
  <2> QED
    BY <1>0, <2>1 DEF GoTo, BillingLooked, HandlerRow
<1> QED
  BY <1>1, <1>2, <1>3

LEMMA DeliveryRests == handler' = handler => BillingLooked
BY DEF BillingLooked

LEMMA MadeStep ==
  ASSUME Inv, HistoryInv, MadeInv, [Next]_vars
  PROVE  MadeInv' /\ (madeBy = "person" /\ madeBy' = "system" => tenant.state = "Active")
<1>0. person \in [People -> PersonRow]
  BY DEF Inv, Typed
<1>1. CASE UNCHANGED <<tenant, madeBy, history, person, handler>>
  BY <1>1, NobodyMoves, DeliveryRests DEF DueLooked
<1>2. ASSUME NEW h \in Handlers, HandlerStep(h) \/ (WebhookFault(h) /\ UNCHANGED companyVars)
      PROVE  MadeInv' /\ (madeBy = "person" /\ madeBy' = "system" => tenant.state = "Active")
  <2>1. CASE CommitEntitlement(h)
    BY <2>1, BillingMovesIt
  <2>2. CASE ~CommitEntitlement(h)
    <3>1. UNCHANGED <<tenant, madeBy, history, person>>
      BY <1>2, <2>2 DEF HandlerStep, companyVars, ReadSubscription, Sync, ChangePlan, ReadCompany, EntitlementRefused
    <3>2. BillingLooked
      BY <1>2, <2>2, DeliveryLooks DEF HandlerStep
    <3> QED
      BY <3>1, <3>2, NobodyMoves DEF DueLooked
  <2> QED
    BY <2>1, <2>2
<1>3. CASE DateComes
  <2>1. planned[1] \in States
    <3>1. 1 \in 1..Len(planned) /\ planned \in Seq(States)
      BY <1>3, EmptySeq DEF DateComes, HistoryInv
    <3> QED
      BY <3>1, ElementOfSeq
  <2>2. history' = Append(history, [to |-> planned[1], who |-> "person", applied |-> FALSE])
        /\ UNCHANGED <<tenant, madeBy, person, handler>>
    BY <1>3 DEF DateComes, webhookVars
  <2> QED
    BY <2>1, <2>2, DueIsRecorded
<1>4. ASSUME NEW p \in People, CommitMove(p)
      PROVE  MadeInv' /\ madeBy' # "system"
  <2>1. Move(person[p].to, ClearsReason, "person") /\ Record(person[p].to, "person") /\ UNCHANGED handler
        /\ person[p].to \in States
    BY <1>0, <1>4 DEF CommitMove, webhookVars, PersonRow
  <2>2. madeBy' = "person"
    BY <2>1 DEF Move
  <2> QED
    BY <2>1, <2>2, SomebodyMoves
<1>5. ASSUME NEW p \in People, ApplyDue(p)
      PROVE  MadeInv' /\ (madeBy' = madeBy \/ madeBy' # "system")
  <2>1. CASE ~VersionIsRead(person[p].version)
    BY <1>5, <2>1, DueIsMarked DEF ApplyDue
  <2>2. CASE VersionIsRead(person[p].version)
    <3>1. Move(person[p].to, tenant.overdue, "schedule") /\ UNCHANGED handler /\ person[p].to \in States
      BY <1>0, <1>5, <2>2 DEF ApplyDue, webhookVars, PersonRow
    <3>2. madeBy' = "schedule"
      BY <3>1 DEF Move
    <3> QED
      BY <3>1, <3>2, SomebodyMoves
  <2> QED
    BY <2>1, <2>2
<1>6. ASSUME NEW p \in People, NEW row, row.at # "due", person' = [person EXCEPT ![p] = row],
             UNCHANGED <<tenant, madeBy, history, handler>>
      PROVE  MadeInv' /\ madeBy' = madeBy
  <2>1. DueLooked
    BY <1>0, <1>6 DEF DueLooked
  <2> QED
    BY <1>6, <2>1, NobodyMoves, DeliveryRests
<1>7. ASSUME NEW p \in People, ReadDue(p)
      PROVE  MadeInv' /\ madeBy' = madeBy
  <2>1. DueLooked
    BY <1>0, <1>7 DEF ReadDue, DueLooked, Free, PersonRow
  <2>2. UNCHANGED <<tenant, madeBy, history, handler>>
    BY <1>7 DEF ReadDue, webhookVars
  <2> QED
    BY <2>1, <2>2, NobodyMoves, DeliveryRests
<1>8. ASSUME NEW p \in People, MoveRefused(p) \/ ChangeRefused(p) \/ CommitExit(p) \/ ExitRefused(p) \/ PersonDies(p)
      PROVE  MadeInv' /\ madeBy' = madeBy
  <2>1. person' = [person EXCEPT ![p] = Free] /\ UNCHANGED <<tenant, madeBy, history, handler>> /\ Free.at = "idle"
    BY <1>8 DEF MoveRefused, ChangeRefused, CommitExit, ExitRefused, PersonDies, Free, webhookVars
  <2> QED
    BY <1>6, <2>1
<1>9. ASSUME NEW p \in People, NEW to, NEW e, Decide(p, to, "move", e)
      PROVE  MadeInv' /\ madeBy' = madeBy
  BY <1>6, <1>9 DEF Decide, webhookVars
<1>10. ASSUME NEW p \in People, NEW to, ReadExit(p, to)
       PROVE  MadeInv' /\ madeBy' = madeBy
  <2>1. PICK step \in {"exit", "change"} : person' = [person EXCEPT ![p] = [Free EXCEPT !.at = step, !.exit = to]]
    BY <1>10 DEF ReadExit
  <2> QED
    BY <1>6, <1>10, <2>1 DEF ReadExit, Free, webhookVars
<1>11. ASSUME NEW p \in People, ListDue(p)
       PROVE  MadeInv' /\ madeBy' = madeBy
  BY <1>6, <1>11 DEF ListDue, Free, webhookVars
<1>12. ASSUME NEW p \in People, PersonStep(p)
       PROVE  MadeInv' /\ (madeBy' = madeBy \/ madeBy' # "system")
  <2>1. ASSUME NEW to \in States, Schedule(p, to)
        PROVE  MadeInv' /\ madeBy' = madeBy
    BY <1>1, <2>1 DEF Schedule, webhookVars
  <2>2. CASE RequestExit(p)
    BY <1>1, <2>2 DEF RequestExit, webhookVars
  <2> QED
    BY <1>4, <1>5, <1>7, <1>8, <1>9, <1>10, <1>11, <1>12, <2>1, <2>2 DEF PersonStep, ExitStep, Ask, BeginChange
<1>13. CASE RetentionEnds
  BY <1>1, <1>13 DEF RetentionEnds, webhookVars
<1>14. ASSUME NEW e \in Events, Happens(e)
       PROVE  MadeInv' /\ madeBy' = madeBy
  BY <1>1, <1>14 DEF Happens, companyVars
<1>15. CASE UNCHANGED vars
  BY <1>1, <1>15 DEF vars, companyVars, webhookVars
<1>16. DateComes => madeBy' = madeBy
  BY DEF DateComes
<1> QED
  BY <1>2, <1>3, <1>12, <1>13, <1>14, <1>15, <1>16 DEF Next, RetentionEnds, vars, companyVars

LEMMA MadeInvAlways == Spec => []MadeInv
<1>1. Init => MadeInv
  <2> SUFFICES ASSUME Init PROVE MadeInv
    OBVIOUS
  <2>1. tenant.state = "Active" /\ \A h \in Handlers : handler[h].at = "idle"
    BY DEF Init, WebhookInit, Resting
  <2> QED
    BY <2>1 DEF MadeInv, SystemsReadOnly, BillingKnows
<1>2. Inv /\ HistoryInv /\ MadeInv /\ [Next]_vars => MadeInv'
  BY MadeStep
<1> QED
  BY <1>1, <1>2, InvAlways, PTL DEF Spec

(* A payment, or the want of one, never undoes what a person decided on    *)
(* the spot, whatever was read before, whatever is delivered late or twice *)
(* and whatever a schedule marks as applied meanwhile (transition,         *)
(* applyBillingEntitlement, readOnlyWasSystemMade, applyDueTransitions).   *)
THEOREM BillingNeverOverrulesAPerson == Spec => PeopleAreNotOverruled
<1>1. Inv /\ HistoryInv /\ MadeInv /\ [Next]_vars
        => [(madeBy = "person" /\ madeBy' = "system") => tenant.state = "Active"]_vars
  BY MadeStep
<1> QED
  BY <1>1, InvAlways, MadeInvAlways, PTL DEF Spec, PeopleAreNotOverruled

(***************************************************************************)
(* The company follows the newest event.                                   *)
(***************************************************************************)

(* The inbox: one handler at most works on an event, while its row stands  *)
(* open; and the provider has an answer only for a row that was made.      *)
Working(h) == handler[h].at \notin {"idle", "claiming"}

InboxInv ==
  /\ \A h \in Handlers :
       /\ handler[h].at = "idle" => handler[h].event = NoEvent
       /\ Working(h) => inbox[handler[h].event] = "open"
       /\ handler[h].at = "claiming" /\ handler[h].seen # "unseen" => inbox[handler[h].event] # "unseen"
       /\ \A g \in Handlers : Working(g) /\ Working(h) /\ handler[g].event = handler[h].event => g = h
  /\ \A e \in Events : /\ owed[e] = "early" => inbox[e] # "unseen"
                       /\ owed[e] = "answered" => inbox[e] \in {"applied", "ignored"}

(* A handler goes on with its event.                                       *)
LEMMA InboxGoesOn ==
  ASSUME Typed, InboxInv, NEW h \in Handlers, Working(h), UNCHANGED <<inbox, owed>>,
         handler'[h].event = handler[h].event, handler'[h].at \notin {"idle", "claiming"},
         \A g \in Handlers \ {h} : handler'[g] = handler[g]
  PROVE  InboxInv'
<1>1. \A g \in Handlers : Working(g)' = Working(g)
  BY DEF Working
<1>2. \A g \in Handlers : handler'[g].event = handler[g].event
  OBVIOUS
<1>3. \A g \in Handlers : handler'[g].at \in {"idle", "claiming"} => handler'[g] = handler[g]
  OBVIOUS
<1> QED
  BY <1>1, <1>2, <1>3 DEF InboxInv

(* A handler rests, and the row of its event is closed, or left as it is.  *)
LEMMA InboxRests ==
  ASSUME Typed, TypedRest, InboxInv, NEW h \in Handlers, handler[h].at # "idle",
         handler' = [handler EXCEPT ![h] = Resting],
         NEW e \in Events, e = handler[h].event,
         \/ inbox' = inbox
         \/ Working(h) /\ \E o \in {"applied", "ignored", "failed"} : inbox' = [inbox EXCEPT ![e] = o],
         \A f \in Events \ {e} : owed'[f] = owed[f],
         owed'[e] = "early" => inbox'[e] # "unseen",
         owed'[e] = "answered" => inbox'[e] \in {"applied", "ignored"}
  PROVE  InboxInv'
<1>1. /\ handler'[h].at = "idle" /\ handler'[h].event = NoEvent
      /\ \A g \in Handlers \ {h} : handler'[g] = handler[g]
  BY DEF Typed, Resting
<1>2. \A f \in Events : inbox'[f] = inbox[f] \/ (f = e /\ Working(h) /\ inbox'[f] # "unseen")
  BY DEF Typed
<1>3. \A g \in Handlers : Working(g)' => Working(g) /\ g # h /\ handler'[g] = handler[g]
  BY <1>1 DEF Working
<1>4. \A g \in Handlers : handler[g].at # "idle" => handler[g].event \in Events
  BY DEF TypedRest
<1>5. ASSUME NEW g \in Handlers, Working(g)'
      PROVE  inbox'[handler'[g].event] = "open"
  <2>1. Working(g) /\ g # h /\ handler'[g] = handler[g] /\ handler[g].event \in Events
    BY <1>3, <1>4, <1>5 DEF Working
  <2>2. ~(handler[g].event = e /\ Working(h))
    BY <2>1 DEF InboxInv
  <2> QED
    BY <1>2, <2>1, <2>2 DEF InboxInv
<1>6. ASSUME NEW g \in Handlers, handler'[g].at = "claiming", handler'[g].seen # "unseen"
      PROVE  inbox'[handler'[g].event] # "unseen"
  BY <1>1, <1>2, <1>4, <1>6 DEF InboxInv
<1>7. \A g, k \in Handlers : Working(g)' /\ Working(k)' /\ handler'[g].event = handler'[k].event => g = k
  BY <1>3 DEF InboxInv
<1>8. \A g \in Handlers : handler'[g].at = "idle" => handler'[g].event = NoEvent
  BY <1>1 DEF InboxInv
<1>9. \A f \in Events : /\ owed'[f] = "early" => inbox'[f] # "unseen"
                        /\ owed'[f] = "answered" => inbox'[f] \in {"applied", "ignored"}
  BY <1>2 DEF InboxInv
<1> QED
  BY <1>5, <1>6, <1>7, <1>8, <1>9 DEF InboxInv

LEMMA InboxWebhook ==
  ASSUME Typed, TypedRest, InboxInv, NEW h \in Handlers, WebhookStep(h) \/ WebhookFault(h)
  PROVE  InboxInv'
<1> DEFINE e == handler[h].event
<1>0. /\ handler \in [Handlers -> HandlerRow] /\ inbox \in [Events -> Outcomes \cup {"unseen"}]
      /\ handler[h].at # "idle" => e \in Events
      /\ owed \in [Events -> {"no", "yes", "early", "answered"}]
  BY DEF Typed, TypedRest
<1>1. ASSUME NEW f \in Events, Receive(h, f)
      PROVE  InboxInv'
  <2>1. /\ handler'[h] = [at |-> "claiming", event |-> f, seen |-> inbox[f]]
        /\ \A g \in Handlers \ {h} : handler'[g] = handler[g]
        /\ UNCHANGED <<inbox, owed>>
    BY <1>0, <1>1 DEF Receive
  <2>2. \A g \in Handlers : Working(g)' => Working(g) /\ handler'[g] = handler[g]
    BY <2>1 DEF Working
  <2> QED
    BY <2>1, <2>2 DEF InboxInv
<1>2. CASE Claim(h)
  <2>1. e \in Events /\ handler[h].at = "claiming" /\ inbox[e] \in {"unseen", "failed"}
    BY <1>0, <1>2 DEF Claim, Claimable
  <2>2. /\ handler'[h].at = "apply" /\ handler'[h].event = e
        /\ \A g \in Handlers \ {h} : handler'[g] = handler[g]
        /\ inbox'[e] = "open" /\ \A f \in Events \ {e} : inbox'[f] = inbox[f]
        /\ owed' = owed
    BY <1>0, <1>2, <2>1 DEF Claim, HandlerRow
  <2>3. \A g \in Handlers : Working(g) => handler[g].event # e
    BY <2>1 DEF InboxInv
  <2>4. \A g \in Handlers : Working(g)' => g = h \/ (Working(g) /\ handler'[g] = handler[g])
    BY <2>2 DEF Working
  <2>5. \A g \in Handlers : handler[g].at # "idle" => handler[g].event \in Events
    BY DEF TypedRest
  <2>6. \A g \in Handlers : Working(g)' => inbox'[handler'[g].event] = "open"
    BY <2>2, <2>3, <2>4, <2>5 DEF InboxInv, Working
  <2>7. \A g, k \in Handlers : Working(g)' /\ Working(k)' /\ handler'[g].event = handler'[k].event => g = k
    BY <2>2, <2>3, <2>4 DEF InboxInv
  <2>8. \A g \in Handlers : /\ handler'[g].at = "idle" => handler'[g].event = NoEvent
                            /\ handler'[g].at = "claiming" /\ handler'[g].seen # "unseen"
                                 => inbox'[handler'[g].event] # "unseen"
    BY <2>2, <2>5 DEF InboxInv
  <2>9. \A f \in Events : /\ owed'[f] = "early" => inbox'[f] # "unseen"
                          /\ owed'[f] = "answered" => inbox'[f] \in {"applied", "ignored"}
    BY <2>1, <2>2 DEF InboxInv
  <2> QED
    BY <2>6, <2>7, <2>8, <2>9 DEF InboxInv
<1>3. CASE Duplicate(h)
  <2> DEFINE how == IF inbox[e] \in {"applied", "ignored"} THEN "answered" ELSE "early"
  <2>1. /\ handler[h].at = "claiming" /\ ~Claimable(e, handler[h].seen) /\ inbox' = inbox
        /\ handler' = [handler EXCEPT ![h] = Resting] /\ owed' = [owed EXCEPT ![e] = how]
    BY <1>3 DEF Duplicate, Answer
  <2>2. e \in Events /\ inbox[e] # "unseen"
    BY <1>0, <2>1 DEF Claimable, InboxInv
  <2>3. /\ owed'[e] = "early" => inbox'[e] # "unseen"
        /\ owed'[e] = "answered" => inbox'[e] \in {"applied", "ignored"}
        /\ \A f \in Events \ {e} : owed'[f] = owed[f]
    BY <1>0, <2>1, <2>2
  <2> QED
    BY <2>1, <2>2, <2>3, InboxRests
<1>4. CASE Close(h)
  <2>1. /\ handler[h].at \in {"applied", "ignored"} /\ inbox' = [inbox EXCEPT ![e] = handler[h].at]
        /\ handler' = [handler EXCEPT ![h] = Resting] /\ owed' = [owed EXCEPT ![e] = "answered"]
    BY <1>4 DEF Close, Answer
  <2>2. Working(h) /\ e \in Events
    BY <1>0, <2>1 DEF Working
  <2>3. owed'[e] = "answered" /\ inbox'[e] \in {"applied", "ignored"}
        /\ \A f \in Events \ {e} : owed'[f] = owed[f]
    BY <1>0, <2>1, <2>2
  <2>4. \E o \in {"applied", "ignored", "failed"} : inbox' = [inbox EXCEPT ![e] = o]
    BY <2>1
  <2> QED
    BY <2>1, <2>2, <2>3, <2>4, InboxRests
<1>5. CASE StepFails(h)
  <2>1. /\ handler'[h].at = "failing" /\ handler'[h].event = e
        /\ \A g \in Handlers \ {h} : handler'[g] = handler[g]
        /\ UNCHANGED <<inbox, owed>> /\ Working(h)
    BY <1>0, <1>5 DEF StepFails, Working, HandlerRow
  <2> QED
    BY <2>1, InboxGoesOn
<1>6. CASE CloseFailed(h)
  <2>1. /\ handler[h].at = "failing" /\ inbox' = [inbox EXCEPT ![e] = "failed"] /\ owed' = owed
        /\ handler' = [handler EXCEPT ![h] = Resting]
    BY <1>6 DEF CloseFailed
  <2>2. Working(h) /\ e \in Events
    BY <1>0, <2>1 DEF Working
  <2>3. inbox[e] = "open" /\ inbox'[e] = "failed"
    BY <1>0, <2>1, <2>2 DEF InboxInv
  <2>4. owed[e] # "answered"
    BY <2>2, <2>3 DEF InboxInv
  <2>5. \E o \in {"applied", "ignored", "failed"} : inbox' = [inbox EXCEPT ![e] = o]
    BY <2>1
  <2> QED
    BY <2>1, <2>2, <2>3, <2>4, <2>5, InboxRests
<1>7. CASE Die(h)
  <2>1. handler[h].at # "idle" /\ UNCHANGED <<inbox, owed>> /\ handler' = [handler EXCEPT ![h] = Resting]
    BY <1>7 DEF Die
  <2>2. e \in Events /\ (owed[e] = "early" => inbox[e] # "unseen") /\ (owed[e] = "answered" => inbox[e] \in {"applied", "ignored"})
    BY <1>0, <2>1 DEF InboxInv
  <2> QED
    BY <2>1, <2>2, InboxRests
<1> QED
  BY <1>1, <1>2, <1>3, <1>4, <1>5, <1>6, <1>7 DEF WebhookStep, WebhookFault

LEMMA InboxStep ==
  ASSUME Inv, TypedRest, InboxInv, [Next]_vars
  PROVE  InboxInv'
<1>0. handler \in [Handlers -> HandlerRow] /\ owed \in [Events -> {"no", "yes", "early", "answered"}]
  BY DEF Inv, Typed, TypedRest
<1>1. CASE UNCHANGED <<inbox, owed, handler>>
  BY <1>1 DEF InboxInv, Working
<1>2. ASSUME NEW h \in Handlers, WebhookStep(h) \/ WebhookFault(h)
      PROVE  InboxInv'
  BY <1>2, InboxWebhook DEF Inv
<1>3. ASSUME NEW h \in Handlers,
             \/ ReadSubscription(h) \/ Sync(h) \/ ChangePlan(h)
             \/ ReadCompany(h) \/ CommitEntitlement(h) \/ EntitlementRefused(h)
      PROVE  InboxInv'
  <2>1. PICK step, seen : step \in HandlerSteps \ {"idle", "claiming"} /\ GoTo(h, step, seen)
    BY <1>3 DEF ReadSubscription, Sync, ChangePlan, ReadCompany, CommitEntitlement, EntitlementRefused, HandlerSteps
  <2>2. /\ handler'[h].at = step /\ handler'[h].event = handler[h].event
        /\ \A g \in Handlers \ {h} : handler'[g] = handler[g]
    BY <1>0, <2>1 DEF GoTo, HandlerRow
  <2>3. Working(h) /\ UNCHANGED <<inbox, owed>>
    BY <1>3 DEF ReadSubscription, Sync, ChangePlan, ReadCompany, CommitEntitlement, EntitlementRefused, At, Working
  <2> QED
    BY <2>1, <2>2, <2>3, InboxGoesOn DEF Inv
<1>4. ASSUME NEW e \in Events, Happens(e)
      PROVE  InboxInv'
  <2>1. UNCHANGED <<inbox, handler>> /\ \A f \in Events : owed'[f] \in {"early", "answered"} => owed'[f] = owed[f]
    BY <1>0, <1>4 DEF Happens
  <2> QED
    BY <2>1 DEF InboxInv, Working
<1>5. ASSUME NEW p \in People, PersonStep(p)
      PROVE  InboxInv'
  <2>1. UNCHANGED <<inbox, owed, handler>>
    BY <1>5 DEF PersonStep, ExitStep, Ask, Schedule, CommitMove, MoveRefused, ListDue, ReadDue, ApplyDue, RequestExit, ReadExit,
         BeginChange, ChangeRefused, CommitExit, ExitRefused, PersonDies, Decide, WriteExit, webhookVars
  <2> QED
    BY <1>1, <2>1
<1>6. CASE DateComes \/ RetentionEnds
  BY <1>1, <1>6 DEF DateComes, RetentionEnds, webhookVars
<1>7. CASE UNCHANGED vars
  BY <1>1, <1>7 DEF vars, webhookVars
<1> QED
  BY <1>2, <1>3, <1>4, <1>5, <1>6, <1>7 DEF Next, HandlerStep

Applying == {"sync", "plan", "entitle", "move"}

(* Only an event whose status is known is applied, and one at a time.      *)
AppliedOneByOne ==
  /\ \A h \in Handlers : handler[h].at \in Applying => Verdict[handler[h].event] # "unknown"
  /\ ~crossed => \A g, h \in Handlers : handler[g].at \in Applying /\ handler[h].at \in Applying => g = h

HasSynced(e) == subscription.synced = Stamp[e] /\ subscription.paid = (Verdict[e] = "entitled")
HasPlan(e)   == Verdict[e] = "entitled" => subscription.plan = Sells[e]
HasState(e)  == madeBy = "system" => tenant.state = IF Verdict[e] = "entitled" THEN "Active" ELSE "ReadOnly"

\* The event is applied, and nothing else is being.
HasApplied(e) ==
  HasSynced(e) /\ HasPlan(e) /\ HasState(e) /\ \A h \in Handlers : handler[h].at \notin Applying

(* What the handlers of the newest event have done so far, and that it is  *)
(* never taken for old.                                                    *)
FollowOf(e) ==
  /\ subscription.synced <= Stamp[e]
  /\ inbox[e] # "ignored"
  /\ \A h \in Handlers : handler[h].event = e => handler[h].at # "ignored"
  /\ ~crossed =>
       /\ inbox[e] = "applied" => HasApplied(e)
       /\ \A h \in Handlers : handler[h].event = e =>
            /\ handler[h].at \in {"plan", "entitle", "move"} => HasSynced(e)
            /\ handler[h].at \in {"entitle", "move"} => HasPlan(e)
            /\ handler[h].at = "applied" => HasApplied(e)

LEMMA AppliedStep ==
  ASSUME Inv, TypedRest, AppliedOneByOne, [Next]_vars
  PROVE  AppliedOneByOne'
<1>0. handler \in [Handlers -> HandlerRow]
  BY DEF Inv, Typed
<1>1. ASSUME crossed' = crossed, \A h \in Handlers : handler'[h].at \in Applying => handler'[h] = handler[h]
      PROVE  AppliedOneByOne'
  BY <1>1 DEF AppliedOneByOne
<1>2. ASSUME NEW h \in Handlers, WebhookStep(h) \/ WebhookFault(h), UNCHANGED companyVars
      PROVE  AppliedOneByOne'
  <2>1. ASSUME NEW e \in Events, Receive(h, e)
        PROVE  \A g \in Handlers : handler'[g].at \in Applying => handler'[g] = handler[g]
    BY <1>0, <2>1 DEF Receive, Applying
  <2>2. ASSUME Claim(h) \/ StepFails(h)
        PROVE  \A g \in Handlers : handler'[g].at \in Applying => handler'[g] = handler[g]
    BY <1>0, <2>2 DEF Claim, StepFails, Applying, HandlerRow
  <2>3. ASSUME Duplicate(h) \/ Close(h) \/ CloseFailed(h) \/ Die(h)
        PROVE  \A g \in Handlers : handler'[g].at \in Applying => handler'[g] = handler[g]
    BY <1>0, <2>3 DEF Duplicate, Close, CloseFailed, Die, Answer, Resting, Applying
  <2>4. \A g \in Handlers : handler'[g].at \in Applying => handler'[g] = handler[g]
    BY <1>2, <2>1, <2>2, <2>3 DEF WebhookStep, WebhookFault
  <2> QED
    BY <1>1, <1>2, <2>4 DEF companyVars
<1>3. ASSUME NEW h \in Handlers,
             Sync(h) \/ ChangePlan(h) \/ ReadCompany(h) \/ CommitEntitlement(h) \/ EntitlementRefused(h)
      PROVE  AppliedOneByOne'
  <2>1. PICK step, seen : GoTo(h, step, seen)
    BY <1>3 DEF Sync, ChangePlan, ReadCompany, CommitEntitlement, EntitlementRefused
  <2>2. /\ handler[h].at \in Applying /\ handler'[h].event = handler[h].event
        /\ \A g \in Handlers \ {h} : handler'[g] = handler[g]
        /\ crossed' = crossed
    BY <1>0, <1>3, <2>1 DEF GoTo, At, HandlerRow, Applying, Sync, ChangePlan, ReadCompany, CommitEntitlement,
                            EntitlementRefused, companyVars
  <2> QED
    BY <2>2 DEF AppliedOneByOne
<1>4. ASSUME NEW h \in Handlers, ReadSubscription(h)
      PROVE  AppliedOneByOne'
  <2>1. /\ handler'[h].event = handler[h].event
        /\ handler'[h].at = IF IsNews(handler[h].event) THEN "sync" ELSE "ignored"
        /\ \A g \in Handlers \ {h} : handler'[g] = handler[g]
    BY <1>0, <1>4 DEF ReadSubscription, GoTo, HandlerRow
  <2>2. crossed' = (crossed \/ \E g \in Handlers \ {h} : handler[g].at \in Applying)
    BY <1>4 DEF ReadSubscription, Applying
  <2>3. ~crossed' => ~crossed /\ \A g \in Handlers \ {h} : handler[g].at \notin Applying
    BY <2>2
  <2>4. \A g \in Handlers : handler'[g].at \in Applying => Verdict[handler'[g].event] # "unknown"
    BY <2>1 DEF AppliedOneByOne, IsNews, Applying
  <2> QED
    BY <2>1, <2>3, <2>4 DEF AppliedOneByOne
<1>5. ASSUME NEW p \in People, PersonStep(p)
      PROVE  AppliedOneByOne'
  <2>1. UNCHANGED <<handler, crossed>>
    BY <1>5 DEF PersonStep, ExitStep, Ask, Schedule, CommitMove, MoveRefused, ListDue, ReadDue, ApplyDue, RequestExit, ReadExit,
         BeginChange, ChangeRefused, CommitExit, ExitRefused, PersonDies, Decide, WriteExit, webhookVars
  <2> QED
    BY <1>1, <2>1
<1>6. CASE DateComes \/ RetentionEnds \/ UNCHANGED vars
  BY <1>1, <1>6 DEF DateComes, RetentionEnds, vars, companyVars, webhookVars
<1>7. ASSUME NEW e \in Events, Happens(e)
      PROVE  AppliedOneByOne'
  BY <1>1, <1>7 DEF Happens, companyVars
<1> QED
  BY <1>2, <1>3, <1>4, <1>5, <1>6, <1>7 DEF Next, HandlerStep

(* A step that begins nothing: whoever applies, or has an outcome, is as   *)
(* before, and only an event that is applied is closed so.                 *)
LEMMA FollowRests ==
  ASSUME NEW e \in Events, FollowOf(e), UNCHANGED <<subscription, crossed>>,
         madeBy' = "system" => UNCHANGED <<tenant, madeBy>>,
         \A g \in Handlers : handler'[g].at \in Applying \cup {"applied", "ignored"} => handler'[g] = handler[g],
         inbox'[e] # "ignored", inbox'[e] = "applied" /\ ~crossed => HasApplied(e)
  PROVE  FollowOf(e)'
<1>1. HasApplied(e) => HasApplied(e)'
  BY DEF HasApplied, HasSynced, HasPlan, HasState
<1>2. \A g \in Handlers : handler'[g].event = e /\ handler'[g].at \in Applying \cup {"applied", "ignored"}
                            => handler[g].event = e /\ handler'[g] = handler[g]
  OBVIOUS
<1>3. {"plan", "entitle", "move"} \subseteq Applying /\ {"entitle", "move"} \subseteq Applying
  BY DEF Applying
<1>4. (HasSynced(e)' <=> HasSynced(e)) /\ (HasPlan(e)' <=> HasPlan(e))
  BY DEF HasSynced, HasPlan
<1> QED
  BY <1>1, <1>2, <1>3, <1>4 DEF FollowOf

(* While a handler applies an event and nobody crosses it, the newest is   *)
(* not applied, and only the handler itself may be at it.                  *)
LEMMA OnlyTheOne ==
  ASSUME AppliedOneByOne, NEW h \in Handlers, handler[h].at \in Applying, ~crossed,
         NEW e \in Events, FollowOf(e)
  PROVE  /\ inbox[e] # "applied"
         /\ \A g \in Handlers \ {h} : handler[g].at \notin Applying
         /\ \A g \in Handlers \ {h} : handler[g].event = e => handler[g].at # "applied"
BY DEF AppliedOneByOne, FollowOf, HasApplied

LEMMA FollowApplies ==
  ASSUME Inv, TypedRest, AppliedOneByOne, MadeInv, NEW e \in Events, Newest(e), FollowOf(e), NEW h \in Handlers,
         Sync(h) \/ ChangePlan(h) \/ ReadCompany(h) \/ CommitEntitlement(h) \/ EntitlementRefused(h)
  PROVE  FollowOf(e)'
<1> DEFINE f == handler[h].event
<1>0. /\ handler \in [Handlers -> HandlerRow] /\ handler[h].at \in Applying /\ f \in Events
      /\ subscription \in [synced : Nat, paid : BOOLEAN, plan : Plans]
      /\ Verdict[f] # "unknown" /\ Stamp[e] \in Nat /\ Stamp[f] \in Nat /\ Stamp[f] <= Stamp[e]
      /\ tenant \in [state : States, version : Nat, overdue : BOOLEAN]
  <2>1. handler[h].at \in Applying
    BY DEF Sync, ChangePlan, ReadCompany, CommitEntitlement, EntitlementRefused, At, Applying
  <2>2. f \in Events /\ handler \in [Handlers -> HandlerRow]
        /\ subscription \in [synced : Nat, paid : BOOLEAN, plan : Plans]
        /\ tenant \in [state : States, version : Nat, overdue : BOOLEAN]
    BY <2>1 DEF Inv, Typed, TypedRest, Applying
  <2>3. Verdict[f] # "unknown"
    BY <2>1 DEF AppliedOneByOne
  <2>4. Stamp[f] <= Stamp[e]
    BY <2>2, <2>3 DEF Newest
  <2> HIDE DEF f
  <2> QED
    BY <2>1, <2>2, <2>3, <2>4, LifecycleAssumption
<1>1. UNCHANGED <<inbox, crossed>>
  BY DEF Sync, ChangePlan, ReadCompany, CommitEntitlement, EntitlementRefused, companyVars
<1>2. PICK step, seen : GoTo(h, step, seen)
  BY DEF Sync, ChangePlan, ReadCompany, CommitEntitlement, EntitlementRefused
<1>3. /\ handler'[h].event = f /\ handler'[h].at = step
      /\ \A g \in Handlers \ {h} : handler'[g] = handler[g]
  BY <1>0, <1>2 DEF GoTo, HandlerRow
<1>4. step # "ignored"
  BY <1>0, <1>3 DEF Sync, ChangePlan, ReadCompany, CommitEntitlement, EntitlementRefused, GoTo, HandlerRow
<1>5. subscription'.synced <= Stamp[e]
  <2>1. CASE Sync(h)
    <3>1. subscription'.synced = Stamp[f]
      BY <1>0, <2>1 DEF Sync
    <3> QED
      BY <1>0, <3>1
  <2>2. CASE ~Sync(h)
    <3>1. subscription'.synced = subscription.synced
      BY <1>0, <2>2 DEF ChangePlan, ReadCompany, CommitEntitlement, EntitlementRefused, companyVars
    <3> QED
      BY <3>1 DEF FollowOf
  <2> QED
    BY <2>1, <2>2
<1>6. inbox'[e] # "ignored" /\ \A g \in Handlers : handler'[g].event = e => handler'[g].at # "ignored"
  BY <1>1, <1>3, <1>4 DEF FollowOf
<1>7. ASSUME ~crossed
      PROVE  /\ inbox'[e] # "applied"
             /\ \A g \in Handlers \ {h} : /\ handler'[g].at \notin Applying
                                          /\ handler'[g].event = e => handler'[g].at # "applied"
  BY <1>0, <1>1, <1>3, <1>7, OnlyTheOne
<1>8. ASSUME ~crossed, f = e
      PROVE  /\ step \in {"plan", "entitle", "move"} => HasSynced(e)'
             /\ step \in {"entitle", "move"} => HasPlan(e)'
             /\ step = "applied" => HasApplied(e)'
  <2>0. /\ handler[h].at \in {"plan", "entitle", "move"} => HasSynced(e)
        /\ handler[h].at \in {"entitle", "move"} => HasPlan(e)
    BY <1>8 DEF FollowOf
  <2>1. CASE Sync(h)
    <3>1. /\ subscription' = [subscription EXCEPT !.synced = Stamp[e], !.paid = (Verdict[e] = "entitled")]
          /\ GoTo(h, IF Verdict[e] = "entitled" THEN "plan" ELSE "entitle", "nothing")
      BY <1>8, <2>1 DEF Sync
    <3>2. HasSynced(e)'
      BY <1>0, <3>1 DEF HasSynced
    <3>3. step = IF Verdict[e] = "entitled" THEN "plan" ELSE "entitle"
      BY <1>0, <1>3, <3>1 DEF GoTo, HandlerRow
    <3> QED
      BY <3>2, <3>3 DEF HasPlan
  <2>2. CASE ChangePlan(h)
    <3>1. subscription' = [subscription EXCEPT !.plan = Sells[e]] /\ GoTo(h, "entitle", "nothing")
      BY <1>8, <2>2 DEF ChangePlan
    <3>2. HasSynced(e)
      BY <2>0, <2>2 DEF ChangePlan, At
    <3>3. HasSynced(e)' /\ HasPlan(e)'
      BY <1>0, <3>1, <3>2 DEF HasSynced, HasPlan
    <3>4. step = "entitle"
      BY <1>0, <1>3, <3>1 DEF GoTo, HandlerRow
    <3> QED
      BY <3>3, <3>4
  <2>3. ASSUME subscription' = subscription, handler[h].at \in {"entitle", "move"}, step \notin Applying
        PROVE  /\ HasSynced(e)' /\ HasPlan(e)'
               /\ HasState(e)' => HasApplied(e)'
    <3>1. HasSynced(e)' /\ HasPlan(e)'
      BY <2>0, <2>3 DEF HasSynced, HasPlan
    <3>2. \A g \in Handlers : handler'[g].at \notin Applying
      BY <1>3, <1>7, <1>8, <2>3
    <3> QED
      BY <3>1, <3>2 DEF HasApplied
  <2>4. CASE ReadCompany(h)
    <3>1. handler[h].at = "entitle" /\ UNCHANGED <<subscription, tenant, madeBy>>
      BY <2>4 DEF ReadCompany, At, companyVars
    <3>2. CASE BillingMoves(e)
      <4>1. step = "move"
        BY <1>0, <1>3, <1>8, <2>4, <3>2 DEF ReadCompany, GoTo, HandlerRow
      <4> QED
        BY <2>0, <3>1, <4>1 DEF HasSynced, HasPlan
    <3>3. CASE ~BillingMoves(e)
      <4>1. step = "applied"
        BY <1>0, <1>3, <1>8, <2>4, <3>3 DEF ReadCompany, GoTo, HandlerRow
      <4>2. madeBy = "system" /\ tenant.state = "ReadOnly" => ReadOnlyWasSystemMade
        BY DEF MadeInv, SystemsReadOnly, LatestByTheSystem, ReadOnlyWasSystemMade
      <4>3. HasState(e)'
        BY <3>1, <3>3, <4>2 DEF HasState, BillingMoves, MadeInv
      <4> QED
        BY <2>3, <3>1, <4>1, <4>3 DEF Applying
    <3> QED
      BY <3>2, <3>3
  <2>5. CASE CommitEntitlement(h)
    <3>1. /\ handler[h].at = "move" /\ subscription' = subscription /\ GoTo(h, "applied", "nothing")
          /\ tenant'.state = IF Verdict[e] = "entitled" THEN "Active" ELSE "ReadOnly"
      BY <1>8, <2>5 DEF CommitEntitlement, At, Move
    <3>2. step = "applied"
      BY <1>0, <1>3, <3>1 DEF GoTo, HandlerRow
    <3>3. HasState(e)'
      BY <3>1 DEF HasState
    <3> QED
      BY <2>3, <3>1, <3>2, <3>3 DEF Applying
  <2>6. CASE EntitlementRefused(h)
    <3>1. step = "failing"
      BY <1>0, <1>3, <2>6 DEF EntitlementRefused, GoTo, HandlerRow
    <3> QED
      BY <3>1
  <2> QED
    BY <2>1, <2>2, <2>4, <2>5, <2>6
<1>9. ASSUME ~crossed, NEW g \in Handlers, handler'[g].event = e
      PROVE  /\ handler'[g].at \in {"plan", "entitle", "move"} => HasSynced(e)'
             /\ handler'[g].at \in {"entitle", "move"} => HasPlan(e)'
             /\ handler'[g].at = "applied" => HasApplied(e)'
  <2>1. CASE g = h
    BY <1>3, <1>8, <1>9, <2>1
  <2>2. CASE g # h
    BY <1>7, <1>9, <2>2 DEF Applying
  <2> QED
    BY <2>1, <2>2
<1> QED
  BY <1>1, <1>5, <1>6, <1>7, <1>9 DEF FollowOf

(* The provider never gives two different events one stamp as its newest.  *)
NewestIsOne == \A e, f \in Events : Newest(e) /\ Newest(f) => e = f

(* An older event comes to be applied only before the newest is.           *)
LEMMA FollowReads ==
  ASSUME NewestIsOne, Inv, TypedRest, InboxInv, NEW e \in Events, Newest(e), FollowOf(e),
         NEW h \in Handlers, ReadSubscription(h)
  PROVE  FollowOf(e)'
<1> DEFINE f == handler[h].event
<1>0. /\ handler \in [Handlers -> HandlerRow] /\ handler[h].at = "apply" /\ f \in Events
      /\ subscription.synced \in Nat /\ Stamp[e] \in Nat /\ Stamp[f] \in Nat
  <2>1. handler[h].at = "apply"
    BY DEF ReadSubscription, At
  <2>2. f \in Events /\ handler \in [Handlers -> HandlerRow] /\ subscription.synced \in Nat
    BY <2>1 DEF Inv, Typed, TypedRest
  <2> HIDE DEF f
  <2> QED
    BY <2>1, <2>2, LifecycleAssumption
<1>1. /\ handler'[h].event = f /\ handler'[h].at = IF IsNews(f) THEN "sync" ELSE "ignored"
      /\ \A g \in Handlers \ {h} : handler'[g] = handler[g]
      /\ UNCHANGED <<subscription, tenant, madeBy, inbox>> /\ (~crossed' => ~crossed)
  BY <1>0 DEF ReadSubscription, GoTo, HandlerRow
<1>2. Verdict[e] # "unknown" /\ subscription.synced <= Stamp[e]
  BY DEF Newest, FollowOf
<1>3. CASE f = e
  <2>1. IsNews(e)
    BY <1>2 DEF IsNews
  <2>2. handler'[h].at = "sync"
    BY <1>1, <1>3, <2>1
  <2>3. inbox[e] = "open" /\ \A g \in Handlers \ {h} : handler[g].event = e => ~Working(g)
    BY <1>0, <1>3 DEF InboxInv, Working
  <2>4. \A g \in Handlers : handler'[g].event = e => handler'[g].at \in {"sync", "idle", "claiming"}
    BY <1>1, <2>2, <2>3 DEF Working
  <2> QED
    BY <1>1, <1>2, <2>3, <2>4 DEF FollowOf
<1>4. CASE f # e
  <2>1. HasApplied(e) => ~IsNews(f)
    <3>1. IsNews(f) /\ HasApplied(e) => Verdict[f] # "unknown" /\ Stamp[e] <= Stamp[f]
      BY DEF IsNews, HasApplied, HasSynced
    <3>2. Verdict[f] # "unknown" /\ Stamp[e] <= Stamp[f] => Newest(f)
      <4>1. \A k \in Events : Verdict[k] # "unknown" => Stamp[k] <= Stamp[e] /\ Stamp[k] \in Nat
        BY LifecycleAssumption DEF Newest
      <4> HIDE DEF f
      <4> QED
        BY <1>0, <4>1 DEF Newest
    <3> QED
      BY <1>0, <1>4, <3>1, <3>2 DEF NewestIsOne
  <2>2. HasApplied(e) => HasApplied(e)'
    <3>1. HasApplied(e) => handler'[h].at \notin Applying
      BY <1>1, <2>1 DEF Applying
    <3> QED
      BY <1>1, <3>1 DEF HasApplied, HasSynced, HasPlan, HasState
  <2>3. (HasSynced(e)' <=> HasSynced(e)) /\ (HasPlan(e)' <=> HasPlan(e))
    BY <1>1 DEF HasSynced, HasPlan
  <2>4. \A g \in Handlers : handler'[g].event = e => handler'[g] = handler[g]
    BY <1>1, <1>4
  <2> QED
    BY <1>1, <2>2, <2>3, <2>4 DEF FollowOf
<1> QED
  BY <1>3, <1>4

LEMMA FollowWebhook ==
  ASSUME Inv, TypedRest, InboxInv, NEW e \in Events, FollowOf(e), NEW h \in Handlers,
         WebhookStep(h) \/ WebhookFault(h), UNCHANGED companyVars
  PROVE  FollowOf(e)'
<1>0. /\ handler \in [Handlers -> HandlerRow] /\ inbox \in [Events -> Outcomes \cup {"unseen"}]
      /\ handler[h].at # "idle" => handler[h].event \in Events
      /\ UNCHANGED <<subscription, crossed, tenant, madeBy>>
  BY DEF Inv, Typed, TypedRest, companyVars
<1> DEFINE Rests == \A g \in Handlers : handler'[g].at \in Applying \cup {"applied", "ignored"} => handler'[g] = handler[g]
<1>1. Resting.at = "idle"
  BY DEF Resting
<1>2. Rests
  <2>1. ASSUME NEW f \in Events, Receive(h, f) PROVE Rests
    BY <1>0, <2>1 DEF Receive, Applying
  <2>2. ASSUME Claim(h) \/ StepFails(h) PROVE Rests
    BY <1>0, <2>2 DEF Claim, StepFails, Applying, HandlerRow
  <2>3. ASSUME Duplicate(h) \/ Close(h) \/ CloseFailed(h) \/ Die(h) PROVE Rests
    BY <1>0, <1>1, <2>3 DEF Duplicate, Close, CloseFailed, Die, Answer, Applying
  <2> QED
    BY <2>1, <2>2, <2>3 DEF WebhookStep, WebhookFault
<1>3. inbox[e] # "ignored" /\ (inbox[e] = "applied" /\ ~crossed => HasApplied(e))
  BY DEF FollowOf
<1>4. inbox'[e] # "ignored" /\ (inbox'[e] = "applied" /\ ~crossed => HasApplied(e))
  <2>1. CASE inbox' = inbox
    BY <1>3, <2>1
  <2>2. CASE Claim(h) \/ CloseFailed(h)
    <3>1. inbox'[e] \in {inbox[e], "open", "failed"}
      BY <1>0, <2>2 DEF Claim, CloseFailed
    <3> QED
      BY <1>3, <3>1
  <2>3. CASE Close(h)
    <3>1. handler[h].at \in {"applied", "ignored"} /\ inbox' = [inbox EXCEPT ![handler[h].event] = handler[h].at]
      BY <2>3 DEF Close
    <3>2. handler[h].event = e => /\ handler[h].at # "ignored"
                                  /\ handler[h].at = "applied" /\ ~crossed => HasApplied(e)
      BY DEF FollowOf
    <3> QED
      BY <1>0, <1>3, <3>1, <3>2
  <2> QED
    BY <2>1, <2>2, <2>3 DEF WebhookStep, WebhookFault, Receive, Duplicate, StepFails, Die
<1> QED
  BY <1>0, <1>2, <1>4, FollowRests

LEMMA FollowStep ==
  ASSUME NewestIsOne, Inv, HistoryInv, TypedRest, MadeInv, InboxInv, AppliedOneByOne,
         NEW e \in Events, Newest(e), FollowOf(e), [Next]_vars
  PROVE  FollowOf(e)'
<1>1. ASSUME UNCHANGED <<subscription, crossed, handler, inbox>>, madeBy' = "system" => UNCHANGED <<tenant, madeBy>>
      PROVE  FollowOf(e)'
  BY <1>1, FollowRests DEF FollowOf
<1>2. ASSUME NEW h \in Handlers, HandlerStep(h) \/ (WebhookFault(h) /\ UNCHANGED companyVars)
      PROVE  FollowOf(e)'
  BY <1>2, FollowWebhook, FollowReads, FollowApplies DEF HandlerStep
<1>3. ASSUME NEW p \in People, PersonStep(p)
      PROVE  FollowOf(e)'
  <2>1. UNCHANGED <<subscription, crossed, handler, inbox>>
    BY <1>3 DEF PersonStep, ExitStep, Ask, Schedule, CommitMove, MoveRefused, ListDue, ReadDue, ApplyDue, RequestExit, ReadExit,
         BeginChange, ChangeRefused, CommitExit, ExitRefused, PersonDies, Decide, WriteExit, webhookVars
  <2>2. madeBy' = "system" => UNCHANGED <<tenant, madeBy>>
    BY <1>3 DEF PersonStep, ExitStep, Ask, Schedule, CommitMove, MoveRefused, ListDue, ReadDue, ApplyDue, RequestExit, ReadExit,
         BeginChange, ChangeRefused, CommitExit, ExitRefused, PersonDies, Decide, WriteExit, Move
  <2> QED
    BY <1>1, <2>1, <2>2
<1>4. CASE DateComes \/ RetentionEnds \/ UNCHANGED vars
  BY <1>1, <1>4 DEF DateComes, RetentionEnds, vars, companyVars, webhookVars
<1>5. ASSUME NEW f \in Events, Happens(f)
      PROVE  FollowOf(e)'
  BY <1>1, <1>5 DEF Happens, companyVars
<1> QED
  BY <1>2, <1>3, <1>4, <1>5 DEF Next

FollowInv == InboxInv /\ AppliedOneByOne /\ \A e \in Events : Newest(e) => FollowOf(e)

(* Once everything has been dealt with, the company is as the newest event *)
(* says, whatever was delivered late, twice, together with another or only *)
(* after failures, and whoever died (onSubscription, claim,                *)
(* applyBillingEntitlement). The events have seconds for stamps: the       *)
(* newest must not share its second with another.                          *)
THEOREM NewestEventPrevails ==
  ASSUME NewestIsOne
  PROVE  Spec => []FollowsTheNewest
<1>1. Init => FollowInv
  <2> SUFFICES ASSUME Init PROVE FollowInv
    OBVIOUS
  <2>1. /\ \A h \in Handlers : handler[h].at = "idle" /\ handler[h].event = NoEvent
        /\ \A e \in Events : inbox[e] = "unseen" /\ owed[e] = "no"
        /\ subscription.synced = 0
    BY DEF Init, WebhookInit, Resting
  <2>2. InboxInv /\ AppliedOneByOne
    BY <2>1 DEF InboxInv, AppliedOneByOne, Working, Applying
  <2>3. \A e \in Events : 0 <= Stamp[e]
    BY LifecycleAssumption
  <2>4. \A e \in Events : FollowOf(e)
    BY <2>1, <2>3 DEF FollowOf
  <2> QED
    BY <2>2, <2>4 DEF FollowInv
<1>2. Inv /\ HistoryInv /\ TypedRest /\ MadeInv /\ FollowInv /\ [Next]_vars => FollowInv'
  <2> SUFFICES ASSUME Inv, HistoryInv, TypedRest, MadeInv, FollowInv, [Next]_vars
               PROVE  FollowInv'
    OBVIOUS
  <2>1. InboxInv' /\ AppliedOneByOne'
    BY InboxStep, AppliedStep DEF FollowInv
  <2>2. ASSUME NEW e \in Events, Newest(e)
        PROVE  FollowOf(e)'
    BY <2>2, FollowStep DEF FollowInv
  <2> QED
    BY <2>1, <2>2 DEF FollowInv, Newest
<1>3. Inv /\ TypedRest /\ FollowInv => FollowsTheNewest
  <2> SUFFICES ASSUME Inv, TypedRest, FollowInv, Settled, ~crossed, NEW e \in Events, Newest(e)
               PROVE  HasApplied(e)
    BY DEF FollowsTheNewest, HasApplied, HasSynced, HasPlan, HasState
  <2>1. \A h \in Handlers : handler[h].event # e
    BY LifecycleAssumption DEF Settled, FollowInv, InboxInv
  <2>2. inbox[e] # "open" /\ ~(inbox[e] = "failed" /\ owed[e] = "early") /\ owed[e] \in {"early", "answered"}
    BY <2>1 DEF Settled, Stranded
  <2>3. inbox[e] \in {"applied", "ignored"}
    BY <2>2 DEF FollowInv, InboxInv, Inv, Typed, Outcomes
  <2> QED
    BY <2>3 DEF FollowInv, FollowOf
<1> QED
  BY <1>1, <1>2, <1>3, InvAlways, RestAlways, MadeInvAlways, PTL DEF Spec
=============================================================================
