-------------------------- MODULE HumanWorkProofs ---------------------------
(***************************************************************************)
(* Machine-checked proofs about HumanWork, for any plan, any people and    *)
(* any number of requests in flight at once.                               *)
(***************************************************************************)
EXTENDS HumanWorkProperties, FiniteSetTheorems, TLAPS

(* What holds of a transaction x, given the rows as they are now.          *)

InOrder(x) ==
    /\ x.op \in TaskOps => x.step \in Tasks /\ x.at \in {"read", "locked"}
    /\ x.op = "submit" => x.stamp \in 1 .. MaxSubmits[x.step]
    /\ x.op = "decide" => LET r == <<x.step, x.stamp>> IN
          /\ r \in Requests /\ x.who \in People
          /\ x.who = Requester(r) => x.who \in Admins
          /\ ApprovalKind[x.step] = "FourEyes" => x.who # Requester(r)
    /\ x.op = "finishRun" => x.at = "read" /\ x.step \in AiSteps
    /\ x.at \in {"eyed", "settling"} => x.op = "decide"
    /\ x.at = "locked" => x.op \in TaskOps \cup {"decide"}

InForce(x, tasks, requests, clocks, ran) ==
    /\ x.op \in TaskOps => tasks[x.step].status # "Waiting"
    /\ x.op \in TaskOps /\ x.at = "locked" => RowAllows(tasks[x.step], x.op, x.step)
    /\ x.op = "submit" => x.stamp <= clocks[x.step] /\ requests[<<x.step, x.stamp>>].status = "None"
    /\ x.op = "decide" /\ x.at = "locked" => requests[<<x.step, x.stamp>>].status = "Pending"
    /\ x.op = "decide" /\ x.at \in {"settling", "locked"} /\ x.decision = "Approve"
          /\ ApprovalKind[x.step] = "FourEyes"
       => Cardinality(requests[<<x.step, x.stamp>>].eyes \cup {x.who}) >= FourEyesRequired
    /\ x.op = "finishRun" =>
          \A t \in x.ready : DependsOn[t] \cap Steps \subseteq Finished(tasks, requests, ran \cup {x.step})

(* Two transactions do not hold the same row, nor stamp the same instant.  *)
Apart(x, y) ==
    /\ x.at = "locked" /\ y.at = "locked" /\ x.op \in TaskOps /\ y.op \in TaskOps => x.step # y.step
    /\ x.at = "locked" /\ y.at = "locked" /\ x.op = "decide" /\ y.op = "decide"
          => <<x.step, x.stamp>> # <<y.step, y.stamp>>
    /\ x.op = "submit" /\ y.op = "submit" => x.step # y.step \/ x.stamp # y.stamp

Transactions ==
    /\ \A h \in Handlers : InOrder(tx[h]) /\ InForce(tx[h], task, request, clock, done)
    /\ \A g, h \in Handlers : g # h => Apart(tx[g], tx[h])

(* What holds of the rows.                                                 *)

Unraised == \A t \in Tasks, n \in Nat :
               <<t, n>> \in Requests /\ n > clock[t] => request[<<t, n>>].status = "None"

(* The requester of a four-eyes gate is never among its eyes.              *)
OtherEyes == \A r \in Requests :
                ApprovalKind[r[1]] = "FourEyes" => Requester(r) \notin request[r].eyes

(* A task that waits for an approval has the request of its submission.    *)
OnTheTable ==
    \A t \in Tasks :
        /\ task[t].status # "Cancelled"
        /\ task[t].status = "WaitingApproval" =>
              LET r == <<t, task[t].submittedAt>>
              IN  r \in Requests /\ request[r].status \notin {"None", "Cancelled"}

Verdicts == OtherEyes /\ ApprovalsAreIndependent

Stamped == \A t \in Tasks : task[t].submittedAt <= MaxSubmits[t]

Outcomes == Stamped /\ OnTheTable /\ CompletedOnItsApproval /\ ApprovedWorkCompletes

Inv == TypeOK /\ Transactions /\ Unraised /\ Verdicts /\ Outcomes /\ NothingWaitsInVain

(* What a step may do to the rows.                                         *)
Onward ==
    /\ \A t \in Tasks :
          /\ task[t].status # "Waiting" => task'[t].status # "Waiting"
          /\ task[t].status = "Waiting" =>
                /\ task'[t].status \in {"Waiting", "Assigned"}
                /\ task'[t].status = "Assigned" =>
                      DependsOn[t] \cap Steps \subseteq Finished(task', request', done')
    /\ Finished(task, request, done) \subseteq Finished(task', request', done')
    /\ \A r \in Requests :
          /\ request[r].status \notin {"None", "Pending"} => request'[r].status = request[r].status
          /\ request[r].eyes \subseteq request'[r].eyes
-----------------------------------------------------------------------------
LEMMA RequestPair ==
  /\ \A r \in Requests : /\ r = <<r[1], r[2]>> /\ r[2] \in Nat
                         /\ r[1] \in Tasks \/ (r[1] \in Gates /\ r[2] = 0)
                         /\ r[1] \in Tasks => r[2] \in 1 .. MaxSubmits[r[1]]
  /\ \A g \in Gates : <<g, 0>> \in Requests
  /\ \A t \in Tasks : \A n \in 1 .. MaxSubmits[t] : <<t, n>> \in Requests
<1>1. \A r \in Requests : (\E g \in Gates : r = <<g, 0>>)
                       \/ (\E t \in Tasks : \E n \in 1 .. MaxSubmits[t] : r = <<t, n>>)
  BY DEF Requests
<1>2. \A t \in Tasks : MaxSubmits[t] \in Nat
  BY HumanWorkAssumption
<1>3. \A g \in Gates : <<g, 0>> \in Requests
  BY DEF Requests
<1>4. \A t \in Tasks : \A n \in 1 .. MaxSubmits[t] : <<t, n>> \in Requests
  BY DEF Requests
<1>5. Tasks \cap Gates = {}
  BY HumanWorkAssumption
<1>6. ASSUME NEW r \in Requests
      PROVE  /\ r = <<r[1], r[2]>> /\ r[2] \in Nat
             /\ r[1] \in Tasks \/ (r[1] \in Gates /\ r[2] = 0)
             /\ r[1] \in Tasks => r[2] \in 1 .. MaxSubmits[r[1]]
  <2>1. CASE \E g \in Gates : r = <<g, 0>>
    BY <1>5, <2>1
  <2>2. CASE \E t \in Tasks : \E n \in 1 .. MaxSubmits[t] : r = <<t, n>>
    BY <1>2, <2>2
  <2> QED
    BY <1>1, <2>1, <2>2
<1> QED
  BY <1>3, <1>4, <1>6

LEMMA NoTxHolds ==
  /\ NoTx \in Tx /\ InOrder(NoTx)
  /\ \A tasks, requests, clocks, ran : InForce(NoTx, tasks, requests, clocks, ran)
  /\ \A x : Apart(x, NoTx) /\ Apart(NoTx, x)
<1>1. NoTx \in Tx
  BY DEF NoTx, Tx, Decisions
<1>2. NoTx.at = "idle" /\ NoTx.op = "none"
  BY DEF NoTx
<1> QED
  BY <1>1, <1>2 DEF InOrder, InForce, Apart, TaskOps

LEMMA StatusTypes ==
  ASSUME TypeOK
  PROVE  /\ \A t \in Tasks : task[t].status \in TaskStatuses /\ task[t].submittedAt \in Nat
                             /\ task[t].blocker \in BOOLEAN
         /\ \A r \in Requests : request[r].status \in {"None"} \cup RequestStatuses
                                /\ request[r].eyes \subseteq People
         /\ \A h \in Handlers : tx[h] \in Tx
BY DEF TypeOK, TaskRow, RequestRow

\* What governs a submission is read off the requests of its task.
LEMMA GoverningSame ==
  ASSUME NEW t, NEW row, NEW new, NEW before, NEW after,
         new.submittedAt = row.submittedAt,
         \A r \in Requests : r[1] = t => (after[r].status \in {"None", "Cancelled"}
                                            <=> before[r].status \in {"None", "Cancelled"})
  PROVE  Governing(t, new, after) = Governing(t, row, before)
BY DEF Governing

\* The rows of the others stay as they were read, when rows only go onward.
Carries(x, tasks, requests, clocks, ran, tasks2, requests2, clocks2, ran2) ==
    /\ \A t \in Tasks : tasks[t].status # "Waiting" => tasks2[t].status # "Waiting"
    /\ x.op \in TaskOps /\ x.at = "locked" /\ tasks2[x.step].status = "Completed"
          => tasks[x.step].status = "Completed"
    /\ \A t \in Tasks : clocks[t] \in Nat /\ clocks2[t] \in Nat /\ clocks[t] <= clocks2[t]
    /\ x.op = "submit" \/ (x.op = "decide" /\ x.at = "locked")
          => requests2[<<x.step, x.stamp>>].status = requests[<<x.step, x.stamp>>].status
    /\ \A r \in Requests : requests[r].eyes \subseteq requests2[r].eyes /\ requests2[r].eyes \subseteq People
    /\ Finished(tasks, requests, ran \cup {x.step}) \subseteq Finished(tasks2, requests2, ran2 \cup {x.step})

LEMMA InForceFrame ==
  ASSUME NEW x \in Tx, InOrder(x),
         NEW tasks, NEW requests, NEW clocks, NEW ran,
         NEW tasks2, NEW requests2, NEW clocks2, NEW ran2,
         InForce(x, tasks, requests, clocks, ran),
         Carries(x, tasks, requests, clocks, ran, tasks2, requests2, clocks2, ran2)
  PROVE  InForce(x, tasks2, requests2, clocks2, ran2)
<1> DEFINE r == <<x.step, x.stamp>>
<1>1. /\ x.op \in TaskOps => tasks2[x.step].status # "Waiting"
      /\ x.op \in TaskOps /\ x.at = "locked" => RowAllows(tasks2[x.step], x.op, x.step)
  BY DEF InOrder, InForce, RowAllows, Carries
<1>2. x.op = "submit" => x.stamp <= clocks2[x.step] /\ requests2[r].status = "None"
  <2>1. x.op = "submit" => x.step \in Tasks /\ x.stamp \in Nat
    BY DEF InOrder, TaskOps, Tx
  <2> QED
    BY <2>1 DEF InForce, Carries
<1>3. x.op = "decide" /\ x.at = "locked" => requests2[r].status = "Pending"
  BY DEF InForce, Carries
<1>4. x.op = "decide" /\ x.at \in {"settling", "locked"} /\ x.decision = "Approve"
        /\ ApprovalKind[x.step] = "FourEyes"
      => Cardinality(requests2[r].eyes \cup {x.who}) >= FourEyesRequired
  <2> SUFFICES ASSUME x.op = "decide", x.at \in {"settling", "locked"}, x.decision = "Approve",
                      ApprovalKind[x.step] = "FourEyes"
               PROVE  Cardinality(requests2[r].eyes \cup {x.who}) >= FourEyesRequired
    OBVIOUS
  <2> DEFINE S == requests[r].eyes \cup {x.who}
             U == requests2[r].eyes \cup {x.who}
  <2>1. r \in Requests /\ x.who \in People
    BY DEF InOrder
  <2>2. S \subseteq U /\ U \subseteq People
    BY <2>1 DEF Carries
  <2>3. Cardinality(S) >= 2
    BY DEF InForce, FourEyesRequired
  <2> HIDE DEF S, U
  <2>4. IsFiniteSet(U)
    BY <2>2, HumanWorkAssumption, FS_Subset
  <2>5. IsFiniteSet(S) /\ Cardinality(S) <= Cardinality(U)
    BY <2>2, <2>4, FS_Subset
  <2>6. Cardinality(S) \in Nat /\ Cardinality(U) \in Nat
    BY <2>4, <2>5, FS_CardinalityType
  <2>7. Cardinality(U) >= 2
    BY <2>3, <2>5, <2>6
  <2> QED
    BY <2>7 DEF U, FourEyesRequired
<1>5. x.op = "finishRun" =>
        \A t \in x.ready : DependsOn[t] \cap Steps \subseteq Finished(tasks2, requests2, ran2 \cup {x.step})
  BY DEF InForce, Carries
<1> QED
  BY <1>1, <1>2, <1>3, <1>4, <1>5 DEF InForce
-----------------------------------------------------------------------------
LEMMA InitInv == Init => Inv
<1> SUFFICES ASSUME Init PROVE Inv
  OBVIOUS
<1>1. /\ \A h \in Handlers : tx[h] = NoTx
      /\ \A t \in Tasks : task[t].status \in {"Assigned", "Waiting"} /\ task[t].submittedAt = 0
      /\ \A r \in Requests : /\ request[r].eyes = {}
                             /\ request[r].status = IF r[1] \in Gates THEN "Pending" ELSE "None"
      /\ done = {}
  BY DEF Init
<1>2. TypeOK
  <2>1. task \in [Tasks -> TaskRow]
    BY DEF Init, TaskRow, TaskStatuses
  <2>2. request \in [Requests -> RequestRow]
    BY DEF Init, RequestRow, RequestStatuses
  <2>3. tx \in [Handlers -> Tx]
    BY NoTxHolds DEF Init
  <2>4. clock \in [Tasks -> Nat] /\ \A t \in Tasks : clock[t] <= MaxSubmits[t]
    BY HumanWorkAssumption DEF Init
  <2> QED
    BY <1>1, <2>1, <2>2, <2>3, <2>4 DEF TypeOK
<1>3. Transactions
  BY <1>1, NoTxHolds DEF Transactions
<1>4. Unraised /\ Verdicts
  BY <1>1, HumanWorkAssumption DEF Unraised, Verdicts, OtherEyes, ApprovalsAreIndependent
<1>5. Outcomes
  <2>1. Stamped
    BY <1>1, HumanWorkAssumption DEF Stamped
  <2> QED
    BY <1>1, <2>1 DEF Outcomes, OnTheTable, CompletedOnItsApproval, ApprovedWorkCompletes, RequirementMet
<1>6. NothingWaitsInVain
  <2>1. Finished(task, request, done) = {}
    BY <1>1, RequestPair DEF Finished
  <2>2. \A t \in Tasks : task[t].status = "Waiting" => ~DependenciesSatisfied(DependsOn[t], {}, Steps)
    BY DEF Init
  <2> QED
    BY <2>1, <2>2 DEF NothingWaitsInVain
<1> QED
  BY <1>2, <1>3, <1>4, <1>5, <1>6 DEF Inv

\* A transaction that goes on without committing leaves the rows as they are.
LEMMA GoesOn ==
  ASSUME Inv, NEW h \in Handlers, NEW row \in Tx, tx' = [tx EXCEPT ![h] = row],
         UNCHANGED <<task, request, done>>,
         clock' \in [Tasks -> Nat], \A t \in Tasks : clock[t] <= clock'[t] /\ clock'[t] <= MaxSubmits[t],
         InOrder(row), InForce(row, task, request, clock', done),
         \A g \in Handlers \ {h} : Apart(tx[g], row) /\ Apart(row, tx[g])
  PROVE  Inv' /\ Onward
<1>1. \A g \in Handlers : tx'[g] = IF g = h THEN row ELSE tx[g]
  BY DEF Inv, TypeOK
<1>2. TypeOK'
  BY DEF Inv, TypeOK
<1>3. Transactions'
  <2>1. ASSUME NEW g \in Handlers
        PROVE  InOrder(tx'[g]) /\ InForce(tx'[g], task, request, clock', done)
    <3>1. CASE g = h
      BY <1>1, <3>1
    <3>2. CASE g # h
      <4>1. tx'[g] = tx[g] /\ tx[g] \in Tx /\ InOrder(tx[g]) /\ InForce(tx[g], task, request, clock, done)
        BY <1>1, <3>2 DEF Inv, TypeOK, Transactions
      <4>2. \A t \in Tasks : clock[t] \in Nat /\ clock'[t] \in Nat
        BY DEF Inv, TypeOK
      <4>3. tx[g].op = "submit" => tx[g].step \in Tasks /\ tx[g].stamp \in Nat
        BY <4>1 DEF InOrder, TaskOps, Tx
      <4>4. tx[g].op = "submit" => tx[g].stamp <= clock'[tx[g].step]
        <5>1. tx[g].op = "submit" => tx[g].stamp <= clock[tx[g].step]
          BY <4>1 DEF InForce
        <5> QED
          BY <4>2, <4>3, <5>1
      <4>5. InForce(tx[g], task, request, clock', done)
        BY <4>1, <4>4 DEF InForce
      <4> QED
        BY <4>1, <4>5
    <3> QED
      BY <3>1, <3>2
  <2>2. \A f, g \in Handlers : f # g => Apart(tx'[f], tx'[g])
    BY <1>1 DEF Inv, Transactions
  <2> QED
    BY <2>1, <2>2 DEF Transactions
<1>4. Unraised'
  <2>1. \A t \in Tasks, n \in Nat : n > clock'[t] => n > clock[t]
    BY DEF Inv, TypeOK
  <2> QED
    BY <2>1 DEF Inv, Unraised
<1>5. Verdicts' /\ Outcomes' /\ NothingWaitsInVain'
  BY DEF Inv, Verdicts, OtherEyes, ApprovalsAreIndependent, Outcomes, Stamped, OnTheTable,
         CompletedOnItsApproval, ApprovedWorkCompletes, NothingWaitsInVain
<1>6. Onward
  BY StatusTypes DEF Inv, Onward, TaskStatuses
<1> QED
  BY <1>2, <1>3, <1>4, <1>5, <1>6 DEF Inv

LEMMA Opens == ASSUME Inv, NEW h \in Handlers
  PROVE  /\ tx[h] \in Tx /\ InOrder(tx[h]) /\ InForce(tx[h], task, request, clock, done)
         /\ \A g \in Handlers \ {h} : /\ tx[g] \in Tx /\ InOrder(tx[g])
                                      /\ InForce(tx[g], task, request, clock, done)
                                      /\ Apart(tx[g], tx[h]) /\ Apart(tx[h], tx[g])
BY DEF Inv, TypeOK, Transactions

LEMMA SameClock == ASSUME Inv, clock' = clock
  PROVE  clock' \in [Tasks -> Nat] /\ \A t \in Tasks : clock[t] <= clock'[t] /\ clock'[t] <= MaxSubmits[t]
BY DEF Inv, TypeOK

LEMMA RollBackInv == ASSUME Inv, NEW h \in Handlers, RollBack(h) PROVE Inv' /\ Onward
<1>1. /\ tx' = [tx EXCEPT ![h] = NoTx] /\ UNCHANGED <<task, request, done, clock>>
  BY DEF RollBack, Close
<1>2. InForce(NoTx, task, request, clock', done)
  BY NoTxHolds
<1> QED
  BY <1>1, <1>2, NoTxHolds, SameClock, GoesOn

\* Nothing leaves Waiting but a release.
LEMMA WaitingIsReleased ==
  ASSUME NEW s, NEW op \in TaskOps, MayMoveHumanTask(s, TargetOf[op])
  PROVE  s # "Waiting"
BY DEF TaskOps, MayMoveHumanTask, TargetOf, AllowedHumanTaskTransitions

LEMMA ReadTaskInv ==
  ASSUME Inv, NEW h \in Handlers, NEW t \in Tasks, NEW op \in TaskOps, ReadTask(h, op, t)
  PROVE  Inv' /\ Onward
<1> DEFINE stamp == IF op = "submit" THEN clock[t] + 1 ELSE 0
           again == (op = "start" /\ task[t].status = "WaitingApproval")
           row == [NoTx EXCEPT !.at = "read", !.op = op, !.step = t, !.stamp = stamp, !.reopens = again]
<1>1. clock[t] \in Nat /\ stamp \in Nat /\ again \in BOOLEAN /\ MaxSubmits[t] \in Nat
  BY HumanWorkAssumption DEF Inv, TypeOK
<1> HIDE DEF again
<1>2. /\ row.at = "read" /\ row.op = op /\ row.step = t /\ row.stamp = stamp /\ row \in Tx
  BY <1>1 DEF NoTx, Tx, Steps, Decisions
<1>3. /\ tx' = [tx EXCEPT ![h] = row] /\ UNCHANGED <<task, request, done>>
      /\ clock' = IF op = "submit" THEN [clock EXCEPT ![t] = stamp] ELSE clock
      /\ op = "submit" => stamp <= MaxSubmits[t]
      /\ MayMoveHumanTask(task[t].status, TargetOf[op])
  BY DEF ReadTask, again
<1> HIDE DEF row
<1>4. /\ clock' \in [Tasks -> Nat]
      /\ \A u \in Tasks : clock[u] <= clock'[u] /\ clock'[u] <= MaxSubmits[u]
      /\ op = "submit" => stamp = clock[t] + 1 /\ clock'[t] = stamp
  BY <1>1, <1>3 DEF Inv, TypeOK
<1> HIDE DEF stamp
<1>5. InOrder(row)
  <2>1. op = "submit" => stamp \in 1 .. MaxSubmits[t]
    BY <1>1, <1>3, <1>4
  <2> QED
    BY <1>2, <2>1 DEF InOrder, TaskOps
<1>6. InForce(row, task, request, clock', done)
  <2>1. task[t].status # "Waiting"
    BY <1>3, WaitingIsReleased
  <2>2. op = "submit" => stamp <= clock'[t] /\ request[<<t, stamp>>].status = "None"
    <3> SUFFICES ASSUME op = "submit"
                 PROVE  stamp <= clock'[t] /\ request[<<t, stamp>>].status = "None"
      OBVIOUS
    <3>1. stamp \in 1 .. MaxSubmits[t] /\ stamp > clock[t] /\ stamp <= clock'[t]
      BY <1>1, <1>3, <1>4
    <3> QED
      BY <3>1, RequestPair DEF Inv, Unraised
  <2> QED
    BY <1>2, <2>1, <2>2 DEF InForce, TaskOps
<1>7. \A g \in Handlers \ {h} : Apart(tx[g], row) /\ Apart(row, tx[g])
  <2> SUFFICES ASSUME NEW g \in Handlers \ {h} PROVE Apart(tx[g], row) /\ Apart(row, tx[g])
    OBVIOUS
  <2>1. tx[g].op = "submit" /\ op = "submit" => tx[g].step # t \/ tx[g].stamp # stamp
    <3>1. tx[g].op = "submit" => tx[g].stamp \in Nat /\ tx[g].stamp <= clock[tx[g].step]
      BY Opens DEF InForce, Tx
    <3> QED
      BY <1>1, <1>4, <3>1
  <2> QED
    BY <1>2, <2>1 DEF Apart, TaskOps
<1> QED
  BY <1>2, <1>3, <1>4, <1>5, <1>6, <1>7, GoesOn

LEMMA WriteTaskInv == ASSUME Inv, NEW h \in Handlers, WriteTask(h) PROVE Inv' /\ Onward
<1> DEFINE row == [tx[h] EXCEPT !.at = "locked"]
<1>1. /\ tx[h] \in Tx /\ tx[h].op \in TaskOps /\ TaskIsFree(h, tx[h].step)
      /\ RowAllows(task[tx[h].step], tx[h].op, tx[h].step)
      /\ InOrder(tx[h]) /\ InForce(tx[h], task, request, clock, done)
  BY Opens DEF WriteTask
<1>2. /\ row \in Tx /\ row.at = "locked" /\ row.op = tx[h].op /\ row.step = tx[h].step
      /\ row.stamp = tx[h].stamp
  BY <1>1 DEF Tx
<1>3. tx' = [tx EXCEPT ![h] = row] /\ UNCHANGED <<task, request, done, clock>>
  BY DEF WriteTask
<1> HIDE DEF row
<1>4. InOrder(row)
  BY <1>1, <1>2 DEF InOrder, TaskOps
<1>5. InForce(row, task, request, clock', done)
  BY <1>1, <1>2, <1>3 DEF InForce, TaskOps
<1>6. \A g \in Handlers \ {h} : Apart(tx[g], row) /\ Apart(row, tx[g])
  BY <1>1, <1>2, Opens DEF Apart, TaskIsFree, HoldsTask, TaskOps
<1> QED
  BY <1>2, <1>3, <1>4, <1>5, <1>6, SameClock, GoesOn

LEMMA ReadRequestInv ==
  ASSUME Inv, NEW h \in Handlers, NEW p \in People, NEW r \in Requests, NEW d \in Decisions,
         ReadRequest(h, p, r, d)
  PROVE  Inv' /\ Onward
<1> DEFINE row == [NoTx EXCEPT !.at = "read", !.op = "decide", !.step = r[1],
                               !.stamp = r[2], !.who = p, !.decision = d]
<1>1. r = <<r[1], r[2]>> /\ r[1] \in Steps /\ r[2] \in Nat
  BY RequestPair DEF Steps
<1>2. /\ row \in Tx /\ row.at = "read" /\ row.op = "decide" /\ row.step = r[1]
      /\ row.stamp = r[2] /\ row.who = p
  BY <1>1 DEF NoTx, Tx
<1>3. /\ tx' = [tx EXCEPT ![h] = row] /\ UNCHANGED <<task, request, done, clock>>
      /\ SeparationOfDuties(p, Requester(r), p \in Admins, ApprovalKind[r[1]], request[r].eyes)
  BY DEF ReadRequest
<1> HIDE DEF row
<1>4. InOrder(row)
  <2>1. /\ p = Requester(r) => p \in Admins
        /\ ApprovalKind[r[1]] = "FourEyes" => p # Requester(r)
    BY <1>3 DEF SeparationOfDuties
  <2>2. <<row.step, row.stamp>> = r
    BY <1>1, <1>2
  <2> QED
    BY <1>2, <2>1, <2>2 DEF InOrder, TaskOps
<1>5. InForce(row, task, request, clock', done)
  BY <1>2 DEF InForce, TaskOps
<1>6. \A g \in Handlers \ {h} : Apart(tx[g], row) /\ Apart(row, tx[g])
  BY <1>2 DEF Apart, TaskOps
<1> QED
  BY <1>2, <1>3, <1>4, <1>5, <1>6, SameClock, GoesOn

LEMMA RecordDecisionInv == ASSUME Inv, NEW h \in Handlers, RecordDecision(h) PROVE Inv' /\ Onward
<1> DEFINE r == <<tx[h].step, tx[h].stamp>>
           eyes == request[r].eyes \cup {tx[h].who}
           waits == /\ ApprovalKind[r[1]] = "FourEyes" /\ tx[h].decision = "Approve"
                    /\ Cardinality(eyes) < FourEyesRequired
           at == IF waits THEN "eyed" ELSE "settling"
           row == [tx[h] EXCEPT !.at = at]
<1>1. /\ tx[h] \in Tx /\ tx[h].op = "decide" /\ InOrder(tx[h])
      /\ InForce(tx[h], task, request, clock, done) /\ r \in Requests /\ tx[h].who \in People
  BY Opens DEF RecordDecision, InOrder
<1>2. /\ row \in Tx /\ row.at = at /\ row.op = "decide" /\ row.step = tx[h].step
      /\ row.stamp = tx[h].stamp /\ row.who = tx[h].who /\ row.decision = tx[h].decision
  BY <1>1 DEF Tx
<1>3. tx' = [tx EXCEPT ![h] = row] /\ UNCHANGED <<task, request, done, clock>>
  BY DEF RecordDecision
<1> HIDE DEF row
<1>4. InOrder(row)
  BY <1>1, <1>2 DEF InOrder, TaskOps
<1>5. InForce(row, task, request, clock', done)
  <2>1. Cardinality(eyes) \in Nat
    <3>1. eyes \subseteq People
      BY <1>1, StatusTypes DEF Inv
    <3>2. IsFiniteSet(eyes)
      BY <3>1, HumanWorkAssumption, FS_Subset
    <3> QED
      BY <3>2, FS_CardinalityType
  <2>2. at = "settling" /\ tx[h].decision = "Approve" /\ ApprovalKind[tx[h].step] = "FourEyes"
          => Cardinality(eyes) >= FourEyesRequired
    BY <2>1 DEF FourEyesRequired
  <2> QED
    BY <1>2, <2>2 DEF InForce, TaskOps
<1>6. \A g \in Handlers \ {h} : Apart(tx[g], row) /\ Apart(row, tx[g])
  BY <1>2 DEF Apart, TaskOps
<1> QED
  BY <1>2, <1>3, <1>4, <1>5, <1>6, SameClock, GoesOn

LEMMA SettleRequestInv == ASSUME Inv, NEW h \in Handlers, SettleRequest(h) PROVE Inv' /\ Onward
<1> DEFINE r == <<tx[h].step, tx[h].stamp>>
           row == [tx[h] EXCEPT !.at = "locked"]
<1>1. /\ tx[h] \in Tx /\ tx[h].op = "decide" /\ tx[h].at = "settling" /\ InOrder(tx[h])
      /\ InForce(tx[h], task, request, clock, done)
      /\ RequestIsFree(h, r) /\ request[r].status = "Pending"
  BY Opens DEF SettleRequest, InOrder, DecisionIsFinal
<1>2. /\ row \in Tx /\ row.at = "locked" /\ row.op = "decide" /\ row.step = tx[h].step
      /\ row.stamp = tx[h].stamp /\ row.who = tx[h].who /\ row.decision = tx[h].decision
  BY <1>1 DEF Tx
<1>3. tx' = [tx EXCEPT ![h] = row] /\ UNCHANGED <<task, request, done, clock>>
  BY DEF SettleRequest
<1> HIDE DEF row
<1>4. InOrder(row)
  BY <1>1, <1>2 DEF InOrder, TaskOps
<1>5. InForce(row, task, request, clock', done)
  BY <1>1, <1>2, <1>3 DEF InForce, TaskOps
<1>6. \A g \in Handlers \ {h} : Apart(tx[g], row) /\ Apart(row, tx[g])
  BY <1>1, <1>2 DEF Apart, RequestIsFree, HoldsRequest, TaskOps
<1> QED
  BY <1>2, <1>3, <1>4, <1>5, <1>6, SameClock, GoesOn

LEMMA ReadPlanInv ==
  ASSUME Inv, NEW h \in Handlers, NEW a \in AiSteps, ReadPlan(h, a) PROVE Inv' /\ Onward
<1> DEFINE ready == Releasable(task, request, done \cup {a})
           row == [NoTx EXCEPT !.at = "read", !.op = "finishRun", !.step = a, !.ready = ready]
<1>1. ready \subseteq Tasks
  BY DEF Releasable
<1>2. \A t \in ready : DependsOn[t] \cap Steps \subseteq Finished(task, request, done \cup {a})
  BY DEF Releasable, DependenciesSatisfied
<1> HIDE DEF ready
<1>3. /\ row \in Tx /\ row.at = "read" /\ row.op = "finishRun" /\ row.step = a /\ row.ready = ready
  BY <1>1 DEF NoTx, Tx, Steps, Decisions
<1>4. tx' = [tx EXCEPT ![h] = row] /\ UNCHANGED <<task, request, done, clock>>
  BY DEF ReadPlan, ready
<1> HIDE DEF row
<1>5. InOrder(row)
  BY <1>3 DEF InOrder, TaskOps
<1>6. InForce(row, task, request, clock', done)
  BY <1>2, <1>3 DEF InForce, TaskOps
<1>7. \A g \in Handlers \ {h} : Apart(tx[g], row) /\ Apart(row, tx[g])
  BY <1>3 DEF Apart, TaskOps
<1> QED
  BY <1>3, <1>4, <1>5, <1>6, <1>7, SameClock, GoesOn
-----------------------------------------------------------------------------
\* A transaction that commits: the rows go onward, and the others' reads stay in force.
LEMMA Commits ==
  ASSUME Inv, NEW h \in Handlers, Close(h), clock' = clock,
         task' \in [Tasks -> TaskRow], request' \in [Requests -> RequestRow], done' \subseteq AiSteps,
         done \subseteq done', Onward,
         \A g \in Handlers \ {h} : tx[g].op \in TaskOps /\ tx[g].at = "locked"
               /\ task'[tx[g].step].status = "Completed"
            => task[tx[g].step].status = "Completed",
         \A g \in Handlers \ {h} : tx[g].op = "submit" \/ (tx[g].op = "decide" /\ tx[g].at = "locked")
            => request'[<<tx[g].step, tx[g].stamp>>].status = request[<<tx[g].step, tx[g].stamp>>].status,
         \A r \in Requests : request[r].status = "None" /\ request'[r].status # "None" /\ r[1] \in Tasks
            => r[2] <= clock[r[1]]
  PROVE  TypeOK' /\ Transactions' /\ Unraised'
<1>1. \A g \in Handlers : tx'[g] = IF g = h THEN NoTx ELSE tx[g]
  BY DEF Close, Inv, TypeOK
<1>2. TypeOK'
  <2>1. tx' \in [Handlers -> Tx]
    BY NoTxHolds DEF Close, Inv, TypeOK
  <2> QED
    BY <2>1 DEF Inv, TypeOK
<1>3. ASSUME NEW g \in Handlers
      PROVE  InOrder(tx'[g]) /\ InForce(tx'[g], task', request', clock', done')
  <2>1. CASE g = h
    BY <1>1, <2>1, NoTxHolds
  <2>2. CASE g # h
    <3>1. /\ tx'[g] = tx[g] /\ tx[g] \in Tx /\ InOrder(tx[g])
          /\ InForce(tx[g], task, request, clock, done)
      BY <1>1, <2>2, Opens
    <3>2. \A t \in Tasks : clock[t] \in Nat /\ clock'[t] \in Nat /\ clock[t] <= clock'[t]
      BY DEF Inv, TypeOK
    <3>3. \A r \in Requests : request[r].eyes \subseteq request'[r].eyes /\ request'[r].eyes \subseteq People
      BY DEF Onward, RequestRow
    <3>4. Finished(task, request, done \cup {tx[g].step}) \subseteq Finished(task', request', done' \cup {tx[g].step})
      <4>1. /\ Finished(task, request, done \cup {tx[g].step}) = Finished(task, request, done) \cup {tx[g].step}
            /\ Finished(task', request', done' \cup {tx[g].step}) = Finished(task', request', done') \cup {tx[g].step}
        BY DEF Finished
      <4>2. Finished(task, request, done) \subseteq Finished(task', request', done')
        BY DEF Onward
      <4> QED
        BY <4>1, <4>2
    <3>5. \A t \in Tasks : task[t].status # "Waiting" => task'[t].status # "Waiting"
      BY DEF Onward
    <3>6. /\ tx[g].op \in TaskOps /\ tx[g].at = "locked" /\ task'[tx[g].step].status = "Completed"
             => task[tx[g].step].status = "Completed"
          /\ tx[g].op = "submit" \/ (tx[g].op = "decide" /\ tx[g].at = "locked")
             => request'[<<tx[g].step, tx[g].stamp>>].status = request[<<tx[g].step, tx[g].stamp>>].status
      BY <2>2
    <3>8. Carries(tx[g], task, request, clock, done, task', request', clock', done')
      BY <3>2, <3>3, <3>4, <3>5, <3>6 DEF Carries
    <3>7. InForce(tx[g], task', request', clock', done')
      BY <3>1, <3>8, InForceFrame
    <3> QED
      BY <3>1, <3>7
  <2> QED
    BY <2>1, <2>2
<1>4. Transactions'
  <2>1. \A f, g \in Handlers : f # g => Apart(tx'[f], tx'[g])
    BY <1>1, NoTxHolds DEF Inv, Transactions
  <2> QED
    BY <1>3, <2>1 DEF Transactions
<1>5. Unraised'
  <2> SUFFICES ASSUME NEW t \in Tasks, NEW n \in Nat, <<t, n>> \in Requests, n > clock[t]
               PROVE  request'[<<t, n>>].status = "None"
    BY DEF Unraised
  <2>1. request[<<t, n>>].status = "None" /\ clock[t] \in Nat
    BY DEF Inv, Unraised, TypeOK
  <2>2. ~(n <= clock[t])
    BY <2>1
  <2> QED
    BY <2>1, <2>2
<1> QED
  BY <1>2, <1>4, <1>5

\* What a release does to the rows it is given.
LEMMA ReleaseFacts ==
  ASSUME NEW m \in [Tasks -> TaskRow], NEW q, NEW d, NEW n, n = Released(m, Releasable(m, q, d))
  PROVE  /\ n \in [Tasks -> TaskRow]
         /\ \A t \in Tasks :
              /\ n[t].submittedAt = m[t].submittedAt
              /\ m[t].status # "Waiting" => n[t] = m[t]
              /\ m[t].status = "Waiting" => /\ n[t].status \in {"Waiting", "Assigned"}
                                            /\ n[t].status = "Assigned" =>
                                                  DependsOn[t] \cap Steps \subseteq Finished(n, q, d)
              /\ n[t].status = "Waiting" => ~DependenciesSatisfied(DependsOn[t], Finished(n, q, d), Steps)
         /\ Finished(n, q, d) = Finished(m, q, d)
<1> DEFINE ready == Releasable(m, q, d)
<1>1. \A t \in ready : t \in Tasks /\ m[t].status = "Waiting"
                       /\ DependenciesSatisfied(DependsOn[t], Finished(m, q, d), Steps)
  BY DEF Releasable, MayReleaseHumanTask
<1>2. \A t \in Tasks : m[t].status = "Waiting" /\ t \notin ready
                          => ~DependenciesSatisfied(DependsOn[t], Finished(m, q, d), Steps)
  BY DEF Releasable, MayReleaseHumanTask
<1> HIDE DEF ready
<1>3. n = [t \in Tasks |-> IF t \in ready THEN [m[t] EXCEPT !.status = "Assigned"] ELSE m[t]]
  BY DEF Released, ready
<1>4. ASSUME NEW t \in Tasks
      PROVE  /\ n[t] \in TaskRow /\ n[t].submittedAt = m[t].submittedAt
             /\ t \in ready => n[t].status = "Assigned"
             /\ t \notin ready => n[t] = m[t]
  <2>1. m[t] \in TaskRow
    OBVIOUS
  <2>2. CASE t \in ready
    <3>1. n[t] = [m[t] EXCEPT !.status = "Assigned"]
      BY <1>3, <2>2
    <3> QED
      BY <2>1, <2>2, <3>1 DEF TaskRow, TaskStatuses
  <2>3. CASE t \notin ready
    BY <1>3, <2>1, <2>3
  <2> QED
    BY <2>2, <2>3
<1>5. n \in [Tasks -> TaskRow]
  <2>1. n = [t \in Tasks |-> n[t]]
    BY <1>3
  <2> QED
    BY <1>4, <2>1
<1>6. Finished(n, q, d) = Finished(m, q, d)
  <2>1. \A t \in Tasks : n[t].status \in {"Completed", "Cancelled"} <=> m[t].status \in {"Completed", "Cancelled"}
    BY <1>1, <1>4
  <2> QED
    BY <2>1 DEF Finished
<1>7. \A t \in ready : DependsOn[t] \cap Steps \subseteq Finished(m, q, d)
  BY <1>1 DEF DependenciesSatisfied
<1> QED
  BY <1>1, <1>2, <1>4, <1>5, <1>6, <1>7

\* The requests of a task, when another step's requests move.
LEMMA StaysApproved ==
  ASSUME Inv, NEW t \in Tasks,
         task'[t].status \in {"Completed", "WaitingApproval"} =>
            task'[t].status = task[t].status /\ task'[t].submittedAt = task[t].submittedAt,
         \A r \in Requests : r[1] = t =>
            (task'[t].status \in {"Completed", "WaitingApproval"} => request'[r].status = request[r].status)
  PROVE  /\ task'[t].status = "WaitingApproval" =>
              LET r == <<t, task'[t].submittedAt>>
              IN  r \in Requests /\ request'[r].status \notin {"None", "Cancelled"}
         /\ task'[t].status = "Completed" /\ NeedsApproval(t) =>
              /\ task'[t].submittedAt # 0
              /\ request'[<<t, task'[t].submittedAt>>].status = "Approved"
              /\ \A r \in Governing(t, task'[t], request') : request'[r].status = "Approved"
         /\ ~RequirementMet(t, task'[t], request')
<1>1. CASE task'[t].status \notin {"Completed", "WaitingApproval"}
  BY <1>1 DEF RequirementMet
<1>2. CASE task'[t].status \in {"Completed", "WaitingApproval"}
  <2>1. /\ task'[t].status = task[t].status /\ task'[t].submittedAt = task[t].submittedAt
        /\ \A r \in Requests : r[1] = t => request'[r].status = request[r].status
    BY <1>2
  <2>2. Governing(t, task'[t], request') = Governing(t, task[t], request)
    BY <2>1 DEF Governing
  <2>3. Governing(t, task[t], request) \subseteq {r \in Requests : r[1] = t}
    BY DEF Governing
  <2>4. task[t].status = "WaitingApproval" =>
          <<t, task[t].submittedAt>> \in Requests /\ request[<<t, task[t].submittedAt>>].status \notin {"None", "Cancelled"}
    BY DEF Inv, Outcomes, OnTheTable
  <2>5. task[t].status = "Completed" /\ NeedsApproval(t) =>
          /\ task[t].submittedAt # 0 /\ request[<<t, task[t].submittedAt>>].status = "Approved"
          /\ \A r \in Governing(t, task[t], request) : request[r].status = "Approved"
    BY DEF Inv, Outcomes, CompletedOnItsApproval
  <2>6. ~RequirementMet(t, task[t], request)
    BY DEF Inv, Outcomes, ApprovedWorkCompletes
  <2>7. \A n : <<t, n>>[1] = t
    OBVIOUS
  <2>8. ~RequirementMet(t, task'[t], request')
    BY <2>1, <2>2, <2>3, <2>6 DEF RequirementMet
  <2>9. task'[t].status = "Completed" /\ NeedsApproval(t) => <<t, task[t].submittedAt>> \in Requests
    <3>1. /\ task[t].submittedAt \in Nat /\ task[t].submittedAt <= MaxSubmits[t]
          /\ MaxSubmits[t] \in Nat
      BY StatusTypes, HumanWorkAssumption DEF Inv, Outcomes, Stamped
    <3>2. task[t].submittedAt # 0 => <<t, task[t].submittedAt>> \in Requests
      BY <3>1, RequestPair
    <3> QED
      BY <2>1, <2>5, <3>2
  <2> QED
    BY <2>1, <2>2, <2>3, <2>4, <2>5, <2>7, <2>8, <2>9
<1> QED
  BY <1>1, <1>2
-----------------------------------------------------------------------------
LEMMA VerdictFrame ==
  ASSUME Inv,
         \A r \in Requests : /\ request'[r].eyes = request[r].eyes
                             /\ request'[r].status = "Approved" => request[r].status = "Approved"
  PROVE  Verdicts'
<1>1. OtherEyes'
  BY DEF Inv, Verdicts, OtherEyes
<1>2. ApprovalsAreIndependent'
  BY DEF Inv, Verdicts, ApprovalsAreIndependent
<1> QED
  BY <1>1, <1>2 DEF Verdicts

LEMMA Held ==
  ASSUME Inv, NEW h \in Handlers, tx[h].at = "locked", tx[h].op \in TaskOps
  PROVE  LET t == tx[h].step IN
         /\ t \in Tasks /\ task[t].status # "Waiting" /\ RowAllows(task[t], tx[h].op, t)
         /\ \A g \in Handlers \ {h} : tx[g].op \in TaskOps /\ tx[g].at = "locked" => tx[g].step # t
<1>1. tx[h].step \in Tasks
  BY Opens DEF InOrder
<1>2. task[tx[h].step].status # "Waiting" /\ RowAllows(task[tx[h].step], tx[h].op, tx[h].step)
  BY Opens DEF InForce
<1>3. \A g \in Handlers \ {h} : tx[g].op \in TaskOps /\ tx[g].at = "locked" => tx[g].step # tx[h].step
  BY Opens DEF Apart
<1> QED
  BY <1>1, <1>2, <1>3

\* What is on the table is read off the rows of one task at a time.
LEMMA OutcomesOfEach ==
  ASSUME \A t \in Tasks :
           /\ task'[t].submittedAt <= MaxSubmits[t] /\ task'[t].status # "Cancelled"
           /\ task'[t].status = "WaitingApproval" =>
                LET r == <<t, task'[t].submittedAt>>
                IN  r \in Requests /\ request'[r].status \notin {"None", "Cancelled"}
           /\ task'[t].status = "Completed" /\ NeedsApproval(t) =>
                /\ task'[t].submittedAt # 0
                /\ request'[<<t, task'[t].submittedAt>>].status = "Approved"
                /\ \A r \in Governing(t, task'[t], request') : request'[r].status = "Approved"
           /\ ~RequirementMet(t, task'[t], request')
  PROVE  Outcomes'
<1>1. Stamped' /\ OnTheTable'
  BY DEF Stamped, OnTheTable
<1>2. CompletedOnItsApproval'
  BY DEF CompletedOnItsApproval
<1>3. ApprovedWorkCompletes'
  BY DEF ApprovedWorkCompletes
<1> QED
  BY <1>1, <1>2, <1>3 DEF Outcomes

\* A task that is taken up or put down again: its row is written, its requests may be withdrawn.
LEMMA TaskMoves ==
  ASSUME Inv, NEW h \in Handlers, tx[h].at = "locked", tx[h].op \in {"start", "block", "clarify"},
         NEW t, t = tx[h].step, NEW s \in {"InProgress", "Blocked", "NeedsInput"}, NEW b \in BOOLEAN,
         task' = [task EXCEPT ![t].status = s, ![t].blocker = b],
         request' \in [Requests -> RequestRow],
         \A r \in Requests : /\ request'[r].eyes = request[r].eyes
                             /\ \/ request'[r].status = request[r].status
                                \/ /\ r[1] = t /\ request[r].status = "Pending" /\ RequestIsFree(h, r)
                                   /\ request'[r].status = "Cancelled",
         Close(h), UNCHANGED <<done, clock>>
  PROVE  Inv' /\ Onward
<1>1. /\ t \in Tasks /\ task[t].status \notin {"Waiting", "Completed", "Cancelled"}
      /\ \A g \in Handlers \ {h} : tx[g].op \in TaskOps /\ tx[g].at = "locked" => tx[g].step # t
  <2>1. tx[h].op \in TaskOps /\ tx[h].op # "submit"
    BY DEF TaskOps
  <2>2. t \in Tasks /\ task[t].status # "Waiting" /\ RowAllows(task[t], tx[h].op, t)
    BY <2>1, Held
  <2>3. task[t].status # "Cancelled"
    BY <2>2 DEF Inv, Outcomes, OnTheTable
  <2> QED
    BY <2>1, <2>2, <2>3, Held DEF RowAllows
<1>2. /\ task'[t] \in TaskRow /\ task'[t].status = s /\ task'[t].submittedAt = task[t].submittedAt
      /\ \A u \in Tasks : u # t => task'[u] = task[u]
  <2>1. task[t] \in TaskRow
    BY <1>1 DEF Inv, TypeOK
  <2>2. task'[t] = [task[t] EXCEPT !.status = s, !.blocker = b]
    BY <1>1 DEF Inv, TypeOK
  <2> QED
    BY <1>1, <2>1, <2>2 DEF TaskRow, TaskStatuses, Inv, TypeOK
<1>3. task' \in [Tasks -> TaskRow]
  <2>1. task' = [u \in Tasks |-> task'[u]]
    BY DEF Inv, TypeOK
  <2>2. \A u \in Tasks : task'[u] \in TaskRow
    BY <1>2 DEF Inv, TypeOK
  <2> QED
    BY <2>1, <2>2
<1>4. Finished(task', request', done') = Finished(task, request, done)
  <2>1. \A u \in Tasks : task'[u].status \in {"Completed", "Cancelled"} <=> task[u].status \in {"Completed", "Cancelled"}
    BY <1>1, <1>2
  <2>2. \A g \in Gates : request'[<<g, 0>>].status = request[<<g, 0>>].status
    <3> SUFFICES ASSUME NEW g \in Gates PROVE request'[<<g, 0>>].status = request[<<g, 0>>].status
      OBVIOUS
    <3>1. <<g, 0>> \in Requests /\ <<g, 0>>[1] = g /\ g # t
      BY <1>1, RequestPair, HumanWorkAssumption
    <3> QED
      BY <3>1
  <2> QED
    BY <2>1, <2>2 DEF Finished
<1>5. Onward
  <2>1. ASSUME NEW u \in Tasks
        PROVE  /\ task[u].status # "Waiting" => task'[u].status # "Waiting"
               /\ task[u].status = "Waiting" => task'[u].status = "Waiting"
    BY <1>1, <1>2
  <2>2. ASSUME NEW r \in Requests
        PROVE  /\ request[r].status \notin {"None", "Pending"} => request'[r].status = request[r].status
               /\ request[r].eyes \subseteq request'[r].eyes
    OBVIOUS
  <2> QED
    BY <1>4, <2>1, <2>2 DEF Onward
<1>6. TypeOK' /\ Transactions' /\ Unraised'
  <2>1. ASSUME NEW g \in Handlers \ {h}, tx[g].op \in TaskOps, tx[g].at = "locked",
               task'[tx[g].step].status = "Completed"
        PROVE  task[tx[g].step].status = "Completed"
    <3>1. tx[g].step \in Tasks
      BY <2>1, Opens DEF InOrder
    <3>2. tx[g].step # t
      BY <1>1, <2>1
    <3>3. task'[tx[g].step] = task[tx[g].step]
      BY <1>2, <3>1, <3>2
    <3> QED
      BY <2>1, <3>3
  <2>2. ASSUME NEW g \in Handlers \ {h}, tx[g].op = "submit" \/ (tx[g].op = "decide" /\ tx[g].at = "locked")
        PROVE  request'[<<tx[g].step, tx[g].stamp>>].status = request[<<tx[g].step, tx[g].stamp>>].status
    <3> DEFINE r == <<tx[g].step, tx[g].stamp>>
    <3>1. r \in Requests
      <4>1. CASE tx[g].op = "submit"
        BY <4>1, Opens, RequestPair DEF InOrder, TaskOps
      <4>2. CASE tx[g].op = "decide"
        BY <4>2, Opens DEF InOrder
      <4> QED
        BY <2>2, <4>1, <4>2
    <3>2. CASE tx[g].op = "submit"
      <4>1. request[r].status = "None"
        BY <3>2, Opens DEF InForce
      <4> QED
        BY <3>1, <4>1
    <3>3. CASE tx[g].op = "decide" /\ tx[g].at = "locked"
      <4>1. ~RequestIsFree(h, r)
        BY <3>3 DEF RequestIsFree, HoldsRequest
      <4> QED
        BY <3>1, <4>1
    <3> QED
      BY <2>2, <3>2, <3>3
  <2>3. \A r \in Requests : request[r].status = "None" => request'[r].status = "None"
    OBVIOUS
  <2>4. done' \subseteq AiSteps /\ done \subseteq done'
    BY DEF Inv, TypeOK
  <2> QED
    BY <1>3, <1>5, <2>1, <2>2, <2>3, <2>4, Commits
<1>7. Verdicts'
  BY VerdictFrame
<1>8. Outcomes'
  <2> SUFFICES ASSUME NEW u \in Tasks
      PROVE  /\ task'[u].submittedAt <= MaxSubmits[u] /\ task'[u].status # "Cancelled"
             /\ task'[u].status = "WaitingApproval" =>
                  LET r == <<u, task'[u].submittedAt>>
                  IN  r \in Requests /\ request'[r].status \notin {"None", "Cancelled"}
             /\ task'[u].status = "Completed" /\ NeedsApproval(u) =>
                  /\ task'[u].submittedAt # 0
                  /\ request'[<<u, task'[u].submittedAt>>].status = "Approved"
                  /\ \A r \in Governing(u, task'[u], request') : request'[r].status = "Approved"
             /\ ~RequirementMet(u, task'[u], request')
    BY OutcomesOfEach
  <2>1. task'[u].submittedAt <= MaxSubmits[u] /\ task'[u].status # "Cancelled"
    BY <1>2 DEF Inv, Outcomes, Stamped, OnTheTable
  <2>2. /\ task'[u].status \in {"Completed", "WaitingApproval"} =>
             task'[u].status = task[u].status /\ task'[u].submittedAt = task[u].submittedAt
        /\ \A r \in Requests : r[1] = u =>
             (task'[u].status \in {"Completed", "WaitingApproval"} => request'[r].status = request[r].status)
    <3>1. CASE u = t
      <4>1. task'[u].status \notin {"Completed", "WaitingApproval"}
        BY <1>2, <3>1
      <4> QED
        BY <4>1
    <3>2. CASE u # t
      <4>1. task'[u] = task[u]
        BY <1>2, <3>2
      <4>2. \A r \in Requests : r[1] = u => request'[r].status = request[r].status
        BY <3>2
      <4> QED
        BY <4>1, <4>2
    <3> QED
      BY <3>1, <3>2
  <2> QED
    BY <2>1, <2>2, StaysApproved
<1>9. NothingWaitsInVain'
  BY ZenonT(60), <1>1, <1>2, <1>4 DEF Inv, NothingWaitsInVain
<1> QED
  BY <1>5, <1>6, <1>7, <1>8, <1>9 DEF Inv

LEMMA CommitStartInv == ASSUME Inv, NEW h \in Handlers, CommitStart(h) PROVE Inv' /\ Onward
<1>0. PICK t : t = tx[h].step
  OBVIOUS
<1>1. /\ tx[h].at = "locked" /\ tx[h].op = "start" /\ Close(h) /\ UNCHANGED <<done, clock>>
      /\ task' = [task EXCEPT ![t].status = "InProgress", ![t].blocker = FALSE]
      /\ request' = IF tx[h].reopens THEN Withdrawn(t) ELSE request
      /\ tx[h].reopens => \A r \in Requests : r[1] = t /\ request[r].status = "Pending" => RequestIsFree(h, r)
  BY <1>0 DEF CommitStart
<1>2. \A r \in Requests : request[r] \in RequestRow
  BY DEF Inv, TypeOK
<1>3. ASSUME NEW r \in Requests
      PROVE  /\ request'[r] \in RequestRow /\ request'[r].eyes = request[r].eyes
             /\ \/ request'[r].status = request[r].status
                \/ /\ r[1] = t /\ request[r].status = "Pending" /\ RequestIsFree(h, r)
                   /\ request'[r].status = "Cancelled"
  <2>1. CASE tx[h].reopens /\ r[1] = t /\ request[r].status = "Pending"
    <3>1. request'[r] = [request[r] EXCEPT !.status = "Cancelled"]
      BY <1>1, <2>1 DEF Withdrawn
    <3> QED
      BY <1>1, <1>2, <2>1, <3>1 DEF RequestRow, RequestStatuses
  <2>2. CASE ~(tx[h].reopens /\ r[1] = t /\ request[r].status = "Pending")
    BY <1>1, <1>2, <2>2 DEF Withdrawn
  <2> QED
    BY <2>1, <2>2
<1>4. request' \in [Requests -> RequestRow]
  <2>1. request' = [r \in Requests |-> request'[r]]
    BY <1>1 DEF Withdrawn, Inv, TypeOK
  <2> QED
    BY <1>3, <2>1
<1> QED
  BY ZenonT(60), <1>0, <1>1, <1>3, <1>4, TaskMoves

LEMMA CommitStallInv == ASSUME Inv, NEW h \in Handlers, CommitStall(h) PROVE Inv' /\ Onward
<1>0. PICK t : t = tx[h].step
  OBVIOUS
<1>1. /\ tx[h].at = "locked" /\ tx[h].op \in {"block", "clarify"} /\ Close(h)
      /\ UNCHANGED <<request, done, clock>>
      /\ task' = [task EXCEPT ![t].status = TargetOf[tx[h].op], ![t].blocker = @ \/ tx[h].op = "block"]
  BY <1>0 DEF CommitStall
<1>2. t \in Tasks
  BY <1>0, <1>1, Held DEF TaskOps
<1> DEFINE b == task[t].blocker \/ tx[h].op = "block"
           s == TargetOf[tx[h].op]
<1>3. b \in BOOLEAN
  OBVIOUS
<1>4. s \in {"InProgress", "Blocked", "NeedsInput"}
  BY <1>1 DEF TargetOf
<1>5. task' = [task EXCEPT ![t].status = s, ![t].blocker = b]
  BY <1>1
<1>6. request' \in [Requests -> RequestRow]
  BY <1>1 DEF Inv, TypeOK
<1> HIDE DEF b, s
<1> QED
  BY <1>0, <1>1, <1>3, <1>4, <1>5, <1>6, TaskMoves
-----------------------------------------------------------------------------
\* A completion that releases what waited for it, in the transaction that writes it.
LEMMA Completes ==
  ASSUME Inv, NEW m \in [Tasks -> TaskRow], ReleaseWithin(m, request', done), UNCHANGED <<done, clock>>,
         \A u \in Tasks : m[u] = task[u] \/ (task[u].status # "Waiting" /\ m[u].status = "Completed"),
         \A r \in Requests :
            /\ request[r].status \notin {"None", "Pending"} => request'[r].status = request[r].status
            /\ request[r].eyes \subseteq request'[r].eyes
  PROVE  /\ Onward /\ NothingWaitsInVain' /\ task' \in [Tasks -> TaskRow]
         /\ \A u \in Tasks : /\ task'[u].submittedAt = m[u].submittedAt
                             /\ m[u].status # "Waiting" => task'[u] = m[u]
                             /\ m[u].status = "Waiting" => task'[u].status \in {"Waiting", "Assigned"}
<1>1. /\ task' \in [Tasks -> TaskRow]
      /\ \A u \in Tasks :
           /\ task'[u].submittedAt = m[u].submittedAt
           /\ m[u].status # "Waiting" => task'[u] = m[u]
           /\ m[u].status = "Waiting" => /\ task'[u].status \in {"Waiting", "Assigned"}
                                         /\ task'[u].status = "Assigned" =>
                                             DependsOn[u] \cap Steps \subseteq Finished(task', request', done)
           /\ task'[u].status = "Waiting" =>
                ~DependenciesSatisfied(DependsOn[u], Finished(task', request', done), Steps)
      /\ Finished(task', request', done) = Finished(m, request', done)
  BY ReleaseFacts DEF ReleaseWithin
<1>2. Finished(task, request, done) \subseteq Finished(m, request', done)
  <2>1. \A u \in Tasks : task[u].status \in {"Completed", "Cancelled"} => m[u].status \in {"Completed", "Cancelled"}
    OBVIOUS
  <2>2. \A g \in Gates : request[<<g, 0>>].status \in {"Approved", "Cancelled"}
                            => request'[<<g, 0>>].status \in {"Approved", "Cancelled"}
    BY RequestPair
  <2> QED
    BY <2>1, <2>2 DEF Finished
<1>3. Onward
  <2>1. ASSUME NEW u \in Tasks
        PROVE  /\ task[u].status # "Waiting" => task'[u].status # "Waiting"
               /\ task[u].status = "Waiting" =>
                     /\ task'[u].status \in {"Waiting", "Assigned"}
                     /\ task'[u].status = "Assigned" =>
                           DependsOn[u] \cap Steps \subseteq Finished(task', request', done)
    BY <1>1
  <2> QED
    BY <1>1, <1>2, <2>1 DEF Onward
<1>4. NothingWaitsInVain'
  BY <1>1 DEF NothingWaitsInVain
<1> QED
  BY <1>1, <1>3, <1>4

\* A submission that needs no decision.
LEMMA SubmitCompletes ==
  ASSUME Inv, NEW h \in Handlers, CommitSubmit(h), ~NeedsApproval(tx[h].step)
  PROVE  Inv' /\ Onward
<1>0. PICK t, s : t = tx[h].step /\ s = tx[h].stamp
  OBVIOUS
<1> DEFINE m == [task EXCEPT ![t].status = "Completed", ![t].submittedAt = s]
<1>1. /\ tx[h].at = "locked" /\ tx[h].op = "submit" /\ ReleaseWithin(m, request, done)
      /\ UNCHANGED <<request, done, clock>> /\ Close(h)
  BY <1>0 DEF CommitSubmit
<1>2. /\ t \in Tasks /\ s \in 1 .. MaxSubmits[t] /\ task[t].status # "Waiting"
      /\ \A g \in Handlers \ {h} : tx[g].op \in TaskOps /\ tx[g].at = "locked" => tx[g].step # t
  BY <1>0, <1>1, Held, Opens DEF TaskOps, InOrder
<1>3. /\ m[t] \in TaskRow /\ m[t].status = "Completed" /\ m[t].submittedAt = s
      /\ m \in [Tasks -> TaskRow] /\ \A u \in Tasks : u # t => m[u] = task[u]
  <2>1. task[t] \in TaskRow /\ s \in Nat
    BY <1>2, HumanWorkAssumption DEF Inv, TypeOK
  <2>2. m[t] = [task[t] EXCEPT !.status = "Completed", !.submittedAt = s]
    BY <1>2 DEF Inv, TypeOK
  <2>3. m[t] \in TaskRow /\ m[t].status = "Completed" /\ m[t].submittedAt = s
    BY ZenonT(60), <2>1, <2>2 DEF TaskRow, TaskStatuses
  <2>4. \A u \in Tasks : u # t => m[u] = task[u]
    BY DEF Inv, TypeOK
  <2>5. m = [u \in Tasks |-> m[u]]
    BY DEF Inv, TypeOK
  <2>6. \A u \in Tasks : m[u] \in TaskRow
    BY <2>3, <2>4 DEF Inv, TypeOK
  <2> QED
    BY <2>3, <2>4, <2>5, <2>6
<1> HIDE DEF m
<1>4. /\ Onward /\ NothingWaitsInVain' /\ task' \in [Tasks -> TaskRow]
      /\ \A u \in Tasks : /\ task'[u].submittedAt = m[u].submittedAt
                          /\ m[u].status # "Waiting" => task'[u] = m[u]
                          /\ m[u].status = "Waiting" => task'[u].status \in {"Waiting", "Assigned"}
  <2>1. \A u \in Tasks : m[u] = task[u] \/ (task[u].status # "Waiting" /\ m[u].status = "Completed")
    BY <1>2, <1>3
  <2>2. ReleaseWithin(m, request', done)
    BY <1>1
  <2> QED
    BY <1>1, <1>3, <2>1, <2>2, Completes
<1>5. TypeOK' /\ Transactions' /\ Unraised'
  <2>1. ASSUME NEW g \in Handlers \ {h}, tx[g].op \in TaskOps, tx[g].at = "locked",
               task'[tx[g].step].status = "Completed"
        PROVE  task[tx[g].step].status = "Completed"
    <3>1. tx[g].step \in Tasks
      BY <2>1, Opens DEF InOrder
    <3>2. tx[g].step # t
      BY <1>2, <2>1
    <3> QED
      BY <1>3, <1>4, <2>1, <3>1, <3>2
  <2>2. request' \in [Requests -> RequestRow] /\ done' \subseteq AiSteps /\ done \subseteq done'
    BY <1>1 DEF Inv, TypeOK
  <2> QED
    BY <1>1, <1>4, <2>1, <2>2, Commits
<1>6. Verdicts'
  BY <1>1, VerdictFrame
<1>7. Outcomes'
  <2> SUFFICES ASSUME NEW u \in Tasks
      PROVE  /\ task'[u].submittedAt <= MaxSubmits[u] /\ task'[u].status # "Cancelled"
             /\ task'[u].status = "WaitingApproval" =>
                  LET r == <<u, task'[u].submittedAt>>
                  IN  r \in Requests /\ request'[r].status \notin {"None", "Cancelled"}
             /\ task'[u].status = "Completed" /\ NeedsApproval(u) =>
                  /\ task'[u].submittedAt # 0
                  /\ request'[<<u, task'[u].submittedAt>>].status = "Approved"
                  /\ \A r \in Governing(u, task'[u], request') : request'[r].status = "Approved"
             /\ ~RequirementMet(u, task'[u], request')
    BY OutcomesOfEach
  <2>1. CASE u = t
    <3>1. task'[u].status = "Completed" /\ task'[u].submittedAt = s /\ ~NeedsApproval(u)
      BY <1>0, <1>3, <1>4, <2>1
    <3>2. s <= MaxSubmits[u]
      BY <1>2, <2>1, HumanWorkAssumption
    <3> QED
      BY <3>1, <3>2 DEF RequirementMet
  <2>2. CASE u # t
    <3>1. task'[u].submittedAt = task[u].submittedAt /\ m[u] = task[u]
      BY <1>3, <1>4, <2>2
    <3>2. task'[u].submittedAt <= MaxSubmits[u] /\ task'[u].status # "Cancelled"
      BY <1>4, <3>1 DEF Inv, Outcomes, Stamped, OnTheTable
    <3>3. /\ task'[u].status \in {"Completed", "WaitingApproval"} =>
               task'[u].status = task[u].status /\ task'[u].submittedAt = task[u].submittedAt
          /\ \A r \in Requests : r[1] = u =>
               (task'[u].status \in {"Completed", "WaitingApproval"} => request'[r].status = request[r].status)
      BY <1>1, <1>4, <3>1
    <3> QED
      BY <3>2, <3>3, StaysApproved
  <2> QED
    BY <2>1, <2>2
<1> QED
  BY <1>4, <1>5, <1>6, <1>7 DEF Inv

\* A submission that raises its request.
LEMMA SubmitRaises ==
  ASSUME Inv, NEW h \in Handlers, CommitSubmit(h), NeedsApproval(tx[h].step)
  PROVE  Inv' /\ Onward
<1>0. PICK t, s : t = tx[h].step /\ s = tx[h].stamp
  OBVIOUS
<1>1. /\ tx[h].at = "locked" /\ tx[h].op = "submit" /\ UNCHANGED <<done, clock>> /\ Close(h)
      /\ task' = [task EXCEPT ![t].status = "WaitingApproval", ![t].submittedAt = s]
      /\ request' = [request EXCEPT ![<<t, s>>].status = "Pending"]
  BY <1>0 DEF CommitSubmit
<1>2. /\ t \in Tasks /\ s \in 1 .. MaxSubmits[t] /\ task[t].status \notin {"Waiting", "Completed", "Cancelled"}
      /\ <<t, s>> \in Requests /\ request[<<t, s>>].status = "None" /\ s <= clock[t]
      /\ \A g \in Handlers \ {h} : tx[g].op \in TaskOps /\ tx[g].at = "locked" => tx[g].step # t
      /\ \A g \in Handlers \ {h} : tx[g].op = "submit" => <<tx[g].step, tx[g].stamp>> # <<t, s>>
  <2>1. tx[h].op \in TaskOps
    BY <1>1 DEF TaskOps
  <2>2. t \in Tasks /\ task[t].status # "Waiting" /\ RowAllows(task[t], "submit", t)
    BY <1>0, <1>1, <2>1, Held
  <2>3. s \in 1 .. MaxSubmits[t] /\ request[<<t, s>>].status = "None" /\ s <= clock[t]
    BY <1>0, <1>1, Opens DEF InOrder, InForce
  <2>4. <<t, s>> \in Requests
    BY <2>2, <2>3, RequestPair
  <2>5. task[t].status # "Cancelled" /\ task[t].status # "Completed"
    BY <1>0, <2>2 DEF RowAllows, Inv, Outcomes, OnTheTable
  <2>6. \A g \in Handlers \ {h} : tx[g].op \in TaskOps /\ tx[g].at = "locked" => tx[g].step # t
    BY <1>0, <1>1, <2>1, Held
  <2>7. \A g \in Handlers \ {h} : tx[g].op = "submit" => <<tx[g].step, tx[g].stamp>> # <<t, s>>
    BY <1>0, <1>1, Opens DEF Apart
  <2> QED
    BY <2>2, <2>3, <2>4, <2>5, <2>6, <2>7
<1>3. /\ task'[t].status = "WaitingApproval" /\ task'[t].submittedAt = s
      /\ task' \in [Tasks -> TaskRow] /\ \A u \in Tasks : u # t => task'[u] = task[u]
  <2>1. task[t] \in TaskRow /\ s \in Nat
    BY <1>2, HumanWorkAssumption DEF Inv, TypeOK
  <2>2. task'[t] = [task[t] EXCEPT !.status = "WaitingApproval", !.submittedAt = s]
    BY <1>1, <1>2 DEF Inv, TypeOK
  <2>3. task'[t] \in TaskRow /\ task'[t].status = "WaitingApproval" /\ task'[t].submittedAt = s
    BY <2>1, <2>2 DEF TaskRow, TaskStatuses
  <2>4. \A u \in Tasks : u # t => task'[u] = task[u]
    BY <1>1 DEF Inv, TypeOK
  <2>5. task' = [u \in Tasks |-> task'[u]]
    BY <1>1 DEF Inv, TypeOK
  <2>6. \A u \in Tasks : task'[u] \in TaskRow
    BY <2>3, <2>4 DEF Inv, TypeOK
  <2> QED
    BY <2>3, <2>4, <2>5, <2>6
<1>4. /\ request'[<<t, s>>].status = "Pending" /\ request'[<<t, s>>].eyes = request[<<t, s>>].eyes
      /\ request' \in [Requests -> RequestRow] /\ \A r \in Requests : r # <<t, s>> => request'[r] = request[r]
  <2>1. request[<<t, s>>] \in RequestRow
    BY <1>2 DEF Inv, TypeOK
  <2>2. request'[<<t, s>>] = [request[<<t, s>>] EXCEPT !.status = "Pending"]
    BY <1>1, <1>2 DEF Inv, TypeOK
  <2>3. /\ request'[<<t, s>>] \in RequestRow /\ request'[<<t, s>>].status = "Pending"
        /\ request'[<<t, s>>].eyes = request[<<t, s>>].eyes
    BY <2>1, <2>2 DEF RequestRow, RequestStatuses
  <2>4. \A r \in Requests : r # <<t, s>> => request'[r] = request[r]
    BY <1>1 DEF Inv, TypeOK
  <2>5. request' = [r \in Requests |-> request'[r]]
    BY <1>1 DEF Inv, TypeOK
  <2>6. \A r \in Requests : request'[r] \in RequestRow
    BY <2>3, <2>4 DEF Inv, TypeOK
  <2> QED
    BY <2>3, <2>4, <2>5, <2>6
<1>5. Finished(task', request', done') = Finished(task, request, done)
  <2>1. \A u \in Tasks : task'[u].status \in {"Completed", "Cancelled"} <=> task[u].status \in {"Completed", "Cancelled"}
    BY <1>2, <1>3
  <2>2. \A g \in Gates : request'[<<g, 0>>].status = request[<<g, 0>>].status
    <3> SUFFICES ASSUME NEW g \in Gates PROVE request'[<<g, 0>>].status = request[<<g, 0>>].status
      OBVIOUS
    <3>1. <<g, 0>> \in Requests /\ g # t
      BY <1>2, RequestPair, HumanWorkAssumption
    <3>2. <<g, 0>> # <<t, s>>
      BY <3>1
    <3> QED
      BY <1>4, <3>1, <3>2
  <2> QED
    BY <1>1, <2>1, <2>2 DEF Finished
<1>6. Onward
  <2>1. ASSUME NEW u \in Tasks
        PROVE  /\ task[u].status # "Waiting" => task'[u].status # "Waiting"
               /\ task[u].status = "Waiting" => task'[u].status = "Waiting"
    BY <1>2, <1>3
  <2>2. ASSUME NEW r \in Requests
        PROVE  /\ request[r].status \notin {"None", "Pending"} => request'[r].status = request[r].status
               /\ request[r].eyes \subseteq request'[r].eyes
    BY <1>2, <1>4
  <2> QED
    BY <1>5, <2>1, <2>2 DEF Onward
<1>7. TypeOK' /\ Transactions' /\ Unraised'
  <2>1. ASSUME NEW g \in Handlers \ {h}, tx[g].op \in TaskOps, tx[g].at = "locked",
               task'[tx[g].step].status = "Completed"
        PROVE  task[tx[g].step].status = "Completed"
    <3>1. tx[g].step \in Tasks
      BY <2>1, Opens DEF InOrder
    <3>2. tx[g].step # t
      BY <1>2, <2>1
    <3> QED
      BY <1>3, <2>1, <3>1, <3>2
  <2>2. ASSUME NEW g \in Handlers \ {h}, tx[g].op = "submit" \/ (tx[g].op = "decide" /\ tx[g].at = "locked")
        PROVE  request'[<<tx[g].step, tx[g].stamp>>].status = request[<<tx[g].step, tx[g].stamp>>].status
    <3> DEFINE r == <<tx[g].step, tx[g].stamp>>
    <3>1. CASE tx[g].op = "submit"
      <4>1. r \in Requests /\ r # <<t, s>>
        BY <1>2, <3>1, Opens, RequestPair DEF InOrder, TaskOps
      <4> QED
        BY <1>4, <4>1
    <3>2. CASE tx[g].op = "decide" /\ tx[g].at = "locked"
      <4>1. r \in Requests /\ request[r].status = "Pending"
        BY <3>2, Opens DEF InOrder, InForce
      <4>2. r # <<t, s>>
        BY <1>2, <4>1
      <4> QED
        BY <1>4, <4>1, <4>2
    <3> QED
      BY <2>2, <3>1, <3>2
  <2>3. ASSUME NEW r \in Requests, request[r].status = "None", request'[r].status # "None", r[1] \in Tasks
        PROVE  r[2] <= clock[r[1]]
    <3>1. r = <<t, s>>
      BY <1>4, <2>3
    <3>2. r[1] = t /\ r[2] = s
      BY <3>1
    <3> QED
      BY <1>2, <3>2
  <2>4. done' \subseteq AiSteps /\ done \subseteq done'
    BY <1>1 DEF Inv, TypeOK
  <2> QED
    BY <1>1, <1>3, <1>4, <1>6, <2>1, <2>2, <2>3, <2>4, Commits
<1>8. Verdicts'
  <2>1. ASSUME NEW r \in Requests
        PROVE  /\ request'[r].eyes = request[r].eyes
               /\ request'[r].status = "Approved" => request[r].status = "Approved"
    BY <1>4
  <2> QED
    BY <2>1, VerdictFrame
<1>9. Outcomes'
  <2> SUFFICES ASSUME NEW u \in Tasks
      PROVE  /\ task'[u].submittedAt <= MaxSubmits[u] /\ task'[u].status # "Cancelled"
             /\ task'[u].status = "WaitingApproval" =>
                  LET r == <<u, task'[u].submittedAt>>
                  IN  r \in Requests /\ request'[r].status \notin {"None", "Cancelled"}
             /\ task'[u].status = "Completed" /\ NeedsApproval(u) =>
                  /\ task'[u].submittedAt # 0
                  /\ request'[<<u, task'[u].submittedAt>>].status = "Approved"
                  /\ \A r \in Governing(u, task'[u], request') : request'[r].status = "Approved"
             /\ ~RequirementMet(u, task'[u], request')
    BY OutcomesOfEach
  <2>1. CASE u = t
    <3>1. s <= MaxSubmits[u] /\ s # 0 /\ s \in Nat
      BY <1>2, <2>1, HumanWorkAssumption
    <3>2. <<t, s>> \in Governing(u, task'[u], request')
      <4>1. <<t, s>>[1] = u /\ <<t, s>>[2] >= s
        BY <2>1, <3>1
      <4> QED
        BY <1>2, <1>3, <1>4, <2>1, <3>1, <4>1 DEF Governing
    <3>3. ~RequirementMet(u, task'[u], request')
      BY <1>4, <3>2 DEF RequirementMet
    <3> QED
      BY <1>2, <1>3, <1>4, <2>1, <3>1, <3>3
  <2>2. CASE u # t
    <3>1. task'[u] = task[u]
      BY <1>3, <2>2
    <3>2. task'[u].submittedAt <= MaxSubmits[u] /\ task'[u].status # "Cancelled"
      BY <3>1 DEF Inv, Outcomes, Stamped, OnTheTable
    <3>3. \A r \in Requests : r[1] = u => request'[r].status = request[r].status
      <4>1. <<t, s>>[1] = t
        OBVIOUS
      <4> QED
        BY <1>4, <2>2, <4>1
    <3> QED
      BY <3>1, <3>2, <3>3, StaysApproved
  <2> QED
    BY <2>1, <2>2
<1>10. NothingWaitsInVain'
  BY <1>3, <1>5 DEF Inv, NothingWaitsInVain
<1> QED
  BY <1>6, <1>7, <1>8, <1>9, <1>10 DEF Inv
-----------------------------------------------------------------------------
\* A gate's eyes: another one does not make an approval less independent.
LEMMA EyesGrow ==
  ASSUME NEW S, NEW U, S \subseteq U, U \subseteq People, Cardinality(S) >= FourEyesRequired
  PROVE  Cardinality(U) >= FourEyesRequired
<1>1. IsFiniteSet(U)
  BY HumanWorkAssumption, FS_Subset
<1>2. IsFiniteSet(S) /\ Cardinality(S) <= Cardinality(U)
  BY <1>1, FS_Subset
<1>3. Cardinality(S) \in Nat /\ Cardinality(U) \in Nat
  BY <1>1, <1>2, FS_CardinalityType
<1> QED
  BY <1>2, <1>3 DEF FourEyesRequired

LEMMA CommitEyeInv == ASSUME Inv, NEW h \in Handlers, CommitEye(h) PROVE Inv' /\ Onward
<1>0. PICK q, p : q = <<tx[h].step, tx[h].stamp>> /\ p = tx[h].who
  OBVIOUS
<1>1. /\ request' = [request EXCEPT ![q].eyes = @ \cup {p}] /\ tx[h].at = "eyed" /\ Close(h)
      /\ UNCHANGED <<task, done, clock>>
  BY <1>0 DEF CommitEye
<1>2. /\ q \in Requests /\ p \in People
      /\ ApprovalKind[q[1]] = "FourEyes" => p # Requester(q)
  <2>1. tx[h].op = "decide"
    BY <1>1, Opens DEF InOrder
  <2> QED
    BY <1>0, <2>1, Opens DEF InOrder
<1>3. /\ request'[q].status = request[q].status /\ request'[q].eyes = request[q].eyes \cup {p}
      /\ request' \in [Requests -> RequestRow] /\ \A r \in Requests : r # q => request'[r] = request[r]
  <2>1. request[q] \in RequestRow
    BY <1>2 DEF Inv, TypeOK
  <2>2. request'[q] = [request[q] EXCEPT !.eyes = request[q].eyes \cup {p}]
    BY <1>1, <1>2 DEF Inv, TypeOK
  <2>3. /\ request'[q] \in RequestRow /\ request'[q].status = request[q].status
        /\ request'[q].eyes = request[q].eyes \cup {p}
    BY <1>2, <2>1, <2>2 DEF RequestRow
  <2>4. \A r \in Requests : r # q => request'[r] = request[r]
    BY <1>1 DEF Inv, TypeOK
  <2>5. request' = [r \in Requests |-> request'[r]]
    BY <1>1 DEF Inv, TypeOK
  <2>6. \A r \in Requests : request'[r] \in RequestRow
    BY <2>3, <2>4 DEF Inv, TypeOK
  <2> QED
    BY <2>3, <2>4, <2>5, <2>6
<1>4. \A r \in Requests : /\ request'[r].status = request[r].status
                          /\ request[r].eyes \subseteq request'[r].eyes
                          /\ request'[r].eyes \subseteq request[r].eyes \cup {p}
                          /\ r # q => request'[r].eyes = request[r].eyes
  BY <1>3
<1>5. Finished(task', request', done') = Finished(task, request, done)
  BY <1>1, <1>4, RequestPair DEF Finished
<1>6. Onward
  BY <1>1, <1>4, <1>5, StatusTypes DEF Inv, Onward
<1>7. TypeOK' /\ Transactions' /\ Unraised'
  <2>1. ASSUME NEW g \in Handlers \ {h}, tx[g].op = "submit" \/ (tx[g].op = "decide" /\ tx[g].at = "locked")
        PROVE  request'[<<tx[g].step, tx[g].stamp>>].status = request[<<tx[g].step, tx[g].stamp>>].status
    <3>1. <<tx[g].step, tx[g].stamp>> \in Requests
      BY <2>1, Opens, RequestPair DEF InOrder, TaskOps
    <3> QED
      BY <1>4, <3>1
  <2>2. task' \in [Tasks -> TaskRow] /\ done' \subseteq AiSteps /\ done \subseteq done'
    BY <1>1 DEF Inv, TypeOK
  <2> QED
    BY <1>1, <1>3, <1>4, <1>6, <2>1, <2>2, Commits
<1>8. Verdicts'
  <2>1. OtherEyes'
    BY <1>2, <1>4 DEF Inv, Verdicts, OtherEyes
  <2>2. ASSUME NEW r \in Requests, request'[r].status = "Approved"
        PROVE  /\ request'[r].eyes \ {Requester(r)} # {} \/ Requester(r) \in Admins \cap request'[r].eyes
               /\ ApprovalKind[r[1]] = "FourEyes" =>
                     /\ Cardinality(request'[r].eyes) >= FourEyesRequired
                     /\ Requester(r) \notin request'[r].eyes
    <3>1. /\ request[r].eyes \ {Requester(r)} # {} \/ Requester(r) \in Admins \cap request[r].eyes
          /\ ApprovalKind[r[1]] = "FourEyes" => Cardinality(request[r].eyes) >= FourEyesRequired
      BY <1>4, <2>2 DEF Inv, Verdicts, ApprovalsAreIndependent
    <3>2. request[r].eyes \subseteq request'[r].eyes /\ request'[r].eyes \subseteq People
      BY <1>2, <1>4, StatusTypes DEF Inv
    <3>3. ApprovalKind[r[1]] = "FourEyes" => Cardinality(request'[r].eyes) >= FourEyesRequired
      BY <3>1, <3>2, EyesGrow
    <3> QED
      BY <2>1, <3>1, <3>2, <3>3 DEF OtherEyes
  <2> QED
    BY <2>1, <2>2 DEF Verdicts, ApprovalsAreIndependent
<1>9. Outcomes'
  <2> SUFFICES ASSUME NEW u \in Tasks
      PROVE  /\ task'[u].submittedAt <= MaxSubmits[u] /\ task'[u].status # "Cancelled"
             /\ task'[u].status = "WaitingApproval" =>
                  LET r == <<u, task'[u].submittedAt>>
                  IN  r \in Requests /\ request'[r].status \notin {"None", "Cancelled"}
             /\ task'[u].status = "Completed" /\ NeedsApproval(u) =>
                  /\ task'[u].submittedAt # 0
                  /\ request'[<<u, task'[u].submittedAt>>].status = "Approved"
                  /\ \A r \in Governing(u, task'[u], request') : request'[r].status = "Approved"
             /\ ~RequirementMet(u, task'[u], request')
    BY OutcomesOfEach
  <2>1. task'[u].submittedAt <= MaxSubmits[u] /\ task'[u].status # "Cancelled"
    BY <1>1 DEF Inv, Outcomes, Stamped, OnTheTable
  <2> QED
    BY <1>1, <1>4, <2>1, StaysApproved
<1>10. NothingWaitsInVain'
  BY <1>1, <1>5 DEF Inv, NothingWaitsInVain
<1> QED
  BY <1>6, <1>7, <1>8, <1>9, <1>10 DEF Inv

\* An AI step's run completes, on a plan read before.
LEMMA CommitRunInv == ASSUME Inv, NEW h \in Handlers, CommitRun(h) PROVE Inv' /\ Onward
<1>0. PICK a, ready : a = tx[h].step /\ ready = tx[h].ready
  OBVIOUS
<1>1. /\ tx[h].at = "read" /\ tx[h].op = "finishRun" /\ Close(h) /\ UNCHANGED <<request, clock>>
      /\ \A t \in ready : TaskIsFree(h, t) /\ task[t].status # "Completed"
      /\ done' = done \cup {a} /\ task' = Released(task, ready)
  BY <1>0 DEF CommitRun
<1>2. /\ ready \subseteq Tasks /\ a \in AiSteps
      /\ \A t \in ready : DependsOn[t] \cap Steps \subseteq Finished(task, request, done \cup {a})
  BY <1>0, <1>1, Opens DEF Tx, InOrder, InForce
<1>3. ASSUME NEW t \in Tasks
      PROVE  /\ task'[t] \in TaskRow /\ task'[t].submittedAt = task[t].submittedAt
             /\ t \in ready => task'[t].status = "Assigned"
             /\ t \notin ready => task'[t] = task[t]
  <2>1. task[t] \in TaskRow
    BY DEF Inv, TypeOK
  <2>2. CASE t \in ready
    <3>1. task'[t] = [task[t] EXCEPT !.status = "Assigned"]
      BY <1>1, <2>2 DEF Released
    <3> QED
      BY <2>1, <2>2, <3>1 DEF TaskRow, TaskStatuses
  <2>3. CASE t \notin ready
    BY <1>1, <2>1, <2>3 DEF Released
  <2> QED
    BY <2>2, <2>3
<1>4. task' \in [Tasks -> TaskRow]
  <2>1. task' = [t \in Tasks |-> task'[t]]
    BY <1>1 DEF Released
  <2> QED
    BY <1>3, <2>1
<1>5. /\ Finished(task', request', done') = Finished(task, request, done \cup {a})
      /\ Finished(task, request, done \cup {a}) = Finished(task, request, done) \cup {a}
  <2>1. \A t \in Tasks : task'[t].status \in {"Completed", "Cancelled"} <=> task[t].status \in {"Completed", "Cancelled"}
    BY <1>1, <1>3 DEF Inv, Outcomes, OnTheTable
  <2> QED
    BY <1>1, <2>1 DEF Finished
<1>6. Onward
  <2>1. ASSUME NEW t \in Tasks
        PROVE  /\ task[t].status # "Waiting" => task'[t].status # "Waiting"
               /\ task[t].status = "Waiting" =>
                     /\ task'[t].status \in {"Waiting", "Assigned"}
                     /\ task'[t].status = "Assigned" =>
                           DependsOn[t] \cap Steps \subseteq Finished(task', request', done')
    BY <1>2, <1>3, <1>5
  <2> QED
    BY <1>1, <1>5, <2>1 DEF Onward
<1>7. TypeOK' /\ Transactions' /\ Unraised'
  <2>1. ASSUME NEW g \in Handlers \ {h}, tx[g].op \in TaskOps, tx[g].at = "locked",
               task'[tx[g].step].status = "Completed"
        PROVE  task[tx[g].step].status = "Completed"
    BY <1>3, <2>1, Opens DEF InOrder
  <2>2. /\ request' \in [Requests -> RequestRow] /\ done' \subseteq AiSteps /\ done \subseteq done'
    BY <1>1, <1>2 DEF Inv, TypeOK
  <2> QED
    BY <1>1, <1>4, <1>6, <2>1, <2>2, Commits
<1>8. Verdicts'
  BY <1>1, VerdictFrame
<1>9. Outcomes'
  <2> SUFFICES ASSUME NEW u \in Tasks
      PROVE  /\ task'[u].submittedAt <= MaxSubmits[u] /\ task'[u].status # "Cancelled"
             /\ task'[u].status = "WaitingApproval" =>
                  LET r == <<u, task'[u].submittedAt>>
                  IN  r \in Requests /\ request'[r].status \notin {"None", "Cancelled"}
             /\ task'[u].status = "Completed" /\ NeedsApproval(u) =>
                  /\ task'[u].submittedAt # 0
                  /\ request'[<<u, task'[u].submittedAt>>].status = "Approved"
                  /\ \A r \in Governing(u, task'[u], request') : request'[r].status = "Approved"
             /\ ~RequirementMet(u, task'[u], request')
    BY OutcomesOfEach
  <2>1. task'[u].submittedAt <= MaxSubmits[u] /\ task'[u].status # "Cancelled"
    BY <1>3 DEF Inv, Outcomes, Stamped, OnTheTable
  <2>2. /\ task'[u].status \in {"Completed", "WaitingApproval"} =>
             task'[u].status = task[u].status /\ task'[u].submittedAt = task[u].submittedAt
        /\ \A r \in Requests : r[1] = u =>
             (task'[u].status \in {"Completed", "WaitingApproval"} => request'[r].status = request[r].status)
    BY <1>1, <1>3
  <2> QED
    BY <2>1, <2>2, StaysApproved
<1>10. NothingWaitsInVain'
  <2> SUFFICES ASSUME NEW t \in Tasks, task'[t].status = "Waiting", DependsOn[t] \cap AiSteps = {}
               PROVE  ~DependenciesSatisfied(DependsOn[t], Finished(task', request', done'), Steps)
    BY DEF NothingWaitsInVain
  <2>1. task[t].status = "Waiting"
    BY <1>3
  <2>2. ~DependenciesSatisfied(DependsOn[t], Finished(task, request, done), Steps)
    BY <2>1 DEF Inv, NothingWaitsInVain
  <2>3. a \notin DependsOn[t]
    BY <1>2
  <2> QED
    BY <1>5, <2>2, <2>3 DEF DependenciesSatisfied
<1> QED
  BY <1>6, <1>7, <1>8, <1>9, <1>10 DEF Inv
-----------------------------------------------------------------------------
\* A decision is recorded: what becomes of its request.
Settled(q, p, d) ==
    /\ q \in Requests /\ request[q].status = "Pending"
    /\ request' \in [Requests -> RequestRow]
    /\ \A r \in Requests : r # q => request'[r] = request[r]
    /\ request'[q].status \in {"Approved", "Rejected", "SentBack"}
    /\ request'[q].status = "Approved" <=> d = "Approve"
    /\ request'[q].eyes = IF d = "Approve" THEN request[q].eyes \cup {p} ELSE request[q].eyes

LEMMA DecisionSettles ==
  ASSUME Inv, NEW h \in Handlers, CommitDecision(h),
         NEW q, NEW p, NEW d, q = <<tx[h].step, tx[h].stamp>>, p = tx[h].who, d = tx[h].decision
  PROVE  Settled(q, p, d) /\ Verdicts'
<1>1. /\ tx[h].at = "locked" /\ tx[h].op = "decide"
      /\ request' = [request EXCEPT ![q] = [status |-> DecisionResult[d],
                        eyes |-> IF d = "Approve" THEN @.eyes \cup {p} ELSE @.eyes]]
  BY DEF CommitDecision
<1>2. /\ q \in Requests /\ p \in People /\ d \in Decisions /\ request[q].status = "Pending" /\ q[1] = tx[h].step
      /\ p = Requester(q) => p \in Admins
      /\ ApprovalKind[q[1]] = "FourEyes" => p # Requester(q)
      /\ d = "Approve" /\ ApprovalKind[q[1]] = "FourEyes"
            => Cardinality(request[q].eyes \cup {p}) >= FourEyesRequired
  BY <1>1, Opens DEF InOrder, InForce, Tx
<1> DEFINE s == DecisionResult[d]
           E == IF d = "Approve" THEN request[q].eyes \cup {p} ELSE request[q].eyes
<1>3. s \in {"Approved", "Rejected", "SentBack"} /\ (s = "Approved" <=> d = "Approve")
  BY <1>2 DEF DecisionResult, Decisions
<1>4. E \subseteq People
  BY <1>2, StatusTypes DEF Inv
<1>5. request' = [request EXCEPT ![q] = [status |-> s, eyes |-> E]]
  BY <1>1
<1> HIDE DEF s, E
<1>6. [status |-> s, eyes |-> E] \in RequestRow
  BY <1>3, <1>4 DEF RequestRow, RequestStatuses
<1>7. /\ request'[q].status = s /\ request'[q].eyes = E /\ request' \in [Requests -> RequestRow]
      /\ \A r \in Requests : r # q => request'[r] = request[r]
  BY <1>2, <1>5, <1>6 DEF Inv, TypeOK
<1>8. OtherEyes'
  <2> SUFFICES ASSUME NEW r \in Requests, ApprovalKind[r[1]] = "FourEyes"
               PROVE  Requester(r) \notin request'[r].eyes
    BY DEF OtherEyes
  <2>1. Requester(r) \notin request[r].eyes
    BY DEF Inv, Verdicts, OtherEyes
  <2> QED
    BY <1>2, <1>7, <2>1 DEF E
<1>9. ApprovalsAreIndependent'
  <2> SUFFICES ASSUME NEW r \in Requests, request'[r].status = "Approved"
               PROVE  /\ request'[r].eyes \ {Requester(r)} # {} \/ Requester(r) \in Admins \cap request'[r].eyes
                      /\ ApprovalKind[r[1]] = "FourEyes" =>
                            /\ Cardinality(request'[r].eyes) >= FourEyesRequired
                            /\ Requester(r) \notin request'[r].eyes
    BY DEF ApprovalsAreIndependent
  <2>1. CASE r # q
    BY <1>7, <2>1 DEF Inv, Verdicts, ApprovalsAreIndependent
  <2>2. CASE r = q
    <3>1. d = "Approve" /\ request'[r].eyes = request[q].eyes \cup {p}
      BY <1>3, <1>7, <2>2 DEF E
    <3>2. request'[r].eyes \ {Requester(r)} # {} \/ Requester(r) \in Admins \cap request'[r].eyes
      BY <1>2, <2>2, <3>1
    <3>3. ApprovalKind[r[1]] = "FourEyes" => Cardinality(request'[r].eyes) >= FourEyesRequired
      BY <1>2, <2>2, <3>1
    <3> QED
      BY <1>8, <3>2, <3>3 DEF OtherEyes
  <2> QED
    BY <2>1, <2>2
<1>10. Settled(q, p, d)
  BY <1>2, <1>3, <1>7 DEF Settled, E
<1> QED
  BY <1>8, <1>9, <1>10 DEF Verdicts

\* The task of the request, when the decision completes it and when it does not.
LEMMA DecidedTask ==
  ASSUME Inv, NEW q, NEW p, NEW d, Settled(q, p, d), NEW t \in Tasks, t = q[1],
         task'[t].submittedAt = task[t].submittedAt,
         \/ task'[t].status = task[t].status /\ ~RequirementMet(t, task[t], request')
         \/ task'[t].status = "Completed" /\ RequirementMet(t, task[t], request')
  PROVE  /\ task'[t].submittedAt <= MaxSubmits[t] /\ task'[t].status # "Cancelled"
         /\ task'[t].status = "WaitingApproval" =>
              LET r == <<t, task'[t].submittedAt>>
              IN  r \in Requests /\ request'[r].status \notin {"None", "Cancelled"}
         /\ task'[t].status = "Completed" /\ NeedsApproval(t) =>
              /\ task'[t].submittedAt # 0
              /\ request'[<<t, task'[t].submittedAt>>].status = "Approved"
              /\ \A r \in Governing(t, task'[t], request') : request'[r].status = "Approved"
         /\ ~RequirementMet(t, task'[t], request')
<1> DEFINE k == <<t, task[t].submittedAt>>
<1>1. task'[t].submittedAt <= MaxSubmits[t] /\ task'[t].status # "Cancelled"
  BY DEF Inv, Outcomes, Stamped, OnTheTable
<1>2. \A r \in Requests : request'[r].status \in {"None", "Cancelled"} <=> request[r].status \in {"None", "Cancelled"}
  BY DEF Settled
<1>3. Governing(t, task'[t], request') = Governing(t, task[t], request)
  BY ZenonT(60), <1>2 DEF Governing
<1>4. Governing(t, task[t], request') = Governing(t, task[t], request)
  BY <1>2 DEF Governing
<1>5. task[t].submittedAt \in Nat /\ (task[t].submittedAt # 0 => k \in Requests)
  <2>1. /\ task[t].submittedAt \in Nat /\ task[t].submittedAt <= MaxSubmits[t] /\ MaxSubmits[t] \in Nat
    BY StatusTypes, HumanWorkAssumption DEF Inv, Outcomes, Stamped
  <2> QED
    BY <2>1, RequestPair
<1>6. task[t].status = "WaitingApproval" => k \in Requests /\ request[k].status \notin {"None", "Cancelled"}
  BY DEF Inv, Outcomes, OnTheTable
<1>7. k[1] = t /\ k[2] = task[t].submittedAt
  OBVIOUS
<1>8. CASE task'[t].status = "Completed" /\ RequirementMet(t, task[t], request')
  <2>1. /\ task[t].status = "WaitingApproval"
        /\ \A r \in Governing(t, task[t], request') : request'[r].status = "Approved"
    BY <1>8 DEF RequirementMet
  <2>2. k \in Requests /\ request[k].status \notin {"None", "Cancelled"}
    BY <1>6, <2>1
  <2>3. task[t].submittedAt # 0
    <3>1. k[2] \in 1 .. MaxSubmits[t]
      BY <1>7, <2>2, RequestPair
    <3> QED
      BY <1>7, <3>1, HumanWorkAssumption
  <2>4. k \in Governing(t, task[t], request)
    <3>1. k[2] >= task[t].submittedAt
      BY <1>5, <1>7
    <3> QED
      BY <1>7, <2>2, <2>3, <3>1 DEF Governing
  <2>5. request'[k].status = "Approved"
    BY <1>4, <2>1, <2>4
  <2>6. ~RequirementMet(t, task'[t], request')
    BY <1>8 DEF RequirementMet
  <2> QED
    BY <1>1, <1>3, <1>4, <1>8, <2>1, <2>3, <2>5, <2>6
<1>9. CASE task'[t].status = task[t].status /\ ~RequirementMet(t, task[t], request')
  <2>1. ~RequirementMet(t, task'[t], request')
    BY <1>3, <1>4, <1>9 DEF RequirementMet
  <2>2. task'[t].status = "WaitingApproval" => k \in Requests /\ request'[k].status \notin {"None", "Cancelled"}
    BY <1>2, <1>6, <1>9
  <2>3. ASSUME task'[t].status = "Completed", NeedsApproval(t)
        PROVE  /\ task[t].submittedAt # 0 /\ request'[k].status = "Approved"
               /\ \A r \in Governing(t, task'[t], request') : request'[r].status = "Approved"
    <3>1. /\ task[t].submittedAt # 0 /\ request[k].status = "Approved"
          /\ \A r \in Governing(t, task[t], request) : request[r].status = "Approved"
      BY <1>9, <2>3 DEF Inv, Outcomes, CompletedOnItsApproval
    <3>2. \A r \in Requests : request[r].status = "Approved" => request'[r].status = "Approved"
      BY DEF Settled
    <3>3. Governing(t, task[t], request) \subseteq Requests
      BY DEF Governing
    <3> QED
      BY <1>3, <1>5, <3>1, <3>2, <3>3
  <2> QED
    BY <1>1, <2>1, <2>2, <2>3
<1> QED
  BY <1>8, <1>9

LEMMA CommitDecisionInv == ASSUME Inv, NEW h \in Handlers, CommitDecision(h) PROVE Inv' /\ Onward
<1>0. PICK q, p, d, n : q = <<tx[h].step, tx[h].stamp>> /\ p = tx[h].who /\ d = tx[h].decision /\ n = tx[h].step
  OBVIOUS
<1>1. /\ tx[h].at = "locked" /\ tx[h].op = "decide" /\ Close(h) /\ UNCHANGED <<done, clock>>
      /\ IF n \in Tasks /\ Reconciles(n, request')
           THEN /\ TaskIsFree(h, n)
                /\ ReleaseWithin([task EXCEPT ![n].status = "Completed"], request', done)
           ELSE IF n \in Gates /\ d = "Approve"
                  THEN ReleaseWithin(task, request', done)
                  ELSE UNCHANGED task
  BY <1>0 DEF CommitDecision
<1>2. Settled(q, p, d) /\ Verdicts'
  BY <1>0, DecisionSettles
<1>3. q[1] = n /\ q \in Requests /\ request[q].status = "Pending"
  BY <1>0, <1>2 DEF Settled
<1>4. ASSUME NEW r \in Requests
      PROVE  /\ request[r].status \notin {"None", "Pending"} => request'[r].status = request[r].status
             /\ request[r].eyes \subseteq request'[r].eyes
             /\ request[r].status = "None" => request'[r].status = "None"
             /\ r # q => request'[r].status = request[r].status
  BY <1>2 DEF Settled
<1> DEFINE m == [task EXCEPT ![n].status = "Completed"]
           completes == n \in Tasks /\ Reconciles(n, request')
<1>5. completes => /\ m[n].status = "Completed" /\ m[n].submittedAt = task[n].submittedAt
                   /\ m \in [Tasks -> TaskRow] /\ \A u \in Tasks : u # n => m[u] = task[u]
                   /\ task[n].status = "WaitingApproval"
  <2> SUFFICES ASSUME n \in Tasks, Reconciles(n, request')
               PROVE  /\ m[n].status = "Completed" /\ m[n].submittedAt = task[n].submittedAt
                      /\ m \in [Tasks -> TaskRow] /\ \A u \in Tasks : u # n => m[u] = task[u]
                      /\ task[n].status = "WaitingApproval"
    OBVIOUS
  <2>1. task[n] \in TaskRow
    BY DEF Inv, TypeOK
  <2>2. m[n] = [task[n] EXCEPT !.status = "Completed"]
    BY DEF Inv, TypeOK
  <2>3. m[n] \in TaskRow /\ m[n].status = "Completed" /\ m[n].submittedAt = task[n].submittedAt
    BY <2>1, <2>2 DEF TaskRow, TaskStatuses
  <2>4. \A u \in Tasks : u # n => m[u] = task[u]
    BY DEF Inv, TypeOK
  <2>5. m = [u \in Tasks |-> m[u]]
    BY DEF Inv, TypeOK
  <2>6. \A u \in Tasks : m[u] \in TaskRow
    BY <2>3, <2>4 DEF Inv, TypeOK
  <2>7. task[n].status = "WaitingApproval"
    BY DEF Reconciles, RequirementMet
  <2> QED
    BY <2>3, <2>4, <2>5, <2>6, <2>7
<1>6. completes => ReleaseWithin(m, request', done) /\ TaskIsFree(h, n)
  BY <1>1
<1>7. ~completes => \/ ReleaseWithin(task, request', done) /\ n \in Gates
                    \/ UNCHANGED task /\ (n \in Gates => d # "Approve")
  BY <1>1
<1> HIDE DEF m, completes
<1>8. /\ Onward /\ NothingWaitsInVain' /\ task' \in [Tasks -> TaskRow]
      /\ \A u \in Tasks : /\ task'[u].submittedAt = task[u].submittedAt
                          /\ task'[u].status \in {"Completed", "WaitingApproval", "Cancelled"} =>
                                task'[u].status = task[u].status \/ (completes /\ u = n)
      /\ completes => task'[n].status = "Completed"
      /\ ~completes /\ n \in Tasks => task'[n].status = task[n].status
  <2>1. CASE completes
    <3>1. \A u \in Tasks : m[u] = task[u] \/ (task[u].status # "Waiting" /\ m[u].status = "Completed")
      BY <1>5, <2>1
    <3>2. /\ Onward /\ NothingWaitsInVain' /\ task' \in [Tasks -> TaskRow]
          /\ \A u \in Tasks : /\ task'[u].submittedAt = m[u].submittedAt
                              /\ m[u].status # "Waiting" => task'[u] = m[u]
                              /\ m[u].status = "Waiting" => task'[u].status \in {"Waiting", "Assigned"}
      BY <1>1, <1>4, <1>5, <1>6, <2>1, <3>1, Completes
    <3>3. n \in Tasks
      BY <2>1 DEF completes
    <3> QED
      BY <1>5, <2>1, <3>2, <3>3
  <2>2. CASE ~completes /\ ReleaseWithin(task, request', done) /\ n \in Gates
    <3>1. task \in [Tasks -> TaskRow]
      BY DEF Inv, TypeOK
    <3>2. /\ Onward /\ NothingWaitsInVain' /\ task' \in [Tasks -> TaskRow]
          /\ \A u \in Tasks : /\ task'[u].submittedAt = task[u].submittedAt
                              /\ task[u].status # "Waiting" => task'[u] = task[u]
                              /\ task[u].status = "Waiting" => task'[u].status \in {"Waiting", "Assigned"}
      BY <1>1, <1>4, <2>2, <3>1, Completes
    <3>3. n \notin Tasks
      BY <2>2, HumanWorkAssumption
    <3> QED
      BY <2>2, <3>2, <3>3
  <2>3. CASE ~completes /\ UNCHANGED task /\ (n \in Gates => d # "Approve")
    <3>1. \A g \in Gates : request'[<<g, 0>>].status \in {"Approved", "Cancelled"}
                              <=> request[<<g, 0>>].status \in {"Approved", "Cancelled"}
      <4> SUFFICES ASSUME NEW g \in Gates
                   PROVE  request'[<<g, 0>>].status \in {"Approved", "Cancelled"}
                             <=> request[<<g, 0>>].status \in {"Approved", "Cancelled"}
        OBVIOUS
      <4>1. <<g, 0>> \in Requests
        BY RequestPair
      <4>2. CASE <<g, 0>> # q
        BY <1>4, <4>1, <4>2
      <4>3. CASE <<g, 0>> = q
        <5>1. n \in Gates
          BY <1>3, <4>3
        <5>2. request'[q].status \in {"Rejected", "SentBack"}
          BY <1>2, <2>3, <5>1 DEF Settled
        <5> QED
          BY <1>3, <4>3, <5>2
      <4> QED
        BY <4>2, <4>3
    <3>2. Finished(task', request', done') = Finished(task, request, done)
      BY <1>1, <2>3, <3>1 DEF Finished
    <3>3. Onward
      BY <1>4, <2>3, <3>2, StatusTypes DEF Inv, Onward
    <3>4. NothingWaitsInVain'
      BY <2>3, <3>2 DEF Inv, NothingWaitsInVain
    <3> QED
      BY <2>3, <3>3, <3>4 DEF Inv, TypeOK
  <2> QED
    BY <1>7, <2>1, <2>2, <2>3
<1>9. TypeOK' /\ Transactions' /\ Unraised'
  <2>1. ASSUME NEW g \in Handlers \ {h}, tx[g].op \in TaskOps, tx[g].at = "locked",
               task'[tx[g].step].status = "Completed"
        PROVE  task[tx[g].step].status = "Completed"
    <3>1. tx[g].step \in Tasks
      BY <2>1, Opens DEF InOrder
    <3>2. completes => tx[g].step # n
      BY <1>6, <2>1 DEF TaskIsFree, HoldsTask
    <3> QED
      BY <1>8, <2>1, <3>1, <3>2
  <2>2. ASSUME NEW g \in Handlers \ {h}, tx[g].op = "submit" \/ (tx[g].op = "decide" /\ tx[g].at = "locked")
        PROVE  request'[<<tx[g].step, tx[g].stamp>>].status = request[<<tx[g].step, tx[g].stamp>>].status
    <3> DEFINE r == <<tx[g].step, tx[g].stamp>>
    <3>1. r \in Requests
      BY <2>2, Opens, RequestPair DEF InOrder, TaskOps
    <3>2. CASE tx[g].op = "submit"
      <4>1. request[r].status = "None"
        BY <3>2, Opens DEF InForce
      <4> QED
        BY <1>4, <3>1, <4>1
    <3>3. CASE tx[g].op = "decide" /\ tx[g].at = "locked"
      <4>1. r # q
        BY <1>0, <1>1, <3>3, Opens DEF Apart
      <4> QED
        BY <1>4, <3>1, <4>1
    <3> QED
      BY <2>2, <3>2, <3>3
  <2>3. /\ request' \in [Requests -> RequestRow] /\ done' \subseteq AiSteps /\ done \subseteq done'
    BY <1>1, <1>2 DEF Inv, TypeOK, Settled
  <2> QED
    BY <1>1, <1>4, <1>8, <2>1, <2>2, <2>3, Commits
<1>10. Outcomes'
  <2> SUFFICES ASSUME NEW u \in Tasks
      PROVE  /\ task'[u].submittedAt <= MaxSubmits[u] /\ task'[u].status # "Cancelled"
             /\ task'[u].status = "WaitingApproval" =>
                  LET r == <<u, task'[u].submittedAt>>
                  IN  r \in Requests /\ request'[r].status \notin {"None", "Cancelled"}
             /\ task'[u].status = "Completed" /\ NeedsApproval(u) =>
                  /\ task'[u].submittedAt # 0
                  /\ request'[<<u, task'[u].submittedAt>>].status = "Approved"
                  /\ \A r \in Governing(u, task'[u], request') : request'[r].status = "Approved"
             /\ ~RequirementMet(u, task'[u], request')
    BY OutcomesOfEach
  <2>1. CASE u = n
    <3>1. \/ task'[u].status = task[u].status /\ ~RequirementMet(u, task[u], request')
          \/ task'[u].status = "Completed" /\ RequirementMet(u, task[u], request')
      BY <1>8, <2>1 DEF completes, Reconciles
    <3>2. task'[u].submittedAt = task[u].submittedAt
      BY <1>8
    <3> QED
      BY <1>2, <1>3, <2>1, <3>1, <3>2, DecidedTask
  <2>2. CASE u # n
    <3>1. task'[u].submittedAt <= MaxSubmits[u] /\ task'[u].status # "Cancelled"
      BY <1>8, <2>2 DEF Inv, Outcomes, Stamped, OnTheTable
    <3>2. task'[u].status \in {"Completed", "WaitingApproval"} =>
            task'[u].status = task[u].status /\ task'[u].submittedAt = task[u].submittedAt
      BY <1>8, <2>2
    <3>3. \A r \in Requests : r[1] = u => request'[r].status = request[r].status
      BY <1>3, <1>4, <2>2
    <3> QED
      BY <3>1, <3>2, <3>3, StaysApproved
  <2> QED
    BY <2>1, <2>2
<1> QED
  BY <1>2, <1>8, <1>9, <1>10 DEF Inv
-----------------------------------------------------------------------------
LEMMA StepInv == ASSUME Inv, [Next]_vars PROVE Inv' /\ (Onward \/ UNCHANGED vars)
<1>1. ASSUME NEW h \in Handlers, Operate(h) PROVE Inv' /\ Onward
  <2>1. CASE \E t \in Tasks, op \in TaskOps : ReadTask(h, op, t)
    BY <2>1, ReadTaskInv
  <2>2. CASE WriteTask(h) \/ CommitStart(h) \/ CommitStall(h)
    BY <2>2, WriteTaskInv, CommitStartInv, CommitStallInv
  <2>3. CASE CommitSubmit(h)
    BY <2>3, SubmitCompletes, SubmitRaises
  <2>4. CASE \E p \in People, r \in Requests, d \in Decisions : ReadRequest(h, p, r, d)
    BY <2>4, ReadRequestInv
  <2>5. CASE RecordDecision(h) \/ CommitEye(h) \/ SettleRequest(h) \/ CommitDecision(h)
    BY <2>5, RecordDecisionInv, CommitEyeInv, SettleRequestInv, CommitDecisionInv
  <2>6. CASE \E a \in AiSteps : ReadPlan(h, a)
    BY <2>6, ReadPlanInv
  <2>7. CASE CommitRun(h) \/ RollBack(h)
    BY <2>7, CommitRunInv, RollBackInv
  <2> QED
    BY <1>1, <2>1, <2>2, <2>3, <2>4, <2>5, <2>6, <2>7 DEF Operate
<1>2. CASE UNCHANGED vars
  BY <1>2 DEF vars, Inv, TypeOK, Transactions, Unraised, Verdicts, OtherEyes, ApprovalsAreIndependent,
     Outcomes, Stamped, OnTheTable, CompletedOnItsApproval, ApprovedWorkCompletes, NothingWaitsInVain
<1> QED
  BY <1>1, <1>2 DEF Next

LEMMA InvAlways == Spec => []Inv
<1>1. Inv /\ [Next]_vars => Inv'
  BY StepInv
<1> QED
  BY InitInv, <1>1, PTL DEF Spec

\* Every variable keeps to its type, however the transactions interleave.
THEOREM TypeCorrect == Spec => []TypeOK
<1>1. Inv => TypeOK
  BY DEF Inv
<1> QED
  BY InvAlways, <1>1, PTL

\* The separation of duties holds of what was approved, for any number of approvers at once
\* (approval.service.ts, scope-evaluation.ts).
THEOREM ApprovedByOthers == Spec => []ApprovalsAreIndependent
<1>1. Inv => ApprovalsAreIndependent
  BY DEF Inv, Verdicts
<1> QED
  BY InvAlways, <1>1, PTL

\* A task is completed by the approval of the submission on the table and by no other
\* (human-task.service.ts, approval.service.ts).
THEOREM NothingSlipsThrough == Spec => []CompletedOnItsApproval
<1>1. Inv => CompletedOnItsApproval
  BY DEF Inv, Outcomes
<1> QED
  BY InvAlways, <1>1, PTL

\* A task whose approval has been given does not wait for it (reconcileApprovalOutcome).
THEOREM ApprovalIsEnough == Spec => []ApprovedWorkCompletes
<1>1. Inv => ApprovedWorkCompletes
  BY DEF Inv, Outcomes
<1> QED
  BY InvAlways, <1>1, PTL

\* No release is lost among the transactions that take the trail's lock (work-release.service.ts).
THEOREM NoReleaseIsLost == Spec => []NothingWaitsInVain
<1>1. Inv => NothingWaitsInVain
  BY DEF Inv
<1> QED
  BY InvAlways, <1>1, PTL

\* A verdict is final (uboss_approval_decision_is_final).
THEOREM VerdictsStand == Spec => VerdictsAreFinal
<1>1. Inv /\ [Next]_vars =>
        [\A r \in Requests :
           request[r].status \notin {"None", "Pending"} => request'[r].status = request[r].status]_vars
  BY StepInv DEF Onward
<1> QED
  BY InvAlways, <1>1, PTL DEF Spec, VerdictsAreFinal
-----------------------------------------------------------------------------
Stage == [n \in Steps |-> IF n \in Finished(task, request, done) THEN "done"
                          ELSE IF n \in Tasks /\ task[n].status = "Waiting" THEN "waiting"
                          ELSE "open"]

LEMMA FinishedIn == TypeOK => /\ Finished(task, request, done) \subseteq Steps
                              /\ \A t \in Tasks : t \in Finished(task, request, done)
                                    <=> task[t].status \in {"Completed", "Cancelled"}
BY HumanWorkAssumption DEF TypeOK, Finished, Steps

\* The plan starts as published.
LEMMA PlanStarts == Init => Plan!Init
<1> SUFFICES ASSUME Init PROVE Plan!Init
  OBVIOUS
<1>1. Finished(task, request, done) = {}
  BY RequestPair DEF Init, Finished
<1>2. ASSUME NEW t \in Tasks
      PROVE  task[t].status = "Waiting" <=> ~(DependsOn[t] \cap Steps \subseteq {})
  BY DEF Init, DependenciesSatisfied
<1>3. Stage = [n \in Steps |-> IF n \in Tasks /\ ~(DependsOn[n] \cap Steps \subseteq {})
                                  THEN "waiting" ELSE "open"]
  BY <1>1, <1>2 DEF Stage
<1> QED
  BY <1>3 DEF Stage, Plan!Init, Plan!MayOpen, Plan!Steps, Steps

\* Every step of the rows is a step of the plan.
LEMMA PlanSteps == ASSUME Inv, Inv', Onward PROVE Plan!Next
<1> DEFINE F == Finished(task, request, done)
           G == Finished(task', request', done')
<1>1. /\ F \subseteq G /\ F \subseteq Steps /\ G \subseteq Steps
      /\ \A t \in Tasks : /\ t \in F <=> task[t].status \in {"Completed", "Cancelled"}
                          /\ t \in G <=> task'[t].status \in {"Completed", "Cancelled"}
  <2>1. F \subseteq Steps /\ \A t \in Tasks : t \in F <=> task[t].status \in {"Completed", "Cancelled"}
    BY FinishedIn DEF Inv
  <2>2. G \subseteq Steps /\ \A t \in Tasks : t \in G <=> task'[t].status \in {"Completed", "Cancelled"}
    BY HumanWorkAssumption DEF Inv, TypeOK, Finished, Steps
  <2> QED
    BY <2>1, <2>2 DEF Onward
<1>2. \A t \in Tasks :
        /\ task[t].status # "Waiting" => task'[t].status # "Waiting"
        /\ task[t].status = "Waiting" =>
              /\ task'[t].status \in {"Waiting", "Assigned"}
              /\ task'[t].status = "Assigned" => DependsOn[t] \cap Steps \subseteq G
  BY DEF Onward
<1>3. Stage' = [n \in Steps |-> IF n \in G THEN "done"
                                ELSE IF n \in Tasks /\ task'[n].status = "Waiting" THEN "waiting"
                                ELSE "open"]
  BY DEF Stage
<1>4. Stage = [n \in Steps |-> IF n \in F THEN "done"
                               ELSE IF n \in Tasks /\ task[n].status = "Waiting" THEN "waiting"
                               ELSE "open"]
  BY DEF Stage
<1> HIDE DEF F, G
<1>5. Stage' \in [Steps -> Plan!Stages]
  BY <1>3 DEF Plan!Stages
<1>6. ASSUME NEW n \in Steps PROVE <<Stage[n], Stage'[n]>> \in Plan!Forward
  <2>1. Stage[n] = "done" => Stage'[n] = "done"
    BY <1>1, <1>3, <1>4
  <2>2. Stage[n] = "open" => Stage'[n] \in {"open", "done"}
    BY <1>1, <1>2, <1>3, <1>4
  <2>3. Stage[n] = "waiting" => Stage'[n] \in {"waiting", "open"}
    BY <1>1, <1>2, <1>3, <1>4
  <2>4. Stage[n] \in {"waiting", "open", "done"}
    BY <1>4
  <2> QED
    BY <2>1, <2>2, <2>3, <2>4 DEF Plan!Forward, Plan!Stages
<1>7. ASSUME NEW t \in Tasks, Stage[t] = "waiting", Stage'[t] = "open"
      PROVE  DependsOn[t] \cap Steps \subseteq {n \in Steps : Stage'[n] = "done"}
  <2>1. t \in Steps
    BY DEF Steps
  <2>2. task[t].status = "Waiting" /\ task'[t].status # "Waiting"
    BY <1>3, <1>4, <1>7, <2>1
  <2>3. DependsOn[t] \cap Steps \subseteq G
    BY <1>2, <2>2
  <2>4. \A n \in G : n \in Steps /\ Stage'[n] = "done"
    BY <1>1, <1>3
  <2> QED
    BY <2>3, <2>4
<1>8. Plan!Steps = Steps
  BY DEF Plan!Steps, Steps
<1> QED
  BY <1>5, <1>6, <1>7, <1>8 DEF Stage, Plan!Next, Plan!MayOpen

\* The transactions carry the published plan out: every one of them is a step of it, or none
\* (work-release.service.ts), for any plan.
THEOREM ThePlanIsFollowed == Spec => PlanIsFollowed
<1>1. Inv /\ Inv' /\ [Next]_vars => Plan!Next \/ UNCHANGED Stage
  <2> SUFFICES ASSUME Inv, Inv', [Next]_vars PROVE Plan!Next \/ UNCHANGED Stage
    OBVIOUS
  <2>1. CASE Onward
    BY <2>1, PlanSteps
  <2>2. CASE UNCHANGED vars
    BY <2>2 DEF vars, Stage
  <2> QED
    BY <2>1, <2>2, StepInv
<1> QED
  BY InvAlways, PlanStarts, <1>1, PTL DEF Spec, PlanIsFollowed, Plan!Spec, Stage
=============================================================================
