------------------------------ MODULE Delivery ------------------------------
(***************************************************************************)
(* From a client's request to the mail about it: the work of a request     *)
(* raises a notification, whose message is enqueued in the transaction of  *)
(* the work, and a dispatcher delivers it.                                 *)
(***************************************************************************)
EXTENDS Idempotency, Outbox

CONSTANT Raises         \* the requests whose work raises a notification by mail

vars == <<idempotencyVars, outboxVars>>

Init == IdempotencyInit /\ OutboxInit

\* raise, within the caller's transaction: each time the work is done is a notification of its own.
Raise(s) ==
  LET r == attempt[s].of IN
  IF r \in Raises THEN enqueue(<<r, done[r] + 1>>) /\ UNCHANGED <<dispatcher, sent>>
  ELSE UNCHANGED outboxVars

ServerStep(s) ==
  \/ AttemptStep(s) /\ UNCHANGED outboxVars
  \/ Work(s) /\ Raise(s)
ServerFault(s) ==
  \/ AttemptFault(s) /\ UNCHANGED outboxVars
  \/ WorkFailsLate(s) /\ Raise(s)

DispatcherFault(d) == (WriteFails(d) \/ DispatcherStops(d)) /\ Mishap

Next ==
  \/ \E s \in Servers : \/ \E r \in Requests : Arrive(s, r) /\ UNCHANGED outboxVars
                        \/ ServerStep(s) \/ ServerFault(s)
  \/ \E k \in Keys : (Expire(k) \/ Sweep(k)) /\ UNCHANGED outboxVars
  \/ \E d \in Dispatchers :
       \/ DispatcherStep(d) /\ UNCHANGED idempotencyVars
       \/ DispatcherFault(d) /\ UNCHANGED <<record, attempt, told, done, performed, excused, orphaned>>

Spec == Init /\ [][Next]_vars

\* Processes that run go on; a client without an answer asks again, whoever else does; a window
\* ends, whatever happens in it.
Fairness ==
  /\ \A s \in Servers : WF_vars(ServerStep(s))
  /\ WF_vars(\E d \in Dispatchers : DispatcherStep(d) /\ UNCHANGED idempotencyVars)
  /\ \A r \in Requests : SF_vars(\E s \in Servers : Arrive(s, r) /\ UNCHANGED outboxVars)
  /\ \A k \in Keys : SF_vars(Expire(k) /\ UNCHANGED outboxVars)

FairSpec == Spec /\ Fairness
=============================================================================
