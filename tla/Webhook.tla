------------------------------- MODULE Webhook -------------------------------
(***************************************************************************)
(* The inbox of the payment provider's deliveries. The provider sends an   *)
(* event until somebody answers 2xx; a handler first claims the event by   *)
(* its row, applies it in transactions of its own, and closes the row with *)
(* the outcome. The steps between are the module's that uses this one:     *)
(* Working says a handler is at one of them.                               *)
(***************************************************************************)
EXTENDS Naturals, Sequences

CONSTANTS Events,       \* the provider's events
          Handlers,     \* requests of the webhook route that may be under way
          MaxFailures,  \* attempts that may fail, of each event
          MaxDeaths,    \* handlers that may die with their process
          Watched,      \* the steps at which a failure is told from the others'
          NoEvent       \* no event

VARIABLES inbox,        \* the row of an event in stripe_webhook_events, by outcome
          owed,         \* whether the provider has the event still to deliver
          handler,      \* where each handler is, on which event, and what it has read
          failed,       \* where the attempts of an event failed: at a watched step, or elsewhere
          deaths        \* handlers that have died

webhookVars == <<inbox, owed, handler, failed, deaths>>

Outcomes == {"open", "failed", "applied", "ignored"}
Resting == [at |-> "idle", event |-> NoEvent, seen |-> "nothing"]

WebhookInit ==
  /\ inbox = [e \in Events |-> "unseen"] /\ owed = [e \in Events |-> "no"]
  /\ handler = [h \in Handlers |-> Resting]
  /\ failed = [e \in Events |-> <<>>] /\ deaths = 0

WorksOn(e) == {h \in Handlers : handler[h].event = e /\ handler[h].at \notin {"idle", "claiming"}}

\* A 2xx answer: the provider will not send the event again. It is early when it answers for an
\* attempt that has not succeeded yet.
Answer(h, how) ==
  /\ owed' = [owed EXCEPT ![handler[h].event] = how]
  /\ handler' = [handler EXCEPT ![h] = Resting]

\* A delivery arrives, perhaps while an earlier one of the same event is being handled: claim
\* reads the row.
Receive(h, e) ==
  /\ handler[h].at = "idle" /\ owed[e] = "yes"
  /\ handler' = [handler EXCEPT ![h] = [at |-> "claiming", event |-> e, seen |-> inbox[e]]]
  /\ UNCHANGED <<inbox, owed, failed, deaths>>

\* Mutant: the failed row is taken back without asking that it still be failed.
ClaimableUnchecked(e, seen) == seen = "failed" \/ (seen = "unseen" /\ inbox[e] = "unseen")

\* The insert of a new row meets no other, or the conditional update still finds a failed one.
Claimable(e, seen) == seen \in {"unseen", "failed"} /\ inbox[e] = seen

Claim(h) ==
  LET e == handler[h].event IN
  /\ handler[h].at = "claiming" /\ Claimable(e, handler[h].seen)
  /\ inbox' = [inbox EXCEPT ![e] = "open"]
  /\ handler' = [handler EXCEPT ![h].at = "apply", ![h].seen = "nothing"]
  /\ UNCHANGED <<owed, failed, deaths>>

\* Applied, ignored or under way elsewhere: 200, duplicate.
Duplicate(h) ==
  /\ handler[h].at = "claiming" /\ ~Claimable(handler[h].event, handler[h].seen)
  /\ Answer(h, IF inbox[handler[h].event] \in {"applied", "ignored"} THEN "answered" ELSE "early")
  /\ UNCHANGED <<inbox, failed, deaths>>

\* close, after which the handler answers 200.
Close(h) ==
  /\ handler[h].at \in {"applied", "ignored"}
  /\ inbox' = [inbox EXCEPT ![handler[h].event] = handler[h].at]
  /\ Answer(h, "answered")
  /\ UNCHANGED <<failed, deaths>>

\* The transaction of the step the handler is at fails: nothing of it is written.
StepFails(h) ==
  /\ handler[h].at \notin {"idle", "claiming", "failing"} /\ Len(failed[handler[h].event]) < MaxFailures
  /\ failed' = [failed EXCEPT ![handler[h].event] =
                   Append(@, IF handler[h].at \in Watched THEN handler[h].at ELSE "elsewhere")]
  /\ handler' = [handler EXCEPT ![h].at = "failing", ![h].seen = "nothing"]
  /\ UNCHANGED <<inbox, owed, deaths>>

\* close as failed, and the error leaves: the provider keeps the event.
CloseFailed(h) ==
  /\ handler[h].at = "failing"
  /\ inbox' = [inbox EXCEPT ![handler[h].event] = "failed"]
  /\ handler' = [handler EXCEPT ![h] = Resting]
  /\ UNCHANGED <<owed, failed, deaths>>

\* The process dies; nobody answers, and nobody closes the row.
Die(h) ==
  /\ handler[h].at # "idle" /\ deaths < MaxDeaths
  /\ handler' = [handler EXCEPT ![h] = Resting]
  /\ deaths' = deaths + 1
  /\ UNCHANGED <<inbox, owed, failed>>

\* The steps every event shares.
WebhookStep(h) ==
  \/ \E e \in Events : Receive(h, e)
  \/ Claim(h) \/ Duplicate(h) \/ Close(h) \/ CloseFailed(h)
WebhookFault(h) == StepFails(h) \/ Die(h)

\* Nobody will ever apply the event: its row stands open though no handler works on it, or the
\* attempt failed after a second delivery had been answered as the duplicate of it.
Stranded(e) ==
  /\ \A h \in Handlers : handler[h].event # e
  /\ inbox[e] = "open" \/ (inbox[e] = "failed" /\ owed[e] = "early")
=============================================================================
