------------------------------- MODULE Outbox -------------------------------
(***************************************************************************)
(* The transactional outbox and its dispatchers: a message is enqueued in  *)
(* the transaction of the work it tells of; a dispatcher claims what is    *)
(* due, hands each message to the mail provider, and marks it.             *)
(***************************************************************************)
EXTENDS Naturals, FiniteSets

CONSTANTS Messages,     \* those of notification.email, the one topic somebody consumes
          Dispatchers,  \* processes that run runOnce
          Limit,        \* how many messages a dispatcher claims at once
          MaxAttempts,  \* OUTBOX_MAX_ATTEMPTS
          NoMessage

ASSUME OutboxAssumption ==
  /\ NoMessage \notin Messages /\ IsFiniteSet(Dispatchers)
  /\ Limit \in Nat \ {0} /\ MaxAttempts \in Nat \ {0}

VARIABLES outbox,       \* outbox_messages: state and attempts
          dispatcher,   \* what each dispatcher is at, with which message, and its other claims
          sent          \* history: how often the provider accepted a message

outboxVars == <<outbox, dispatcher, sent>>

Resting == [at |-> "idle", todo |-> {}, of |-> NoMessage]

OutboxInit ==
  /\ outbox = [m \in Messages |-> [state |-> "none", attempts |-> 0]]
  /\ dispatcher = [d \in Dispatchers |-> Resting]
  /\ sent = [m \in Messages |-> 0]

enqueue(m) == outbox' = [outbox EXCEPT ![m].state = "Pending"]

\* Mutant: what a dispatcher that died had claimed is left alone.
IsDueUnclaimed(m) == outbox[m].state = "Pending" /\ outbox[m].attempts < MaxAttempts

IsDue(m) == outbox[m].state \in {"Pending", "InFlight"} /\ outbox[m].attempts < MaxAttempts

\* claimDue: any of them, because rows that another claim has locked are skipped.
claimDue(d) ==
  /\ dispatcher[d].at = "idle"
  /\ \E batch \in SUBSET {m \in Messages : IsDue(m)} :
       /\ Cardinality(batch) \in 1..Limit
       /\ outbox' = [m \in Messages |-> IF m \in batch
                       THEN [state |-> "InFlight", attempts |-> outbox[m].attempts + 1] ELSE outbox[m]]
       /\ dispatcher' = [dispatcher EXCEPT ![d] = [at |-> "loop", todo |-> batch, of |-> NoMessage]]
  /\ UNCHANGED sent

GoTo(d, step) == dispatcher' = [dispatcher EXCEPT ![d].at = step]

\* The next of the batch, or the end of it.
Loop(d) ==
  /\ dispatcher[d].at = "loop"
  /\ IF dispatcher[d].todo = {} THEN dispatcher' = [dispatcher EXCEPT ![d] = Resting]
     ELSE \E m \in dispatcher[d].todo :
            dispatcher' = [dispatcher EXCEPT ![d] = [at |-> "deliver", todo |-> @.todo \ {m}, of |-> m]]
  /\ UNCHANGED <<outbox, sent>>

\* deliver: the provider accepts the message.
Send(d) ==
  /\ dispatcher[d].at = "deliver" /\ GoTo(d, "sent")
  /\ sent' = [sent EXCEPT ![dispatcher[d].of] = @ + 1]
  /\ UNCHANGED outbox

\* The provider refuses it, or there is nobody to send it to.
SendFails(d) ==
  /\ dispatcher[d].at = "deliver" /\ GoTo(d, "failed")
  /\ UNCHANGED <<outbox, sent>>

\* Writing the audit event that ends deliver, or the mark that follows it, fails: the message counts
\* as failed.
WriteFails(d) ==
  /\ dispatcher[d].at = "sent" /\ GoTo(d, "failed")
  /\ UNCHANGED <<outbox, sent>>

Mark(d, state) ==
  /\ outbox' = [outbox EXCEPT ![dispatcher[d].of].state = state]
  /\ dispatcher' = [dispatcher EXCEPT ![d].at = "loop", ![d].of = NoMessage]
  /\ UNCHANGED sent

\* With the audit event before it, which nobody reads in between.
markDelivered(d) == dispatcher[d].at = "sent" /\ Mark(d, "Delivered")

FailedState(m) == IF outbox[m].attempts >= MaxAttempts THEN "DeadLettered" ELSE "Failed"

markFailed(d) == dispatcher[d].at = "failed" /\ Mark(d, FailedState(dispatcher[d].of))

\* The dispatcher dies, or markFailed throws and the rest of the batch is left as it is.
DispatcherStops(d) ==
  /\ dispatcher[d].at # "idle"
  /\ dispatcher' = [dispatcher EXCEPT ![d] = Resting]
  /\ UNCHANGED <<outbox, sent>>

DispatcherStep(d) ==
  claimDue(d) \/ Loop(d) \/ Send(d) \/ SendFails(d) \/ markDelivered(d) \/ markFailed(d)

OutboxNext ==
  \/ \E m \in Messages : outbox[m].state = "none" /\ enqueue(m) /\ UNCHANGED <<dispatcher, sent>>
  \/ \E d \in Dispatchers : DispatcherStep(d) \/ WriteFails(d) \/ DispatcherStops(d)

OutboxSpec == OutboxInit /\ [][OutboxNext]_outboxVars
=============================================================================
