-------------------------- MODULE DeliveryProperties --------------------------
(***************************************************************************)
(* What a client that repeats its requests, and whoever is to be told of   *)
(* their work, may rely on.                                                *)
(***************************************************************************)
EXTENDS Delivery

\* Every variable keeps to its type.
TypeOK ==
  /\ record \in [Keys -> [of : Requests \cup {NoRequest}, answered : BOOLEAN, expired : BOOLEAN]]
  /\ attempt \in [Servers -> [at : {"idle", "begin", "claim", "work", "finish", "abandon"},
                              of : Requests \cup {NoRequest}]]
  /\ told \in [Requests -> {"nothing", "done", "refused"}] /\ mishaps \in 0..MaxMishaps
  /\ done \in [Requests -> Nat] /\ performed \in [Keys -> Seq(Requests)]
  /\ excused \in [Requests -> Nat] /\ orphaned \subseteq Keys
  /\ outbox \in [Messages -> [state : {"none", "Pending", "InFlight", "Delivered", "Failed", "DeadLettered"},
                              attempts : 0..MaxAttempts]]
  /\ dispatcher \in [Dispatchers -> [at : {"idle", "loop", "deliver", "sent", "failed"},
                                     todo : SUBSET Messages, of : Messages \cup {NoMessage}]]
  /\ sent \in [Messages -> Nat]

\* Attempts that race, die, fail and come again keep to OncePerKey: under a key that is remembered
\* one request is performed, once, and a client is told of its own work only (begin, finish, abandon).
ImplementsOncePerKey == Once!Spec

\* Work is done again only after an attempt that failed after its work, or when the key's window is
\* over, whatever answer was lost before (begin, finish, abandon).
RepeatedWithReason == \A r \in Requests : done[r] <= 1 + excused[r]

\* A client is told "still being processed" only while somebody works on it, or when the process or
\* the last write of an attempt was lost: no failed attempt blocks a key (interceptor.run, abandon).
UnansweredIsWorkedOn ==
  \A k \in Keys : (Live(k) /\ ~record[k].answered) =>
    k \in orphaned \/ \E s \in Servers : HasClaim(s) /\ KeyAt(s) = k

\* A client that keeps asking is answered in the end: what a dead attempt left behind is forgotten
\* when its window is over, sweep or no sweep (begin).
EveryRequestIsAnswered == \A r \in Requests : (told[r] = "nothing") ~> (told[r] # "nothing")

\* However many dispatchers claim the same message, or die with it, it is handed to the provider at
\* most OUTBOX_MAX_ATTEMPTS times (claimDue).
SendsAreBounded == \A m \in Messages : sent[m] <= MaxAttempts

\* Delivered and DeadLettered mean what they say: the provider accepted the message, and the attempts
\* are used up (markDelivered, markFailed).
MarksTellTheTruth ==
  \A m \in Messages : /\ outbox[m].state = "Delivered" => sent[m] > 0
                      /\ outbox[m].state = "DeadLettered" => outbox[m].attempts = MaxAttempts

\* A message is delivered, found to have failed, or tried as often
\* as may be, whoever dies with it (runOnce, claimDue).
EveryMessageIsTried ==
  \A m \in Messages :
    (outbox[m].state = "Pending") ~>
      \/ outbox[m].state \in {"Delivered", "Failed", "DeadLettered"}
      \/ outbox[m].attempts = MaxAttempts

\* The same, of a message that failed once: "a transient outage self-heals"
\* (outbox.repository.ts:165), or the message is dead-lettered.
EveryMessageSettles ==
  \A m \in Messages :
    (outbox[m].state = "Pending") ~> (outbox[m].state \in {"Delivered", "DeadLettered"})
=============================================================================
