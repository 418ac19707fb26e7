----------------------------- MODULE Idempotency -----------------------------
(***************************************************************************)
(* Requests that carry an idempotency key (IdempotencyService and the      *)
(* interceptor around every handler). A client that has no answer sends    *)
(* its request again, perhaps while an earlier attempt is under way. An    *)
(* attempt claims the key by inserting its record, does the work, and      *)
(* writes the answer on the record, or takes the record away.              *)
(***************************************************************************)
EXTENDS Naturals, Sequences

CONSTANTS Requests,     \* requests, each with content of its own
          Keys,
          KeyOf,        \* the key a request carries
          Servers,      \* attempts that may be under way
          NoRequest,
          MaxMishaps    \* bound: deaths, lost answers, failed writes, late failures

ASSUME IdempotencyAssumption ==
  /\ KeyOf \in [Requests -> Keys] /\ NoRequest \notin Requests
  /\ MaxMishaps \in Nat

VARIABLES record,       \* idempotency_records by key: whose, answered or not, expired or not
          attempt,      \* what each attempt is at, and of which request
          told,         \* what the client of a request has been told
          mishaps,
          done,         \* history: how often the work of a request was performed
          performed,    \* history: what was performed under a key since it was last free
          excused,      \* history: how often the work of a request may be performed again
          orphaned      \* history: keys whose record nobody will answer or take away

idempotencyVars == <<record, attempt, told, mishaps, done, performed, excused, orphaned>>

NoRecord == [of |-> NoRequest, answered |-> FALSE, expired |-> FALSE]
Idle == [at |-> "idle", of |-> NoRequest]

IdempotencyInit ==
  /\ record = [k \in Keys |-> NoRecord] /\ attempt = [s \in Servers |-> Idle]
  /\ told = [r \in Requests |-> "nothing"] /\ mishaps = 0
  /\ done = [r \in Requests |-> 0] /\ performed = [k \in Keys |-> <<>>]
  /\ excused = [r \in Requests |-> 0] /\ orphaned = {}

KeyAt(s) == KeyOf[attempt[s].of]
HasClaim(s) == attempt[s].at \in {"work", "finish", "abandon"}

\* An expired record is as good as none.
Live(k) == record[k].of # NoRequest /\ ~record[k].expired

\* Mutant: the content of the request is not compared with the record's.
DecidesByKey(k, r) ==
  IF ~Live(k) THEN "Fresh" ELSE IF record[k].answered THEN "Replay" ELSE "InFlight"

decideIdempotency(k, r) ==
  IF ~Live(k) THEN "Fresh"
  ELSE IF record[k].of # r THEN "Conflict"
  ELSE IF record[k].answered THEN "Replay" ELSE "InFlight"

\* A mishap more.
Mishap == mishaps < MaxMishaps /\ mishaps' = mishaps + 1

\* The attempt ends. Its answer may get lost on the way; an answer that the request is still
\* under way, or that it failed, tells the client to come again.
Answer(s, said) ==
  /\ attempt' = [attempt EXCEPT ![s] = Idle]
  /\ \/ told' = (IF said \in {"done", "refused"} THEN [told EXCEPT ![attempt[s].of] = said] ELSE told)
        /\ UNCHANGED mishaps
     \/ said \in {"done", "refused"} /\ Mishap /\ UNCHANGED told

\* The client has no answer (yet), and sends the request.
Arrive(s, r) ==
  /\ attempt[s].at = "idle" /\ told[r] = "nothing"
  /\ attempt' = [attempt EXCEPT ![s] = [at |-> "begin", of |-> r]]
  /\ UNCHANGED <<record, told, mishaps, done, performed, excused, orphaned>>

\* begin reads the record and decides.
Begin(s) ==
  LET outcome == decideIdempotency(KeyAt(s), attempt[s].of) IN
  /\ attempt[s].at = "begin"
  /\ \/ outcome = "Fresh" /\ attempt' = [attempt EXCEPT ![s].at = "claim"] /\ UNCHANGED <<told, mishaps>>
     \/ outcome = "InFlight" /\ Answer(s, "later")
     \/ outcome = "Conflict" /\ Answer(s, "refused")
     \/ outcome = "Replay" /\ Answer(s, "done")
  /\ UNCHANGED <<record, done, performed, excused, orphaned>>

\* Mutant: the record is written without asking the unique index.
ClaimsAnyway(k) == TRUE

\* Mutant: an expired record is left in the way of the insert.
ClaimsUnrecorded(k) == record[k].of = NoRequest

\* The insert finds no record that has not expired.
MayClaim(k) == ~Live(k)

\* In one transaction: an expired record is deleted and the new one inserted.
Claim(s) ==
  /\ attempt[s].at = "claim" /\ MayClaim(KeyAt(s))
  /\ record' = [record EXCEPT ![KeyAt(s)] = [NoRecord EXCEPT !.of = attempt[s].of]]
  /\ attempt' = [attempt EXCEPT ![s].at = "work"]
  /\ UNCHANGED <<told, mishaps, done, performed, excused, orphaned>>

\* The unique index refuses the insert: InFlight, whatever the content.
ClaimLost(s) ==
  /\ attempt[s].at = "claim" /\ ~MayClaim(KeyAt(s))
  /\ Answer(s, "later")
  /\ UNCHANGED <<record, done, performed, excused, orphaned>>

Perform(r) ==
  /\ done' = [done EXCEPT ![r] = @ + 1]
  /\ performed' = [performed EXCEPT ![KeyOf[r]] = Append(@, r)]

\* The handler.
Work(s) ==
  /\ attempt[s].at = "work" /\ Perform(attempt[s].of)
  /\ attempt' = [attempt EXCEPT ![s].at = "finish"]
  /\ UNCHANGED <<record, told, mishaps, excused, orphaned>>

\* The handler throws, and nothing is committed.
WorkFails(s) ==
  /\ attempt[s].at = "work" /\ Mishap
  /\ attempt' = [attempt EXCEPT ![s].at = "abandon"]
  /\ UNCHANGED <<record, told, done, performed, excused, orphaned>>

\* The handler throws after its work was committed.
WorkFailsLate(s) ==
  /\ attempt[s].at = "work" /\ Perform(attempt[s].of) /\ Mishap
  /\ excused' = [excused EXCEPT ![attempt[s].of] = @ + 1]
  /\ attempt' = [attempt EXCEPT ![s].at = "abandon"]
  /\ UNCHANGED <<record, told, orphaned>>

\* finish: the answer is written on the record of the key, and returned.
Finish(s) ==
  /\ attempt[s].at = "finish"
  /\ record' = [record EXCEPT ![KeyAt(s)].answered = (record[KeyAt(s)].of # NoRequest)]
  /\ Answer(s, "done")
  /\ UNCHANGED <<done, performed, excused, orphaned>>

\* The write of finish fails, and the answer is returned all the same.
FinishFails(s) ==
  /\ attempt[s].at = "finish" /\ Mishap
  /\ told' = [told EXCEPT ![attempt[s].of] = "done"]
  /\ attempt' = [attempt EXCEPT ![s] = Idle] /\ orphaned' = orphaned \cup {KeyAt(s)}
  /\ UNCHANGED <<record, done, performed, excused>>

\* Mutant: a failed request's record is kept.
KeepsRecord(k) == UNCHANGED <<record, performed>>

Release(k) ==
  /\ record' = [record EXCEPT ![k] = NoRecord]
  /\ performed' = [performed EXCEPT ![k] = <<>>]

\* abandon takes the record away, unless it bears an answer, and the error leaves.
Abandon(s) ==
  /\ attempt[s].at = "abandon"
  /\ IF record[KeyAt(s)].answered THEN UNCHANGED <<record, performed>> ELSE Release(KeyAt(s))
  /\ Answer(s, "later")
  /\ UNCHANGED <<done, excused, orphaned>>

AbandonFails(s) ==
  /\ attempt[s].at = "abandon" /\ Mishap
  /\ attempt' = [attempt EXCEPT ![s] = Idle] /\ orphaned' = orphaned \cup {KeyAt(s)}
  /\ UNCHANGED <<record, told, done, performed, excused>>

\* The process dies with the attempt.
ServerDies(s) ==
  /\ attempt[s].at # "idle" /\ Mishap
  /\ attempt' = [attempt EXCEPT ![s] = Idle]
  /\ orphaned' = IF HasClaim(s) THEN orphaned \cup {KeyAt(s)} ELSE orphaned
  /\ UNCHANGED <<record, told, done, performed, excused>>

\* The window of 24 hours ends. No attempt lasts as long: not one that has the key, and not one
\* that came before its client was answered.
Outlasted(s) == HasClaim(s) \/ told[attempt[s].of] # "nothing"

Expire(k) ==
  /\ Live(k) /\ \A s \in Servers : attempt[s].at # "idle" /\ KeyAt(s) = k => ~Outlasted(s)
  /\ record' = [record EXCEPT ![k].expired = TRUE]
  /\ performed' = [performed EXCEPT ![k] = <<>>] /\ orphaned' = orphaned \ {k}
  /\ excused' = [r \in Requests |-> IF KeyOf[r] = k /\ done[r] > 0 THEN excused[r] + 1 ELSE excused[r]]
  /\ UNCHANGED <<attempt, told, mishaps, done>>

\* sweep deletes what has expired.
Sweep(k) ==
  /\ record[k].expired
  /\ record' = [record EXCEPT ![k] = NoRecord]
  /\ UNCHANGED <<attempt, told, mishaps, done, performed, excused, orphaned>>

\* Everything but the work itself, which Work and WorkFailsLate do.
AttemptStep(s) ==
  Begin(s) \/ Claim(s) \/ ClaimLost(s) \/ Finish(s) \/ Abandon(s)
AttemptFault(s) == WorkFails(s) \/ FinishFails(s) \/ AbandonFails(s) \/ ServerDies(s)

IdempotencyNext ==
  \/ \E s \in Servers : \/ \E r \in Requests : Arrive(s, r)
                        \/ AttemptStep(s) \/ AttemptFault(s) \/ Work(s) \/ WorkFailsLate(s)
  \/ \E k \in Keys : Expire(k) \/ Sweep(k)

IdempotencySpec == IdempotencyInit /\ [][IdempotencyNext]_idempotencyVars

Once == INSTANCE OncePerKey
=============================================================================
