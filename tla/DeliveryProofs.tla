---------------------------- MODULE DeliveryProofs ----------------------------
(***************************************************************************)
(* Machine-checked proofs about Delivery, for any requests, keys, attempts *)
(* under way, messages, dispatchers and mishaps.                           *)
(***************************************************************************)
EXTENDS DeliveryProperties, FiniteSetTheorems, TLAPS

Record == [of : Requests \cup {NoRequest}, answered : BOOLEAN, expired : BOOLEAN]
AttemptRow == [at : {"idle", "begin", "claim", "work", "finish", "abandon"},
               of : Requests \cup {NoRequest}]

RequestsTyped ==
  /\ record \in [Keys -> Record]
  /\ attempt \in [Servers -> AttemptRow]
  /\ \A s \in Servers : attempt[s].at # "idle" => attempt[s].of \in Requests
  /\ told \in [Requests -> {"nothing", "done", "refused"}]
  /\ done \in [Requests -> Nat] /\ excused \in [Requests -> Nat]
  /\ performed \in [Keys -> Seq(Requests)]

(* A key has one attempt at its work, whose record is the live one; what   *)
(* was performed under it is the request of the record, which bears an     *)
(* answer only when the work was done.                                     *)
OneClaim ==
  \A s, t \in Servers : HasClaim(s) /\ HasClaim(t) /\ KeyAt(s) = KeyAt(t) => s = t

ClaimsHold ==
  \A s \in Servers : HasClaim(s) =>
    /\ record[KeyAt(s)].of = attempt[s].of /\ record[KeyAt(s)].answered = FALSE /\ record[KeyAt(s)].expired = FALSE
    /\ attempt[s].at = "work" => performed[KeyAt(s)] = <<>>
    /\ attempt[s].at = "finish" => performed[KeyAt(s)] = <<attempt[s].of>>

PerformedIsRecorded ==
  \A k \in Keys :
    /\ performed[k] # <<>> => Live(k) /\ performed[k] = <<record[k].of>>
    /\ Live(k) /\ record[k].answered => performed[k] = <<record[k].of>>

(* How often a request was performed without an excuse for the last time:  *)
(* only what is performed under its key now may have none.                 *)
RepeatsCounted ==
  /\ \A r \in Requests :
       /\ done[r] <= 1 + excused[r]
       /\ performed[KeyOf[r]] # <<r>> => done[r] <= excused[r]
  /\ \A s \in Servers : attempt[s].at = "abandon" => done[attempt[s].of] <= excused[attempt[s].of]

Inv ==
  /\ RequestsTyped /\ OneClaim /\ ClaimsHold /\ PerformedIsRecorded
  /\ RepeatsCounted /\ UnansweredIsWorkedOn

OnceStep == [Once!Next]_<<performed, told>>

LEMMA Singles == \A a, b : (<<a>> = <<b>> => a = b) /\ <<a>> # <<>>
OBVIOUS

(* What a claim says of the record of its key, field by field.             *)
LEMMA ClaimedRecord ==
  ASSUME Inv, NEW s \in Servers, HasClaim(s)
  PROVE  /\ KeyAt(s) \in Keys /\ attempt[s].of \in Requests /\ attempt[s].of # NoRequest
         /\ record[KeyAt(s)].of = attempt[s].of
         /\ record[KeyAt(s)].answered = FALSE /\ record[KeyAt(s)].expired = FALSE
         /\ Live(KeyAt(s))
<1>1. /\ attempt[s].of \in Requests /\ attempt[s].of # NoRequest /\ KeyAt(s) \in Keys
  BY IdempotencyAssumption DEF Inv, RequestsTyped, KeyAt, HasClaim
<1>2. record[KeyAt(s)].of = attempt[s].of /\ record[KeyAt(s)].answered = FALSE /\ record[KeyAt(s)].expired = FALSE
  BY DEF Inv, ClaimsHold
<1>3. /\ record[KeyAt(s)].of = attempt[s].of
      /\ record[KeyAt(s)].answered = FALSE /\ record[KeyAt(s)].expired = FALSE
  BY <1>2
<1> QED
  BY <1>1, <1>3 DEF Live

LEMMA InitInv == IdempotencyInit => Inv /\ Once!Init
<1> SUFFICES ASSUME IdempotencyInit PROVE Inv /\ Once!Init
  OBVIOUS
<1> USE IdempotencyAssumption DEF IdempotencyInit
<1>1. RequestsTyped
  BY DEF RequestsTyped, Record, AttemptRow, NoRecord, Idle
<1>2. OneClaim /\ ClaimsHold
  BY DEF OneClaim, ClaimsHold, HasClaim, Idle
<1>3. PerformedIsRecorded /\ RepeatsCounted /\ UnansweredIsWorkedOn
  BY DEF PerformedIsRecorded, RepeatsCounted, UnansweredIsWorkedOn, Live, NoRecord, Idle
<1>4. Once!Init
  BY DEF Once!Init
<1> QED
  BY <1>1, <1>2, <1>3, <1>4 DEF Inv

(* The key of an attempt that is under way. *)
LEMMA KeyTyped ==
  ASSUME Inv, NEW s \in Servers, attempt[s].at # "idle"
  PROVE  /\ attempt[s].of \in Requests /\ attempt[s].of # NoRequest
         /\ KeyAt(s) \in Keys /\ KeyOf[attempt[s].of] = KeyAt(s)
BY IdempotencyAssumption DEF Inv, RequestsTyped, KeyAt

(* An attempt goes on or ends without touching the record, what was        *)
(* performed, or the counts, and takes no claim.                           *)
LEMMA AttemptGoes ==
  ASSUME Inv, NEW s \in Servers, NEW row \in AttemptRow, attempt' = [attempt EXCEPT ![s] = row],
         row.at \in {"idle", "begin", "claim"},
         row.at # "idle" => row.of \in Requests,
         HasClaim(s) => KeyAt(s) \in orphaned' \/ ~Live(KeyAt(s)) \/ record[KeyAt(s)].answered,
         orphaned \subseteq orphaned',
         told' \in [Requests -> {"nothing", "done", "refused"}],
         UNCHANGED <<record, done, performed, excused>>
  PROVE  Inv'
<1>1. /\ \A t \in Servers : attempt'[t] = IF t = s THEN row ELSE attempt[t]
      /\ attempt' \in [Servers -> AttemptRow]
  BY DEF Inv, RequestsTyped
<1>2. ~HasClaim(s)' /\ \A t \in Servers \ {s} : (HasClaim(t)' <=> HasClaim(t)) /\ KeyAt(t)' = KeyAt(t)
  BY <1>1 DEF HasClaim, KeyAt
<1>3. RequestsTyped'
  BY <1>1 DEF Inv, RequestsTyped
<1>4. OneClaim' /\ ClaimsHold'
  BY <1>1, <1>2 DEF Inv, OneClaim, ClaimsHold
<1>5. PerformedIsRecorded' /\ RepeatsCounted'
  BY <1>1 DEF Inv, PerformedIsRecorded, RepeatsCounted, Live
<1>6. UnansweredIsWorkedOn'
  <2> SUFFICES ASSUME NEW k \in Keys, Live(k), ~record[k].answered, k \notin orphaned'
               PROVE  \E t \in Servers : HasClaim(t)' /\ KeyAt(t)' = k
    BY DEF UnansweredIsWorkedOn, Live
  <2>1. PICK t \in Servers : HasClaim(t) /\ KeyAt(t) = k
    BY DEF Inv, UnansweredIsWorkedOn
  <2>2. t # s
    BY <2>1
  <2> QED
    BY <1>2, <2>1, <2>2
<1> QED
  BY <1>3, <1>4, <1>5, <1>6 DEF Inv

LEMMA IdleTyped == Idle \in AttemptRow /\ Idle.at = "idle"
BY DEF Idle, AttemptRow

(* What a client is told: its request was performed, or it was not.        *)
LEMMA AnswerTells ==
  ASSUME Inv, NEW s \in Servers, attempt[s].at # "idle", NEW said \in {"later", "done", "refused"}, Answer(s, said),
         UNCHANGED performed,
         said = "done" => performed[KeyAt(s)] = <<attempt[s].of>>,
         said = "refused" => performed[KeyAt(s)] # <<attempt[s].of>>
  PROVE  /\ attempt' = [attempt EXCEPT ![s] = Idle]
         /\ told' \in [Requests -> {"nothing", "done", "refused"}]
         /\ OnceStep
<1>1. attempt' = [attempt EXCEPT ![s] = Idle]
  BY DEF Answer
<1>2. CASE told' = told
  BY <1>1, <1>2 DEF OnceStep, Inv, RequestsTyped
<1>3. CASE told' # told
  <2>1. said \in {"done", "refused"} /\ told' = [told EXCEPT ![attempt[s].of] = said]
    BY <1>3 DEF Answer
  <2>2. attempt[s].of \in Requests /\ KeyOf[attempt[s].of] = KeyAt(s)
    BY KeyTyped
  <2>3. said = "done" => Once!Tell(attempt[s].of)
    BY <2>1, <2>2 DEF Once!Tell
  <2>4. said = "refused" => Once!TurnAway(attempt[s].of)
    BY <2>1, <2>2 DEF Once!TurnAway
  <2>5. OnceStep
    BY <2>1, <2>2, <2>3, <2>4 DEF OnceStep, Once!Next
  <2> QED
    BY <1>1, <2>1, <2>2, <2>5 DEF Inv, RequestsTyped
<1> QED
  BY <1>2, <1>3

LEMMA ArriveInv ==
  ASSUME Inv, NEW s \in Servers, NEW r \in Requests, Arrive(s, r)
  PROVE  Inv' /\ OnceStep
<1> DEFINE row == [at |-> "begin", of |-> r]
<1>1. row \in AttemptRow /\ row.at = "begin" /\ row.of = r
  BY DEF AttemptRow
<1>2. /\ attempt' = [attempt EXCEPT ![s] = row] /\ ~HasClaim(s)
      /\ UNCHANGED <<record, told, done, performed, excused, orphaned>>
  BY DEF Arrive, HasClaim
<1> HIDE DEF row
<1>3. told' \in [Requests -> {"nothing", "done", "refused"}]
  BY <1>2 DEF Inv, RequestsTyped
<1>4. Inv'
  BY <1>1, <1>2, <1>3, AttemptGoes
<1> QED
  BY <1>2, <1>4 DEF OnceStep

LEMMA BeginInv ==
  ASSUME Inv, NEW s \in Servers, Begin(s)
  PROVE  Inv' /\ OnceStep
<1>1. /\ attempt[s].at = "begin" /\ ~HasClaim(s) /\ attempt[s] \in AttemptRow
      /\ UNCHANGED <<record, done, performed, excused, orphaned>>
  BY DEF Begin, HasClaim, Inv, RequestsTyped
<1>2. attempt[s].of \in Requests /\ KeyAt(s) \in Keys /\ attempt[s].of # NoRequest
  BY <1>1, KeyTyped
<1>3. CASE attempt' = [attempt EXCEPT ![s].at = "claim"] /\ UNCHANGED told
  <2> DEFINE row == [attempt[s] EXCEPT !.at = "claim"]
  <2>1. row \in AttemptRow /\ row.at = "claim" /\ row.of = attempt[s].of
    BY <1>1 DEF AttemptRow
  <2>2. attempt' = [attempt EXCEPT ![s] = row]
    BY <1>3
  <2>3. told' \in [Requests -> {"nothing", "done", "refused"}]
    BY <1>3 DEF Inv, RequestsTyped
  <2> HIDE DEF row
  <2> QED
    BY <1>1, <1>2, <1>3, <2>1, <2>2, <2>3, AttemptGoes DEF OnceStep
<1>4. ASSUME NEW said \in {"later", "done", "refused"}, Answer(s, said),
             said = "done" => performed[KeyAt(s)] = <<attempt[s].of>>,
             said = "refused" => performed[KeyAt(s)] # <<attempt[s].of>>
      PROVE  Inv' /\ OnceStep
  <2>1. /\ attempt' = [attempt EXCEPT ![s] = Idle] /\ OnceStep
        /\ told' \in [Requests -> {"nothing", "done", "refused"}]
    BY <1>1, <1>4, AnswerTells
  <2> QED
    BY <1>1, <2>1, IdleTyped, AttemptGoes
<1> DEFINE outcome == decideIdempotency(KeyAt(s), attempt[s].of)
<1>5. /\ outcome = "Replay" => performed[KeyAt(s)] = <<attempt[s].of>>
      /\ outcome = "Conflict" => performed[KeyAt(s)] # <<attempt[s].of>>
  <2>1. Live(KeyAt(s)) /\ record[KeyAt(s)].of # attempt[s].of => performed[KeyAt(s)] # <<attempt[s].of>>
    BY <1>2 DEF Inv, PerformedIsRecorded
  <2>2. Live(KeyAt(s)) /\ record[KeyAt(s)].of = attempt[s].of /\ record[KeyAt(s)].answered
          => performed[KeyAt(s)] = <<attempt[s].of>>
    BY <1>2 DEF Inv, PerformedIsRecorded
  <2>3. CASE ~Live(KeyAt(s))
    <3>1. outcome = "Fresh"
      BY <2>3 DEF decideIdempotency
    <3> HIDE DEF outcome
    <3> QED
      BY <2>3, <3>1
  <2>4. CASE Live(KeyAt(s)) /\ record[KeyAt(s)].of # attempt[s].of
    <3>1. outcome = "Conflict"
      BY <2>4 DEF decideIdempotency
    <3> HIDE DEF outcome
    <3> QED
      BY <2>1, <2>4, <3>1
  <2>5. CASE Live(KeyAt(s)) /\ record[KeyAt(s)].of = attempt[s].of /\ record[KeyAt(s)].answered
    <3>1. outcome = "Replay"
      BY <2>5 DEF decideIdempotency
    <3> HIDE DEF outcome
    <3> QED
      BY <2>2, <2>5, <3>1
  <2>6. CASE Live(KeyAt(s)) /\ record[KeyAt(s)].of = attempt[s].of /\ ~record[KeyAt(s)].answered
    <3>1. outcome = "InFlight"
      BY <2>6 DEF decideIdempotency
    <3> HIDE DEF outcome
    <3> QED
      BY <2>6, <3>1
  <2> QED
    BY <2>3, <2>4, <2>5, <2>6
<1>6. \/ attempt' = [attempt EXCEPT ![s].at = "claim"] /\ UNCHANGED told
      \/ Answer(s, "later")
      \/ outcome = "Conflict" /\ Answer(s, "refused")
      \/ outcome = "Replay" /\ Answer(s, "done")
  BY DEF Begin
<1> HIDE DEF outcome
<1> QED
  BY <1>3, <1>4, <1>5, <1>6
(* A step after which s has gone on under the claim it keeps, or has just  *)
(* taken it from nobody.                                                   *)
LEMMA ClaimMoves ==
  ASSUME Inv, NEW s \in Servers, NEW step \in {"work", "finish", "abandon"},
         attempt[s].at # "idle", attempt' = [attempt EXCEPT ![s].at = step],
         HasClaim(s) \/ \A t \in Servers : HasClaim(t) => KeyAt(t) # KeyAt(s)
  PROVE  /\ attempt' \in [Servers -> AttemptRow]
         /\ \A t \in Servers : attempt'[t].at # "idle" => attempt'[t].of \in Requests
         /\ \A t \in Servers \ {s} : attempt'[t] = attempt[t]
         /\ attempt'[s].at = step /\ attempt'[s].of = attempt[s].of
         /\ \A t \in Servers : KeyAt(t)' = KeyAt(t)
         /\ \A t \in Servers : HasClaim(t)' <=> HasClaim(t) \/ t = s
         /\ OneClaim'
<1>1. /\ attempt' \in [Servers -> AttemptRow]
      /\ \A t \in Servers \ {s} : attempt'[t] = attempt[t]
      /\ attempt'[s].at = step /\ attempt'[s].of = attempt[s].of
  BY DEF Inv, RequestsTyped, AttemptRow
<1>2. \A t \in Servers : attempt'[t].at # "idle" => attempt'[t].of \in Requests
  BY <1>1 DEF Inv, RequestsTyped
<1>3. \A t \in Servers : KeyAt(t)' = KeyAt(t)
  BY <1>1 DEF KeyAt
<1>4. \A t \in Servers : HasClaim(t)' <=> HasClaim(t) \/ t = s
  BY <1>1 DEF HasClaim
<1>5. OneClaim'
  BY <1>3, <1>4 DEF Inv, OneClaim
<1> QED
  BY <1>1, <1>2, <1>3, <1>4, <1>5

LEMMA ClaimInv ==
  ASSUME Inv, NEW s \in Servers, Claim(s)
  PROVE  Inv' /\ OnceStep
<1> DEFINE k == KeyAt(s)
           r == attempt[s].of
           new == [NoRecord EXCEPT !.of = r]
<1>1. /\ attempt[s].at = "claim" /\ ~Live(k) /\ record' = [record EXCEPT ![k] = new]
      /\ attempt' = [attempt EXCEPT ![s].at = "work"]
      /\ UNCHANGED <<told, done, performed, excused, orphaned>>
  BY DEF Claim, MayClaim
<1>2. r \in Requests /\ k \in Keys /\ r # NoRequest
  BY <1>1, KeyTyped
<1>3. new.of = r /\ new.answered = FALSE /\ new.expired = FALSE /\ new \in Record
  <2>1. new.of = r /\ new.answered = FALSE /\ new.expired = FALSE
    BY DEF NoRecord
  <2>2. new \in Record
    BY <1>2 DEF NoRecord, Record
  <2> QED
    BY <2>1, <2>2
<1>4. \A t \in Servers : HasClaim(t) => KeyAt(t) # k
  <2> SUFFICES ASSUME NEW t \in Servers, HasClaim(t), KeyAt(t) = k
               PROVE  FALSE
    OBVIOUS
  <2>1. Live(KeyAt(t))
    BY ClaimedRecord
  <2> QED
    BY <1>1, <2>1
<1>5. performed[k] = <<>>
  BY <1>1, <1>2 DEF Inv, PerformedIsRecorded
<1> HIDE DEF k, r, new
<1>6. \A j \in Keys : record'[j] = IF j = k THEN new ELSE record[j]
  BY <1>1, <1>2 DEF Inv, RequestsTyped
<1>7. /\ attempt' \in [Servers -> AttemptRow]
      /\ \A t \in Servers : attempt'[t].at # "idle" => attempt'[t].of \in Requests
      /\ \A t \in Servers \ {s} : attempt'[t] = attempt[t]
      /\ attempt'[s].at = "work" /\ attempt'[s].of = r
      /\ \A t \in Servers : KeyAt(t)' = KeyAt(t)
      /\ \A t \in Servers : HasClaim(t)' <=> HasClaim(t) \/ t = s
      /\ OneClaim'
  BY <1>1, <1>4, ClaimMoves DEF k, r
<1>8. RequestsTyped'
  BY <1>1, <1>3, <1>7 DEF Inv, RequestsTyped
<1>9. ClaimsHold'
  <2> SUFFICES ASSUME NEW t \in Servers, HasClaim(t)'
               PROVE  /\ record'[KeyAt(t)'].of = attempt'[t].of /\ record'[KeyAt(t)'].answered = FALSE /\ record'[KeyAt(t)'].expired = FALSE
                      /\ attempt'[t].at = "work" => performed'[KeyAt(t)'] = <<>>
                      /\ attempt'[t].at = "finish" => performed'[KeyAt(t)'] = <<attempt'[t].of>>
    BY DEF ClaimsHold
  <2>1. CASE t = s
    BY <1>1, <1>2, <1>3, <1>5, <1>6, <1>7, <2>1 DEF k
  <2>2. CASE t # s
    <3>1. HasClaim(t) /\ attempt'[t] = attempt[t] /\ KeyAt(t)' = KeyAt(t) /\ KeyAt(t) # k
      BY <1>4, <1>7, <2>2
    <3>2. KeyAt(t) \in Keys
      BY <3>1, KeyTyped DEF HasClaim
    <3>3. record'[KeyAt(t)] = record[KeyAt(t)] /\ performed' = performed
      BY <1>1, <1>6, <3>1, <3>2
    <3>4. /\ record[KeyAt(t)].of = attempt[t].of
          /\ record[KeyAt(t)].answered = FALSE /\ record[KeyAt(t)].expired = FALSE
          /\ attempt[t].at = "work" => performed[KeyAt(t)] = <<>>
          /\ attempt[t].at = "finish" => performed[KeyAt(t)] = <<attempt[t].of>>
      BY <3>1 DEF Inv, ClaimsHold
    <3> QED
      BY <3>1, <3>3, <3>4
  <2> QED
    BY <2>1, <2>2
<1>10. PerformedIsRecorded'
  BY <1>1, <1>3, <1>5, <1>6 DEF Inv, PerformedIsRecorded, Live
<1>11. RepeatsCounted'
  BY <1>1, <1>7 DEF Inv, RepeatsCounted
<1>12. UnansweredIsWorkedOn'
  <2> SUFFICES ASSUME NEW j \in Keys, Live(j)', ~record'[j].answered, j \notin orphaned'
               PROVE  \E t \in Servers : HasClaim(t)' /\ KeyAt(t)' = j
    BY DEF UnansweredIsWorkedOn
  <2>1. CASE j = k
    BY <1>7, <2>1 DEF k
  <2>2. CASE j # k
    BY <1>1, <1>6, <1>7, <2>2 DEF Inv, UnansweredIsWorkedOn, Live
  <2> QED
    BY <2>1, <2>2
<1>13. OnceStep
  BY <1>1 DEF OnceStep
<1> QED
  BY <1>7, <1>8, <1>9, <1>10, <1>11, <1>12, <1>13 DEF Inv

LEMMA ClaimLostInv ==
  ASSUME Inv, NEW s \in Servers, ClaimLost(s)
  PROVE  Inv' /\ OnceStep
<1>1. /\ attempt[s].at = "claim" /\ ~HasClaim(s) /\ Answer(s, "later")
      /\ UNCHANGED <<record, done, performed, excused, orphaned>>
  BY DEF ClaimLost, HasClaim
<1>2. /\ attempt' = [attempt EXCEPT ![s] = Idle] /\ OnceStep
      /\ told' \in [Requests -> {"nothing", "done", "refused"}]
  BY <1>1, AnswerTells
<1> QED
  BY <1>1, <1>2, IdleTyped, AttemptGoes

(* The work of the request of an attempt that has its key.                 *)
LEMMA WorkDone ==
  ASSUME Inv, NEW s \in Servers, attempt[s].at = "work", Perform(attempt[s].of), UNCHANGED told
  PROVE  /\ performed' = [performed EXCEPT ![KeyAt(s)] = <<attempt[s].of>>]
         /\ performed' \in [Keys -> Seq(Requests)] /\ done' \in [Requests -> Nat]
         /\ done' = [done EXCEPT ![attempt[s].of] = done[attempt[s].of] + 1]
         /\ done[attempt[s].of] <= excused[attempt[s].of]
         /\ OnceStep
<1> DEFINE r == attempt[s].of
<1>1. r \in Requests /\ KeyAt(s) \in Keys /\ KeyOf[r] = KeyAt(s) /\ HasClaim(s)
  BY KeyTyped DEF HasClaim
<1>2. performed[KeyAt(s)] = <<>>
  BY <1>1 DEF Inv, ClaimsHold
<1>3. performed' = [performed EXCEPT ![KeyAt(s)] = <<r>>]
  BY <1>1, <1>2 DEF Perform, Inv, RequestsTyped
<1>4. performed' \in [Keys -> Seq(Requests)] /\ done' \in [Requests -> Nat]
      /\ done' = [done EXCEPT ![r] = done[r] + 1]
  BY <1>1, <1>3 DEF Perform, Inv, RequestsTyped
<1>5. done[r] <= excused[r]
  BY <1>1, <1>2 DEF Inv, RepeatsCounted
<1>6. Once!Perform(r)
  BY <1>1, <1>2, <1>3 DEF Once!Perform
<1>7. OnceStep
  BY <1>1, <1>6 DEF OnceStep, Once!Next
<1> QED
  BY <1>3, <1>4, <1>5, <1>7
(* What a claim's next step leaves to be shown, once its effect on what    *)
(* was performed is known.                                                 *)
LEMMA WorkInv ==
  ASSUME Inv, NEW s \in Servers, NEW step \in {"finish", "abandon"},
         attempt[s].at = "work", attempt' = [attempt EXCEPT ![s].at = step],
         \/ step = "abandon" /\ UNCHANGED <<done, performed, excused>>
         \/ /\ Perform(attempt[s].of)
            /\ excused' = IF step = "finish" THEN excused
                          ELSE [excused EXCEPT ![attempt[s].of] = @ + 1],
         UNCHANGED <<record, told, orphaned>>
  PROVE  Inv' /\ OnceStep
<1> DEFINE k == KeyAt(s)
           r == attempt[s].of
<1>1. r \in Requests /\ k \in Keys /\ KeyOf[r] = k /\ HasClaim(s)
  BY KeyTyped DEF HasClaim
<1>2. /\ record[k].of = r /\ record[k].answered = FALSE /\ record[k].expired = FALSE
      /\ performed[k] = <<>> /\ r # NoRequest /\ done[r] <= excused[r]
  BY <1>1, IdempotencyAssumption DEF Inv, ClaimsHold, RepeatsCounted
<1>3. /\ attempt' \in [Servers -> AttemptRow]
      /\ \A t \in Servers : attempt'[t].at # "idle" => attempt'[t].of \in Requests
      /\ \A t \in Servers \ {s} : attempt'[t] = attempt[t]
      /\ attempt'[s].at = step /\ attempt'[s].of = r
      /\ \A t \in Servers : KeyAt(t)' = KeyAt(t)
      /\ \A t \in Servers : HasClaim(t)' <=> HasClaim(t) \/ t = s
      /\ OneClaim'
  BY <1>1, ClaimMoves
<1>4. /\ performed' = performed \/ performed' = [performed EXCEPT ![k] = <<r>>]
      /\ step = "finish" => performed' = [performed EXCEPT ![k] = <<r>>]
      /\ performed' \in [Keys -> Seq(Requests)] /\ OnceStep
  <2>1. CASE UNCHANGED performed /\ step = "abandon"
    BY <2>1 DEF OnceStep, Inv, RequestsTyped
  <2>2. CASE Perform(r)
    BY <2>2, WorkDone
  <2> QED
    BY <2>1, <2>2
<1>5. /\ done' \in [Requests -> Nat] /\ excused' \in [Requests -> Nat]
      /\ \A q \in Requests \ {r} : done'[q] = done[q] /\ excused'[q] = excused[q]
      /\ done'[r] <= 1 + excused'[r]
      /\ step = "abandon" => done'[r] <= excused'[r]
  <2>1. CASE UNCHANGED <<done, excused>> /\ step = "abandon"
    BY <1>2, <2>1 DEF Inv, RequestsTyped, RepeatsCounted
  <2>2. CASE Perform(r) /\ excused' = IF step = "finish" THEN excused ELSE [excused EXCEPT ![r] = @ + 1]
    <3>1. done' = [done EXCEPT ![r] = done[r] + 1] /\ done' \in [Requests -> Nat]
      BY <2>2, WorkDone
    <3> QED
      BY <1>1, <1>2, <2>2, <3>1 DEF Inv, RequestsTyped
  <2> QED
    BY <2>1, <2>2
<1> HIDE DEF k, r
<1>6. \A j \in Keys : j # k => performed'[j] = performed[j]
  BY <1>4 DEF Inv, RequestsTyped
<1>7. performed'[k] \in {<<>>, <<r>>} /\ (step = "finish" => performed'[k] = <<r>>)
  BY <1>1, <1>2, <1>4 DEF Inv, RequestsTyped
<1>8. RequestsTyped'
  BY <1>3, <1>4, <1>5 DEF Inv, RequestsTyped
<1>9. ClaimsHold'
  <2> SUFFICES ASSUME NEW t \in Servers, HasClaim(t)'
               PROVE  /\ record'[KeyAt(t)'].of = attempt'[t].of /\ record'[KeyAt(t)'].answered = FALSE /\ record'[KeyAt(t)'].expired = FALSE
                      /\ attempt'[t].at = "work" => performed'[KeyAt(t)'] = <<>>
                      /\ attempt'[t].at = "finish" => performed'[KeyAt(t)'] = <<attempt'[t].of>>
    BY DEF ClaimsHold
  <2>1. CASE t = s
    BY <1>2, <1>3, <1>7, <2>1 DEF k
  <2>2. CASE t # s
    <3>1. HasClaim(t) /\ attempt'[t] = attempt[t] /\ KeyAt(t)' = KeyAt(t)
      BY <1>3, <2>2
    <3>2. KeyAt(t) \in Keys /\ KeyAt(t) # k
      BY <1>1, <2>2, <3>1, KeyTyped DEF HasClaim, Inv, OneClaim, k
    <3>3. performed'[KeyAt(t)] = performed[KeyAt(t)] /\ record' = record
      BY <1>6, <3>2
    <3>4. /\ record[KeyAt(t)].of = attempt[t].of /\ record[KeyAt(t)].answered = FALSE
          /\ record[KeyAt(t)].expired = FALSE
          /\ (attempt[t].at = "work" => performed[KeyAt(t)] = <<>>)
          /\ (attempt[t].at = "finish" => performed[KeyAt(t)] = <<attempt[t].of>>)
      BY <3>1 DEF Inv, ClaimsHold
    <3> QED
      BY ONLY <3>1, <3>3, <3>4
  <2> QED
    BY <2>1, <2>2
<1>10. PerformedIsRecorded'
  <2> SUFFICES ASSUME NEW j \in Keys
               PROVE  /\ performed'[j] # <<>> => Live(j)' /\ performed'[j] = <<record'[j].of>>
                      /\ Live(j)' /\ record'[j].answered => performed'[j] = <<record'[j].of>>
    BY DEF PerformedIsRecorded
  <2>1. CASE j = k
    BY <1>1, <1>2, <1>7, <2>1 DEF Live
  <2>2. CASE j # k
    BY <1>6, <2>2 DEF Inv, PerformedIsRecorded, Live
  <2> QED
    BY <2>1, <2>2
<1>11. RepeatsCounted'
  <2>1. ASSUME NEW q \in Requests
        PROVE  /\ done'[q] <= 1 + excused'[q]
               /\ performed'[KeyOf[q]] # <<q>> => done'[q] <= excused'[q]
    <3>1. CASE q = r
      BY <1>1, <1>5, <1>7, <3>1
    <3>2. CASE q # r
      <4>1. performed'[KeyOf[q]] # <<q>> => performed[KeyOf[q]] # <<q>>
        BY <1>2, <1>6, <3>2, IdempotencyAssumption
      <4> QED
        BY <1>5, <3>2, <4>1 DEF Inv, RepeatsCounted
    <3> QED
      BY <3>1, <3>2
  <2>2. ASSUME NEW t \in Servers, attempt'[t].at = "abandon"
        PROVE  done'[attempt'[t].of] <= excused'[attempt'[t].of]
    <3>1. CASE t = s
      BY <1>3, <1>5, <2>2, <3>1
    <3>2. CASE t # s
      <4>1. attempt'[t] = attempt[t] /\ attempt[t].of \in Requests /\ HasClaim(t) /\ KeyAt(t) # k
        BY <1>1, <1>3, <2>2, <3>2 DEF HasClaim, Inv, OneClaim, RequestsTyped, k
      <4>2. attempt[t].of # r
        BY <4>1 DEF KeyAt, k, r
      <4> QED
        BY ZenonT(60), <1>5, <2>2, <4>1, <4>2 DEF Inv, RepeatsCounted
    <3> QED
      BY <3>1, <3>2
  <2> QED
    BY <2>1, <2>2 DEF RepeatsCounted
<1>12. UnansweredIsWorkedOn'
  BY <1>3 DEF Inv, UnansweredIsWorkedOn, Live
<1> QED
  BY <1>3, <1>4, <1>8, <1>9, <1>10, <1>11, <1>12 DEF Inv

(* The claim of an attempt ends with a write to the record of its key.     *)
LEMMA FinishInv ==
  ASSUME Inv, NEW s \in Servers, Finish(s)
  PROVE  Inv' /\ OnceStep
<1> DEFINE k == KeyAt(s)
           r == attempt[s].of
<1>1. /\ attempt[s].at = "finish" /\ HasClaim(s) /\ Answer(s, "done")
      /\ record' = [record EXCEPT ![k].answered = (record[k].of # NoRequest)]
      /\ UNCHANGED <<done, performed, excused, orphaned>>
  BY DEF Finish, HasClaim
<1>2. r \in Requests /\ k \in Keys /\ r # NoRequest
  BY <1>1, KeyTyped
<1>3. record[k].of = r /\ record[k].answered = FALSE /\ record[k].expired = FALSE /\ performed[k] = <<r>>
  BY <1>1 DEF Inv, ClaimsHold
<1>4. /\ attempt' = [attempt EXCEPT ![s] = Idle] /\ OnceStep
      /\ told' \in [Requests -> {"nothing", "done", "refused"}]
  BY <1>1, <1>3, AnswerTells
<1>5. /\ \A j \in Keys \ {k} : record'[j] = record[j]
      /\ record'[k].of = r /\ record'[k].answered = TRUE /\ record'[k].expired = FALSE
      /\ record' \in [Keys -> Record]
  <2> DEFINE row == [record[k] EXCEPT !.answered = (record[k].of # NoRequest)]
  <2>1. record' = [record EXCEPT ![k] = row]
    BY <1>1
  <2>2. record[k] \in Record /\ row \in Record
    BY <1>2 DEF Inv, RequestsTyped, Record
  <2>3. row.of = r /\ row.answered = TRUE /\ row.expired = FALSE
    BY <1>2, <1>3, <2>2 DEF Record
  <2> HIDE DEF row, k, r
  <2> QED
    BY <1>2, <2>1, <2>2, <2>3 DEF Inv, RequestsTyped
<1>6. /\ attempt' \in [Servers -> AttemptRow] /\ ~HasClaim(s)'
      /\ \A t \in Servers \ {s} : attempt'[t] = attempt[t] /\ KeyAt(t)' = KeyAt(t) /\ (HasClaim(t)' <=> HasClaim(t))
      /\ attempt'[s].at = "idle"
  BY <1>4, IdleTyped DEF Inv, RequestsTyped, HasClaim, KeyAt
<1>7. \A t \in Servers \ {s} : HasClaim(t) => KeyAt(t) \in Keys /\ KeyAt(t) # k
  BY <1>1, KeyTyped DEF Inv, OneClaim, HasClaim
<1> HIDE DEF k, r
<1>8. RequestsTyped'
  BY <1>1, <1>4, <1>5, <1>6 DEF Inv, RequestsTyped
<1>9. OneClaim' /\ ClaimsHold'
  <2>1. OneClaim'
    BY <1>6 DEF Inv, OneClaim
  <2>2. ClaimsHold'
    BY <1>1, <1>5, <1>6, <1>7 DEF Inv, ClaimsHold
  <2> QED
    BY <2>1, <2>2
<1>10. PerformedIsRecorded'
  BY <1>1, <1>2, <1>3, <1>5 DEF Inv, PerformedIsRecorded, Live
<1>11. RepeatsCounted'
  BY <1>1, <1>6 DEF Inv, RepeatsCounted
<1>12. UnansweredIsWorkedOn'
  <2> SUFFICES ASSUME NEW j \in Keys, Live(j)', ~record'[j].answered, j \notin orphaned'
               PROVE  \E t \in Servers : HasClaim(t)' /\ KeyAt(t)' = j
    BY DEF UnansweredIsWorkedOn
  <2>1. j # k /\ Live(j) /\ ~record[j].answered /\ j \notin orphaned
    BY <1>1, <1>5 DEF Live
  <2>2. PICK t \in Servers : HasClaim(t) /\ KeyAt(t) = j
    BY <2>1 DEF Inv, UnansweredIsWorkedOn
  <2>3. t # s
    BY <2>1, <2>2 DEF k
  <2> QED
    BY <1>6, <2>2, <2>3
<1> QED
  BY <1>4, <1>8, <1>9, <1>10, <1>11, <1>12 DEF Inv

LEMMA AbandonInv ==
  ASSUME Inv, NEW s \in Servers, Abandon(s)
  PROVE  Inv' /\ OnceStep
<1> DEFINE k == KeyAt(s)
           r == attempt[s].of
<1>1. attempt[s].at = "abandon" /\ HasClaim(s) /\ UNCHANGED <<done, excused, orphaned>>
  BY DEF Abandon, HasClaim
<1>2. r \in Requests /\ k \in Keys /\ r # NoRequest /\ KeyOf[r] = k
  BY <1>1, KeyTyped
<1>3. record[k].of = r /\ record[k].answered = FALSE /\ record[k].expired = FALSE
  BY <1>1 DEF Inv, ClaimsHold
<1>4. record' = [record EXCEPT ![k] = NoRecord] /\ performed' = [performed EXCEPT ![k] = <<>>]
  BY <1>3 DEF Abandon, Release
<1>5. attempt' = [attempt EXCEPT ![s] = Idle] /\ told' = told
  BY DEF Abandon, Answer
<1>6. /\ \A j \in Keys \ {k} : record'[j] = record[j] /\ performed'[j] = performed[j]
      /\ record'[k] = NoRecord /\ performed'[k] = <<>>
      /\ record' \in [Keys -> Record] /\ performed' \in [Keys -> Seq(Requests)]
  BY <1>2, <1>4 DEF Inv, RequestsTyped, Record, NoRecord
<1>7. /\ attempt' \in [Servers -> AttemptRow] /\ ~HasClaim(s)' /\ attempt'[s].at = "idle"
      /\ \A t \in Servers \ {s} : attempt'[t] = attempt[t] /\ KeyAt(t)' = KeyAt(t) /\ (HasClaim(t)' <=> HasClaim(t))
  BY <1>5, IdleTyped DEF Inv, RequestsTyped, HasClaim, KeyAt
<1>8. \A t \in Servers \ {s} : HasClaim(t) => KeyAt(t) \in Keys /\ KeyAt(t) # k
  BY <1>1, KeyTyped DEF Inv, OneClaim, HasClaim
<1>9. performed[k] \in {<<>>, <<r>>} /\ done[r] <= excused[r]
  <2>1. record[k].of = r
    BY <1>3
  <2>2. performed[k] # <<>> => performed[k] = <<record[k].of>>
    BY <1>2 DEF Inv, PerformedIsRecorded
  <2>3. done[r] <= excused[r]
    BY <1>1 DEF Inv, RepeatsCounted
  <2> QED
    BY <2>1, <2>2, <2>3
<1>10. Once!Forget(k)
  BY <1>4, <1>5 DEF Once!Forget
<1>11. OnceStep
  BY <1>2, <1>10 DEF OnceStep, Once!Next
<1> HIDE DEF k, r
<1>12. RequestsTyped'
  BY <1>1, <1>5, <1>6, <1>7 DEF Inv, RequestsTyped
<1>13. OneClaim'
  BY <1>7 DEF Inv, OneClaim
<1>14. ClaimsHold'
  BY <1>6, <1>7, <1>8 DEF Inv, ClaimsHold
<1>15. PerformedIsRecorded'
  BY SMTT(60), <1>6 DEF Inv, PerformedIsRecorded, Live, NoRecord
<1>16. RepeatsCounted'
  <2>1. ASSUME NEW q \in Requests
        PROVE  /\ done'[q] <= 1 + excused'[q]
               /\ performed'[KeyOf[q]] # <<q>> => done'[q] <= excused'[q]
    <3>1. q # r /\ performed'[KeyOf[q]] # <<q>> => performed[KeyOf[q]] # <<q>>
      <4>1. CASE KeyOf[q] = k
        BY <1>9, <4>1, Singles
      <4>2. CASE KeyOf[q] # k
        BY <1>6, <4>2, IdempotencyAssumption
      <4> QED
        BY <4>1, <4>2
    <3> QED
      BY <1>1, <1>9, <3>1 DEF Inv, RepeatsCounted
  <2> QED
    BY <1>1, <1>7, <2>1 DEF Inv, RepeatsCounted
<1>17. UnansweredIsWorkedOn'
  <2> SUFFICES ASSUME NEW j \in Keys, Live(j)', ~record'[j].answered, j \notin orphaned'
               PROVE  \E t \in Servers : HasClaim(t)' /\ KeyAt(t)' = j
    BY DEF UnansweredIsWorkedOn
  <2>1. j # k /\ Live(j) /\ ~record[j].answered /\ j \notin orphaned
    BY <1>1, <1>6 DEF Live, NoRecord
  <2>2. PICK t \in Servers : HasClaim(t) /\ KeyAt(t) = j
    BY <2>1 DEF Inv, UnansweredIsWorkedOn
  <2>3. t # s
    BY <2>1, <2>2 DEF k
  <2> QED
    BY <1>7, <2>2, <2>3
<1> QED
  BY <1>11, <1>12, <1>13, <1>14, <1>15, <1>16, <1>17 DEF Inv

(* An attempt is lost, with whatever claim it had.                         *)
LEMMA LostInv ==
  ASSUME Inv, NEW s \in Servers, FinishFails(s) \/ AbandonFails(s) \/ ServerDies(s)
  PROVE  Inv' /\ OnceStep
<1>1. /\ attempt[s].at # "idle" /\ attempt' = [attempt EXCEPT ![s] = Idle]
      /\ HasClaim(s) => KeyAt(s) \in orphaned'
      /\ orphaned \subseteq orphaned' /\ UNCHANGED <<record, done, performed, excused>>
  BY DEF FinishFails, AbandonFails, ServerDies, HasClaim
<1>2. told' \in [Requests -> {"nothing", "done", "refused"}] /\ OnceStep
  <2>1. CASE FinishFails(s)
    <3> DEFINE r == attempt[s].of
    <3>1. /\ attempt[s].at = "finish" /\ HasClaim(s)
          /\ told' = [told EXCEPT ![r] = "done"] /\ UNCHANGED performed
      BY <2>1 DEF FinishFails, HasClaim
    <3>2. r \in Requests /\ KeyOf[r] = KeyAt(s) /\ performed[KeyAt(s)] = <<r>>
      BY <3>1, KeyTyped DEF Inv, ClaimsHold
    <3>3. Once!Tell(r)
      BY <3>1, <3>2 DEF Once!Tell
    <3> QED
      BY <3>1, <3>2, <3>3 DEF OnceStep, Once!Next, Inv, RequestsTyped
  <2>2. CASE told' = told
    BY <1>1, <2>2 DEF OnceStep, Inv, RequestsTyped
  <2> QED
    BY <2>1, <2>2 DEF AbandonFails, ServerDies
<1> QED
  BY <1>1, <1>2, IdleTyped, AttemptGoes

(* A record goes, with what was performed under its key.                   *)
LEMMA WindowEndsInv ==
  ASSUME Inv, NEW k \in Keys, Expire(k)
  PROVE  Inv' /\ OnceStep
<1>1. /\ Live(k) /\ record' = [record EXCEPT ![k].expired = TRUE]
      /\ performed' = [performed EXCEPT ![k] = <<>>] /\ orphaned' = orphaned \ {k}
      /\ excused' = [r \in Requests |-> IF KeyOf[r] = k /\ done[r] > 0 THEN excused[r] + 1 ELSE excused[r]]
      /\ UNCHANGED <<attempt, told, done>>
  BY DEF Expire
<1>2. \A s \in Servers : HasClaim(s) => KeyAt(s) \in Keys /\ KeyAt(s) # k
  BY KeyTyped DEF Expire, Outlasted, HasClaim
<1>3. /\ \A j \in Keys \ {k} : record'[j] = record[j] /\ performed'[j] = performed[j]
      /\ performed'[k] = <<>> /\ record'[k].expired
      /\ record' \in [Keys -> Record] /\ performed' \in [Keys -> Seq(Requests)]
  <2> DEFINE row == [record[k] EXCEPT !.expired = TRUE]
  <2>1. record' = [record EXCEPT ![k] = row]
    BY <1>1
  <2>2. row \in Record /\ row.expired
    BY DEF Inv, RequestsTyped, Record
  <2> HIDE DEF row
  <2>3. /\ \A j \in Keys \ {k} : record'[j] = record[j]
        /\ record'[k] = row /\ record' \in [Keys -> Record]
    BY <2>1, <2>2 DEF Inv, RequestsTyped
  <2>4. <<>> \in Seq(Requests)
    OBVIOUS
  <2>5. /\ \A j \in Keys \ {k} : performed'[j] = performed[j]
        /\ performed'[k] = <<>> /\ performed' \in [Keys -> Seq(Requests)]
    BY <1>1, <2>4 DEF Inv, RequestsTyped
  <2> QED
    BY <2>2, <2>3, <2>5
<1>4. excused' \in [Requests -> Nat]
      /\ \A r \in Requests : excused[r] <= excused'[r] /\ (KeyOf[r] = k /\ done[r] > 0 => excused'[r] = excused[r] + 1)
  BY <1>1 DEF Inv, RequestsTyped
<1>5. RequestsTyped'
  BY <1>1, <1>3, <1>4 DEF Inv, RequestsTyped
<1>6. OneClaim'
  BY <1>1 DEF Inv, OneClaim, HasClaim, KeyAt
<1>7. ClaimsHold'
  BY <1>1, <1>2, <1>3 DEF Inv, ClaimsHold, HasClaim, KeyAt
<1>8. PerformedIsRecorded'
  BY <1>3 DEF Inv, PerformedIsRecorded, Live
<1>9. RepeatsCounted'
  <2>1. ASSUME NEW q \in Requests
        PROVE  /\ done'[q] <= 1 + excused'[q]
               /\ performed'[KeyOf[q]] # <<q>> => done'[q] <= excused'[q]
    <3>1. done[q] \in Nat /\ excused[q] \in Nat /\ excused'[q] \in Nat /\ done[q] <= 1 + excused[q] /\ KeyOf[q] \in Keys
      BY <1>4, IdempotencyAssumption DEF Inv, RequestsTyped, RepeatsCounted
    <3>2. CASE KeyOf[q] = k
      BY <1>1, <1>4, <3>1, <3>2
    <3>3. CASE KeyOf[q] # k
      <4>1. performed'[KeyOf[q]] = performed[KeyOf[q]]
        BY <1>3, <3>1, <3>3
      <4> QED
        BY <1>1, <1>4, <3>1, <4>1 DEF Inv, RepeatsCounted
    <3> QED
      BY <3>2, <3>3
  <2>2. ASSUME NEW t \in Servers, attempt'[t].at = "abandon"
        PROVE  done'[attempt'[t].of] <= excused'[attempt'[t].of]
    <3>1. attempt[t].of \in Requests /\ done[attempt[t].of] <= excused[attempt[t].of]
      BY <1>1, <2>2 DEF Inv, RequestsTyped, RepeatsCounted
    <3>2. done[attempt[t].of] \in Nat /\ excused[attempt[t].of] \in Nat /\ excused'[attempt[t].of] \in Nat
      BY <1>4, <3>1 DEF Inv, RequestsTyped
    <3> QED
      BY <1>1, <1>4, <3>1, <3>2
  <2> QED
    BY <2>1, <2>2 DEF RepeatsCounted
<1>10. UnansweredIsWorkedOn'
  BY <1>1, <1>3 DEF Inv, UnansweredIsWorkedOn, Live, HasClaim, KeyAt
<1>11. Once!Forget(k)
  BY <1>1 DEF Once!Forget
<1> QED
  BY <1>5, <1>6, <1>7, <1>8, <1>9, <1>10, <1>11 DEF Inv, OnceStep, Once!Next

LEMMA SweepInv ==
  ASSUME Inv, NEW k \in Keys, Sweep(k)
  PROVE  Inv' /\ OnceStep
<1>1. /\ record[k].expired /\ record' = [record EXCEPT ![k] = NoRecord]
      /\ UNCHANGED <<attempt, told, done, performed, excused, orphaned>>
  BY DEF Sweep
<1>2. \A s \in Servers : HasClaim(s) => KeyAt(s) \in Keys /\ KeyAt(s) # k
  BY <1>1, ClaimedRecord
<1>3. /\ \A j \in Keys \ {k} : record'[j] = record[j]
      /\ record'[k] = NoRecord /\ record' \in [Keys -> Record]
  BY <1>1 DEF Inv, RequestsTyped, Record, NoRecord
<1>4. RequestsTyped'
  BY <1>1, <1>3 DEF Inv, RequestsTyped
<1>5. OneClaim' /\ RepeatsCounted' /\ OnceStep
  BY <1>1 DEF Inv, OneClaim, HasClaim, KeyAt, RepeatsCounted, OnceStep
<1>6. ClaimsHold'
  BY <1>1, <1>2, <1>3 DEF Inv, ClaimsHold, HasClaim, KeyAt
<1>7. PerformedIsRecorded'
  BY <1>1, <1>3 DEF Inv, PerformedIsRecorded, Live, NoRecord
<1>8. UnansweredIsWorkedOn'
  BY <1>1, <1>3 DEF Inv, UnansweredIsWorkedOn, Live, NoRecord, HasClaim, KeyAt
<1> QED
  BY <1>4, <1>5, <1>6, <1>7, <1>8 DEF Inv

(* Whatever the rest of the composition does meanwhile.                    *)
LEMMA StandsStill ==
  ASSUME Inv, UNCHANGED <<record, attempt, told, done, performed, excused, orphaned>>
  PROVE  Inv' /\ OnceStep
BY DEF Inv, RequestsTyped, OneClaim, ClaimsHold, PerformedIsRecorded, RepeatsCounted,
       UnansweredIsWorkedOn, HasClaim, KeyAt, Live, OnceStep

LEMMA StepInv ==
  ASSUME Inv, [Next]_vars
  PROVE  Inv' /\ OnceStep
<1>1. ASSUME NEW s \in Servers, NEW r \in Requests, Arrive(s, r)
      PROVE  Inv' /\ OnceStep
  BY <1>1, ArriveInv
<1>2. ASSUME NEW s \in Servers, AttemptStep(s)
      PROVE  Inv' /\ OnceStep
  BY <1>2, BeginInv, ClaimInv, ClaimLostInv, FinishInv, AbandonInv DEF AttemptStep
<1>3. ASSUME NEW s \in Servers, Work(s)
      PROVE  Inv' /\ OnceStep
  BY <1>3, WorkInv DEF Work
<1>4. ASSUME NEW s \in Servers, WorkFailsLate(s)
      PROVE  Inv' /\ OnceStep
  BY <1>4, WorkInv DEF WorkFailsLate
<1>5. ASSUME NEW s \in Servers, WorkFails(s)
      PROVE  Inv' /\ OnceStep
  BY <1>5, WorkInv DEF WorkFails
<1>6. ASSUME NEW s \in Servers, FinishFails(s) \/ AbandonFails(s) \/ ServerDies(s)
      PROVE  Inv' /\ OnceStep
  BY <1>6, LostInv
<1>7. ASSUME NEW k \in Keys, Expire(k) \/ Sweep(k)
      PROVE  Inv' /\ OnceStep
  BY <1>7, WindowEndsInv, SweepInv
<1>8. ASSUME NEW d \in Dispatchers,
             \/ DispatcherStep(d) /\ UNCHANGED idempotencyVars
             \/ DispatcherFault(d) /\ UNCHANGED <<record, attempt, told, done, performed, excused, orphaned>>
      PROVE  Inv' /\ OnceStep
  BY <1>8, StandsStill DEF idempotencyVars
<1>9. CASE UNCHANGED vars
  BY <1>9, StandsStill DEF vars, idempotencyVars
<1> QED
  BY <1>1, <1>2, <1>3, <1>4, <1>5, <1>6, <1>7, <1>8, <1>9 DEF Next, ServerStep, ServerFault, AttemptFault

LEMMA InvAlways == Spec => []Inv
<1>1. Init => Inv
  BY InitInv DEF Init
<1>2. Inv /\ [Next]_vars => Inv'
  BY StepInv
<1> QED
  BY <1>1, <1>2, PTL DEF Spec

(***************************************************************************)
(* The dispatchers. A claim allows one attempt more and owes one call of   *)
(* the provider at most; so what was sent and what is still owed is never  *)
(* more than the attempts.                                                 *)
(***************************************************************************)
MessageStates == {"none", "Pending", "InFlight", "Delivered", "Failed", "DeadLettered"}
MessageRow == [state : MessageStates, attempts : 0..MaxAttempts]
DispatcherRow == [at : {"idle", "loop", "deliver", "sent", "failed"},
                  todo : SUBSET Messages, of : Messages \cup {NoMessage}]

OutboxTyped ==
  /\ outbox \in [Messages -> MessageRow]
  /\ dispatcher \in [Dispatchers -> DispatcherRow]
  /\ sent \in [Messages -> Nat]

Owes(row, m) == m \in row.todo \/ (row.at = "deliver" /\ row.of = m)
Owing(m) == {d \in Dispatchers : Owes(dispatcher[d], m)}

RowHolds(row, counts) ==
  row.at \in {"deliver", "sent", "failed"} =>
    /\ row.of \in Messages /\ row.of \notin row.todo
    /\ row.at = "sent" => counts[row.of] > 0

AttemptsCover == \A m \in Messages : sent[m] + Cardinality(Owing(m)) <= outbox[m].attempts

OutboxInv ==
  /\ OutboxTyped /\ AttemptsCover /\ MarksTellTheTruth
  /\ \A d \in Dispatchers : RowHolds(dispatcher[d], sent)

LEMMA OwingIsFinite == \A m : IsFiniteSet(Owing(m)) /\ Cardinality(Owing(m)) \in Nat
<1> TAKE m
<1>1. Owing(m) \subseteq Dispatchers
  BY DEF Owing
<1>2. IsFiniteSet(Owing(m))
  BY <1>1, OutboxAssumption, FS_Subset
<1> QED
  BY <1>2, FS_CardinalityType

(* What one dispatcher's step does to what is owed of a message.           *)
LEMMA OwingMoves ==
  ASSUME OutboxTyped, NEW d \in Dispatchers, NEW row \in DispatcherRow,
         dispatcher' = [dispatcher EXCEPT ![d] = row], NEW m
  PROVE  /\ Cardinality(Owing(m)) \in Nat /\ Cardinality(Owing(m))' \in Nat
         /\ Owes(row, m) /\ Owes(dispatcher[d], m) => Cardinality(Owing(m))' = Cardinality(Owing(m))
         /\ Owes(row, m) /\ ~Owes(dispatcher[d], m) => Cardinality(Owing(m))' = Cardinality(Owing(m)) + 1
         /\ ~Owes(row, m) /\ Owes(dispatcher[d], m) => Cardinality(Owing(m))' = Cardinality(Owing(m)) - 1
         /\ ~Owes(row, m) /\ ~Owes(dispatcher[d], m) => Cardinality(Owing(m))' = Cardinality(Owing(m))
<1>1. IsFiniteSet(Owing(m)) /\ Cardinality(Owing(m)) \in Nat
  BY OwingIsFinite
<1>2. \A c \in Dispatchers : dispatcher'[c] = IF c = d THEN row ELSE dispatcher[c]
  BY DEF OutboxTyped
<1>3. Owes(row, m) => Owing(m)' = Owing(m) \cup {d}
  BY <1>2 DEF Owing
<1>4. ~Owes(row, m) => Owing(m)' = Owing(m) \ {d}
  BY <1>2 DEF Owing
<1>5. Cardinality(Owing(m) \cup {d}) = IF d \in Owing(m) THEN Cardinality(Owing(m)) ELSE Cardinality(Owing(m)) + 1
  BY <1>1, FS_AddElement
<1>6. /\ Cardinality(Owing(m) \ {d}) = IF d \in Owing(m) THEN Cardinality(Owing(m)) - 1 ELSE Cardinality(Owing(m))
      /\ Cardinality(Owing(m) \ {d}) \in Nat
  BY <1>1, FS_RemoveElement, FS_CardinalityType
<1>7. d \in Owing(m) <=> Owes(dispatcher[d], m)
  BY DEF Owing
<1>8. Cardinality(Owing(m))' = Cardinality(Owing(m)')
  OBVIOUS
<1> DEFINE before == Cardinality(Owing(m))
           after == Cardinality(Owing(m))'
<1>9. /\ before \in Nat
      /\ Owes(row, m) => after = IF Owes(dispatcher[d], m) THEN before ELSE before + 1
      /\ ~Owes(row, m) => after = IF Owes(dispatcher[d], m) THEN before - 1 ELSE before
      /\ ~Owes(row, m) => after \in Nat
  BY <1>1, <1>3, <1>4, <1>5, <1>6, <1>7, <1>8
<1> HIDE DEF before, after
<1>10. after \in Nat
  BY <1>9
<1>11. /\ before \in Nat /\ after \in Nat
       /\ Owes(row, m) /\ Owes(dispatcher[d], m) => after = before
       /\ Owes(row, m) /\ ~Owes(dispatcher[d], m) => after = before + 1
       /\ ~Owes(row, m) /\ Owes(dispatcher[d], m) => after = before - 1
       /\ ~Owes(row, m) /\ ~Owes(dispatcher[d], m) => after = before
  BY <1>9, <1>10
<1> QED
  BY <1>11 DEF before, after

(* The invariant over a step of one dispatcher, from what the step does to *)
(* its own row, the counts and the attempts.                               *)
LEMMA DispatcherMoves ==
  ASSUME OutboxInv, NEW d \in Dispatchers, NEW row \in DispatcherRow,
         dispatcher' = [dispatcher EXCEPT ![d] = row],
         outbox' \in [Messages -> MessageRow], sent' \in [Messages -> Nat],
         \A m \in Messages : sent[m] <= sent'[m],
         RowHolds(row, sent'),
         \A m \in Messages :
            \/ /\ sent'[m] = sent[m] /\ outbox'[m].attempts = outbox[m].attempts
               /\ Owes(row, m) => Owes(dispatcher[d], m)
            \/ sent'[m] = sent[m] /\ outbox'[m].attempts = outbox[m].attempts + 1
            \/ /\ sent'[m] = sent[m] + 1 /\ outbox'[m].attempts = outbox[m].attempts
               /\ Owes(dispatcher[d], m) /\ ~Owes(row, m),
         MarksTellTheTruth'
  PROVE  OutboxInv'
<1>1. OutboxTyped'
  BY DEF OutboxInv, OutboxTyped
<1>2. AttemptsCover'
  <2> SUFFICES ASSUME NEW m \in Messages
               PROVE  sent'[m] + Cardinality(Owing(m))' <= outbox'[m].attempts
    BY DEF AttemptsCover
  <2>1. /\ sent[m] \in Nat /\ sent'[m] \in Nat /\ outbox[m].attempts \in Nat /\ outbox'[m].attempts \in Nat
        /\ sent[m] + Cardinality(Owing(m)) <= outbox[m].attempts
    BY OutboxAssumption DEF OutboxInv, OutboxTyped, AttemptsCover, MessageRow
  <2>2. /\ Cardinality(Owing(m)) \in Nat /\ Cardinality(Owing(m))' \in Nat
        /\ Owes(row, m) /\ Owes(dispatcher[d], m) => Cardinality(Owing(m))' = Cardinality(Owing(m))
        /\ Owes(row, m) /\ ~Owes(dispatcher[d], m) => Cardinality(Owing(m))' = Cardinality(Owing(m)) + 1
        /\ ~Owes(row, m) /\ Owes(dispatcher[d], m) => Cardinality(Owing(m))' = Cardinality(Owing(m)) - 1
        /\ ~Owes(row, m) /\ ~Owes(dispatcher[d], m) => Cardinality(Owing(m))' = Cardinality(Owing(m))
    BY OwingMoves DEF OutboxInv
  <2>3. Cardinality(Owing(m))' <= Cardinality(Owing(m)) + 1
        /\ ((Owes(row, m) => Owes(dispatcher[d], m)) => Cardinality(Owing(m))' <= Cardinality(Owing(m)))
        /\ (~Owes(row, m) /\ Owes(dispatcher[d], m) => Cardinality(Owing(m))' <= Cardinality(Owing(m)) - 1)
    BY <2>2
  <2> QED
    BY <2>1, <2>2, <2>3
<1>3. \A c \in Dispatchers : RowHolds(dispatcher[c], sent)'
  <2> SUFFICES ASSUME NEW c \in Dispatchers PROVE RowHolds(dispatcher'[c], sent')
    OBVIOUS
  <2>1. dispatcher'[c] = IF c = d THEN row ELSE dispatcher[c]
    BY DEF OutboxInv, OutboxTyped
  <2>2. CASE c = d
    BY <2>1, <2>2
  <2>3. CASE c # d
    <3>1. RowHolds(dispatcher[c], sent)
      BY DEF OutboxInv
    <3>2. RowHolds(dispatcher[c], sent')
      BY <3>1 DEF RowHolds, OutboxInv, OutboxTyped
    <3> QED
      BY <2>1, <2>3, <3>2
  <2> QED
    BY <2>2, <2>3
<1> QED
  BY <1>1, <1>2, <1>3 DEF OutboxInv

LEMMA RestingRow == Resting \in DispatcherRow /\ Resting.todo = {} /\ Resting.at = "idle"
BY DEF Resting, DispatcherRow

(* A step that neither claims nor sends, and ends a dispatcher's debts or  *)
(* leaves them as they are.                                                *)
LEMMA QuietStep ==
  ASSUME OutboxInv, NEW d \in Dispatchers, NEW row \in DispatcherRow,
         dispatcher' = [dispatcher EXCEPT ![d] = row], UNCHANGED <<outbox, sent>>,
         RowHolds(row, sent), \A m \in Messages : Owes(row, m) => Owes(dispatcher[d], m)
  PROVE  OutboxInv'
<1>1. outbox' \in [Messages -> MessageRow] /\ sent' \in [Messages -> Nat] /\ \A m \in Messages : sent[m] <= sent'[m]
  BY DEF OutboxInv, OutboxTyped
<1>2. MarksTellTheTruth' /\ RowHolds(row, sent')
  BY DEF OutboxInv, MarksTellTheTruth
<1>3. \A m \in Messages : /\ sent'[m] = sent[m] /\ outbox'[m].attempts = outbox[m].attempts
                          /\ Owes(row, m) => Owes(dispatcher[d], m)
  OBVIOUS
<1> QED
  BY <1>1, <1>2, <1>3, DispatcherMoves

LEMMA claimDueInv ==
  ASSUME OutboxInv, NEW d \in Dispatchers, claimDue(d)
  PROVE  OutboxInv'
<1>1. PICK batch \in SUBSET {m \in Messages : IsDue(m)} :
        /\ outbox' = [m \in Messages |-> IF m \in batch
                        THEN [state |-> "InFlight", attempts |-> outbox[m].attempts + 1] ELSE outbox[m]]
        /\ dispatcher' = [dispatcher EXCEPT ![d] = [at |-> "loop", todo |-> batch, of |-> NoMessage]]
  BY DEF claimDue
<1> DEFINE row == [at |-> "loop", todo |-> batch, of |-> NoMessage]
<1>2. row \in DispatcherRow /\ row.at = "loop" /\ row.todo = batch /\ batch \subseteq Messages
  BY DEF DispatcherRow
<1>3. dispatcher' = [dispatcher EXCEPT ![d] = row] /\ sent' = sent
  BY <1>1 DEF claimDue
<1> HIDE DEF row
<1>4. \A m \in Messages :
        /\ m \in batch => /\ outbox'[m].state = "InFlight" /\ outbox'[m].attempts = outbox[m].attempts + 1
                          /\ outbox[m].attempts \in Nat /\ outbox[m].attempts < MaxAttempts
        /\ m \notin batch => outbox'[m] = outbox[m]
  BY <1>1 DEF IsDue, OutboxInv, OutboxTyped, MessageRow
<1>5. outbox' \in [Messages -> MessageRow]
  BY <1>1, OutboxAssumption DEF IsDue, OutboxInv, OutboxTyped, MessageRow, MessageStates
<1>6. sent' \in [Messages -> Nat] /\ \A m \in Messages : sent[m] <= sent'[m]
  BY <1>3 DEF OutboxInv, OutboxTyped
<1>7. MarksTellTheTruth'
  BY <1>3, <1>4 DEF OutboxInv, MarksTellTheTruth
<1>8. RowHolds(row, sent')
  BY <1>2 DEF RowHolds
<1>9. \A m \in Messages : m \notin batch => ~Owes(row, m)
  BY <1>2 DEF Owes
<1> QED
  BY ZenonT(60), <1>2, <1>3, <1>4, <1>5, <1>6, <1>7, <1>8, <1>9, DispatcherMoves

LEMMA LoopInv ==
  ASSUME OutboxInv, NEW d \in Dispatchers, Loop(d)
  PROVE  OutboxInv'
<1>1. dispatcher[d] \in DispatcherRow /\ dispatcher[d].at = "loop" /\ UNCHANGED <<outbox, sent>>
  BY DEF Loop, OutboxInv, OutboxTyped
<1>2. CASE dispatcher' = [dispatcher EXCEPT ![d] = Resting]
  <2>1. RowHolds(Resting, sent) /\ \A m \in Messages : ~Owes(Resting, m)
    BY RestingRow DEF RowHolds, Owes
  <2> QED
    BY <1>1, <1>2, <2>1, RestingRow, QuietStep
<1>3. ASSUME NEW m \in dispatcher[d].todo,
             dispatcher' = [dispatcher EXCEPT ![d] = [at |-> "deliver", todo |-> @.todo \ {m}, of |-> m]]
      PROVE  OutboxInv'
  <2> DEFINE row == [at |-> "deliver", todo |-> dispatcher[d].todo \ {m}, of |-> m]
  <2>1. /\ row \in DispatcherRow /\ row.at = "deliver" /\ row.of = m /\ row.todo = dispatcher[d].todo \ {m}
        /\ dispatcher' = [dispatcher EXCEPT ![d] = row] /\ m \in Messages
    BY <1>1, <1>3 DEF DispatcherRow, OutboxInv, OutboxTyped
  <2> HIDE DEF row
  <2>2. RowHolds(row, sent) /\ \A n \in Messages : Owes(row, n) => Owes(dispatcher[d], n)
    BY <1>3, <2>1 DEF RowHolds, Owes
  <2> QED
    BY <1>1, <2>1, <2>2, QuietStep
<1> QED
  BY <1>2, <1>3 DEF Loop

LEMMA SendInv ==
  ASSUME OutboxInv, NEW d \in Dispatchers, Send(d)
  PROVE  OutboxInv'
<1> DEFINE m == dispatcher[d].of
           row == [dispatcher[d] EXCEPT !.at = "sent"]
<1>1. /\ dispatcher[d] \in DispatcherRow /\ dispatcher[d].at = "deliver"
      /\ m \in Messages /\ m \notin dispatcher[d].todo
  BY DEF Send, OutboxInv, OutboxTyped, RowHolds
<1>2. /\ dispatcher' = [dispatcher EXCEPT ![d] = row] /\ outbox' = outbox
      /\ sent' = [sent EXCEPT ![m] = sent[m] + 1]
  BY DEF Send, GoTo
<1>3. row \in DispatcherRow /\ row.at = "sent" /\ row.of = m /\ row.todo = dispatcher[d].todo
  BY <1>1 DEF DispatcherRow
<1>4. /\ sent \in [Messages -> Nat] /\ sent' \in [Messages -> Nat]
      /\ \A n \in Messages : sent'[n] = IF n = m THEN sent[n] + 1 ELSE sent[n]
  BY <1>1, <1>2 DEF OutboxInv, OutboxTyped
<1>5. Owes(dispatcher[d], m) /\ ~Owes(row, m) /\ \A n \in Messages : Owes(row, n) => Owes(dispatcher[d], n)
  BY <1>1, <1>3 DEF Owes
<1> HIDE DEF row
<1>6. RowHolds(row, sent')
  BY <1>1, <1>3, <1>4 DEF RowHolds
<1> HIDE DEF m
<1>7. MarksTellTheTruth' /\ outbox' \in [Messages -> MessageRow]
  BY <1>2, <1>4 DEF OutboxInv, MarksTellTheTruth, OutboxTyped
<1>8. \A n \in Messages : sent[n] <= sent'[n]
  BY <1>4
<1>9. \A n \in Messages :
         \/ /\ sent'[n] = sent[n] /\ outbox'[n].attempts = outbox[n].attempts
            /\ Owes(row, n) => Owes(dispatcher[d], n)
         \/ sent'[n] = sent[n] /\ outbox'[n].attempts = outbox[n].attempts + 1
         \/ /\ sent'[n] = sent[n] + 1 /\ outbox'[n].attempts = outbox[n].attempts
            /\ Owes(dispatcher[d], n) /\ ~Owes(row, n)
  BY <1>2, <1>4, <1>5
<1>10. /\ row \in DispatcherRow /\ dispatcher' = [dispatcher EXCEPT ![d] = row]
       /\ outbox' \in [Messages -> MessageRow] /\ sent' \in [Messages -> Nat] /\ MarksTellTheTruth'
  BY <1>2, <1>3, <1>4, <1>7
<1> QED
  BY <1>6, <1>8, <1>9, <1>10, DispatcherMoves

LEMMA FailsInv ==
  ASSUME OutboxInv, NEW d \in Dispatchers, SendFails(d) \/ WriteFails(d) \/ DispatcherStops(d)
  PROVE  OutboxInv'
<1>1. dispatcher[d] \in DispatcherRow /\ UNCHANGED <<outbox, sent>>
  BY DEF SendFails, WriteFails, DispatcherStops, OutboxInv, OutboxTyped
<1>2. CASE dispatcher' = [dispatcher EXCEPT ![d] = Resting]
  <2>1. RowHolds(Resting, sent) /\ \A m \in Messages : ~Owes(Resting, m)
    BY RestingRow DEF RowHolds, Owes
  <2> QED
    BY <1>1, <1>2, <2>1, RestingRow, QuietStep
<1>3. CASE dispatcher[d].at \in {"deliver", "sent"} /\ GoTo(d, "failed")
  <2> DEFINE row == [dispatcher[d] EXCEPT !.at = "failed"]
  <2>1. /\ row \in DispatcherRow /\ row.at = "failed" /\ row.of = dispatcher[d].of /\ row.todo = dispatcher[d].todo
        /\ dispatcher' = [dispatcher EXCEPT ![d] = row]
    BY <1>1, <1>3 DEF DispatcherRow, GoTo
  <2> HIDE DEF row
  <2>2. RowHolds(row, sent) /\ \A n \in Messages : Owes(row, n) => Owes(dispatcher[d], n)
    BY <1>3, <2>1 DEF RowHolds, Owes, OutboxInv
  <2> QED
    BY <1>1, <2>1, <2>2, QuietStep
<1> QED
  BY <1>2, <1>3 DEF SendFails, WriteFails, DispatcherStops

LEMMA MarkInv ==
  ASSUME OutboxInv, NEW d \in Dispatchers, NEW state \in {"Delivered", "Failed", "DeadLettered"},
         dispatcher[d].at \in {"sent", "failed"}, Mark(d, state),
         state = "Delivered" => dispatcher[d].at = "sent",
         state = "DeadLettered" => outbox[dispatcher[d].of].attempts >= MaxAttempts
  PROVE  OutboxInv'
<1> DEFINE m == dispatcher[d].of
           row == [dispatcher[d] EXCEPT !.at = "loop", !.of = NoMessage]
<1>1. /\ dispatcher[d] \in DispatcherRow /\ m \in Messages
      /\ state = "Delivered" => sent[m] > 0
  BY DEF OutboxInv, OutboxTyped, RowHolds
<1>2. /\ dispatcher' = [dispatcher EXCEPT ![d] = row] /\ sent' = sent
      /\ outbox' = [outbox EXCEPT ![m].state = state]
  BY DEF Mark
<1>3. row \in DispatcherRow /\ row.at = "loop" /\ row.todo = dispatcher[d].todo
  BY <1>1 DEF DispatcherRow
<1>4. /\ outbox' \in [Messages -> MessageRow]
      /\ \A n \in Messages : /\ outbox'[n].attempts = outbox[n].attempts
                             /\ outbox'[n].state = IF n = m THEN state ELSE outbox[n].state
  BY <1>1, <1>2 DEF OutboxInv, OutboxTyped, MessageRow, MessageStates
<1>5. \A n \in Messages : Owes(row, n) => Owes(dispatcher[d], n)
  BY <1>3 DEF Owes
<1>6. RowHolds(row, sent')
  BY <1>3 DEF RowHolds
<1>7. state = "DeadLettered" => outbox[m].attempts = MaxAttempts
  <2>1. outbox[m].attempts \in 0..MaxAttempts
    BY <1>1 DEF OutboxInv, OutboxTyped, MessageRow
  <2>2. MaxAttempts \in Nat /\ (state = "DeadLettered" => outbox[m].attempts >= MaxAttempts)
    BY OutboxAssumption
  <2> HIDE DEF m
  <2> QED
    BY <2>1, <2>2
<1> HIDE DEF row, m
<1>8. MarksTellTheTruth'
  BY <1>1, <1>2, <1>4, <1>7 DEF OutboxInv, MarksTellTheTruth
<1>9. sent' \in [Messages -> Nat] /\ \A n \in Messages : sent'[n] = sent[n] /\ sent[n] <= sent'[n]
  BY <1>2 DEF OutboxInv, OutboxTyped
<1> QED
  BY <1>2, <1>3, <1>4, <1>5, <1>6, <1>8, <1>9, DispatcherMoves

LEMMA DispatcherInv ==
  ASSUME OutboxInv, NEW d \in Dispatchers, DispatcherStep(d) \/ WriteFails(d) \/ DispatcherStops(d)
  PROVE  OutboxInv'
<1>1. CASE markDelivered(d)
  BY <1>1, MarkInv DEF markDelivered
<1>2. CASE markFailed(d)
  BY <1>2, MarkInv DEF markFailed, FailedState
<1> QED
  BY <1>1, <1>2, claimDueInv, LoopInv, SendInv, FailsInv DEF DispatcherStep

(* The work enqueues a message, or nothing moves.                          *)
LEMMA EnqueueInv ==
  ASSUME OutboxInv, NEW m, enqueue(m) \/ UNCHANGED outbox, UNCHANGED <<dispatcher, sent>>
  PROVE  OutboxInv'
<1>1. /\ outbox' \in [Messages -> MessageRow]
      /\ \A n \in Messages : /\ outbox'[n].attempts = outbox[n].attempts
                             /\ outbox'[n].state = outbox[n].state \/ outbox'[n].state = "Pending"
  BY DEF enqueue, OutboxInv, OutboxTyped, MessageRow, MessageStates
<1>2. OutboxTyped' /\ MarksTellTheTruth' /\ \A d \in Dispatchers : RowHolds(dispatcher[d], sent)'
  BY <1>1 DEF OutboxInv, OutboxTyped, MarksTellTheTruth
<1>3. AttemptsCover'
  BY <1>1 DEF OutboxInv, AttemptsCover, Owing
<1> QED
  BY <1>2, <1>3 DEF OutboxInv

LEMMA OutboxAlways == Spec => []OutboxInv
<1>1. Init => OutboxInv
  <2> SUFFICES ASSUME OutboxInit PROVE OutboxInv
    BY DEF Init
  <2>1. OutboxTyped
    BY OutboxAssumption, RestingRow DEF OutboxInit, OutboxTyped, MessageRow, MessageStates
  <2>2. MarksTellTheTruth /\ \A d \in Dispatchers : RowHolds(dispatcher[d], sent)
    BY RestingRow DEF OutboxInit, MarksTellTheTruth, RowHolds
  <2>3. \A m \in Messages : Owing(m) = {}
    BY RestingRow DEF OutboxInit, Owing, Owes
  <2>4. AttemptsCover
    <3> SUFFICES ASSUME NEW m \in Messages PROVE sent[m] + Cardinality(Owing(m)) <= outbox[m].attempts
      BY DEF AttemptsCover
    <3>1. Cardinality(Owing(m)) = 0
      BY <2>3, FS_EmptySet
    <3>2. sent[m] = 0 /\ outbox[m].attempts = 0
      BY DEF OutboxInit
    <3> QED
      BY <3>1, <3>2
  <2> QED
    BY <2>1, <2>2, <2>4 DEF OutboxInv
<1>2. OutboxInv /\ [Next]_vars => OutboxInv'
  <2> SUFFICES ASSUME OutboxInv, [Next]_vars PROVE OutboxInv'
    OBVIOUS
  <2>1. ASSUME NEW d \in Dispatchers, DispatcherStep(d) \/ DispatcherFault(d)
        PROVE  OutboxInv'
    BY <2>1, DispatcherInv DEF DispatcherFault
  <2>2. CASE UNCHANGED outboxVars
    BY <2>2, EnqueueInv DEF outboxVars
  <2>3. ASSUME NEW s \in Servers, Raise(s)
        PROVE  OutboxInv'
    BY <2>2, <2>3, EnqueueInv DEF Raise
  <2> QED
    BY <2>1, <2>2, <2>3 DEF Next, ServerStep, ServerFault, vars
<1> QED
  BY <1>1, <1>2, PTL DEF Spec

(* The mishaps are counted to their bound, and the keys that were lost are *)
(* keys.                                                                   *)
Counts == mishaps \in 0..MaxMishaps /\ orphaned \subseteq Keys

LEMMA MishapCounts ==
  ASSUME Counts, UNCHANGED mishaps \/ Mishap
  PROVE  mishaps' \in 0..MaxMishaps
BY IdempotencyAssumption DEF Counts, Mishap

LEMMA CountsStep ==
  ASSUME Inv, Counts, [Next]_vars
  PROVE  Counts'
<1>1. ASSUME NEW s \in Servers, NEW said, Answer(s, said), orphaned' = orphaned
      PROVE  Counts'
  BY <1>1, MishapCounts DEF Answer, Counts
<1>2. ASSUME UNCHANGED mishaps \/ Mishap, orphaned' = orphaned
      PROVE  Counts'
  BY <1>2, MishapCounts DEF Counts
<1>3. ASSUME NEW s \in Servers, AttemptStep(s)
      PROVE  Counts'
  BY <1>1, <1>2, <1>3 DEF AttemptStep, Begin, Claim, ClaimLost, Finish, Abandon
<1>4. ASSUME NEW s \in Servers, Work(s) \/ WorkFailsLate(s) \/ WorkFails(s)
      PROVE  Counts'
  BY <1>2, <1>4 DEF Work, WorkFailsLate, WorkFails
<1>5. ASSUME NEW s \in Servers, FinishFails(s) \/ AbandonFails(s) \/ ServerDies(s)
      PROVE  Counts'
  <2>1. Mishap /\ KeyAt(s) \in Keys
    BY <1>5, KeyTyped DEF FinishFails, AbandonFails, ServerDies
  <2>2. orphaned' \subseteq orphaned \cup {KeyAt(s)}
    BY <1>5 DEF FinishFails, AbandonFails, ServerDies
  <2> QED
    BY <2>1, <2>2, MishapCounts DEF Counts
<1>6. ASSUME NEW k \in Keys, Expire(k)
      PROVE  Counts'
  BY <1>6 DEF Expire, Counts
<1>7. ASSUME NEW s \in Servers, NEW r \in Requests, Arrive(s, r)
      PROVE  Counts'
  BY <1>2, <1>7 DEF Arrive
<1>8. ASSUME NEW k \in Keys, Sweep(k)
      PROVE  Counts'
  BY <1>2, <1>8 DEF Sweep
<1>9. ASSUME NEW d \in Dispatchers,
             \/ DispatcherStep(d) /\ UNCHANGED idempotencyVars
             \/ DispatcherFault(d) /\ UNCHANGED <<record, attempt, told, done, performed, excused, orphaned>>
      PROVE  Counts'
  BY <1>2, <1>9 DEF idempotencyVars, DispatcherFault
<1>10. CASE UNCHANGED vars
  BY <1>2, <1>10 DEF vars, idempotencyVars
<1> QED
  BY <1>3, <1>4, <1>5, <1>6, <1>7, <1>8, <1>9, <1>10 DEF Next, ServerStep, ServerFault, AttemptFault

(* Every variable keeps to its type.                                       *)
THEOREM TypeCorrect == Spec => []TypeOK
<1>1. Init => Counts
  BY IdempotencyAssumption DEF Init, IdempotencyInit, Counts
<1>2. Inv /\ Counts /\ [Next]_vars => Counts'
  BY CountsStep
<1>3. Inv /\ OutboxInv /\ Counts => TypeOK
  BY DEF Inv, RequestsTyped, Record, AttemptRow, OutboxInv, OutboxTyped, MessageRow, MessageStates,
         DispatcherRow, Counts, TypeOK
<1> QED
  BY <1>1, <1>2, <1>3, InvAlways, OutboxAlways, PTL DEF Spec

(* However attempts race, die, fail and come again, what is performed and  *)
(* told under every key is what OncePerKey promises (begin, finish,        *)
(* abandon, and the unique index of idempotency_records).                  *)
THEOREM KeysKeepTheirPromise == Spec => ImplementsOncePerKey
<1>1. Init => Once!Init
  BY InitInv DEF Init
<1>2. Inv /\ [Next]_vars => [Once!Next]_<<performed, told>>
  BY StepInv DEF OnceStep
<1> QED
  BY <1>1, <1>2, InvAlways, PTL DEF Spec, ImplementsOncePerKey, Once!Spec

(* No request is performed more often than its failures after the work and *)
(* the ends of its key's window excuse (begin, finish, abandon).           *)
THEOREM RepeatsAreExcused == Spec => []RepeatedWithReason
<1>1. Inv => RepeatedWithReason
  BY DEF Inv, RepeatsCounted, RepeatedWithReason
<1> QED
  BY <1>1, InvAlways, PTL

(* A failed attempt blocks nobody: a record without an answer is being     *)
(* worked on, or its process or its last write was lost (abandon).         *)
THEOREM NobodyIsBlocked == Spec => []UnansweredIsWorkedOn
<1>1. Inv => UnansweredIsWorkedOn
  BY DEF Inv
<1> QED
  BY <1>1, InvAlways, PTL

(* However many dispatchers claim the same message, or die with it, the    *)
(* provider accepts it OUTBOX_MAX_ATTEMPTS times at most (claimDue).       *)
THEOREM SendsStayBounded == Spec => []SendsAreBounded
<1>1. OutboxInv => SendsAreBounded
  BY OwingIsFinite, OutboxAssumption DEF OutboxInv, OutboxTyped, MessageRow, AttemptsCover, SendsAreBounded
<1> QED
  BY <1>1, OutboxAlways, PTL

(* A message that is marked Delivered was accepted by the provider, and    *)
(* one that is dead-lettered has no attempt left, whoever else marks it    *)
(* meanwhile (markDelivered, markFailed).                                  *)
THEOREM MarksAreTrue == Spec => []MarksTellTheTruth
<1>1. OutboxInv => MarksTellTheTruth
  BY DEF OutboxInv
<1> QED
  BY <1>1, OutboxAlways, PTL
=============================================================================
