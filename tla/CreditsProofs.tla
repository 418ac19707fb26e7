---------------------------- MODULE CreditsProofs ----------------------------
(***************************************************************************)
(* Machine-checked proofs about Credits, for any purchases, requests,      *)
(* handlers and operators, and any number of failures and deaths.          *)
(***************************************************************************)
EXTENDS CreditsProperties, FiniteSetTheorems, FunctionTheorems, SequenceTheorems, TLAPS

NumberOf(x) == Cardinality(LotsOf(x))
PayFailures(p) == Cardinality({i \in DOMAIN failed[p] : failed[p][i] = "pay"})

\* The webhook's side.

Busy(h) == handler[h].at \notin {"idle", "claiming"}

\* One handler at a time has the event, and its row says so.
AtWork ==
  /\ \A h \in Handlers : handler[h].at # "idle" => handler[h].event \in Purchases
  /\ \A h \in Handlers : Busy(h) => inbox[handler[h].event] = "open"
  /\ \A g, h \in Handlers : Busy(g) /\ Busy(h) /\ handler[g].event = handler[h].event => g = h

CreditSteps ==
  \A h \in Handlers :
    LET p == handler[h].event IN
    /\ handler[h].at = "grant" => page[p] = "paid" /\ ~purchase[p].grant
    /\ handler[h].at = "pay" => page[p] = "paid" /\ LotsOf(p) # {}
    /\ handler[h].at = "applied" => purchase[p].grant

\* Somebody may still grant the purchase its credit: a delivery may be claimed, or is at a step
\* before the grant, or at one that leads back to a claim.
MayYetBeGranted(p) ==
  /\ ~purchase[p].grant
  /\ \/ inbox[p] \in {"unseen", "failed"}
     \/ \E h \in Handlers :
          handler[h].event = p /\ handler[h].at \in {"apply", "grant", "failing", "ignored"}

Counted ==
  \A p \in Purchases :
    /\ NumberOf(p) <= 1 + PayFailures(p)
    /\ MayYetBeGranted(p) => NumberOf(p) <= PayFailures(p)

WebhookInv == AtWork /\ CreditSteps /\ NothingIsCreditedUnpaid /\ CreditedIsNotAbandoned /\ Counted

\* The operators' side.

CallsInOrder ==
  \A o \in Operators :
    LET call == operator[o] IN
    /\ call.at \in {"reject", "grant", "approve"} => call.on \in Requests
    /\ call.at = "approve" => LotsOf(call.on) # {}
    /\ call.at \in {"revoke", "writeOff"} => call.on \in Lots /\ "granted" \in lot[call.on]
    /\ call.at = "revoke" /\ call.on.of \in Purchases => call.live
    /\ call.at = "writeOff" => call.on.of \in Requests
    /\ \A l \in call.due : l \in Lots /\ "granted" \in lot[l] /\ l.of \in Requests

\* Grants are numbered from one, without a gap.
LotsInOrder ==
  \A l \in Lots :
    /\ lot[l] = {} \/ "granted" \in lot[l]
    /\ "granted" \in lot[l] => l.n <= NumberOf(l.of)
    /\ "writtenOff" \in lot[l] => l.of \in Requests

Granted == {l \in Lots : "granted" \in lot[l]}
TakenBack == {l \in Lots : \/ "writtenOff" \in lot[l]
                           \/ "revoked" \in lot[l] /\ l.of \in Purchases}
WritingOff == {o \in Operators : operator[o].at = "writeOff"}

\* A grant about to be written off has left the allowance already.
Balanced == allowance + Cardinality(WritingOff) <= Base + Cardinality(Granted) - Cardinality(TakenBack)

OperatorInv == CallsInOrder /\ ApprovedIsFunded /\ LotsInOrder /\ Balanced

Inv == TypeOK /\ WebhookInv /\ OperatorInv
-----------------------------------------------------------------------------
\* The sets that are counted are finite.

LEMMA LotsAreFinite == IsFiniteSet(Lots)
<1> DEFINE S == (Purchases \cup Requests) \X (1..MaxGrants)
           f == [s \in S |-> [of |-> s[1], n |-> s[2]]]
<1>1. IsFiniteSet(Purchases \cup Requests)
  <2>1. Purchases \cup Requests \subseteq Purchases \cup Requests \cup Operators
    OBVIOUS
  <2> QED
    BY <2>1, CreditsAssumption, FS_Subset
<1>2. IsFiniteSet(S)
  <2>1. IsFiniteSet(1..MaxGrants)
    BY CreditsAssumption, FS_Interval
  <2> QED
    BY <1>1, <2>1, FS_Product
<1>3. f \in [S -> Lots]
  BY DEF Lots
<1>4. \A l \in Lots : \E s \in S : f[s] = l
  <2> SUFFICES ASSUME NEW l \in Lots PROVE \E s \in S : f[s] = l
    OBVIOUS
  <2>1. l = [of |-> l.of, n |-> l.n] /\ <<l.of, l.n>> \in S
    BY DEF Lots
  <2>2. f[<<l.of, l.n>>] = l
    BY <2>1
  <2> QED
    BY <2>1, <2>2
<1> HIDE DEF f, S
<1>5. f \in Surjection(S, Lots)
  BY <1>3, <1>4, Fun_IsSurj
<1> QED
  BY <1>2, <1>5, FS_Surjection

LEMMA LotCounts ==
  ASSUME NEW S, S \subseteq Lots
  PROVE  IsFiniteSet(S) /\ Cardinality(S) \in Nat
<1>1. IsFiniteSet(S)
  BY LotsAreFinite, FS_Subset
<1> QED
  BY <1>1, FS_CardinalityType

LEMMA NumberIsNat == ASSUME NEW x PROVE NumberOf(x) \in Nat /\ NumberOf(x)' \in Nat
<1>1. LotsOf(x) \subseteq Lots /\ LotsOf(x)' \subseteq Lots
  BY DEF LotsOf
<1>2. Cardinality(LotsOf(x)) \in Nat /\ Cardinality(LotsOf(x)') \in Nat
  BY <1>1, LotCounts
<1> QED
  BY <1>2 DEF NumberOf

LEMMA OperatorCounts ==
  ASSUME NEW S, S \subseteq Operators
  PROVE  IsFiniteSet(S) /\ Cardinality(S) \in Nat
<1>1. S \subseteq Purchases \cup Requests \cup Operators
  OBVIOUS
<1>2. IsFiniteSet(S)
  BY <1>1, CreditsAssumption, FS_Subset
<1> QED
  BY <1>2, FS_CardinalityType

LEMMA FailureCounts ==
  ASSUME NEW s, s \in Seq(Watched \cup {"elsewhere"})
  PROVE  /\ IsFiniteSet({i \in DOMAIN s : s[i] = "pay"})
         /\ Cardinality({i \in DOMAIN s : s[i] = "pay"}) \in Nat
<1>1. DOMAIN s = 1..Len(s) /\ Len(s) \in Nat
  OBVIOUS
<1>2. IsFiniteSet(1..Len(s))
  BY <1>1, FS_Interval
<1>3. IsFiniteSet({i \in DOMAIN s : s[i] = "pay"})
  BY <1>1, <1>2, FS_Subset
<1> QED
  BY <1>3, FS_CardinalityType

\* One more failure is counted if it was at the step that is watched.
LEMMA OneMoreFailure ==
  ASSUME NEW s, s \in Seq(Watched \cup {"elsewhere"}), NEW at \in Watched \cup {"elsewhere"}
  PROVE  LET before == Cardinality({i \in DOMAIN s : s[i] = "pay"})
             after  == Cardinality({i \in DOMAIN Append(s, at) : Append(s, at)[i] = "pay"})
         IN  after = IF at = "pay" THEN before + 1 ELSE before
<1> DEFINE S == {i \in DOMAIN s : s[i] = "pay"}
           T == {i \in DOMAIN Append(s, at) : Append(s, at)[i] = "pay"}
<1>1. /\ Len(s) \in Nat /\ DOMAIN s = 1..Len(s) /\ DOMAIN Append(s, at) = 1..(Len(s) + 1)
      /\ \A i \in 1..Len(s) : Append(s, at)[i] = s[i]
      /\ Append(s, at)[Len(s) + 1] = at
  OBVIOUS
<1>2. S \subseteq 1..Len(s) /\ Len(s) + 1 \notin S
  BY <1>1
<1>3. T = IF at = "pay" THEN S \cup {Len(s) + 1} ELSE S
  BY <1>1
<1>4. IsFiniteSet(S)
  BY FailureCounts
<1> HIDE DEF S, T
<1>5. Cardinality(T) = IF at = "pay" THEN Cardinality(S) + 1 ELSE Cardinality(S)
  BY <1>2, <1>3, <1>4, FS_AddElement
<1> QED
  BY <1>5 DEF S, T
-----------------------------------------------------------------------------
LEMMA InitInv == Init => Inv
<1> SUFFICES ASSUME Init PROVE Inv
  OBVIOUS
<1>1. \A h \in Handlers : handler[h].at = "idle" /\ handler[h] = Resting
  BY DEF Init, WebhookInit, Resting
<1>2. \A o \in Operators : operator[o].at = "idle" /\ operator[o].due = {}
  BY DEF Init, AtRest
<1>3. \A x : LotsOf(x) = {} /\ NumberOf(x) = 0
  <2>1. \A x : LotsOf(x) = {}
    BY DEF Init, LotsOf
  <2> QED
    BY <2>1, FS_EmptySet DEF NumberOf
<1>4. TypeOK
  <2>1. operator \in [Operators ->
          [at : {"idle", "reject", "grant", "approve", "revoke", "expire", "writeOff"},
           on : Requests \cup Lots \cup {NoEvent}, live : BOOLEAN, due : SUBSET Lots]]
    BY DEF Init, AtRest
  <2>2. handler \in [Handlers ->
          [at : Steps, event : Purchases \cup {NoEvent},
           seen : Outcomes \cup {"unseen", "nothing"}]]
    BY DEF Init, WebhookInit, Resting, Steps
  <2>3. failed \in [Purchases -> Seq(Watched \cup {"elsewhere"})]
    <3>1. <<>> \in Seq(Watched \cup {"elsewhere"})
      OBVIOUS
    <3> QED
      BY <3>1 DEF Init, WebhookInit, Purchases
  <2>4. inbox \in [Purchases -> Outcomes \cup {"unseen"}] /\ owed \in [Purchases -> {"no", "yes", "early", "answered"}]
    BY DEF Init, WebhookInit, Purchases
  <2>5. /\ purchase \in [Purchases -> [status : Statuses, grant : BOOLEAN]]
        /\ page \in [Purchases -> {"none", "open", "closed", "paid", "unpaid"}]
        /\ request \in [Requests -> RequestStates]
    BY DEF Init, Statuses, RequestStates
  <2>6. lot \in [Lots -> SUBSET {"granted", "revoked", "writtenOff"}] /\ lapsed \in BOOLEAN
    BY DEF Init
  <2>7. allowance \in Nat /\ deaths \in 0..MaxDeaths
    BY CreditsAssumption DEF Init, WebhookInit
  <2> QED
    BY <2>1, <2>2, <2>3, <2>4, <2>5, <2>6, <2>7 DEF TypeOK
<1>5. \A p \in Purchases : PayFailures(p) \in Nat
  BY <1>4, FailureCounts DEF PayFailures, TypeOK
<1>6. WebhookInv
  <2>1. AtWork /\ CreditSteps
    BY <1>1 DEF AtWork, CreditSteps, Busy
  <2>2. NothingIsCreditedUnpaid /\ CreditedIsNotAbandoned
    BY <1>3 DEF NothingIsCreditedUnpaid, CreditedIsNotAbandoned, Init
  <2>3. Counted
    BY <1>3, <1>5 DEF Counted
  <2> QED
    BY <2>1, <2>2, <2>3 DEF WebhookInv
<1>7. OperatorInv
  <2>1. CallsInOrder
    BY <1>2 DEF CallsInOrder
  <2>2. ApprovedIsFunded /\ LotsInOrder
    BY DEF ApprovedIsFunded, LotsInOrder, Init
  <2>3. Balanced
    <3>1. Granted = {} /\ TakenBack = {} /\ WritingOff = {}
      BY <1>2 DEF Granted, TakenBack, WritingOff, Init
    <3>2. allowance = Base
      BY DEF Init
    <3> QED
      BY <3>1, <3>2, CreditsAssumption, FS_EmptySet DEF Balanced
  <2> QED
    BY <2>1, <2>2, <2>3 DEF OperatorInv
<1> QED
  BY <1>4, <1>6, <1>7 DEF Inv

\* What leaves the inbox, the purchases and their credit alone leaves the webhook's side alone.
LEMMA WebhookFrame ==
  ASSUME WebhookInv, UNCHANGED <<purchase, page, inbox, handler, failed>>,
         \A p \in Purchases : LotsOf(p)' = LotsOf(p)
  PROVE  WebhookInv'
<1>1. AtWork'
  BY DEF WebhookInv, AtWork, Busy
<1>2. CreditSteps'
  BY <1>1 DEF WebhookInv, AtWork, CreditSteps
<1>3. NothingIsCreditedUnpaid' /\ CreditedIsNotAbandoned'
  BY DEF WebhookInv, NothingIsCreditedUnpaid, CreditedIsNotAbandoned
<1>4. Counted'
  BY DEF WebhookInv, Counted, MayYetBeGranted, NumberOf, PayFailures
<1> QED
  BY <1>1, <1>2, <1>3, <1>4 DEF WebhookInv

LEMMA OperatorFrame ==
  ASSUME OperatorInv, UNCHANGED <<request, lot, allowance, operator>>
  PROVE  OperatorInv'
<1>1. \A x : LotsOf(x)' = LotsOf(x) /\ NumberOf(x)' = NumberOf(x)
  BY DEF LotsOf, NumberOf
<1>2. CallsInOrder'
  BY <1>1 DEF OperatorInv, CallsInOrder
<1>3. ApprovedIsFunded'
  BY <1>1 DEF OperatorInv, ApprovedIsFunded
<1>4. LotsInOrder'
  BY <1>1 DEF OperatorInv, LotsInOrder
<1>5. Balanced'
  BY DEF OperatorInv, Balanced, Granted, TakenBack, WritingOff
<1> QED
  BY <1>2, <1>3, <1>4, <1>5 DEF OperatorInv

\* A purchase goes on before its credit is recorded, or its page does.
LEMMA PurchaseMoves ==
  ASSUME Inv, NEW p \in Purchases,
         UNCHANGED <<request, lot, allowance, lapsed, operator, inbox, handler, failed, deaths>>,
         \A q \in Purchases : /\ purchase'[q].grant = purchase[q].grant
                              /\ purchase[q].grant => purchase'[q].status = purchase[q].status
                              /\ page[q] = "paid" => page'[q] = "paid"
  PROVE  WebhookInv' /\ OperatorInv'
<1>1. \A x : LotsOf(x)' = LotsOf(x)
  BY DEF LotsOf
<1>2. AtWork'
  BY DEF Inv, WebhookInv, AtWork, Busy
<1>3. CreditSteps'
  BY <1>1 DEF Inv, WebhookInv, AtWork, CreditSteps
<1>4. NothingIsCreditedUnpaid' /\ CreditedIsNotAbandoned'
  BY <1>1 DEF Inv, WebhookInv, NothingIsCreditedUnpaid, CreditedIsNotAbandoned
<1>5. Counted'
  BY <1>1 DEF Inv, WebhookInv, Counted, MayYetBeGranted, NumberOf, PayFailures
<1> QED
  BY <1>2, <1>3, <1>4, <1>5, OperatorFrame DEF Inv, WebhookInv

LEMMA TopUpInv == ASSUME Inv, NEW p \in Purchases, TopUpStep(p) PROVE Inv'
<1>1. CASE Start(p) \/ OpenPage(p) \/ Sweep(p)
  <2>1. UNCHANGED <<request, lot, allowance, lapsed, operator, inbox, owed, handler, failed, deaths>>
    BY <1>1 DEF Start, OpenPage, Sweep, webhookVars
  <2>2. PICK s \in Statuses : purchase' = [purchase EXCEPT ![p].status = s] \/ purchase' = purchase
    BY <1>1 DEF Start, OpenPage, Sweep, Statuses
  <2>3. page' = page \/ (page[p] = "none" /\ \E q \in {"open", "closed"} : page' = [page EXCEPT ![p] = q])
    BY <1>1 DEF Start, OpenPage, Sweep
  <2>4. purchase' = purchase \/ ~purchase[p].grant
    BY <1>1 DEF Start, OpenPage, Sweep, Unfinished, Inv, WebhookInv, CreditedIsNotAbandoned
  <2>5. TypeOK'
    <3>1. purchase' \in [Purchases -> [status : Statuses, grant : BOOLEAN]]
      <4>1. purchase[p] \in [status : Statuses, grant : BOOLEAN]
        BY DEF Inv, TypeOK
      <4>2. [purchase[p] EXCEPT !.status = s] \in [status : Statuses, grant : BOOLEAN]
        BY <4>1
      <4>3. purchase' = [purchase EXCEPT ![p] = [purchase[p] EXCEPT !.status = s]] \/ purchase' = purchase
        BY <2>2
      <4> QED
        BY <4>2, <4>3 DEF Inv, TypeOK
    <3>2. page' \in [Purchases -> {"none", "open", "closed", "paid", "unpaid"}]
      BY ZenonT(60), <2>3 DEF Inv, TypeOK
    <3> QED
      BY <2>1, <3>1, <3>2 DEF Inv, TypeOK
  <2>6. \A q \in Purchases : /\ purchase'[q].grant = purchase[q].grant
                             /\ purchase[q].grant => purchase'[q].status = purchase[q].status
                             /\ page[q] = "paid" => page'[q] = "paid"
    <3> SUFFICES ASSUME NEW q \in Purchases
                 PROVE  /\ purchase'[q].grant = purchase[q].grant
                        /\ purchase[q].grant => purchase'[q].status = purchase[q].status
                        /\ page[q] = "paid" => page'[q] = "paid"
      OBVIOUS
    <3>1. page[q] = "paid" => page'[q] = "paid"
      BY <2>3 DEF Inv, TypeOK
    <3>2. CASE purchase' = purchase \/ q # p
      <4>1. purchase'[q] = purchase[q]
        BY <2>2, <3>2 DEF Inv, TypeOK
      <4> QED
        BY <3>1, <4>1
    <3>3. CASE purchase' # purchase /\ q = p
      <4>1. purchase'[q] = [purchase[q] EXCEPT !.status = s]
        BY <2>2, <3>3 DEF Inv, TypeOK
      <4>2. purchase[q] \in [status : Statuses, grant : BOOLEAN]
        BY DEF Inv, TypeOK
      <4>3. purchase'[q].grant = purchase[q].grant
        BY <4>1, <4>2
      <4> QED
        BY <2>4, <3>1, <3>3, <4>3
    <3> QED
      BY <3>2, <3>3
  <2> QED
    BY <2>1, <2>5, <2>6, PurchaseMoves DEF Inv
<1>2. CASE Complete(p)
  <2>1. /\ UNCHANGED <<purchase, request, lot, allowance, lapsed, operator, inbox, handler, failed, deaths>>
        /\ page[p] = "open" /\ owed' = [owed EXCEPT ![p] = "yes"]
        /\ \E q \in {"paid", "unpaid"} : page' = [page EXCEPT ![p] = q]
    BY <1>2 DEF Complete
  <2>2. TypeOK'
    BY <2>1 DEF Inv, TypeOK
  <2> QED
    BY <2>1, <2>2, PurchaseMoves DEF Inv, TypeOK
<1> QED
  BY <1>1, <1>2 DEF TopUpStep

\* A handler goes on: what has to be known of its next place.
LEMMA HandlerGoes ==
  ASSUME Inv, NEW h \in Handlers,
         NEW row \in [at : Steps, event : Purchases \cup {NoEvent},
                      seen : Outcomes \cup {"unseen", "nothing"}],
         handler' = [handler EXCEPT ![h] = row],
         UNCHANGED <<moneyVars, failed>>,
         inbox' \in [Purchases -> Outcomes \cup {"unseen"}],
         \A p \in Purchases : p # handler[h].event => inbox'[p] = inbox[p],
         row.at # "idle" => row.event \in Purchases,
         row.at \notin {"idle", "claiming"} =>
            /\ row.event = handler[h].event /\ inbox'[row.event] = "open"
            /\ Busy(h) \/ inbox[row.event] \in {"unseen", "failed"},
         ~(Busy(h) \/ (handler[h].event \in Purchases /\ inbox[handler[h].event] \in {"unseen", "failed"}))
            => inbox' = inbox,
         row.at = "grant" => page[row.event] = "paid" /\ ~purchase[row.event].grant,
         row.at # "pay" /\ (row.at = "applied" => purchase[row.event].grant),
         row.at \in {"apply", "grant", "failing", "ignored"} => MayYetBeGranted(row.event) \/ purchase[row.event].grant,
         handler[h].event \in Purchases /\ inbox'[handler[h].event] \in {"unseen", "failed"} =>
            inbox' = inbox \/ MayYetBeGranted(handler[h].event) \/ purchase[handler[h].event].grant
  PROVE  WebhookInv' /\ OperatorInv'
<1>1. /\ \A g \in Handlers : handler'[g] = IF g = h THEN row ELSE handler[g]
      /\ UNCHANGED <<purchase, page, request, lot, allowance, lapsed, operator>>
  BY DEF Inv, TypeOK, moneyVars
<1>2. \A x : LotsOf(x)' = LotsOf(x)
  BY <1>1 DEF LotsOf
<1>3. \A g \in Handlers : g # h /\ Busy(g) /\ inbox' # inbox => handler[g].event # handler[h].event
  BY DEF Inv, WebhookInv, AtWork
<1>4. AtWork'
  <2>1. \A g \in Handlers : handler'[g].at # "idle" => handler'[g].event \in Purchases
    BY <1>1 DEF Inv, WebhookInv, AtWork
  <2>2. \A g \in Handlers : Busy(g)' => inbox'[handler'[g].event] = "open"
    <3> SUFFICES ASSUME NEW g \in Handlers, Busy(g)' PROVE inbox'[handler'[g].event] = "open"
      OBVIOUS
    <3>1. CASE g = h
      BY <1>1, <3>1 DEF Busy
    <3>2. CASE g # h
      <4>1. handler'[g] = handler[g] /\ Busy(g) /\ handler[g].event \in Purchases
            /\ inbox[handler[g].event] = "open"
        BY <1>1, <3>2 DEF Busy, Inv, WebhookInv, AtWork
      <4> QED
        BY <1>3, <3>2, <4>1
    <3> QED
      BY <3>1, <3>2
  <2>3. \A f, g \in Handlers :
          Busy(f)' /\ Busy(g)' /\ handler'[f].event = handler'[g].event => f = g
    <3>1. ASSUME NEW g \in Handlers, g # h, Busy(g), Busy(h)', row.event = handler[g].event
          PROVE  FALSE
      BY <1>1, <3>1 DEF Busy, Inv, WebhookInv, AtWork
    <3>2. \A g \in Handlers : g # h /\ Busy(g)' => Busy(g) /\ handler'[g] = handler[g]
      BY <1>1 DEF Busy
    <3> QED
      BY <1>1, <3>1, <3>2 DEF Inv, WebhookInv, AtWork
  <2> QED
    BY <2>1, <2>2, <2>3 DEF AtWork
<1>5. CreditSteps'
  BY <1>1, <1>2 DEF Inv, WebhookInv, CreditSteps
<1>6. NothingIsCreditedUnpaid' /\ CreditedIsNotAbandoned'
  BY <1>1, <1>2 DEF Inv, WebhookInv, NothingIsCreditedUnpaid, CreditedIsNotAbandoned
<1>7. ASSUME NEW p \in Purchases, MayYetBeGranted(p)' PROVE MayYetBeGranted(p)
  <2>1. ~purchase[p].grant
    BY <1>1, <1>7 DEF MayYetBeGranted
  <2>2. CASE inbox'[p] \in {"unseen", "failed"}
    BY <2>1, <2>2 DEF MayYetBeGranted
  <2>3. CASE \E g \in Handlers : handler'[g].event = p /\ handler'[g].at \in {"apply", "grant", "failing", "ignored"}
    BY <1>1, <2>1, <2>3 DEF MayYetBeGranted
  <2> QED
    BY <1>7, <2>2, <2>3 DEF MayYetBeGranted
<1>8. Counted'
  <2>1. \A p \in Purchases : NumberOf(p)' = NumberOf(p) /\ PayFailures(p)' = PayFailures(p)
    BY <1>2 DEF NumberOf, PayFailures
  <2> QED
    BY <1>7, <2>1 DEF Inv, WebhookInv, Counted
<1> QED
  BY <1>1, <1>4, <1>5, <1>6, <1>8, OperatorFrame DEF Inv, WebhookInv

HandlerRow == [at : Steps, event : Purchases \cup {NoEvent},
               seen : Outcomes \cup {"unseen", "nothing"}]

\* The types of what the webhook's steps write.
LEMMA HandlerTypes ==
  ASSUME Inv, NEW h \in Handlers, NEW row \in HandlerRow, handler' = [handler EXCEPT ![h] = row],
         UNCHANGED moneyVars, deaths' \in 0..MaxDeaths,
         inbox' \in [Purchases -> Outcomes \cup {"unseen"}],
         owed' \in [Purchases -> {"no", "yes", "early", "answered"}],
         failed' \in [Purchases -> Seq(Watched \cup {"elsewhere"})]
  PROVE  TypeOK'
<1>1. handler' \in [Handlers -> HandlerRow]
  BY DEF Inv, TypeOK, HandlerRow
<1> QED
  BY <1>1 DEF Inv, TypeOK, HandlerRow, moneyVars

LEMMA RestingRow == Resting \in HandlerRow /\ Resting.at = "idle"
BY DEF Resting, HandlerRow, Steps

LEMMA RowOf ==
  ASSUME Inv, NEW h \in Handlers
  PROVE  /\ handler[h] \in HandlerRow /\ handler[h].event \in Purchases \cup {NoEvent}
         /\ handler[h].at # "idle" => handler[h].event \in Purchases
         /\ handler[h].event \in Purchases =>
              /\ inbox[handler[h].event] \in Outcomes \cup {"unseen"}
              /\ inbox[handler[h].event] \in {"unseen", "failed"} =>
                    MayYetBeGranted(handler[h].event) \/ purchase[handler[h].event].grant
BY DEF Inv, TypeOK, HandlerRow, WebhookInv, AtWork, MayYetBeGranted

LEMMA ReceiveInv ==
  ASSUME Inv, NEW h \in Handlers, NEW e \in Purchases, Receive(h, e), UNCHANGED moneyVars
  PROVE  Inv'
<1> DEFINE row == [at |-> "claiming", event |-> e, seen |-> inbox[e]]
<1>1. row \in HandlerRow /\ row.at = "claiming" /\ row.event = e
  BY DEF HandlerRow, Steps, Inv, TypeOK
<1>2. handler' = [handler EXCEPT ![h] = row] /\ UNCHANGED <<moneyVars, inbox, owed, failed, deaths>>
  BY DEF Receive
<1> HIDE DEF row
<1>3. TypeOK'
  BY <1>1, <1>2, HandlerTypes DEF Inv, TypeOK
<1>4. WebhookInv' /\ OperatorInv'
  BY <1>1, <1>2, HandlerGoes DEF Inv, TypeOK, HandlerRow
<1> QED
  BY <1>3, <1>4 DEF Inv

LEMMA ClaimInv ==
  ASSUME Inv, NEW h \in Handlers, Claim(h), UNCHANGED moneyVars
  PROVE  Inv'
<1> DEFINE e == handler[h].event
           row == [handler[h] EXCEPT !.at = "apply", !.seen = "nothing"]
<1>1. /\ handler[h] \in HandlerRow /\ e \in Purchases /\ inbox[e] \in {"unseen", "failed"}
      /\ MayYetBeGranted(e) \/ purchase[e].grant
  BY RowOf DEF Claim, Claimable
<1>2. row \in HandlerRow /\ row.at = "apply" /\ row.event = e
  BY <1>1 DEF HandlerRow, Steps
<1>3. /\ handler' = [handler EXCEPT ![h] = row] /\ inbox' = [inbox EXCEPT ![e] = "open"]
      /\ UNCHANGED <<moneyVars, owed, failed, deaths>>
  BY DEF Claim
<1> HIDE DEF row
<1>4. /\ inbox' \in [Purchases -> Outcomes \cup {"unseen"}] /\ inbox'[e] = "open"
      /\ \A p \in Purchases : p # e => inbox'[p] = inbox[p]
  BY <1>1, <1>3 DEF Inv, TypeOK, Outcomes
<1>5. TypeOK'
  BY <1>2, <1>3, <1>4, HandlerTypes DEF Inv, TypeOK
<1>6. WebhookInv' /\ OperatorInv'
  BY <1>1, <1>2, <1>3, <1>4, HandlerGoes DEF HandlerRow
<1> QED
  BY <1>5, <1>6 DEF Inv

\* A handler that rests, having closed the row of its event or not.
LEMMA Rests ==
  ASSUME Inv, NEW h \in Handlers, handler[h].at # "idle",
         handler' = [handler EXCEPT ![h] = Resting], UNCHANGED <<moneyVars, failed>>,
         deaths' \in 0..MaxDeaths, owed' \in [Purchases -> {"no", "yes", "early", "answered"}],
         \/ inbox' = inbox
         \/ /\ handler[h].at \in {"applied", "ignored"}
            /\ inbox' = [inbox EXCEPT ![handler[h].event] = handler[h].at]
         \/ handler[h].at = "failing" /\ inbox' = [inbox EXCEPT ![handler[h].event] = "failed"]
  PROVE  Inv'
<1> DEFINE e == handler[h].event
<1>1. e \in Purchases /\ Resting \in HandlerRow /\ Resting.at = "idle"
  BY RowOf, RestingRow
<1>2. CASE inbox' = inbox
  <2>1. TypeOK'
    BY <1>1, <1>2, HandlerTypes DEF Inv, TypeOK
  <2>2. WebhookInv' /\ OperatorInv'
    BY <1>1, <1>2, HandlerGoes DEF Inv, TypeOK, HandlerRow
  <2> QED
    BY <2>1, <2>2 DEF Inv
<1>3. CASE inbox' # inbox
  <2>1. PICK s \in {"applied", "ignored", "failed"} :
          inbox' = [inbox EXCEPT ![e] = s] /\ (s = "failed" => handler[h].at = "failing")
    BY <1>3
  <2>2. /\ inbox' \in [Purchases -> Outcomes \cup {"unseen"}] /\ inbox'[e] = s
        /\ \A p \in Purchases : p # e => inbox'[p] = inbox[p]
    BY <1>1, <2>1 DEF Inv, TypeOK, Outcomes
  <2>3. TypeOK'
    BY <1>1, <2>2, HandlerTypes DEF Inv, TypeOK
  <2>4. Busy(h) /\ (s = "failed" => MayYetBeGranted(e) \/ purchase[e].grant)
    BY <1>1, <1>3, <2>1 DEF Busy, MayYetBeGranted
  <2>5. WebhookInv' /\ OperatorInv'
    BY <1>1, <2>1, <2>2, <2>4, HandlerGoes DEF HandlerRow
  <2> QED
    BY <2>3, <2>5 DEF Inv
<1> QED
  BY <1>2, <1>3

LEMMA WebhookStepInv ==
  ASSUME Inv, NEW h \in Handlers, WebhookStep(h) \/ Die(h), UNCHANGED moneyVars
  PROVE  Inv'
<1>1. CASE Claim(h)
  BY <1>1, ClaimInv
<1>2. CASE \E e \in Events : Receive(h, e)
  BY <1>2, ReceiveInv DEF Purchases
<1>3. CASE Duplicate(h)
  <2>1. /\ handler[h].at # "idle" /\ handler' = [handler EXCEPT ![h] = Resting]
        /\ UNCHANGED <<inbox, failed, deaths>>
        /\ \E how \in {"answered", "early"} : owed' = [owed EXCEPT ![handler[h].event] = how]
    BY <1>3 DEF Duplicate, Answer
  <2>2. owed' \in [Purchases -> {"no", "yes", "early", "answered"}] /\ deaths' \in 0..MaxDeaths
    BY ZenonT(60), <2>1 DEF Inv, TypeOK
  <2> QED
    BY <2>1, <2>2, Rests
<1>4. CASE Close(h)
  <2>1. /\ handler[h].at \in {"applied", "ignored"} /\ handler' = [handler EXCEPT ![h] = Resting]
        /\ inbox' = [inbox EXCEPT ![handler[h].event] = handler[h].at]
        /\ UNCHANGED <<failed, deaths>> /\ owed' = [owed EXCEPT ![handler[h].event] = "answered"]
    BY <1>4 DEF Close, Answer
  <2> QED
    BY <2>1, Rests DEF Inv, TypeOK
<1>5. CASE CloseFailed(h)
  BY <1>5, Rests DEF CloseFailed, Inv, TypeOK
<1>6. CASE Die(h)
  <2>1. deaths' \in 0..MaxDeaths
    BY <1>6, CreditsAssumption DEF Die, Inv, TypeOK
  <2> QED
    BY <1>6, <2>1, Rests DEF Die, Inv, TypeOK
<1> QED
  BY <1>1, <1>2, <1>3, <1>4, <1>5, <1>6 DEF WebhookStep

LEMMA StepFailsInv ==
  ASSUME Inv, "pay" \in Watched, NEW h \in Handlers, StepFails(h), UNCHANGED moneyVars
  PROVE  Inv'
<1> DEFINE e == handler[h].event
           at == IF handler[h].at \in Watched THEN handler[h].at ELSE "elsewhere"
           row == [handler[h] EXCEPT !.at = "failing", !.seen = "nothing"]
<1>1. handler[h] \in HandlerRow /\ e \in Purchases /\ Busy(h) /\ handler[h].at # "failing"
  BY RowOf DEF StepFails, Busy
<1>2. row \in HandlerRow /\ row.at = "failing" /\ row.event = e
  BY <1>1 DEF HandlerRow, Steps
<1>3. /\ handler' = [handler EXCEPT ![h] = row] /\ failed' = [failed EXCEPT ![e] = Append(@, at)]
      /\ UNCHANGED <<moneyVars, inbox, owed, deaths>>
  BY DEF StepFails
<1> HIDE DEF row
<1>4. /\ \A g \in Handlers : handler'[g] = IF g = h THEN row ELSE handler[g]
      /\ UNCHANGED <<purchase, page, request, lot, allowance, lapsed, operator>>
  BY <1>3 DEF Inv, TypeOK, moneyVars
<1>5. at \in Watched \cup {"elsewhere"} /\ (at = "pay" <=> handler[h].at = "pay")
  OBVIOUS
<1> HIDE DEF at
<1>6. failed[e] \in Seq(Watched \cup {"elsewhere"}) /\ failed'[e] = Append(failed[e], at)
  BY <1>1, <1>3 DEF Inv, TypeOK
<1>7. failed' \in [Purchases -> Seq(Watched \cup {"elsewhere"})]
  <2>1. Append(failed[e], at) \in Seq(Watched \cup {"elsewhere"})
    BY <1>5, <1>6
  <2> QED
    BY <1>3, <2>1 DEF Inv, TypeOK
<1>8. TypeOK'
  BY <1>2, <1>3, <1>7, HandlerTypes DEF Inv, TypeOK
<1>9. \A p \in Purchases :
         PayFailures(p)' = IF p = e /\ handler[h].at = "pay" THEN PayFailures(p) + 1 ELSE PayFailures(p)
  <2> SUFFICES ASSUME NEW p \in Purchases
               PROVE  PayFailures(p)' = IF p = e /\ handler[h].at = "pay"
                                           THEN PayFailures(p) + 1 ELSE PayFailures(p)
    OBVIOUS
  <2>1. CASE p # e
    <3>1. failed'[p] = failed[p]
      BY <1>3, <2>1 DEF Inv, TypeOK
    <3> QED
      BY <2>1, <3>1 DEF PayFailures
  <2>2. CASE p = e
    <3>1. Cardinality({i \in DOMAIN Append(failed[e], at) : Append(failed[e], at)[i] = "pay"})
            = IF at = "pay" THEN PayFailures(e) + 1 ELSE PayFailures(e)
      BY <1>5, <1>6, OneMoreFailure DEF PayFailures
    <3>2. PayFailures(p)' = Cardinality({i \in DOMAIN failed'[p] : failed'[p][i] = "pay"})
      BY DEF PayFailures
    <3>3. failed'[p] = Append(failed[e], at)
      BY <1>6, <2>2
    <3>4. PayFailures(p)' = Cardinality({i \in DOMAIN Append(failed[e], at) : Append(failed[e], at)[i] = "pay"})
      BY <3>2, <3>3
    <3> QED
      BY <1>5, <2>2, <3>1, <3>4
  <2> QED
    BY <2>1, <2>2
<1>10. \A x : LotsOf(x)' = LotsOf(x) /\ NumberOf(x)' = NumberOf(x)
  BY <1>4 DEF LotsOf, NumberOf
<1>11. AtWork'
  BY <1>1, <1>2, <1>3, <1>4 DEF Inv, WebhookInv, AtWork, Busy
<1>12. CreditSteps' /\ NothingIsCreditedUnpaid' /\ CreditedIsNotAbandoned'
  BY <1>2, <1>4, <1>10 DEF Inv, WebhookInv, CreditSteps, NothingIsCreditedUnpaid, CreditedIsNotAbandoned
<1>13. Counted'
  <2> SUFFICES ASSUME NEW p \in Purchases
               PROVE  /\ NumberOf(p) <= 1 + PayFailures(p)'
                      /\ MayYetBeGranted(p)' => NumberOf(p) <= PayFailures(p)'
    BY <1>10 DEF Counted
  <2>1. /\ NumberOf(p) <= 1 + PayFailures(p) /\ NumberOf(p) \in Nat /\ PayFailures(p) \in Nat
        /\ MayYetBeGranted(p) => NumberOf(p) <= PayFailures(p)
    BY NumberIsNat, FailureCounts DEF Inv, TypeOK, WebhookInv, Counted, PayFailures
  <2>2. CASE p # e
    <3>1. MayYetBeGranted(p)' => MayYetBeGranted(p)
      BY <1>2, <1>3, <1>4, <2>2 DEF MayYetBeGranted
    <3> QED
      BY <1>9, <2>1, <2>2, <3>1
  <2>3. CASE p = e /\ handler[h].at = "pay"
    BY <1>9, <2>1, <2>3
  <2>4. CASE p = e /\ handler[h].at # "pay"
    <3>1. MayYetBeGranted(p)' => MayYetBeGranted(p)
      <4>1. handler[h].at \in {"apply", "grant", "ignored"} \/ purchase[p].grant
        BY <1>1, <2>4 DEF Busy, HandlerRow, Steps, Inv, WebhookInv, CreditSteps
      <4> QED
        BY <1>4, <2>4, <4>1 DEF MayYetBeGranted
    <3> QED
      BY <1>9, <2>1, <2>4, <3>1
  <2> QED
    BY <2>2, <2>3, <2>4
<1> QED
  BY <1>4, <1>8, <1>11, <1>12, <1>13, OperatorFrame DEF Inv, WebhookInv

LEMMA ReadPurchaseInv == ASSUME Inv, NEW h \in Handlers, ReadPurchase(h) PROVE Inv'
<1> DEFINE e == handler[h].event
           row == [handler[h] EXCEPT !.at = IF ToBeCredited(e) THEN "grant" ELSE "ignored"]
<1>1. handler[h] \in HandlerRow /\ e \in Purchases /\ Busy(h) /\ handler[h].at = "apply"
  BY RowOf DEF ReadPurchase, At, Busy
<1>2. /\ row \in HandlerRow /\ row.event = e
      /\ row.at = IF ToBeCredited(e) THEN "grant" ELSE "ignored"
  BY <1>1 DEF HandlerRow, Steps
<1>3. handler' = [handler EXCEPT ![h] = row] /\ UNCHANGED <<moneyVars, inbox, owed, failed, deaths>>
  BY DEF ReadPurchase, GoTo
<1> HIDE DEF row
<1>4. TypeOK'
  BY <1>2, <1>3, HandlerTypes DEF Inv, TypeOK
<1>5. inbox[e] = "open" /\ (MayYetBeGranted(e) \/ purchase[e].grant)
  BY <1>1 DEF Inv, WebhookInv, AtWork, MayYetBeGranted
<1>6. row.at = "grant" => page[e] = "paid" /\ ~purchase[e].grant
  BY <1>2 DEF ToBeCredited
<1>7. row.at \in {"grant", "ignored"}
  BY <1>2
<1>8. WebhookInv' /\ OperatorInv'
  BY <1>1, <1>2, <1>3, <1>5, <1>6, <1>7, HandlerGoes DEF Inv, TypeOK, HandlerRow
<1> QED
  BY <1>4, <1>8 DEF Inv

LEMMA MarkPaidInv == ASSUME Inv, NEW h \in Handlers, MarkPaid(h) PROVE Inv'
<1> DEFINE e == handler[h].event
           row == [handler[h] EXCEPT !.at = "applied"]
<1>1. handler[h] \in HandlerRow /\ e \in Purchases /\ Busy(h) /\ handler[h].at = "pay"
  BY RowOf DEF MarkPaid, At, Busy
<1>2. row \in HandlerRow /\ row.event = e /\ row.at = "applied"
  BY <1>1 DEF HandlerRow, Steps
<1>3. /\ handler' = [handler EXCEPT ![h] = row]
      /\ purchase' = [purchase EXCEPT ![e] = [status |-> "Paid", grant |-> TRUE]]
      /\ UNCHANGED <<page, request, lot, allowance, lapsed, operator, inbox, owed, failed, deaths>>
  BY DEF MarkPaid, GoTo
<1> HIDE DEF row
<1>4. /\ \A g \in Handlers : handler'[g] = IF g = h THEN row ELSE handler[g]
      /\ handler' \in [Handlers -> HandlerRow]
  BY <1>2, <1>3 DEF Inv, TypeOK, HandlerRow
<1>5. /\ purchase' \in [Purchases -> [status : Statuses, grant : BOOLEAN]]
      /\ purchase'[e].grant /\ purchase'[e].status = "Paid"
      /\ \A p \in Purchases \ {e} : purchase'[p] = purchase[p]
  BY <1>1, <1>3 DEF Inv, TypeOK, Statuses
<1>6. TypeOK'
  BY <1>3, <1>4, <1>5 DEF Inv, TypeOK, HandlerRow
<1>7. \A x : LotsOf(x)' = LotsOf(x) /\ NumberOf(x)' = NumberOf(x)
  BY <1>3 DEF LotsOf, NumberOf
<1>8. \A g \in Handlers : g # h /\ Busy(g) => handler[g].event # e
  BY <1>1 DEF Inv, WebhookInv, AtWork
<1>9. AtWork'
  BY <1>1, <1>2, <1>3, <1>4 DEF Inv, WebhookInv, AtWork, Busy
<1>10. CreditSteps'
  <2> SUFFICES ASSUME NEW g \in Handlers
               PROVE  LET p == handler'[g].event IN
                      /\ handler'[g].at = "grant" => page[p] = "paid" /\ ~purchase'[p].grant
                      /\ handler'[g].at = "pay" => page[p] = "paid" /\ LotsOf(p) # {}
                      /\ handler'[g].at = "applied" => purchase'[p].grant
    BY <1>3, <1>7 DEF CreditSteps
  <2>1. CASE g = h
    BY <1>2, <1>4, <1>5, <2>1
  <2>2. CASE g # h /\ handler[g].at \in {"grant", "pay", "applied"}
    <3>1. handler'[g] = handler[g] /\ handler[g].event \in Purchases \ {e}
      BY <1>4, <1>8, <2>2 DEF Busy, Inv, WebhookInv, AtWork
    <3> QED
      BY <1>5, <2>2, <3>1 DEF Inv, WebhookInv, CreditSteps
  <2> QED
    BY <1>4, <2>1, <2>2
<1>11. NothingIsCreditedUnpaid'
  BY <1>3, <1>7 DEF Inv, WebhookInv, NothingIsCreditedUnpaid
<1>12. CreditedIsNotAbandoned'
  <2>1. LotsOf(e) # {}
    BY <1>1 DEF Inv, WebhookInv, CreditSteps
  <2> QED
    BY <1>1, <1>5, <1>7, <2>1 DEF Inv, WebhookInv, CreditedIsNotAbandoned
<1>13. Counted'
  <2>1. \A p \in Purchases : MayYetBeGranted(p)' => MayYetBeGranted(p)
    <3> SUFFICES ASSUME NEW p \in Purchases, MayYetBeGranted(p)' PROVE MayYetBeGranted(p)
      OBVIOUS
    <3>1. p # e /\ purchase'[p] = purchase[p]
      BY <1>5 DEF MayYetBeGranted
    <3> QED
      BY <1>2, <1>3, <1>4, <3>1 DEF MayYetBeGranted
  <2> QED
    BY <1>3, <1>7, <2>1 DEF Inv, WebhookInv, Counted, PayFailures
<1> QED
  BY <1>3, <1>6, <1>9, <1>10, <1>11, <1>12, <1>13, OperatorFrame DEF Inv, WebhookInv

-----------------------------------------------------------------------------
\* A grant: the new lot is one nobody had, and it is the only change to the lots.
LEMMA GrantCounts ==
  ASSUME Inv, NEW x \in Purchases \cup Requests, Grant(x)
  PROVE  /\ lot' \in [Lots -> SUBSET {"granted", "revoked", "writtenOff"}]
         /\ LotsOf(x)' # {} /\ NumberOf(x)' = NumberOf(x) + 1
         /\ \A y \in (Purchases \cup Requests) \ {x} : LotsOf(y)' = LotsOf(y)
         /\ LotsInOrder'
         /\ \A l \in Lots : "granted" \in lot[l] => lot'[l] = lot[l]
         /\ Cardinality(Granted') = Cardinality(Granted) + 1 /\ TakenBack' = TakenBack
<1> DEFINE k == NumberOf(x)
           new == [of |-> x, n |-> k + 1]
<1>1. k \in Nat /\ k + 1 \in 1..MaxGrants
  BY NumberIsNat, CreditsAssumption DEF Grant, MayGrant, NumberOf
<1>2. new \in Lots /\ new.of = x /\ new.n = k + 1
  BY <1>1 DEF Lots
<1>3. lot' = [lot EXCEPT ![new] = {"granted"}]
  BY DEF Grant, NumberOf
<1> HIDE DEF new
<1>4. "granted" \notin lot[new] /\ lot[new] = {}
  <2>1. "granted" \in lot[new] => k + 1 <= k
    BY <1>2 DEF Inv, OperatorInv, LotsInOrder
  <2> QED
    BY <1>1, <1>2, <2>1 DEF Inv, OperatorInv, LotsInOrder
<1>5. /\ lot' \in [Lots -> SUBSET {"granted", "revoked", "writtenOff"}]
      /\ lot'[new] = {"granted"} /\ \A l \in Lots : l # new => lot'[l] = lot[l]
  BY <1>2, <1>3 DEF Inv, TypeOK
<1>6. /\ LotsOf(x)' = LotsOf(x) \cup {new} /\ new \notin LotsOf(x)
      /\ \A y \in (Purchases \cup Requests) \ {x} : LotsOf(y)' = LotsOf(y)
  BY <1>2, <1>4, <1>5 DEF LotsOf
<1>7. Granted' = Granted \cup {new} /\ new \notin Granted /\ TakenBack' = TakenBack
  BY <1>2, <1>4, <1>5 DEF Granted, TakenBack
<1>8. NumberOf(x)' = k + 1
  <2>1. LotsOf(x) \subseteq Lots
    BY DEF LotsOf
  <2>2. IsFiniteSet(LotsOf(x))
    BY <2>1, LotCounts
  <2> QED
    BY <1>6, <2>2, FS_AddElement DEF NumberOf
<1>9. Cardinality(Granted') = Cardinality(Granted) + 1
  <2>1. Granted \subseteq Lots
    BY DEF Granted
  <2>2. IsFiniteSet(Granted)
    BY <2>1, LotCounts
  <2> QED
    BY <1>7, <2>2, FS_AddElement
<1>10. LotsInOrder'
  <2> SUFFICES ASSUME NEW l \in Lots
               PROVE  /\ lot'[l] = {} \/ "granted" \in lot'[l]
                      /\ "granted" \in lot'[l] => l.n <= NumberOf(l.of)'
                      /\ "writtenOff" \in lot'[l] => l.of \in Requests
    BY DEF LotsInOrder
  <2>1. CASE l = new
    BY <1>1, <1>2, <1>5, <1>8, <2>1
  <2>2. CASE l # new
    <3>1. /\ lot'[l] = lot[l] /\ l.of \in Purchases \cup Requests /\ l.n \in Nat
          /\ "granted" \in lot[l] => l.n <= NumberOf(l.of)
          /\ lot[l] = {} \/ "granted" \in lot[l]
          /\ "writtenOff" \in lot[l] => l.of \in Requests
      BY <1>5, <2>2 DEF Inv, OperatorInv, LotsInOrder, Lots
    <3>2. NumberOf(l.of)' >= NumberOf(l.of) /\ NumberOf(l.of) \in Nat /\ NumberOf(l.of)' \in Nat
      <4>1. CASE l.of = x
        BY <1>1, <1>8, <4>1
      <4>2. CASE l.of # x
        BY <1>6, <3>1, <4>2, NumberIsNat DEF NumberOf
      <4> QED
        BY <4>1, <4>2
    <3> QED
      BY <3>1, <3>2
  <2> QED
    BY <2>1, <2>2
<1> QED
  BY <1>4, <1>5, <1>6, <1>7, <1>8, <1>9, <1>10

LEMMA OneIsAdded ==
  ASSUME NEW S, IsFiniteSet(S), NEW x
  PROVE  /\ Cardinality(S \cup {x}) \in Nat /\ Cardinality(S) \in Nat
         /\ Cardinality(S \cup {x}) <= Cardinality(S) + 1
<1>1. Cardinality(S) \in Nat
  BY FS_CardinalityType
<1>2. CASE x \in S
  <2>1. S \cup {x} = S
    BY <1>2
  <2> QED
    BY <1>1, <2>1
<1>3. CASE x \notin S
  <2>1. Cardinality(S \cup {x}) = Cardinality(S) + 1
    BY <1>3, FS_AddElement
  <2> QED
    BY <1>1, <2>1
<1> QED
  BY <1>2, <1>3

\* A lot is marked as revoked or as written off.
LEMMA MarkCounts ==
  ASSUME Inv, NEW l \in Lots, "granted" \in lot[l], NEW m \in {"revoked", "writtenOff"},
         lot' = [lot EXCEPT ![l] = @ \cup {m}], m = "writtenOff" => l.of \in Requests
  PROVE  /\ lot' \in [Lots -> SUBSET {"granted", "revoked", "writtenOff"}]
         /\ \A x : LotsOf(x)' = LotsOf(x) /\ NumberOf(x)' = NumberOf(x)
         /\ \A j \in Lots : "granted" \in lot[j] => "granted" \in lot'[j]
         /\ LotsInOrder' /\ Granted' = Granted
         /\ Cardinality(TakenBack') <= Cardinality(TakenBack) + 1
         /\ m = "revoked" /\ l.of \in Requests => TakenBack' = TakenBack
<1>1. /\ lot' \in [Lots -> SUBSET {"granted", "revoked", "writtenOff"}]
      /\ lot'[l] = lot[l] \cup {m} /\ \A j \in Lots : j # l => lot'[j] = lot[j]
  BY DEF Inv, TypeOK
<1>2. \A j \in Lots : "granted" \in lot'[j] <=> "granted" \in lot[j]
  BY <1>1
<1>3. \A x : LotsOf(x)' = LotsOf(x) /\ NumberOf(x)' = NumberOf(x)
  <2>1. \A x : LotsOf(x)' = LotsOf(x)
    BY <1>2 DEF LotsOf
  <2> QED
    BY <2>1 DEF NumberOf
<1>4. LotsInOrder'
  <2> SUFFICES ASSUME NEW j \in Lots
               PROVE  /\ lot'[j] = {} \/ "granted" \in lot'[j]
                      /\ "granted" \in lot'[j] => j.n <= NumberOf(j.of)
                      /\ "writtenOff" \in lot'[j] => j.of \in Requests
    BY <1>3 DEF LotsInOrder
  <2>1. /\ lot[j] = {} \/ "granted" \in lot[j]
        /\ "granted" \in lot[j] => j.n <= NumberOf(j.of)
        /\ "writtenOff" \in lot[j] => j.of \in Requests
    BY DEF Inv, OperatorInv, LotsInOrder
  <2>2. CASE j = l
    BY <1>1, <2>1, <2>2
  <2>3. CASE j # l
    BY <1>1, <2>1, <2>3
  <2> QED
    BY <2>2, <2>3
<1>5. Granted' = Granted
  BY <1>2 DEF Granted
<1>6. TakenBack' = TakenBack \/ TakenBack' = TakenBack \cup {l}
  BY <1>1 DEF TakenBack
<1>7. Cardinality(TakenBack') <= Cardinality(TakenBack) + 1
  <2>1. TakenBack \subseteq Lots
    BY DEF TakenBack
  <2>2. IsFiniteSet(TakenBack) /\ Cardinality(TakenBack) \in Nat
    BY <2>1, LotCounts
  <2>3. Cardinality(TakenBack \cup {l}) <= Cardinality(TakenBack) + 1
    BY <2>2, OneIsAdded
  <2>4. Cardinality(TakenBack) <= Cardinality(TakenBack) + 1
    BY <2>2
  <2> QED
    BY <1>6, <2>3, <2>4
<1>8. m = "revoked" /\ l.of \in Requests => TakenBack' = TakenBack
  <2> SUFFICES ASSUME m = "revoked", l.of \in Requests PROVE TakenBack' = TakenBack
    OBVIOUS
  <2>1. l.of \notin Purchases
    BY CreditsAssumption
  <2> QED
    BY <1>1, <2>1 DEF TakenBack
<1> QED
  BY <1>1, <1>2, <1>3, <1>4, <1>5, <1>7, <1>8

CallRow == [at : {"idle", "reject", "grant", "approve", "revoke", "expire", "writeOff"},
            on : Requests \cup Lots \cup {NoEvent}, live : BOOLEAN, due : SUBSET Lots]

\* The operators that are about to write a grant off, when one of them goes on.
LEMMA CallCounts ==
  ASSUME Inv, NEW o \in Operators, NEW row \in CallRow, operator' = [operator EXCEPT ![o] = row]
  PROVE  /\ operator' \in [Operators -> CallRow]
         /\ \A q \in Operators : operator'[q] = IF q = o THEN row ELSE operator[q]
         /\ Cardinality(WritingOff) \in Nat /\ Cardinality(WritingOff') \in Nat
         /\ Cardinality(Granted) \in Nat /\ Cardinality(TakenBack) \in Nat
         /\ Cardinality(Granted)' \in Nat /\ Cardinality(TakenBack)' \in Nat
         /\ Cardinality(WritingOff') <= Cardinality(WritingOff) + 1
         /\ row.at # "writeOff" => Cardinality(WritingOff') <= Cardinality(WritingOff)
         /\ row.at # "writeOff" /\ operator[o].at = "writeOff" =>
              Cardinality(WritingOff') = Cardinality(WritingOff) - 1
<1>1. /\ operator' \in [Operators -> CallRow]
      /\ \A q \in Operators : operator'[q] = IF q = o THEN row ELSE operator[q]
  BY DEF Inv, TypeOK, CallRow
<1>2. WritingOff' = IF row.at = "writeOff" THEN WritingOff \cup {o} ELSE WritingOff \ {o}
  BY <1>1 DEF WritingOff
<1>3. IsFiniteSet(WritingOff) /\ Cardinality(WritingOff) \in Nat
  <2>1. WritingOff \subseteq Operators
    BY DEF WritingOff
  <2> QED
    BY <2>1, OperatorCounts
<1>4. /\ Cardinality(Granted) \in Nat /\ Cardinality(TakenBack) \in Nat
      /\ Cardinality(Granted)' \in Nat /\ Cardinality(TakenBack)' \in Nat
  <2>1. Granted \subseteq Lots /\ TakenBack \subseteq Lots /\ Granted' \subseteq Lots /\ TakenBack' \subseteq Lots
    BY DEF Granted, TakenBack
  <2> QED
    BY <2>1, LotCounts
<1>5. /\ Cardinality(WritingOff \cup {o}) \in Nat
      /\ Cardinality(WritingOff \cup {o}) <= Cardinality(WritingOff) + 1
  BY <1>3, OneIsAdded
<1>6. /\ Cardinality(WritingOff \ {o}) = IF o \in WritingOff THEN Cardinality(WritingOff) - 1 ELSE Cardinality(WritingOff)
      /\ Cardinality(WritingOff \ {o}) \in Nat
  <2>1. IsFiniteSet(WritingOff \ {o})
    BY <1>3, FS_RemoveElement
  <2> QED
    BY <1>3, <2>1, FS_RemoveElement, FS_CardinalityType
<1>7. operator[o].at = "writeOff" <=> o \in WritingOff
  BY DEF WritingOff
<1>8. CASE row.at = "writeOff"
  BY <1>1, <1>2, <1>3, <1>4, <1>5, <1>8
<1>9. CASE row.at # "writeOff"
  BY <1>1, <1>2, <1>3, <1>4, <1>6, <1>7, <1>9
<1> QED
  BY <1>8, <1>9

InOrder(row) ==
  /\ row.at \in {"reject", "grant", "approve"} => row.on \in Requests
  /\ row.at = "approve" => LotsOf(row.on) # {}
  /\ row.at \in {"revoke", "writeOff"} => row.on \in Lots /\ "granted" \in lot[row.on]
  /\ row.at = "revoke" /\ row.on.of \in Purchases => row.live
  /\ row.at = "writeOff" => row.on.of \in Requests
  /\ \A l \in row.due : l \in Lots /\ "granted" \in lot[l] /\ l.of \in Requests

\* An operator goes on, and no grant changes.
LEMMA CallGoes ==
  ASSUME Inv, NEW o \in Operators, NEW row \in CallRow, operator' = [operator EXCEPT ![o] = row],
         UNCHANGED <<purchase, page, lot, lapsed, inbox, owed, handler, failed>>,
         deaths' \in 0..MaxDeaths, InOrder(row),
         request' \in [Requests -> RequestStates],
         \A r \in Requests : request'[r] = "Approved" => request[r] = "Approved" \/ LotsOf(r) # {},
         \/ allowance' = allowance /\ row.at # "writeOff"
         \/ allowance' = allowance - 1 /\ allowance > 0
  PROVE  Inv'
<1>1. \A x : LotsOf(x)' = LotsOf(x) /\ NumberOf(x)' = NumberOf(x)
  BY DEF LotsOf, NumberOf
<1>2. /\ operator' \in [Operators -> CallRow]
      /\ \A q \in Operators : operator'[q] = IF q = o THEN row ELSE operator[q]
  BY CallCounts
<1>3. allowance \in Nat /\ allowance' \in Nat /\ Base \in Nat
  BY CreditsAssumption DEF Inv, TypeOK
<1>4. TypeOK'
  BY <1>2, <1>3 DEF Inv, TypeOK, CallRow
<1>5. CallsInOrder'
  BY <1>1, <1>2 DEF Inv, OperatorInv, CallsInOrder, InOrder
<1>6. ApprovedIsFunded'
  BY <1>1 DEF Inv, OperatorInv, ApprovedIsFunded
<1>7. LotsInOrder'
  BY <1>1 DEF Inv, OperatorInv, LotsInOrder
<1>8. Balanced'
  <2>1. Granted' = Granted /\ TakenBack' = TakenBack
    BY DEF Granted, TakenBack
  <2>2. /\ Cardinality(WritingOff) \in Nat /\ Cardinality(WritingOff') \in Nat
        /\ Cardinality(Granted) \in Nat /\ Cardinality(TakenBack) \in Nat
        /\ Cardinality(WritingOff') <= Cardinality(WritingOff) + 1
        /\ (row.at # "writeOff" => Cardinality(WritingOff') <= Cardinality(WritingOff))
    BY CallCounts
  <2>3. allowance + Cardinality(WritingOff) <= Base + Cardinality(Granted) - Cardinality(TakenBack)
    BY DEF Inv, OperatorInv, Balanced
  <2>4. allowance' + Cardinality(WritingOff') <= Base + Cardinality(Granted) - Cardinality(TakenBack)
    <3>1. CASE allowance' = allowance /\ row.at # "writeOff"
      BY ONLY <1>3, <2>2, <2>3, <3>1
    <3>2. CASE allowance' = allowance - 1
      BY ONLY <1>3, <2>2, <2>3, <3>2
    <3> QED
      BY <3>1, <3>2
  <2> QED
    BY <2>1, <2>4 DEF Balanced
<1>9. WebhookInv'
  BY <1>1, WebhookFrame DEF Inv
<1> QED
  BY <1>4, <1>5, <1>6, <1>7, <1>8, <1>9 DEF Inv, OperatorInv

LEMMA RestingCall ==
  AtRest \in CallRow /\ AtRest.at = "idle" /\ AtRest.due = {} /\ InOrder(AtRest)
BY DEF AtRest, CallRow, InOrder

LEMMA CallOf ==
  ASSUME Inv, NEW o \in Operators
  PROVE  operator[o] \in CallRow /\ InOrder(operator[o])
BY DEF Inv, TypeOK, CallRow, OperatorInv, CallsInOrder, InOrder

LEMMA OperatorCallsInv ==
  ASSUME Inv, NEW o \in Operators,
         \/ \E r \in Requests : ReadRequest(o, r)
         \/ RejectRequest(o) \/ ApproveRequest(o) \/ GiveUp(o) \/ OperatorDies(o)
  PROVE  Inv'
<1>1. ASSUME NEW r \in Requests, ReadRequest(o, r) PROVE Inv'
  <2>1. PICK step \in {"reject", "grant"} :
          operator' = [operator EXCEPT ![o] = [AtRest EXCEPT !.at = step, !.on = r]]
    BY <1>1 DEF ReadRequest
  <2> DEFINE row == [AtRest EXCEPT !.at = step, !.on = r]
  <2>2. row \in CallRow /\ row.at = step /\ row.on = r /\ row.due = {}
    BY DEF AtRest, CallRow
  <2>3. UNCHANGED <<purchase, page, request, lot, allowance, lapsed, inbox, owed, handler, failed, deaths>>
    BY <1>1 DEF ReadRequest, webhookVars
  <2>4. operator' = [operator EXCEPT ![o] = row]
    BY <2>1
  <2> HIDE DEF row
  <2>5. InOrder(row) /\ row.at # "writeOff"
    BY <2>2 DEF InOrder
  <2> QED
    BY <2>2, <2>3, <2>4, <2>5, CallGoes DEF Inv, TypeOK
<1>2. CASE RejectRequest(o) \/ ApproveRequest(o)
  <2>1. /\ operator' = [operator EXCEPT ![o] = AtRest] /\ operator[o].at \in {"reject", "approve"}
        /\ UNCHANGED <<purchase, page, lot, allowance, lapsed, inbox, owed, handler, failed, deaths>>
    BY <1>2 DEF RejectRequest, ApproveRequest, Approves, Rest, webhookVars
  <2>2. operator[o].on \in Requests /\ (operator[o].at = "approve" => LotsOf(operator[o].on) # {})
    BY <2>1, CallOf DEF InOrder
  <2>3. PICK state \in {"Rejected", "Approved"} :
          /\ request' = [request EXCEPT ![operator[o].on] = state]
          /\ state = "Approved" => operator[o].at = "approve"
    BY <1>2 DEF RejectRequest, ApproveRequest, Approves, WriteRequest
  <2>4. /\ request' \in [Requests -> RequestStates]
        /\ \A r \in Requests : request'[r] = "Approved" => request[r] = "Approved" \/ LotsOf(r) # {}
    BY <2>2, <2>3 DEF Inv, TypeOK, RequestStates
  <2> QED
    BY <2>1, <2>4, RestingCall, CallGoes DEF Inv, TypeOK
<1>3. CASE GiveUp(o) \/ OperatorDies(o)
  <2>1. /\ operator' = [operator EXCEPT ![o] = AtRest]
        /\ UNCHANGED <<purchase, page, request, lot, allowance, lapsed, inbox, owed, handler, failed>>
    BY <1>3 DEF GiveUp, OperatorDies, Rest, webhookVars
  <2>2. deaths' \in 0..MaxDeaths
    BY <1>3, CreditsAssumption DEF GiveUp, OperatorDies, webhookVars, Inv, TypeOK
  <2> QED
    BY <2>1, <2>2, RestingCall, CallGoes DEF Inv, TypeOK
<1> QED
  BY <1>1, <1>2, <1>3

LEMMA RequestInv ==
  ASSUME Inv, \/ \E r \in Requests : RequestCredits(r) \/ CancelRequest(r)
              \/ Lapse
  PROVE  Inv'
<1>1. UNCHANGED <<purchase, page, lot, allowance, operator, webhookVars>>
  BY DEF RequestCredits, CancelRequest, Lapse
<1>2. /\ request' \in [Requests -> RequestStates] /\ lapsed' \in BOOLEAN
      /\ \A r \in Requests : request'[r] = "Approved" => request[r] = "Approved"
  BY ZenonT(60) DEF Inv, TypeOK, RequestStates, RequestCredits, CancelRequest, WriteRequest, Lapse
<1>3. TypeOK'
  BY <1>1, <1>2 DEF Inv, TypeOK, webhookVars
<1>4. \A x : LotsOf(x)' = LotsOf(x) /\ NumberOf(x)' = NumberOf(x)
  BY <1>1 DEF LotsOf, NumberOf
<1>5. CallsInOrder' /\ LotsInOrder'
  BY <1>1, <1>4 DEF Inv, OperatorInv, CallsInOrder, LotsInOrder
<1>6. ApprovedIsFunded'
  BY <1>2, <1>4 DEF Inv, OperatorInv, ApprovedIsFunded
<1>7. Balanced'
  BY <1>1 DEF Inv, OperatorInv, Balanced, Granted, TakenBack, WritingOff
<1> QED
  BY <1>1, <1>3, <1>4, <1>5, <1>6, <1>7, WebhookFrame DEF Inv, OperatorInv, webhookVars

LEMMA ReadsInv ==
  ASSUME Inv, NEW o \in Operators,
         ReadDue(o) \/ \E l \in Lots : ReadGrant(o, l) \/ Expire(o, l)
  PROVE  Inv'
<1>1. CASE ReadDue(o)
  <2> DEFINE due == {l \in Lots : Lapses(l)}
             row == [AtRest EXCEPT !.at = "expire", !.due = due]
  <2>1. row \in CallRow /\ row.at = "expire" /\ row.due = due
    BY DEF AtRest, CallRow
  <2>2. /\ operator' = [operator EXCEPT ![o] = row]
        /\ UNCHANGED <<purchase, page, request, lot, allowance, lapsed, inbox, owed, handler, failed, deaths>>
    BY <1>1 DEF ReadDue, webhookVars
  <2>3. \A l \in due : l \in Lots /\ "granted" \in lot[l] /\ l.of \in Requests
    BY DEF Lapses, Expired
  <2> HIDE DEF row, due
  <2>4. InOrder(row)
    BY <2>1, <2>3 DEF InOrder
  <2> QED
    BY <2>1, <2>2, <2>4, CallGoes DEF Inv, TypeOK
<1>2. ASSUME NEW l \in Lots, ReadGrant(o, l) PROVE Inv'
  <2> DEFINE live == IsLive(l)
             row == [AtRest EXCEPT !.at = "revoke", !.on = l, !.live = live]
  <2>1. live \in BOOLEAN /\ (l.of \in Purchases => live) /\ "granted" \in lot[l]
    <3>1. live \in BOOLEAN
      BY DEF IsLive
    <3>2. l.of \in Purchases => live
      BY CreditsAssumption DEF IsLive, Expired, Inv, OperatorInv, LotsInOrder
    <3> QED
      BY <1>2, <3>1, <3>2 DEF ReadGrant
  <2>2. /\ operator' = [operator EXCEPT ![o] = row]
        /\ UNCHANGED <<purchase, page, request, lot, allowance, lapsed, inbox, owed, handler, failed, deaths>>
    BY <1>2 DEF ReadGrant, webhookVars
  <2> HIDE DEF live
  <2>3. row \in CallRow /\ row.at = "revoke" /\ row.on = l /\ row.due = {} /\ row.live = live
    BY <2>1 DEF AtRest, CallRow
  <2> HIDE DEF row
  <2>4. InOrder(row)
    BY <2>1, <2>3 DEF InOrder
  <2> QED
    BY <2>2, <2>3, <2>4, CallGoes DEF Inv, TypeOK
<1>3. ASSUME NEW l \in Lots, Expire(o, l) PROVE Inv'
  <2> DEFINE row == [operator[o] EXCEPT !.at = "writeOff", !.on = l]
  <2>1. /\ operator[o] \in CallRow /\ "granted" \in lot[l] /\ l.of \in Requests
        /\ \A j \in operator[o].due : j \in Lots /\ "granted" \in lot[j] /\ j.of \in Requests
    BY <1>3, CallOf DEF Expire, InOrder
  <2>2. row \in CallRow /\ row.at = "writeOff" /\ row.on = l /\ row.due = operator[o].due
    BY <2>1 DEF CallRow
  <2>3. /\ operator' = [operator EXCEPT ![o] = row]
        /\ allowance' = allowance - 1 /\ allowance > 0
        /\ UNCHANGED <<purchase, page, request, lot, lapsed, inbox, owed, handler, failed, deaths>>
    BY <1>3 DEF Expire, MayShrink, webhookVars
  <2> HIDE DEF row
  <2>4. InOrder(row)
    BY <2>1, <2>2 DEF InOrder
  <2> QED
    BY <2>2, <2>3, <2>4, CallGoes DEF Inv, TypeOK
<1> QED
  BY <1>1, <1>2, <1>3

LEMMA SumsGrow ==
  ASSUME NEW a \in Nat, NEW b \in Nat, NEW c \in Nat, NEW d \in Nat, a <= b, c <= d
  PROVE  a + c <= b + d
OBVIOUS

\* A grant is withdrawn, or written off when its credit has left the allowance.
LEMMA MarkInv == ASSUME Inv, NEW o \in Operators, Revoke(o) \/ WriteOff(o) PROVE Inv'
<1> DEFINE l == operator[o].on
           m == IF operator[o].at = "revoke" THEN "revoked" ELSE "writtenOff"
           rest == operator[o].due \ {operator[o].on}
           row == IF Revoke(o) \/ rest = {} THEN AtRest ELSE [AtRest EXCEPT !.at = "expire", !.due = rest]
<1>1. /\ operator[o] \in CallRow /\ operator[o].at \in {"revoke", "writeOff"}
      /\ l \in Lots /\ "granted" \in lot[l] /\ operator[o].due \subseteq Lots
      /\ (operator[o].at = "revoke" /\ l.of \in Purchases => operator[o].live)
      /\ (operator[o].at = "writeOff" => l.of \in Requests)
      /\ \A j \in operator[o].due : j \in Lots /\ "granted" \in lot[j] /\ j.of \in Requests
  BY CallOf DEF Revoke, WriteOff, InOrder, CallRow
<1>2. /\ row \in CallRow /\ row.at \notin {"reject", "grant", "approve", "revoke", "writeOff"}
      /\ row.due \subseteq operator[o].due
  BY <1>1 DEF AtRest, CallRow
<1>3. /\ operator' = [operator EXCEPT ![o] = row] /\ lot' = [lot EXCEPT ![l] = @ \cup {m}]
      /\ UNCHANGED <<purchase, page, request, lapsed, inbox, owed, handler, failed, deaths>>
  BY <1>1 DEF Revoke, WriteOff, Rest, webhookVars
<1>4. /\ operator[o].at = "revoke" /\ operator[o].live => allowance' = allowance - 1 /\ allowance > 0
      /\ operator[o].at = "revoke" /\ ~operator[o].live => allowance' = allowance
      /\ operator[o].at = "writeOff" => allowance' = allowance
  <2>1. allowance \in Nat
    BY DEF Inv, TypeOK
  <2>2. CASE Revoke(o)
    BY <2>1, <2>2 DEF Revoke, MayShrink
  <2>3. CASE WriteOff(o)
    BY <2>3 DEF WriteOff
  <2> QED
    BY <2>2, <2>3
<1>5. m \in {"revoked", "writtenOff"} /\ (m = "writtenOff" => l.of \in Requests)
  BY <1>1
<1> HIDE DEF row, l
<1>6. /\ lot' \in [Lots -> SUBSET {"granted", "revoked", "writtenOff"}]
      /\ \A x : LotsOf(x)' = LotsOf(x) /\ NumberOf(x)' = NumberOf(x)
      /\ \A j \in Lots : "granted" \in lot[j] => "granted" \in lot'[j]
      /\ LotsInOrder' /\ Granted' = Granted
      /\ Cardinality(TakenBack') <= Cardinality(TakenBack) + 1
      /\ m = "revoked" /\ l.of \in Requests => TakenBack' = TakenBack
  BY <1>1, <1>3, <1>5, MarkCounts
<1>7. /\ operator' \in [Operators -> CallRow]
      /\ \A q \in Operators : operator'[q] = IF q = o THEN row ELSE operator[q]
  BY <1>2, <1>3, CallCounts
<1>8. allowance \in Nat /\ allowance' \in Nat /\ Base \in Nat
  BY <1>1, <1>4, CreditsAssumption DEF Inv, TypeOK
<1>9. TypeOK'
  BY <1>3, <1>6, <1>7, <1>8 DEF Inv, TypeOK, CallRow
<1>10. CallsInOrder'
  <2> SUFFICES ASSUME NEW q \in Operators
               PROVE  LET call == operator'[q] IN
                      /\ call.at \in {"reject", "grant", "approve"} => call.on \in Requests
                      /\ call.at = "approve" => LotsOf(call.on) # {}
                      /\ call.at \in {"revoke", "writeOff"} => call.on \in Lots /\ "granted" \in lot'[call.on]
                      /\ call.at = "revoke" /\ call.on.of \in Purchases => call.live
                      /\ call.at = "writeOff" => call.on.of \in Requests
                      /\ \A j \in call.due : j \in Lots /\ "granted" \in lot'[j] /\ j.of \in Requests
    BY <1>6 DEF CallsInOrder
  <2>1. CASE q = o
    BY <1>1, <1>2, <1>6, <1>7, <2>1
  <2>2. CASE q # o
    <3>1. operator'[q] = operator[q]
      BY <1>7, <2>2
    <3> QED
      BY <1>6, <3>1 DEF Inv, OperatorInv, CallsInOrder
  <2> QED
    BY <2>1, <2>2
<1>11. ApprovedIsFunded'
  BY <1>3, <1>6 DEF Inv, OperatorInv, ApprovedIsFunded
<1>12. Balanced'
  <2> DEFINE W == Cardinality(WritingOff)
             G == Cardinality(Granted)
             T == Cardinality(TakenBack)
  <2>1. /\ W \in Nat /\ W' \in Nat /\ G \in Nat /\ T \in Nat /\ T' \in Nat /\ G' = G
        /\ W' <= W /\ (operator[o].at = "writeOff" => W' = W - 1)
    BY <1>2, <1>3, <1>6, CallCounts
  <2>2. allowance + W <= Base + G - T
    BY DEF Inv, OperatorInv, Balanced
  <2>3. T' <= T + 1 /\ (m = "revoked" /\ l.of \in Requests => T' = T)
    BY <1>6
  <2>4. l.of \in Purchases \cup Requests
    BY <1>1 DEF Lots, l
  <2> HIDE DEF W, G, T
  <2>5. CASE operator[o].at = "writeOff"
    <3>1. allowance' + W' <= Base + G - T'
      BY <1>4, <1>8, <2>1, <2>2, <2>3, <2>5
    <3> QED
      BY <2>1, <3>1 DEF Balanced, W, G, T
  <2>6. CASE operator[o].at = "revoke" /\ l.of \in Purchases
    <3>1. allowance' = allowance - 1
      BY <1>1, <1>4, <2>6 DEF l
    <3>2. allowance' + W' <= Base + G - T'
      BY <1>8, <2>1, <2>2, <2>3, <3>1
    <3> QED
      BY <2>1, <3>2 DEF Balanced, W, G, T
  <2>7. CASE operator[o].at = "revoke" /\ l.of \in Requests
    <3>1. allowance' <= allowance /\ T' = T
      <4>1. allowance' = allowance \/ allowance' = allowance - 1
        BY <1>4, <2>7
      <4> QED
        BY <1>8, <2>3, <2>7, <4>1
    <3>2. /\ allowance \in Nat /\ allowance' \in Nat /\ W \in Nat /\ W' \in Nat /\ W' <= W
          /\ Base \in Nat /\ G \in Nat /\ T \in Nat
      BY <1>8, <2>1
    <3>5. allowance' <= allowance
      BY <3>1
    <3>6. allowance' + W' <= allowance + W
      BY <3>2, <3>5, SumsGrow
    <3>7. Base + G - T \in Int /\ allowance' + W' \in Int /\ allowance + W \in Int
      BY ONLY <3>2
    <3>3. allowance' + W' <= Base + G - T
      BY ONLY <2>2, <3>6, <3>7
    <3>4. allowance' + W' <= Base + G - T'
      BY <3>1, <3>3
    <3> QED
      BY <2>1, <3>4 DEF Balanced, W, G, T
  <2> QED
    BY <1>1, <2>4, <2>5, <2>6, <2>7
<1>13. WebhookInv'
  BY <1>3, <1>6, WebhookFrame DEF Inv
<1> QED
  BY <1>6, <1>9, <1>10, <1>11, <1>12, <1>13 DEF Inv, OperatorInv

LEMMA GrantRequestInv == ASSUME Inv, NEW o \in Operators, GrantRequest(o) PROVE Inv'
<1>0. PICK x : x = operator[o].on
  OBVIOUS
<1> DEFINE row == [operator[o] EXCEPT !.at = "approve"]
           After(y) == {l \in Lots : l.of = y /\ "granted" \in lot'[l]}
<1>1. operator[o] \in CallRow /\ x \in Requests /\ operator[o].at = "grant" /\ x \notin Purchases
      /\ \A j \in operator[o].due : j \in Lots /\ "granted" \in lot[j] /\ j.of \in Requests
  BY <1>0, CallOf, CreditsAssumption DEF GrantRequest, InOrder
<1>2. row \in CallRow /\ row.at = "approve" /\ row.on = x /\ row.due = operator[o].due
  BY <1>0, <1>1 DEF CallRow
<1>3. /\ operator' = [operator EXCEPT ![o] = row] /\ Grant(x)
      /\ UNCHANGED <<purchase, page, request, lapsed, inbox, owed, handler, failed, deaths>>
  BY <1>0 DEF GrantRequest, Now, webhookVars
<1> HIDE DEF row
<1>4. /\ lot' \in [Lots -> SUBSET {"granted", "revoked", "writtenOff"}]
      /\ LotsOf(x)' # {} /\ LotsInOrder'
      /\ \A y \in (Purchases \cup Requests) \ {x} : LotsOf(y)' = LotsOf(y)
      /\ \A j \in Lots : "granted" \in lot[j] => lot'[j] = lot[j]
      /\ Cardinality(Granted') = Cardinality(Granted) + 1 /\ TakenBack' = TakenBack
  BY <1>1, <1>3, GrantCounts
<1>12. \A y : LotsOf(y)' = After(y)
  BY DEF LotsOf
<1>5. /\ operator' \in [Operators -> CallRow]
      /\ \A q \in Operators : operator'[q] = IF q = o THEN row ELSE operator[q]
  BY <1>2, <1>3, CallCounts
<1>6. allowance \in Nat /\ allowance' = allowance + 1 /\ Base \in Nat
  BY <1>3, CreditsAssumption DEF Grant, Inv, TypeOK
<1>7. TypeOK'
  BY <1>3, <1>4, <1>5, <1>6 DEF Inv, TypeOK, CallRow
<1>8. CallsInOrder'
  <2> SUFFICES ASSUME NEW q \in Operators
               PROVE  LET call == operator'[q] IN
                      /\ call.at \in {"reject", "grant", "approve"} => call.on \in Requests
                      /\ call.at = "approve" => After(call.on) # {}
                      /\ call.at \in {"revoke", "writeOff"} => call.on \in Lots /\ "granted" \in lot'[call.on]
                      /\ call.at = "revoke" /\ call.on.of \in Purchases => call.live
                      /\ call.at = "writeOff" => call.on.of \in Requests
                      /\ \A j \in call.due : j \in Lots /\ "granted" \in lot'[j] /\ j.of \in Requests
    BY DEF CallsInOrder, LotsOf
  <2> HIDE DEF After
  <2>1. CASE q = o
    BY <1>1, <1>2, <1>4, <1>5, <1>12, <2>1
  <2>2. CASE q # o
    <3>1. operator'[q] = operator[q]
      BY <1>5, <2>2
    <3>2. \A y \in Requests : LotsOf(y) # {} => After(y) # {}
      BY <1>4, <1>12
    <3> QED
      BY <1>4, <3>1, <3>2 DEF Inv, OperatorInv, CallsInOrder
  <2> QED
    BY <2>1, <2>2
<1>9. ApprovedIsFunded'
  BY <1>3, <1>4 DEF Inv, OperatorInv, ApprovedIsFunded
<1>10. Balanced'
  <2>1. /\ Cardinality(WritingOff) \in Nat /\ Cardinality(WritingOff') \in Nat
        /\ Cardinality(Granted) \in Nat /\ Cardinality(TakenBack) \in Nat
        /\ Cardinality(WritingOff') <= Cardinality(WritingOff)
    BY <1>2, <1>3, CallCounts
  <2>2. allowance + Cardinality(WritingOff) <= Base + Cardinality(Granted) - Cardinality(TakenBack)
    BY DEF Inv, OperatorInv, Balanced
  <2>3. allowance' + Cardinality(WritingOff') <= Base + Cardinality(Granted') - Cardinality(TakenBack)
    BY <1>4, <1>6, <2>1, <2>2
  <2> QED
    BY <1>4, <2>3 DEF Balanced
<1>11. WebhookInv'
  BY <1>1, <1>3, <1>4, WebhookFrame DEF Inv
<1> QED
  BY <1>4, <1>7, <1>8, <1>9, <1>10, <1>11 DEF Inv, OperatorInv

LEMMA GrantTopUpInv == ASSUME Inv, NEW h \in Handlers, GrantTopUp(h) PROVE Inv'
<1>0. PICK e : e = handler[h].event
  OBVIOUS
<1> DEFINE row == [handler[h] EXCEPT !.at = "pay"]
           After(y) == {l \in Lots : l.of = y /\ "granted" \in lot'[l]}
<1>1. handler[h] \in HandlerRow /\ e \in Purchases /\ Busy(h) /\ handler[h].at = "grant"
  BY <1>0, RowOf DEF GrantTopUp, At, Busy
<1>2. row \in HandlerRow /\ row.event = e /\ row.at = "pay"
  BY <1>0, <1>1 DEF HandlerRow, Steps
<1>3. /\ handler' = [handler EXCEPT ![h] = row] /\ Grant(e)
      /\ UNCHANGED <<purchase, page, request, lapsed, operator, inbox, owed, failed, deaths>>
  BY <1>0 DEF GrantTopUp, GoTo
<1> HIDE DEF row
<1>4. /\ lot' \in [Lots -> SUBSET {"granted", "revoked", "writtenOff"}]
      /\ LotsOf(e)' # {} /\ NumberOf(e)' = NumberOf(e) + 1 /\ LotsInOrder'
      /\ \A y \in (Purchases \cup Requests) \ {e} : LotsOf(y)' = LotsOf(y)
      /\ \A j \in Lots : "granted" \in lot[j] => lot'[j] = lot[j]
      /\ Cardinality(Granted') = Cardinality(Granted) + 1 /\ TakenBack' = TakenBack
  BY <1>1, <1>3, GrantCounts
<1>15. \A y : LotsOf(y)' = After(y)
  BY DEF LotsOf
<1>5. /\ \A g \in Handlers : handler'[g] = IF g = h THEN row ELSE handler[g]
      /\ handler' \in [Handlers -> HandlerRow]
  BY <1>2, <1>3 DEF Inv, TypeOK, HandlerRow
<1>6. allowance \in Nat /\ allowance' = allowance + 1 /\ Base \in Nat
  BY <1>3, CreditsAssumption DEF Grant, Inv, TypeOK
<1>7. TypeOK'
  BY <1>3, <1>4, <1>5, <1>6 DEF Inv, TypeOK, HandlerRow
<1>8. /\ page[e] = "paid" /\ ~purchase[e].grant /\ MayYetBeGranted(e) /\ inbox[e] = "open"
      /\ \A g \in Handlers : g # h /\ Busy(g) => handler[g].event # e
  BY <1>0, <1>1 DEF Inv, WebhookInv, CreditSteps, AtWork, MayYetBeGranted
<1>9. AtWork'
  BY <1>0, <1>1, <1>2, <1>3, <1>5 DEF Inv, WebhookInv, AtWork, Busy
<1>10. CreditSteps'
  <2> SUFFICES ASSUME NEW g \in Handlers
               PROVE  LET p == handler'[g].event IN
                      /\ handler'[g].at = "grant" => page[p] = "paid" /\ ~purchase[p].grant
                      /\ handler'[g].at = "pay" => page[p] = "paid" /\ After(p) # {}
                      /\ handler'[g].at = "applied" => purchase[p].grant
    BY <1>3 DEF CreditSteps, LotsOf
  <2> HIDE DEF After
  <2>1. CASE g = h
    BY <1>2, <1>4, <1>5, <1>8, <1>15, <2>1
  <2>2. CASE g # h /\ handler[g].at \in {"grant", "pay", "applied"}
    <3>1. handler'[g] = handler[g] /\ handler[g].event \in Purchases \ {e}
      BY <1>0, <1>5, <1>8, <2>2 DEF Busy, Inv, WebhookInv, AtWork
    <3> QED
      BY <1>4, <1>15, <2>2, <3>1 DEF Inv, WebhookInv, CreditSteps
  <2> QED
    BY <1>5, <2>1, <2>2
<1>11. NothingIsCreditedUnpaid' /\ CreditedIsNotAbandoned'
  BY <1>1, <1>3, <1>4, <1>8 DEF Inv, WebhookInv, NothingIsCreditedUnpaid, CreditedIsNotAbandoned
<1>12. Counted'
  <2> SUFFICES ASSUME NEW p \in Purchases
               PROVE  /\ NumberOf(p)' <= 1 + PayFailures(p)
                      /\ MayYetBeGranted(p)' => NumberOf(p)' <= PayFailures(p)
    BY <1>3 DEF Counted, PayFailures
  <2>1. /\ NumberOf(p) <= 1 + PayFailures(p) /\ NumberOf(p) \in Nat /\ PayFailures(p) \in Nat
        /\ MayYetBeGranted(p) => NumberOf(p) <= PayFailures(p)
    BY NumberIsNat, FailureCounts DEF Inv, TypeOK, WebhookInv, Counted, PayFailures
  <2>2. CASE p = e
    <3>1. ~MayYetBeGranted(p)'
      <4>1. \A g \in Handlers : g # h => handler'[g].event # e \/ ~Busy(g)'
        BY <1>5, <1>8 DEF Busy
      <4> QED
        BY <1>2, <1>3, <1>5, <1>8, <2>2, <4>1 DEF MayYetBeGranted, Busy
    <3>2. NumberOf(p)' = NumberOf(p) + 1 /\ MayYetBeGranted(p)
      BY <1>4, <1>8, <2>2
    <3> QED
      BY <2>1, <3>1, <3>2
  <2>3. CASE p # e
    <3>1. NumberOf(p)' = NumberOf(p)
      BY <1>4, <2>3 DEF NumberOf
    <3>2. MayYetBeGranted(p)' => MayYetBeGranted(p)
      BY <1>0, <1>2, <1>3, <1>5, <2>3 DEF MayYetBeGranted
    <3> QED
      BY <2>1, <3>1, <3>2
  <2> QED
    BY <2>2, <2>3
<1>13. CallsInOrder' /\ ApprovedIsFunded'
  <2>1. \A r \in Requests : LotsOf(r)' = LotsOf(r)
    BY <1>1, <1>4, CreditsAssumption
  <2>2. ApprovedIsFunded'
    BY <1>3, <2>1 DEF Inv, OperatorInv, ApprovedIsFunded
  <2> QED
    BY <1>3, <1>4, <2>1, <2>2 DEF Inv, OperatorInv, CallsInOrder
<1>14. Balanced'
  <2>1. WritingOff' = WritingOff /\ Cardinality(WritingOff) \in Nat
        /\ Cardinality(Granted) \in Nat /\ Cardinality(TakenBack) \in Nat
    <3>1. WritingOff \subseteq Operators /\ Granted \subseteq Lots /\ TakenBack \subseteq Lots
      BY DEF WritingOff, Granted, TakenBack
    <3> QED
      BY <1>3, <3>1, OperatorCounts, LotCounts DEF WritingOff
  <2>2. allowance + Cardinality(WritingOff) <= Base + Cardinality(Granted) - Cardinality(TakenBack)
    BY DEF Inv, OperatorInv, Balanced
  <2>3. allowance' + Cardinality(WritingOff) <= Base + Cardinality(Granted') - Cardinality(TakenBack)
    BY <1>4, <1>6, <2>1, <2>2
  <2> QED
    BY <1>4, <2>1, <2>3 DEF Balanced
<1> QED
  BY <1>4, <1>7, <1>9, <1>10, <1>11, <1>12, <1>13, <1>14 DEF Inv, WebhookInv, OperatorInv

-----------------------------------------------------------------------------
LEMMA StepInv == ASSUME Inv, "pay" \in Watched, [Next]_vars PROVE Inv'
<1>1. ASSUME NEW h \in Handlers, HandlerStep(h) \/ (WebhookFault(h) /\ UNCHANGED moneyVars) PROVE Inv'
  BY <1>1, WebhookStepInv, StepFailsInv, ReadPurchaseInv, GrantTopUpInv, MarkPaidInv
     DEF HandlerStep, WebhookFault
<1>2. ASSUME NEW o \in Operators, OperatorStep(o) PROVE Inv'
  BY <1>2, OperatorCallsInv, ReadsInv, MarkInv, GrantRequestInv DEF OperatorStep
<1>3. CASE UNCHANGED vars
  <2>1. TypeOK'
    BY <1>3 DEF vars, moneyVars, webhookVars, Inv, TypeOK
  <2>2. UNCHANGED <<purchase, page, inbox, handler, failed, request, lot, allowance, operator>>
    BY <1>3 DEF vars, moneyVars, webhookVars
  <2>3. \A p : LotsOf(p)' = LotsOf(p)
    BY <2>2 DEF LotsOf
  <2> QED
    BY <2>1, <2>2, <2>3, WebhookFrame, OperatorFrame DEF Inv
<1> QED
  BY <1>1, <1>2, <1>3, TopUpInv, RequestInv DEF Next

LEMMA InvAlways == ASSUME "pay" \in Watched PROVE Spec => []Inv
<1>1. Inv /\ [Next]_vars => Inv'
  BY StepInv
<1> QED
  BY <1>1, InitInv, PTL DEF Spec

\* The type invariant.
THEOREM TypeCorrect == ASSUME "pay" \in Watched PROVE Spec => []TypeOK
<1>1. Inv => TypeOK
  BY DEF Inv
<1> QED
  BY <1>1, InvAlways, PTL

\* A top-up is credited once, but for the attempts that failed between the grant and its record
\* on the purchase (markPaid), for any number of handlers, deliveries and deaths.
THEOREM TopUpsAreCreditedOnce == ASSUME "pay" \in Watched PROVE Spec => []CreditedOnce
<1>1. Inv => CreditedOnce
  BY DEF Inv, WebhookInv, Counted, CreditedOnce, NumberOf, PayFailures
<1> QED
  BY <1>1, InvAlways, PTL

\* No grant is made for a top-up that was not paid (onCheckoutCompleted).
THEOREM OnlyPaidIsCredited == ASSUME "pay" \in Watched PROVE Spec => []NothingIsCreditedUnpaid
<1>1. Inv => NothingIsCreditedUnpaid
  BY DEF Inv, WebhookInv
<1> QED
  BY <1>1, InvAlways, PTL

\* The sweep of unfinished purchases never takes one whose credit was recorded
\* (unfinished-sweep.runner.ts).
THEOREM CreditIsNeverSwept == ASSUME "pay" \in Watched PROVE Spec => []CreditedIsNotAbandoned
<1>1. Inv => CreditedIsNotAbandoned
  BY DEF Inv, WebhookInv
<1> QED
  BY <1>1, InvAlways, PTL

\* No request is approved without its credit, wherever an approval was cut short
\* (decideRequest).
THEOREM ApprovalsAreFunded == ASSUME "pay" \in Watched PROVE Spec => []ApprovedIsFunded
<1>1. Inv => ApprovedIsFunded
  BY DEF Inv, OperatorInv
<1> QED
  BY <1>1, InvAlways, PTL

\* What was withdrawn or written off has left the allowance, for any number of operators that
\* withdraw, expire and die (revokeGrant, expireGrants).
THEOREM NothingStaysTakenBack == ASSUME "pay" \in Watched PROVE Spec => []TakenBackIsTaken
<1>1. Inv => TakenBackIsTaken
  <2> SUFFICES ASSUME Inv
               PROVE  allowance <= Base + Cardinality(Granted) - Cardinality(TakenBack)
    BY DEF TakenBackIsTaken, Granted, TakenBack
  <2>1. WritingOff \subseteq Operators /\ Granted \subseteq Lots /\ TakenBack \subseteq Lots
    BY DEF WritingOff, Granted, TakenBack
  <2>2. /\ Cardinality(WritingOff) \in Nat /\ Cardinality(Granted) \in Nat
        /\ Cardinality(TakenBack) \in Nat /\ allowance \in Nat /\ Base \in Nat
    BY <2>1, OperatorCounts, LotCounts, CreditsAssumption DEF Inv, TypeOK
  <2>3. allowance + Cardinality(WritingOff) <= Base + Cardinality(Granted) - Cardinality(TakenBack)
    BY DEF Inv, OperatorInv, Balanced
  <2> QED
    BY <2>2, <2>3
<1> QED
  BY <1>1, InvAlways, PTL
=============================================================================
