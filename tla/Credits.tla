------------------------------- MODULE Credits -------------------------------
(***************************************************************************)
(* How a company's allowance grows and shrinks by credit grants: a top-up  *)
(* bought at the payment provider and credited by its webhook, a request   *)
(* the platform's Finance decides, and the withdrawal or the expiry of a   *)
(* grant. One company; every grant is of one unit.                         *)
(***************************************************************************)
EXTENDS Webhook, Integers, FiniteSets

CONSTANTS Quoted,       \* the purchases whose row the database accepts
          Requests,     \* rows of credit_requests
          Operators,    \* callers of the platform's credit routes
          Routes,       \* the routes each of them may call
          Base,         \* the allowance before any grant
          MaxGrants     \* grants one purchase or request may be given in the model

\* The checkout.session.completed of a top-up is named by its row of token_purchases.
Purchases == Events

ASSUME CreditsAssumption ==
  /\ Quoted \subseteq Purchases /\ NoEvent \notin Purchases \cup Requests
  /\ Purchases \cap Requests = {} /\ IsFiniteSet(Purchases \cup Requests \cup Operators)
  /\ Routes \in [Operators -> SUBSET {"decide", "revoke", "expire"}]
  /\ Base \in Nat /\ MaxGrants \in Nat \ {0} /\ MaxFailures \in Nat /\ MaxDeaths \in Nat

VARIABLES purchase,     \* status, and whether creditGrantId is set
          page,         \* the provider's checkout page of a purchase
          request,      \* the state of a credit request
          lot,          \* what has happened to each credit grant
          allowance,    \* allowance_minor of the company's wallet
          lapsed,       \* the expiry date of the grants that have one has come
          operator      \* where each operator's call is

moneyVars == <<purchase, page, request, lot, allowance, lapsed, operator>>
vars == <<moneyVars, webhookVars>>

Statuses == {"none", "Pending", "Paid", "Failed", "Abandoned"}
RequestStates == {"none", "Submitted", "Approved", "Rejected", "Cancelled"}
Lots == [of : Purchases \cup Requests, n : 1..MaxGrants]
LotsOf(x) == {l \in Lots : l.of = x /\ "granted" \in lot[l]}

AtRest == [at |-> "idle", on |-> NoEvent, live |-> FALSE, due |-> {}]

Init ==
  /\ purchase = [p \in Purchases |-> [status |-> "none", grant |-> FALSE]]
  /\ page = [p \in Purchases |-> "none"]
  /\ request = [r \in Requests |-> "none"]
  /\ lot = [l \in Lots |-> {}] /\ allowance = Base /\ lapsed = FALSE
  /\ operator = [o \in Operators |-> AtRest]
  /\ WebhookInit
-----------------------------------------------------------------------------
(* Grants.  One transaction, under the lock of the wallet. *)

\* adjustAllowance refuses to take the allowance below zero.
MayShrink == allowance > 0

\* A request has one grant, by a unique index; a purchase may have any number.
MayGrant(x) == Cardinality(LotsOf(x)) < IF x \in Requests THEN 1 ELSE MaxGrants

Grant(x) ==
  /\ MayGrant(x)
  /\ lot' = [lot EXCEPT ![[of |-> x, n |-> Cardinality(LotsOf(x)) + 1]] = {"granted"}]
  /\ allowance' = allowance + 1

\* Only the grant of a request carries an expiry here, by the policy's default.
Expired(l) == l.of \in Requests /\ lapsed
-----------------------------------------------------------------------------
(* A top-up. *)

\* start: the row, then the provider's page, in transactions of their own. The insert fails when
\* the quote does not satisfy token_purchase_quote_adds_up.
Start(p) ==
  /\ purchase[p].status = "none" /\ p \in Quoted
  /\ purchase' = [purchase EXCEPT ![p].status = "Pending"]
  /\ UNCHANGED <<page, request, lot, allowance, lapsed, operator, webhookVars>>

\* The provider opens a page, or returns none and the row is marked; the process may also die
\* before either.
OpenPage(p) ==
  /\ purchase[p].status = "Pending" /\ page[p] = "none"
  /\ \/ page' = [page EXCEPT ![p] = "open"] /\ UNCHANGED purchase
     \/ /\ page' = [page EXCEPT ![p] = "closed"]
        /\ purchase' = [purchase EXCEPT ![p].status = "Failed"]
  /\ UNCHANGED <<request, lot, allowance, lapsed, operator, webhookVars>>

\* The customer completes the page, with or without the money arriving at once.
Complete(p) ==
  /\ page[p] = "open"
  /\ \E outcome \in {"paid", "unpaid"} : page' = [page EXCEPT ![p] = outcome]
  /\ owed' = [owed EXCEPT ![p] = "yes"]
  /\ UNCHANGED <<purchase, request, lot, allowance, lapsed, operator, inbox, handler, failed, deaths>>

\* Mutant: judged on age and nothing else.
UnfinishedByAge(p) == purchase[p].status # "none"

Unfinished(p) == purchase[p].status = "Pending" /\ ~purchase[p].grant

\* The unfinished-signup sweep, a day after the purchase was started.
Sweep(p) ==
  /\ purchase[p].status # "Abandoned" /\ Unfinished(p)
  /\ purchase' = [purchase EXCEPT ![p].status = "Abandoned"]
  /\ UNCHANGED <<page, request, lot, allowance, lapsed, operator, webhookVars>>
-----------------------------------------------------------------------------
(* What the webhook does for a completed session: onCheckoutCompleted and markPaid. *)

At(h, step) == handler[h].at = step
GoTo(h, step) == handler' = [handler EXCEPT ![h].at = step]

\* Mutant: a redelivery is recognised by the status of the row.
TakesByStatus(p) == page[p] = "paid" /\ purchase[p].status = "Pending"

\* The session was paid and no credit has moved for the purchase.
ToBeCredited(p) == page[p] = "paid" /\ ~purchase[p].grant

ReadPurchase(h) ==
  /\ At(h, "apply")
  /\ GoTo(h, IF ToBeCredited(handler[h].event) THEN "grant" ELSE "ignored")
  /\ UNCHANGED <<moneyVars, inbox, owed, failed, deaths>>

GrantTopUp(h) ==
  /\ At(h, "grant") /\ Grant(handler[h].event) /\ GoTo(h, "pay")
  /\ UNCHANGED <<purchase, page, request, lapsed, operator, inbox, owed, failed, deaths>>

MarkPaid(h) ==
  /\ At(h, "pay") /\ GoTo(h, "applied")
  /\ purchase' = [purchase EXCEPT ![handler[h].event] = [status |-> "Paid", grant |-> TRUE]]
  /\ UNCHANGED <<page, request, lot, allowance, lapsed, operator, inbox, owed, failed, deaths>>
-----------------------------------------------------------------------------
(* A credit request, and Finance's decision on it: the read, the grant and  *)
(* the record are transactions of their own.                                *)

MayCall(o, route) == operator[o].at = "idle" /\ route \in Routes[o]
Rest(o) == operator' = [operator EXCEPT ![o] = AtRest]
Now(o, step) == operator' = [operator EXCEPT ![o].at = step]

\* requestCredits.
RequestCredits(r) ==
  /\ request[r] = "none"
  /\ request' = [request EXCEPT ![r] = "Submitted"]
  /\ UNCHANGED <<purchase, page, lot, allowance, lapsed, operator, webhookVars>>

\* Every update of a request is by id; the trigger refuses one that is decided.
WriteRequest(r, state) ==
  /\ request[r] = "Submitted"
  /\ request' = [request EXCEPT ![r] = state]

CancelRequest(r) ==
  /\ request[r] = "Submitted" /\ WriteRequest(r, "Cancelled")
  /\ UNCHANGED <<purchase, page, lot, allowance, lapsed, operator, webhookVars>>

ReadRequest(o, r) ==
  /\ MayCall(o, "decide") /\ request[r] = "Submitted"
  /\ \E step \in {"reject", "grant"} :
       operator' = [operator EXCEPT ![o] = [AtRest EXCEPT !.at = step, !.on = r]]
  /\ UNCHANGED <<purchase, page, request, lot, allowance, lapsed, webhookVars>>

RejectRequest(o) ==
  /\ operator[o].at = "reject" /\ WriteRequest(operator[o].on, "Rejected") /\ Rest(o)
  /\ UNCHANGED <<purchase, page, lot, allowance, lapsed, webhookVars>>

GrantRequest(o) ==
  /\ operator[o].at = "grant" /\ Grant(operator[o].on) /\ Now(o, "approve")
  /\ UNCHANGED <<purchase, page, request, lapsed, webhookVars>>

\* Mutant: the request is recorded before its grant.
ApprovesFirst(o) == operator[o].at \in {"grant", "approve"}

Approves(o) == operator[o].at = "approve"

ApproveRequest(o) ==
  /\ Approves(o) /\ WriteRequest(operator[o].on, "Approved") /\ Rest(o)
  /\ UNCHANGED <<purchase, page, lot, allowance, lapsed, webhookVars>>
-----------------------------------------------------------------------------
(* Withdrawal and expiry of a grant. *)

\* Mutant: a grant without an expiry date is taken for one that is over.
IsLiveDated(l) == l.of \in Requests /\ "writtenOff" \notin lot[l] /\ ~lapsed

IsLive(l) == "writtenOff" \notin lot[l] /\ ~Expired(l)

\* revokeGrant: whether the grant is live is decided on this read.
ReadGrant(o, l) ==
  /\ MayCall(o, "revoke") /\ "granted" \in lot[l] /\ "revoked" \notin lot[l]
  /\ operator' = [operator EXCEPT ![o] =
       [AtRest EXCEPT !.at = "revoke", !.on = l, !.live = IsLive(l)]]
  /\ UNCHANGED <<purchase, page, request, lot, allowance, lapsed, webhookVars>>

Revoke(o) ==
  /\ operator[o].at = "revoke"
  /\ operator[o].live => MayShrink
  /\ allowance' = allowance - (IF operator[o].live THEN 1 ELSE 0)
  /\ lot' = [lot EXCEPT ![operator[o].on] = @ \cup {"revoked"}]
  /\ Rest(o)
  /\ UNCHANGED <<purchase, page, request, lapsed, webhookVars>>

\* The date comes; nothing asks for it before there is a grant with one.
Lapse ==
  /\ ~lapsed /\ \E l \in Lots : l.of \in Requests /\ "granted" \in lot[l]
  /\ lapsed' = TRUE
  /\ UNCHANGED <<purchase, page, request, lot, allowance, operator, webhookVars>>

Lapses(l) == lot[l] = {"granted"} /\ Expired(l)

\* expireGrants: the grants due, read once.
ReadDue(o) ==
  /\ MayCall(o, "expire") /\ \E l \in Lots : Lapses(l)
  /\ operator' = [operator EXCEPT ![o] =
       [AtRest EXCEPT !.at = "expire", !.due = {l \in Lots : Lapses(l)}]]
  /\ UNCHANGED <<purchase, page, request, lot, allowance, lapsed, webhookVars>>

Expire(o, l) ==
  /\ operator[o].at = "expire" /\ l \in operator[o].due /\ MayShrink
  /\ allowance' = allowance - 1
  /\ operator' = [operator EXCEPT ![o].at = "writeOff", ![o].on = l]
  /\ UNCHANGED <<purchase, page, request, lot, lapsed, webhookVars>>

WriteOff(o) ==
  LET rest == operator[o].due \ {operator[o].on} IN
  /\ operator[o].at = "writeOff"
  /\ lot' = [lot EXCEPT ![operator[o].on] = @ \cup {"writtenOff"}]
  /\ operator' = [operator EXCEPT ![o] =
       IF rest = {} THEN AtRest ELSE [AtRest EXCEPT !.at = "expire", !.due = rest]]
  /\ UNCHANGED <<purchase, page, request, allowance, lapsed, webhookVars>>

\* The step is refused: a second grant of the request, a decided request, an allowance that would
\* fall below zero.
Refused(o) ==
  \/ operator[o].at = "grant" /\ ~MayGrant(operator[o].on)
  \/ operator[o].at \in {"reject", "approve"} /\ request[operator[o].on] # "Submitted"
  \/ operator[o].at = "expire" /\ ~MayShrink
  \/ operator[o].at = "revoke" /\ operator[o].live /\ ~MayShrink

GiveUp(o) ==
  /\ Refused(o) /\ Rest(o)
  /\ UNCHANGED <<purchase, page, request, lot, allowance, lapsed, webhookVars>>

\* The process dies between two transactions.
OperatorDies(o) ==
  /\ operator[o].at # "idle" /\ deaths < MaxDeaths
  /\ Rest(o) /\ deaths' = deaths + 1
  /\ UNCHANGED <<purchase, page, request, lot, allowance, lapsed, inbox, owed, handler, failed>>
-----------------------------------------------------------------------------
TopUpStep(p) == Start(p) \/ OpenPage(p) \/ Complete(p) \/ Sweep(p)

HandlerStep(h) ==
  \/ WebhookStep(h) /\ UNCHANGED moneyVars
  \/ ReadPurchase(h) \/ GrantTopUp(h) \/ MarkPaid(h)

OperatorStep(o) ==
  \/ \E r \in Requests : ReadRequest(o, r)
  \/ RejectRequest(o) \/ GrantRequest(o) \/ ApproveRequest(o)
  \/ \E l \in Lots : ReadGrant(o, l) \/ Expire(o, l)
  \/ Revoke(o) \/ ReadDue(o) \/ WriteOff(o) \/ GiveUp(o) \/ OperatorDies(o)

Next ==
  \/ \E p \in Purchases : TopUpStep(p)
  \/ \E h \in Handlers : HandlerStep(h) \/ (WebhookFault(h) /\ UNCHANGED moneyVars)
  \/ \E o \in Operators : OperatorStep(o)
  \/ \E r \in Requests : RequestCredits(r) \/ CancelRequest(r)
  \/ Lapse

\* A handler that runs goes on, and the provider sends again what it has not been answered.
Fairness == \A h \in Handlers : WF_vars(HandlerStep(h))

Spec == Init /\ [][Next]_vars /\ Fairness
=============================================================================
