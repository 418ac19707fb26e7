-------------------------- MODULE CreditsProperties --------------------------
(***************************************************************************)
(* What the credit routes and the webhook of the payment provider promise. *)
(***************************************************************************)
EXTENDS Credits

Steps == {"idle", "claiming", "apply", "grant", "pay", "applied", "ignored", "failing"}

\* Every variable keeps to its type.
TypeOK ==
  /\ purchase \in [Purchases -> [status : Statuses, grant : BOOLEAN]]
  /\ page \in [Purchases -> {"none", "open", "closed", "paid", "unpaid"}]
  /\ request \in [Requests -> RequestStates]
  /\ lot \in [Lots -> SUBSET {"granted", "revoked", "writtenOff"}]
  /\ allowance \in Nat /\ lapsed \in BOOLEAN
  /\ operator \in [Operators ->
       [at : {"idle", "reject", "grant", "approve", "revoke", "expire", "writeOff"},
        on : Requests \cup Lots \cup {NoEvent}, live : BOOLEAN, due : SUBSET Lots]]
  /\ inbox \in [Purchases -> Outcomes \cup {"unseen"}] /\ owed \in [Purchases -> {"no", "yes", "early", "answered"}]
  /\ handler \in [Handlers ->
       [at : Steps, event : Purchases \cup {NoEvent}, seen : Outcomes \cup {"unseen", "nothing"}]]
  /\ failed \in [Purchases -> Seq(Watched \cup {"elsewhere"})] /\ deaths \in 0..MaxDeaths

\* A paid top-up is credited once, however often it is delivered, at whichever step its attempts
\* fail and whoever dies: a second credit needs an attempt that failed between the grant and its
\* record on the purchase (markPaid).
CreditedOnce ==
  \A p \in Purchases :
    Cardinality(LotsOf(p)) <= 1 + Cardinality({i \in DOMAIN failed[p] : failed[p][i] = "pay"})

\* No grant is made for a top-up the customer has not paid (onCheckoutCompleted).
NothingIsCreditedUnpaid ==
  \A p \in Purchases : LotsOf(p) # {} => page[p] = "paid"

\* A purchase whose credit was recorded is never reported as not charged (the sweep's guard).
CreditedIsNotAbandoned ==
  \A p \in Purchases : purchase[p].grant => purchase[p].status = "Paid" /\ LotsOf(p) # {}

\* An approved request has its credit, wherever the approval was cut short (decideRequest).
ApprovedIsFunded == \A r \in Requests : request[r] = "Approved" => LotsOf(r) # {}

\* A top-up that was withdrawn and a grant that was written off have left the allowance, also when
\* the sweep died between the two (revokeGrant, expireGrants).
TakenBackIsTaken ==
  allowance <= Base + Cardinality({l \in Lots : "granted" \in lot[l]})
                    - Cardinality({l \in Lots : \/ "writtenOff" \in lot[l]
                                                \/ "revoked" \in lot[l] /\ l.of \in Purchases})

\* A top-up that was paid is credited, however its deliveries fail and repeat, unless its event is
\* left with nobody to apply it (Stranded).
PaidIsCredited ==
  \A p \in Purchases : page[p] = "paid" ~> LotsOf(p) # {} \/ Stranded(p)
=============================================================================
