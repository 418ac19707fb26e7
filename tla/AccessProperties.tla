--------------------------- MODULE AccessProperties --------------------------
(***************************************************************************)
(* What the handling of access owes the company.                           *)
(***************************************************************************)
EXTENDS Access

(* A link lets somebody in once, and not at all when it was cancelled,     *)
(* whoever else follows, resends or cancels it at the same time.           *)
LinkIsUsedOnce ==
    \A i \in DOMAIN links : activations[i] = IF links[i].state = "accepted" THEN 1 ELSE 0

(* Beyond the seats contracted there are only people who took theirs       *)
(* outside the seat lock and with no valid claim: without any (a link, the *)
(* identity provider, the platform), by a state the roster no longer       *)
(* showed truly, or by an invitation committed after another claimed seat  *)
(* was taken, or while the lock was another's. A reinstatement that claims *)
(* is never one of them: two people who come back at the same moment never *)
(* take the last seat on the strength of one count.                        *)
SeatsWithinCeiling == Used <= Ceiling + Cardinality(excused)

(* Somebody who was dismissed stays out until the identity provider says   *)
(* they are back: no link, old or followed at that very moment, lets them  *)
(* in. Besides the provider, only an invitation, a suspension or a         *)
(* reinstatement that had read the account before the dismissal may still  *)
(* write over it.                                                          *)
DismissalHolds ==
    [][\A p \in dismissed : account[p] = "Offboarded" /\ account'[p] # "Offboarded" =>
          \E h \in Handlers :
             \/ ScimWrites(h, p)
             \/ tx[h].who = p /\ tx[h].late /\ tx'[h] = Idle]_vars
=============================================================================
