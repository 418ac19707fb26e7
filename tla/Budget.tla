-------------------------------- MODULE Budget --------------------------------
(***************************************************************************)
(* What the cost engine promises a company about its AI budget, with every *)
(* transaction taken for one step. A spend is admitted at the levels of a  *)
(* path only if what is committed there, it included, stays within the     *)
(* hard stop; a level it is not counted at has nothing committed. A spend  *)
(* that is held is charged once, or given back once, at every level it is  *)
(* counted at. Nothing else moves what is committed, which is not stored:  *)
(* it is what the spends come to.                                          *)
(***************************************************************************)
EXTENDS Integers, FiniteSets

CONSTANTS Wallets, Company, Paths, Reservations, Estimates, Actuals, HardStopPercent

VARIABLES allowance,   \* of each wallet
          spend        \* of each reservation: its state, where it counts, its amounts

NotAsked == [state |-> "none", levels |-> {}, estimate |-> 0, charged |-> 0]

Init ==
  /\ allowance = [w \in Wallets |-> 0]
  /\ spend = [r \in Reservations |-> NotAsked]

At(w, state) == {r \in Reservations : spend[r].state = state /\ w \in spend[r].levels}

\* In minor units, each told apart.
Committed(w) ==
  Cardinality(UNION {{r} \X (1..spend[r].estimate) : r \in At(w, "Held")})
    + Cardinality(UNION {{r} \X (1..spend[r].charged) : r \in At(w, "Settled")})

Ceiling(w) == (allowance[w] * HardStopPercent) \div 100

Admit(r, path, levels, e) ==
  /\ spend[r].state = "none"
  /\ Company \in levels
  /\ \A w \in levels : Committed(w) + e <= Ceiling(w)
  /\ \A w \in path \ levels : Committed(w) = 0
  /\ spend' = [spend EXCEPT ![r] =
       [NotAsked EXCEPT !.state = "Held", !.levels = levels, !.estimate = e]]
  /\ UNCHANGED allowance

Charge(r, actual) ==
  /\ spend[r].state = "Held"
  /\ spend' = [spend EXCEPT ![r].state = "Settled", ![r].charged = actual]
  /\ UNCHANGED allowance

GiveBack(r, how) ==
  /\ spend[r].state = "Held"
  /\ spend' = [spend EXCEPT ![r].state = how]
  /\ UNCHANGED allowance

\* Opened, set, adjusted or renewed: one wallet at a time.
Allow(w) ==
  /\ allowance'[w] \in Nat
  /\ allowance' = [allowance EXCEPT ![w] = allowance'[w]]
  /\ UNCHANGED spend

Next ==
  \/ \E r \in Reservations :
       \/ \E path \in Paths, e \in Estimates :
            \E levels \in SUBSET path : Admit(r, path, levels, e)
       \/ \E actual \in Actuals : Charge(r, actual)
       \/ \E how \in {"Released", "Expired"} : GiveBack(r, how)
  \/ \E w \in Wallets : Allow(w)

Spec == Init /\ [][Next]_<< allowance, spend >>
=============================================================================
