----------------------------- MODULE MCCostEngine -----------------------------
(***************************************************************************)
(* Instances of CostEngine for TLC: a company and one or two levels below. *)
(***************************************************************************)
EXTENDS CostEngineProperties, TLC

CONSTANTS c, d      \* the company's wallet and a department's

Levels == (c :> 0) @@ (d :> 1)
Spends == {{c}, {c, d}}
UpDown == {-2, 2}

Symmetric == Permutations(Reservations) \union Permutations(Sessions)
=============================================================================
