------------------------------ MODULE MCCompany ------------------------------
(***************************************************************************)
(* Instances of CompanyLifecycle for TLC.                                  *)
(***************************************************************************)
EXTENDS CompanyProperties, TLC

CONSTANTS lapse, pay, small, large

Occurred == lapse :> 1 @@ pay :> 2
Mapped   == lapse :> "lapsed" @@ pay :> "entitled"
Sold     == lapse :> small @@ pay :> large

Symmetric == Permutations(Handlers) \cup Permutations(People)
=============================================================================
