----------------------------- MODULE MCRunEngine -----------------------------
(***************************************************************************)
(* Instances of RunEngine for TLC.                                         *)
(***************************************************************************)
EXTENDS RunEngineProperties, TLC

Symmetric == Permutations(Runs) \union Permutations(Workers) \union Permutations(Callers)
=============================================================================
