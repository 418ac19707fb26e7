---------------------------- MODULE MCRunScheduler ----------------------------
(***************************************************************************)
(* Instances of RunScheduler for TLC: two instants to a minute, a schedule *)
(* that fires every minute and one that fires now and then; both come      *)
(* again after the last instant.                                           *)
(***************************************************************************)
EXTENDS RunScheduler, TLC

Minutely == {2, 4, 6, 8, 10, 12}
Sparse   == {2, 8, 14}
Plans    == {Minutely, Sparse}

Symmetric == Permutations(Schedulers)
=============================================================================
