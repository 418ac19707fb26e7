---------------------------- MODULE MCHumanWork -----------------------------
(***************************************************************************)
(* An instance of HumanWork for TLC. write is approved by a head; check    *)
(* waits for write and for the gate; publish waits for check, for the AI   *)
(* step and for a label of the drawing that is no step.                    *)
(***************************************************************************)
EXTENDS HumanWorkProperties, TLC

CONSTANTS write, check, publish, draftAi, gate, label, ann, bob, eve

Graph == write :> {} @@ check :> {write, gate} @@ publish :> {check, draftAi, label}

Approval ==
    gate :> "FourEyes" @@ write :> "Head" @@ check :> "NotRequired" @@ publish :> "NotRequired"

SentTo == gate :> {ann, bob, eve} @@ write :> {ann, bob} @@ check :> {} @@ publish :> {}

Tried ==
    write :> {"start", "block", "submit"} @@ check :> {"start", "submit"} @@ publish :> {}
Submits == write :> 2 @@ check :> 1 @@ publish :> 0

Doer == write :> ann @@ check :> eve @@ publish :> eve

Symmetric == Permutations(Handlers)
=============================================================================
