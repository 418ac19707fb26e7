------------------------------ MODULE MCCredits -----------------------------
(***************************************************************************)
(* An instance of Credits for TLC: a top-up and a credit request; two      *)
(* operators decide requests, one withdraws grants, the other expires them.*)
(***************************************************************************)
EXTENDS CreditsProperties, TLC

CONSTANTS o1, o2

Desk == o1 :> {"decide", "revoke"} @@ o2 :> {"decide", "expire"}
=============================================================================
