------------------------------ MODULE OncePerKey ------------------------------
(***************************************************************************)
(* What an idempotency key promises a client. While a key is remembered,   *)
(* the work of one request is performed under it, once; a client is told   *)
(* that its request is done only if it is its own that was performed; and  *)
(* a request is turned away only while another has the key.                *)
(***************************************************************************)
EXTENDS Sequences

CONSTANTS Requests, Keys, KeyOf

VARIABLES performed,    \* the requests performed under a key since it was last free
          told          \* what the client of a request has been told

Init == performed = [k \in Keys |-> <<>>] /\ told = [r \in Requests |-> "nothing"]

Perform(r) ==
  /\ performed[KeyOf[r]] = <<>>
  /\ performed' = [performed EXCEPT ![KeyOf[r]] = <<r>>]
  /\ UNCHANGED told

Tell(r) ==
  /\ performed[KeyOf[r]] = <<r>>
  /\ told' = [told EXCEPT ![r] = "done"]
  /\ UNCHANGED performed

TurnAway(r) ==
  /\ performed[KeyOf[r]] # <<r>>
  /\ told' = [told EXCEPT ![r] = "refused"]
  /\ UNCHANGED performed

\* The key is free again: its window is over, or the work failed.
Forget(k) ==
  /\ performed' = [performed EXCEPT ![k] = <<>>]
  /\ UNCHANGED told

Next == \/ \E r \in Requests : Perform(r) \/ Tell(r) \/ TurnAway(r)
        \/ \E k \in Keys : Forget(k)

Spec == Init /\ [][Next]_<<performed, told>>
=============================================================================
