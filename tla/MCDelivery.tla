----------------------------- MODULE MCDelivery -----------------------------
(***************************************************************************)
(* Instances of Delivery for TLC.                                          *)
(***************************************************************************)
EXTENDS DeliveryProperties, TLC

CONSTANTS raises, other, key

\* Two requests of one key, of which one raises a notification.
SameKey == raises :> key @@ other :> key
Mails == {raises} \X (1..MaxMishaps + 1)
=============================================================================
