------------------------------- MODULE MCAccess ------------------------------
EXTENDS AccessProperties, TLC

ActiveAndInvited == {"Active", "InvitePending"}

Symmetric == Permutations(Handlers) \cup Permutations(People)
=============================================================================
