--------------------------- MODULE MCPushDelivery ---------------------------
(* Instances of PushDelivery for TLC, with the symmetries of its sets.      *)
EXTENDS PushDelivery, TLC

Symmetry == Permutations(Users) \cup Permutations(Tokens) \cup Permutations(Tasks)
=============================================================================
