----------------------------- MODULE MCQuestions -----------------------------
(* Instances of Questions for TLC.                                          *)
EXTENDS Questions, TLC

(* A text with its answer, an answer taken back, and a hidden question shown  *)
(* again.                                                                   *)
SomePatches ==
  {[answer |-> "text"], [answer |-> "empty"], [moderation |-> "visible"]}

Symmetry == Permutations(Deliveries)
==============================================================================
