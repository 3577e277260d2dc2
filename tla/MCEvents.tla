------------------------------ MODULE MCEvents ------------------------------
(* Instances of Events for TLC.                                             *)
EXTENDS Events, TLC

(* A change of status, one of both times, and one that ends the event as it *)
(* starts: the check of an edit does not see the start it leaves alone.      *)
SomeEdits == {[status |-> "draft"], [start |-> 1, end |-> 2], [end |-> 1]}

Symmetry == Permutations(Workers)
=============================================================================
