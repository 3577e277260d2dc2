--------------------------- MODULE MCRegistrations ---------------------------
(* Instances of Registrations for TLC: small sets, the event rows that may  *)
(* be written, and the symmetries of users and of workers.                  *)
EXTENDS Registrations, TLC

(* Registration and check-in are open from the start; the event ends at 2.  *)
LiveRow(cap) == [live |-> TRUE, deleted |-> FALSE, cap |-> cap, opensAt |-> 0,
                 closesAt |-> 2, startsAt |-> 0, endsAt |-> 2]

OneSeat == {LiveRow(1)}

(* One tick before registration opens, one while it is open, one while the  *)
(* event runs, one when it ends (tickets expire) and one after.             *)
OneSeatTimed == {[LiveRow(1) EXCEPT !.opensAt = 1, !.startsAt = 2, !.endsAt = 3]}
OneOrTwoSeats == {LiveRow(1), LiveRow(2)}

(* The event may be cancelled, or deleted, and come back.                   *)
StatusChanges == {LiveRow(1), [LiveRow(1) EXCEPT !.live = FALSE],
                  [LiveRow(1) EXCEPT !.deleted = TRUE]}

Symmetry == Permutations(Users) \cup Permutations(Workers)
==============================================================================
