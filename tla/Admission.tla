------------------------------ MODULE Admission ------------------------------
(***************************************************************************)
(* What the registration component promises, without tickets, locks or      *)
(* calls: seats are handed out while there is room, the others wait, and    *)
(* whoever has been let in stays in.  Registrations implements it with the  *)
(* operations that decide under row locks.                                  *)
(***************************************************************************)
EXTENDS Integers, FiniteSets

CONSTANT Users

VARIABLES
  seat,   \* seat[u]: what u has at the event
  cap     \* the capacity; 0 when there is no limit

vars == <<seat, cap>>

Seat == {"out", "waiting", "held", "in"}

Taken == {u \in Users : seat[u] \in {"held", "in"}}
Room == cap = 0 \/ Cardinality(Taken) < cap

Init ==
  /\ seat = [u \in Users |-> "out"]
  /\ cap \in Nat

Move(u, from, to) ==
  /\ seat[u] \in from
  /\ seat' = [seat EXCEPT ![u] = to]
  /\ UNCHANGED cap

(* A seat is given to somebody who has none, while there is room.           *)
Grant(u) == Room /\ Move(u, {"out"}, "held")

(* One waits only when the event is full.                                   *)
Queue(u) == ~Room /\ Move(u, {"out"}, "waiting")

Leave(u) == Move(u, {"held", "waiting"}, "out")

(* Only a seat lets its holder in.                                          *)
Admit(u) == Move(u, {"held"}, "in")

(* The organizers may move the capacity anywhere, below the seats taken too.*)
SetCapacity == cap' \in Nat /\ UNCHANGED seat

Next ==
  \/ \E u \in Users: Grant(u) \/ Queue(u) \/ Leave(u) \/ Admit(u)
  \/ SetCapacity

Spec == Init /\ [][Next]_vars
==============================================================================
