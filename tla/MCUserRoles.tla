----------------------------- MODULE MCUserRoles -----------------------------
(* Instances of UserRoles for TLC: three roles and the lists of role codes. *)
EXTENDS UserRoles

CONSTANT Admin

TokenLists == {<<>>, <<Student>>, <<Student, Organizer>>}
FewLists == {<<Student>>, <<Organizer, Student>>, <<Admin>>}
(* The form also accepts an empty list, which removes every role.           *)
ListsOrEmpty == FewLists \cup {<<>>}
==============================================================================
