\* The operations that decide under row locks; three users, one seat.
CONSTANTS
  Users = {u1, u2, u3}
  Workers = {w1, w2}
  NoUser = NoUser
  Ops = {"create", "issue", "admin_cancel", "restore", "scan"}
  EventValues <- OneSeatTimed
  MaxTime = 4
  MaxAdmits = 2
SPECIFICATION Spec
SYMMETRY Symmetry
INVARIANTS
  TicketMatchesRegistration
  AdmittedOnce
PROPERTIES
  SeatsGrantedWithinCapacity
  CheckedInIsFinal
  ImplementsAdmission
