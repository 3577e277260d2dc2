\* Every operation, two calls at a time.
CONSTANTS
  Student = student
  Organizer = organizer
  Admin = admin
  Roles = {student, organizer, admin}
  Requests = {q1, q2}
  Workers = {w1, w2}
  Ops = {"login", "assign", "remove", "sync", "create", "cancel", "reject", "approve"}
  LoginLists <- TokenLists
  SyncLists <- ListsOrEmpty
SPECIFICATION Spec
PROPERTIES OnlyKnownRacesLosePrimary DecidedOnce
