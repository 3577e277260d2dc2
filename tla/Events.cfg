\* Every operation, two calls at a time; the creator and one more person.
CONSTANTS
  Users = {creator, guest}
  Creator = creator
  Instants = {1, 2}
  Statuses = {"active", "cancelled"}
  Edits <- SomeEdits
  Workers = {w1, w2}
  Ops = {"create", "edit", "delete", "decide", "add", "remove", "grant"}
SPECIFICATION Spec
SYMMETRY Symmetry
INVARIANTS DecisionsLogged KnownTimes CreatorNeverRemoved RelationAgrees
CHECK_DEADLOCK FALSE
