\* A cancel read before a check-in undoes it.
CONSTANTS
  Users = {u1}
  Workers = {w1, w2}
  NoUser = NoUser
  Ops = {"create", "scan", "cancel"}
  EventValues <- OneSeat
  MaxTime = 0
  MaxAdmits = 1
SPECIFICATION Spec
PROPERTY CheckedInIsFinal
