\* Every call ends, with two workers on one user's rows, while the event may
\* be cancelled or deleted.
CONSTANTS
  Users = {u1}
  Workers = {w1, w2}
  NoUser = NoUser
  Ops = {"create", "issue", "restore", "scan", "cancel", "patch"}
  EventValues <- StatusChanges
  MaxTime = 0
  MaxAdmits = 1
SPECIFICATION FairSpec
INVARIANT SeatedHasTicket
PROPERTY CallsEnd
