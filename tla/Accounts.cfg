\* Every operation, two calls at a time.
CONSTANTS
  Users = {u1, u2}
  Subs = {s1, s2}
  Emails = {e1, e2}
  Names = {e1, e2}
  Workers = {w1, w2}
  MaxTokens = 1
  NoUser = NoUser
  NoEmail = NoEmail
  Ops = {"provision", "change", "create", "update", "ban", "unban", "delete", "restore"}
SPECIFICATION Spec
SYMMETRY Symmetry
INVARIANTS CallsStillRight OneUserPerEmail
PROPERTY OnlyAdminsReinstate
