\* Every outcome and every fault, with one retry.
CONSTANTS
  Users = {u1, u2}
  Tokens = {t1, t2}
  Tasks = {k1, k2}
  BatchSize = 2
  MaxRetries = 1
  Outcomes = {"success", "retryable", "invalid", "failed"}
  Faulty = TRUE
SPECIFICATION Spec
SYMMETRY Symmetry
INVARIANTS PushedByOneTask SentMeansAccepted
PROPERTY OutcomeFinal
