\* Every operation: one edit at a time, the other views and the task around it.
CONSTANTS
  People = {asker}
  Patches <- SomePatches
  Editors = {e1}
  Deliveries = {d1, d2}
  Settings = {"enabled", "disabled", "keyless"}
  Faulty = TRUE
SPECIFICATION Spec
INVARIANTS OneAiReply ReplyMeansCompleted
PROPERTIES UndoneByStaleEdit JobDecided
