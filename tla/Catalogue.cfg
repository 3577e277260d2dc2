\* Every operation, two calls at a time, on four small parts of a catalogue.
CONSTANTS
  c1 = c1  c2 = c2  b1 = b1  b2 = b2  r1 = r1  k1 = k1  k2 = k2  e1 = e1
  Campuses = {c1, c2}
  Buildings = {b1, b2}
  Rooms = {r1}
  Categories = {k1, k2}
  Events = {e1}
  Codes = {"A", "B"}
  Blank = "blank"
  Clients = {w1, w2}
SPECIFICATION MCSpec
SYMMETRY Symmetry
INVARIANTS OrphansOnlyByRaces ChecksCoverIndexes
PROPERTIES OnlyAskedToReturn
CHECK_DEADLOCK FALSE
