\* One participant: what the mails promise is promised to each alone.
CONSTANTS
  People = {p1}
  Crew = {w1, w2}
  MaxPlan = 2
  AnnounceRetries = 1
  Limit = 2
  MaxAsked = 4
  MaxQueue = 2
SPECIFICATION MCSpec
SYMMETRY Symmetry
INVARIANTS TimesMailed StatusMailed DeliveryFindsRows BroadcastsLimited
CHECK_DEADLOCK FALSE
