\* Two subscriptions, threads that sleep through a reset.
CONSTANTS
  Subs = {s1, s2}
  Origins = {new}
  NoFilter = NoFilter
  MaxTxs = 3
  MaxJobs = 4
  MaxWorkers = 2
  MaxResets = 1
SPECIFICATION FairSpec
INVARIANTS OneMessagePerBooking
PROPERTIES GenerateEnds
CHECK_DEADLOCK FALSE
