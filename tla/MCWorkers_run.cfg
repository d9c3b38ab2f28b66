\* Two workers, three tests and two entities, two tries of a call, deaths at any step.
CONSTANTS
  w1 = w1
  w2 = w2
  t1 = t1
  t2 = t2
  t3 = t3
  e1 = e1
  e2 = e2
  Workers = {w1, w2}
  Tests = {t1, t2, t3}
  Allowlist <- TwoEntities
  NoTest = NoTest
  NoEntity = NoEntity
  NoReason = NoReason
  UpstreamLimit = 1
  MaxTimeouts = 2
  MaxRetries = 1
SPECIFICATION Spec
SYMMETRY Perms
INVARIANTS ClaimedOnce NothingIdle TripIsShared WritesSentOnce
CHECK_DEADLOCK FALSE
