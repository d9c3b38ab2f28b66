\* A job with two sessions and two tests, and one with a session and a test of those.
CONSTANTS
  a = a
  b = b
  t1 = t1
  t2 = t2
  Jobs = {a, b}
  Tests = {t1, t2}
  Selections <- MCSelections
  MaxSessions <- MCSessions
  MaxBundles <- MCBundlesOf
  MaxAttempts = 2
VIEW View
SPECIFICATION MCSpec
INVARIANTS CompleteWhenFinished NothingLost
CHECK_DEADLOCK FALSE
