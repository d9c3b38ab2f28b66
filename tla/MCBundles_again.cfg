\* The same jobs, and what is said of a second import.
CONSTANTS
  a = a
  b = b
  t1 = t1
  t2 = t2
  Jobs = {a, b}
  Tests = {t1, t2}
  Selections <- MCSelections
  MaxSessions <- MCSessions
  MaxBundles <- MCBundlesOf
  MaxAttempts = 2
VIEW View
SPECIFICATION MCSpec
PROPERTIES AgainAddsNothing
CHECK_DEADLOCK FALSE
