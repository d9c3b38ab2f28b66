\* Two runs, two tests with a rerun, no run requests.
CONSTANTS
  RunIds = {r1, r2}
  ExternalIds = {x1}
  RequestIds = {}
  t1 = t1
  t2 = t2
  ticket = ticket
  Tests = {t1, t2}
  Attempts = {1, 2}
  Batches <- MCBatches
  VerdictRows <- MCVerdictRows
  PushedRows <- MCVerdictRows
  Counts = {2}
  Recounts = {2}
  Dispatchers = {}
  MinExecuted = 2
  MaxSkipPercent = 50
  MinVerdicts = 1
  MinAcquired = 1
  Undeclared = Undeclared
  NoTicket = NoTicket
  NoExternal = NoExternal
  NoRequest = NoRequest
  NoRun = NoRun
  NoVerdict = NoVerdict
  NoResult = NoResult
SPECIFICATION RunsSpec
SYMMETRY RunPerms
INVARIANTS VerdictIsOfStoredResults PassIsEarned OneRunPerExternalId
PROPERTIES IsRunRecord
CHECK_DEADLOCK FALSE
