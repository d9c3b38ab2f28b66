\* The same run, to which a client also pushes, and which may be finished with a smaller count.
CONSTANTS
  RunIds = {r1}
  ExternalIds = {x1}
  RequestIds = {}
  c1 = c1
  c2 = c2
  Cases = {c1, c2}
  Tests = {c1, c2}
  Attempts = {1}
  Steps = 2
  NotRecorded = NotRecorded
  Batches <- Pushes
  VerdictRows <- CoverageRows
  PushedRows <- PushedCoverage
  Counts = {1, 2}
  Recounts = {1}
  Dispatchers = {}
  MinExecuted = 10
  MaxSkipPercent = 50
  MinVerdicts = 1
  MinAcquired = 1
  Undeclared = Undeclared
  NoTicket = NoTicket
  NoExternal = NoExternal
  NoRequest = NoRequest
  NoRun = NoRun
  NoVerdict = NoVerdict
  NoResult = NoResult
SPECIFICATION ManualSpec
INVARIANTS FinishedOnItsSteps ProvedHasEvidence BlockedIsNoPass
CHECK_DEADLOCK FALSE
