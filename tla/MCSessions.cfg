\* Two runs, those of sessions, of a run request or of clients, who push to all of them.
CONSTANTS
  RunIds = {r1, r2}
  ExternalIds = {}
  RequestIds = {q1}
  t1 = t1
  Tests = {t1}
  Attempts = {1}
  MaxNotes = 1
  MaxErrors = 1
  Batches <- Pushes
  VerdictRows <- SessionRows
  PushedRows = {}
  Counts = {1}
  Recounts = {1}
  Dispatchers = {"none", "github"}
  MinExecuted = 10
  MaxSkipPercent = 50
  MinVerdicts = 1
  MinAcquired = 1
  Undeclared = Undeclared
  NoTicket = NoTicket
  NoExternal = NoExternal
  NoRequest = NoRequest
  NoRun = NoRun
  NoVerdict = NoVerdict
  NoResult = NoResult
SPECIFICATION MCSpec
SYMMETRY Perms
INVARIANTS RecordedWhenEnded OverIsClosed RequestFollowsItsRuns
CHECK_DEADLOCK FALSE
