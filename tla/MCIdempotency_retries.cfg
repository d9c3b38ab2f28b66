\* A call without a key and two that share one on different routes, sent twice, through a crash.
CONSTANTS
  push = push
  attach = attach
  verdicts = verdicts
  k1 = k1
  Calls = {push, attach, verdicts}
  Keys = {k1}
  NoKey = NoKey
  KeyOf <- SharedKeys
  RouteOf <- SharedRoutes
  MaxSends = 2
  MaxCrashes = 1
  NoCall = NoCall
  NoRoute = NoRoute
SPECIFICATION FairSpec
INVARIANTS  AnsweredIsDone
PROPERTIES EveryCallEnds
CHECK_DEADLOCK FALSE
