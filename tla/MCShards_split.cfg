\* Four tests, two of them pinned, on three machines that see the same or not.
CONSTANTS
  t1 = t1
  t2 = t2
  t3 = t3
  t4 = t4
  NodeIds = {t1, t2, t3, t4}
  Pinned = {t2, t3}
  PinnedUnit = PinnedUnit
  Hash <- SomeHash
  Count = 3
  Views <- SomeViews
SPECIFICATION ShardsSpec
INVARIANTS PlansAgree CompleteIsWhole
CHECK_DEADLOCK FALSE
