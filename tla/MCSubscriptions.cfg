\* One subscription through its terms: changed, renewed, moved and cancelled around the scheduler.
CONSTANTS
  Period = 2
  Term = 4
  Window = 3
  IndexBy = 1
  Prices = {1, 3}
  c1 = c1
  c2 = c2
  Customers = {c1, c2}
  Payees = {c1}
  EffectiveDays = {0, 3, 5}
  StartDays = {0, 1}
  ChangeSets <- Changes
  MaxDay = 1
  MaxVersions = 3
  Keep = Keep
SPECIFICATION MCSpec
INVARIANTS JobsMatch InvoicedOnce ChargedAsAgreed ChainContinues
PROPERTIES RenewedWhenBooked
CHECK_DEADLOCK FALSE
