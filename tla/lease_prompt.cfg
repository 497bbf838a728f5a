\* Hosts that renew what they hold, over a route that fails, until one stops for good.
CONSTANTS
  a = a
  b = b
  Host = {a, b}
  Nobody = Nobody
  None = None
  RenewEvery = 1
  Stale = 2
  Expiry = 2
  Ahead <- Together
  MaxTick = 1
  MaxTime = 3
  Taken = FALSE
  Faults = {"unreachable", "unheard", "cut", "gone"}
SPECIFICATION LiveSpec
INVARIANTS OneActs
PROPERTIES BelievesWhatStands RenewalNeverRolledBack GoneIsReplaced
CHECK_DEADLOCK FALSE
