\* Anything may lapse, stop or be taken over, with clocks an hour apart.
CONSTANTS
  a = a
  b = b
  Host = {a, b}
  Nobody = Nobody
  None = None
  RenewEvery = 1
  Stale = 1
  Expiry = 2
  Ahead <- Apart
  MaxTick = 1
  MaxTime = 3
  Taken = FALSE
  Faults = {"lapse", "slow", "crash", "takeover"}
SPECIFICATION Spec
PROPERTIES NotTakenEarly
CHECK_DEADLOCK FALSE
