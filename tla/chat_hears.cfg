SPECIFICATION FairSpec
CONSTANTS
  h1 = h1
  h2 = h2
  m1 = m1
  Hosts = {h1, h2}
  Messages = {m1}
  Kinds = {"answer", "all", "forward", "other"}
  Nobody = Nobody
  MaxRaised = 1
  MaxNow = 2
  MaxFaults = 1
INVARIANTS ShownBeforeTheMark
PROPERTY Heard
CHECK_DEADLOCK FALSE
