\* Whole ticks of two connected hosts, with a git host that may be out of reach.
CONSTANTS
  a = a
  b = b
  Host = {a, b}
  Record = {r}
  Log = {t}
  Delivery = {}
  Effect = {e}
  Retries = 3
  MaxWrites = 4
  Faults = {"unreachable"}
SPECIFICATION LiveSpec
INVARIANTS TypeOK NothingStranded RunEntriesKept
PROPERTIES LineIsAppendOnly HostsConverge IsAStore
