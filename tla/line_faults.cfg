\* Everything that may go wrong, to one record and one delivery.
CONSTANTS
  a = a
  b = b
  Host = {a, b}
  Record = {r}
  Log = {}
  Delivery = {d}
  Effect = {}
  Retries = 2
  MaxWrites = 3
  Faults = {"call", "cut", "crash", "take", "error", "unheard", "unreachable"}
SPECIFICATION Spec
SYMMETRY Symmetry
INVARIANTS HistoriesGrow
PROPERTIES ReplayExtendsLine
