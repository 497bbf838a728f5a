\* A host stopped in mid tick and opened again.
CONSTANTS
  a = a
  b = b
  Host = {a, b}
  Record = {r}
  Log = {}
  Delivery = {}
  Effect = {}
  Retries = 3
  MaxWrites = 3
  Faults = {"crash"}
SPECIFICATION Spec
SYMMETRY Symmetry
PROPERTIES LineIsAppendOnly
