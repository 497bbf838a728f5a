\* Two units of one batch, offered, deferred, offered again and answered, in
\* sweeps of several ticks, with time for a retracted entry to be pruned.
CONSTANTS
  u = u
  v = v
  b = b
  Units = {u, v}
  Leases = {}
  Batches = {b}
  NoBatch = NoBatch
  Batch <- Batched
  IdOrder <- InOrder
  Answers = {"yes", "later"}
  Steps = {0, 1}
  RaisedAgain = FALSE
  Week = 1
  Month = 1
  MaxClock = 3
  MaxResponses = 1
SPECIFICATION LiveSpec
INVARIANTS EntriesTellWhatStands
PROPERTIES LetterStillNames NumbersNeverReused NumberKept OneAnswerForAll
