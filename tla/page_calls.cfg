SPECIFICATION FairSpec
CONSTANTS
  c1 = c1
  c2 = c2
  Calls = {c1, c2}
  Tools <- PageAndAHand
  NoRead = NoRead
  MaxRaised = 2
  MaxFaults = 1
INVARIANTS RecordedOnce YesToWhatWasNamed
PROPERTIES KeptIsMade SentIsShown
CHECK_DEADLOCK FALSE
