\* A bootstrap stopped anywhere and run again, over repositories people push to.
CONSTANTS
  Path = {"readme", "types"}
  None = None
  Idle = Idle
  MaxPasses = 12
  MaxEdits = 1
  MaxFaults = 3
SPECIFICATION FairSpec
PROPERTIES AdoptionRewritesNothing NamedHoldsItsTemplate RunFinishes RunsTakeNothingBack BootstrapFinishes
