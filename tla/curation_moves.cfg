SPECIFICATION Spec
CONSTANTS
    Captures = {capture}
    MaxRead = 1
    Joined = {"joined"}
    Opened = {"opened"}
    Parts <- MCParts
    Words = {"drop"}
    Gatherings <- MCGatherings
    MaxRuns = 1
    MaxHands = 1
    MaxElabs = 2
    MaxFaults = 1
INVARIANTS
    NothingCitedTwice
PROPERTIES
    CitedWhenMarked
    MovesAreCarriedOut
    MaterialReachesAProposal
CHECK_DEADLOCK FALSE
