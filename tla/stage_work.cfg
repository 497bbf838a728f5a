\* Every exit, takeovers and returns, killed panes and refused prompts.
CONSTANTS
  MaxSendBacks = 1
  Exits = {"done", "not-done", "stalled", "blocked"}
  Happens = {"kill", "taken-over", "untold"}
  MaxSessions = 2
  MaxEntries = 4
SPECIFICATION LiveSpec
INVARIANTS OneAtWork AnswerReachesAsker
PROPERTIES FinishedPanesClose
