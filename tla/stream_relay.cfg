CONSTANTS
  Modes = {"openai", "translated"}
  Kinds = {"text", "start", "ping", "stop", "error", "done"}
  MaxFrames = 3
  Capacity = 1
SPECIFICATION FairSpec
CHECK_DEADLOCK FALSE
INVARIANTS TypeOK FirstErrorFailsOver SuccessIsComplete
PROPERTIES RelaysFaithfully StreamEnds
