SPECIFICATION Spec
CONSTANTS
  Names = {"ann", "bob", "cy", "dee"}
  Start <- MCStart
  Setups <- MCSetups
  MaxCommands = 1
  MaxJobs = 1
  MaxChain = 4
INVARIANT TypeOK
PROPERTIES OthersKeepTheirRows UpwardMoveIsExact EditKeepsEgress ImportIsFaithful FailedSeedLeavesNothing
CHECK_DEADLOCK FALSE
