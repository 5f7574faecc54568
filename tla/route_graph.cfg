CONSTANTS
  Names = {"ann", "bob"}
  MaxCommands = 1
  MaxJobs = 1
  MaxChain = 4
  MaxDepth = 3
  MaxWait = 2
  MaxWalks = 3
  MaxEdits = 1
  Start <- MCStart
  Strategy <- MCStrategy
  Price <- MCPrice
  Unpriced = 9
  Conditions <- MCConditions
SPECIFICATION Spec
INVARIANTS TypeOK WalkIsFlattening OnlyWhatWasOffered TurnsAreFair
CHECK_DEADLOCK FALSE
