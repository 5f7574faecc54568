CONSTANTS
  e1 = e1
  e2 = e2
  e3 = e3
  r1 = r1
  r2 = r2
  Entries = {e1}
  Requests = {r1, r2}
  Priority <- MCPriority
  Price <- MCPrice
  Strategy = "priority"
  Surfaces = {"chat"}
  Failures = {"quota", "provider"}
  Images = {FALSE}
  Vision = {TRUE}
  Hints = {1}
  Operator = FALSE
  MaxClock = 0
SPECIFICATION Spec
SYMMETRY Symmetry
CHECK_DEADLOCK FALSE
PROPERTIES NoJumpToHealthy
