CONSTANTS
  e1 = e1
  e2 = e2
  e3 = e3
  r1 = r1
  r2 = r2
  Entries = {e1, e2}
  Requests = {r1, r2}
  Priority <- MCPriority
  Price <- MCPrice
  Strategy = "priority"
  Surfaces = {"chat", "stream"}
  Failures = {"quota", "request", "provider"}
  Images = {FALSE}
  Vision = {TRUE}
  Hints = {1}
  Operator = FALSE
  MaxClock = 0
SPECIFICATION FairSpec
CHECK_DEADLOCK FALSE
PROPERTIES EveryRequestEnds Recovery
