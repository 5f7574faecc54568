CONSTANTS
  e1 = e1
  e2 = e2
  e3 = e3
  r1 = r1
  r2 = r2
  Entries = {e1, e2}
  Requests = {r1, r2}
  Priority <- MCPriority
  Price <- MCPrice
  Strategy = "round_robin"
  Surfaces = {"chat", "legacy", "stream", "native"}
  Failures = {"quota", "image", "provider"}
  Images = {TRUE}
  Vision = {TRUE, FALSE}
  Hints = {1}
  Operator = TRUE
  MaxClock = 1
SPECIFICATION Spec
SYMMETRY Symmetry
CHECK_DEADLOCK FALSE
INVARIANTS TypeOK InChain Accounting AtMostOneRow ProbedAreSick NoOrphanRows
PROPERTIES  ThrottledKeysRest OnlyTrafficDemotes
