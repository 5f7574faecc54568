CONSTANTS
  q1 = q1
  q2 = q2
  q3 = q3
  a = a
  b = b
  maya = maya
  nobody = nobody
  Requests = {q1, q2, q3}
  Completions = {q1, q2}
  Routes = {a, b}
  Asked = "php-dev"
  OtherName = "other"
  Identities = {nobody, maya}
  NoIdentity = nobody
  Kinds = {"plain", "stream", "native"}
  Ttls = {0, 1}
  Clamps = {0}
  MaxEdits = 0
  Window = 1
  PruneAge = 2
  Limits = {0, 2}
  MaxClock = 1
SPECIFICATION Spec
SYMMETRY Symmetry
CHECK_DEADLOCK FALSE
PROPERTIES EveryRequestHasIdentity
