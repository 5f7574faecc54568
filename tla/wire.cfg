SPECIFICATION Spec
CONSTANTS
  MaxNamespaces = 3
  ClientRequests <- MCClientRequests
  Streams <- MCStreams
  Bodies <- MCBodies
  Wide <- MCWide
  Layouts <- MCLayouts
INVARIANTS RequestIsWhole TextIsCarried FramesAreWhole TurnIsClosed
\* An attempt ends: refused, failed, done or broken.
CHECK_DEADLOCK FALSE
