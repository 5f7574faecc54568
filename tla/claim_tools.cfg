SPECIFICATION Spec
CONSTANTS
  MaxNamespaces = 3
  ClientRequests <- MCClientRequests
  Streams <- MCStreams
  Bodies <- MCBodies
  Wide <- MCWide
  Layouts <- MCLayouts
INVARIANT ToolsReachProvider
CHECK_DEADLOCK FALSE
