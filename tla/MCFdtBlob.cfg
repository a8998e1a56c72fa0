CONSTANTS
  NodeNames <- MCNodeNames
  PropNames <- MCPropNames
  BaseName <- MCBaseName
  NameWords <- MCNameWords
  StringWords <- MCStringWords
  NewNames <- MCNewNames
  Values <- MCValues
  RsvSizes <- MCRsvSizes
  Buffers <- MCBuffers
  Delivered <- MCDelivered
  StaleOffsets <- MCStaleOffsets
SPECIFICATION Spec
INVARIANTS LaidOut OpsExact LookupsExact
PROPERTIES FailureChangesNothing ImplementsTree
