CONSTANTS
  NodeNames <- MCNodeNames
  PropNames <- MCPropNames
  BaseName <- MCBaseName
  NameWords <- MCNameWords
  StringWords <- MCStringWords
  Radix = 8
  LongMod = 64
  Root = "/"
  Menu <- MCMenu
  PropMenu <- MCPropMenu
  Words <- MCWords
  Sizes <- MCSizes
  Flags <- MCFlags
  RsvSizes <- MCRsvSizes
  MaxRsv = 1
  Overlays <- MCOverlays
  Buffers <- MCBuffers
  MaxOverlays = 2
SPECIFICATION MSpec
INVARIANTS NeverMeet FinishedTree NoSpaceMeansFull WholeOverlays RefsResolve FailsForCause UnfinishedTree NodesFound ValuesRead
PROPERTIES FailedCallChangesNothing
CHECK_DEADLOCK FALSE
