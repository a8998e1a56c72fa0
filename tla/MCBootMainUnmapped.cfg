CONSTANTS
  NodeNames <- MCNodeNames
  PropNames <- MCPropNames
  BaseName <- MCBaseName
  NameWords <- MCNameWords
  StringWords <- MCStringWords
  Radix <- MCRadix
  LongMod <- MCRadix
  BelowEnd <- MCBelowEnd
  BootArgs <- MCBootArgs
  TimeBase <- MCTimeBase
  BufWords <- MCBufWords
  Dtbs <- MCUnmapped
  Baud = 3
SPECIFICATION MainSpec
INVARIANTS OnlyMappedAddresses
