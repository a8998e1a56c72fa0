CONSTANTS
  Harts <- MCHarts
  MaxHarts = 5
  NonSmpHart = 0
  Rounds = 1
  DataWords = 2
  BssWords = 2
  StackRoom = 4096
  NodeNames <- MCNodeNames
  PropNames <- MCPropNames
  BaseName <- MCBaseName
  NameWords <- MCNameWords
  StringWords <- MCStringWords
  Radix <- MCRadix
  LongMod <- MCRadix
  BelowEnd <- MCBelowEnd
  BootArgs <- MCBootArgs
  TimeBase <- MCTimeBase
  BufWords <- MCBufWords
  Dtbs <- MCDtbs
  Baud = 3
SPECIFICATION PowerOnSpec
INVARIANTS NoStaleIPI MemoryReady CopyPacked ReadsExact CopyIsPatched StopsForCause
PROPERTIES NoLateInit EveryHartStarts MeetingSpec
\* The other harts stay in slave_main; main stays in the loop it ends in.
CHECK_DEADLOCK FALSE
