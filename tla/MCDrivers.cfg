CONSTANTS
  LoMod = 8
  TimeBase = 2
  Calls <- MCCalls
  Word = 256
  Byte = 4
  ClockRate = 90
  Bauds <- MCBauds
  NumSources = 4
  PerByte = 2
  TableSize = 4
  MaxPriority = 1
  Devices <- MCDevices
  Masking <- MCMasking
SPECIFICATION DriversSpec
INVARIANTS OkMeansDone RateClosest EnableAsAsked NoStray
PROPERTIES OneAtATime NotEarly Returns 
