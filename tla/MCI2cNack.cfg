CONSTANTS
  LoMod = 8
  TimeBase = 2
  Calls <- MCCalls
  Word = 256
  Byte = 4
  ClockRate = 90
  Bauds <- MCBauds
SPECIFICATION Spec
INVARIANTS NackMeansError
