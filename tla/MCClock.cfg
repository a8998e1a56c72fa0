CONSTANTS
  Period = 4
  HalfMod = 2
  Delays <- MCDelays
  MaxNs = 32
SPECIFICATION ClockSpec
INVARIANTS DelaysAtLeast
\* The time of the model ends.
CHECK_DEADLOCK FALSE
