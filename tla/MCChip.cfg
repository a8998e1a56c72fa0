CONSTANTS
  Harts <- MCHarts
  MaxHarts = 4
  NonSmpHart = 0
  Rounds = 3
  Period = 2
  HalfMod = 2
  Delays = {0, 1, 2, 3}
  MaxNs = 9
  MaxWait = 2
  Numbers = 2
  Values = {0, 1, 63}
  Hex = 4
  IntNibbles = 3
  LongNibbles <- MCLongNibbles
  Base = 3
  IntDigits = 4
  LongDigits = 8
  Depth = 1
  Programs <- MCPrograms
  Procs <- MCHarts
  Waits = 4
  Calls <- MCCalls
SPECIFICATION ChipSpec
INVARIANTS Reusable RoundsInStep TextsExact ClockExact NumbersFresh
PROPERTIES BarrierMeeting GenOnlyWhenWaiting MainEnds
\* Programs end in a loop, and reuse of the macros may stop.
CHECK_DEADLOCK FALSE
