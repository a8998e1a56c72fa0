CONSTANTS
  Harts <- MCFarHart
  MaxHarts = 5
  NonSmpHart = 0
  Rounds = 1
  DataWords = 2
  BssWords = 2
  StackRoom = 4096
SPECIFICATION BootSpec
INVARIANTS StackOfItsOwn
\* Start-up ends: the harts stay in main and slave_main.
CHECK_DEADLOCK FALSE
