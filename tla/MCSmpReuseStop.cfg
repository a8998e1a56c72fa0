CONSTANTS
  Harts <- TwoHarts
  MaxHarts = 2
  NonSmpHart = 0
  Rounds = 2
SPECIFICATION FairSpec
PROPERTIES EveryHartResumes
\* The harts stop after their last round.
CHECK_DEADLOCK FALSE
