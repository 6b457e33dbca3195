SPECIFICATION FairSpec
CONSTANTS
  Last = 9
  Horizon = 2
  Program <- Stuck
INVARIANT TypeOK
PROPERTY CritStepReached
