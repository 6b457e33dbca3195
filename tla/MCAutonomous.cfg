SPECIFICATION FairSpec
CONSTANTS
  Last = 7
  Horizon = 2
  Program <- TenBall
INVARIANTS ParametersMatch TimerHasTarget ThrowsOnlyUnloaded
PROPERTY ProgramSettles
