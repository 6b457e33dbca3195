SPECIFICATION MCSpec
CONSTANTS
  FullSpeed = 1
  Asks <- SomeAsks
  Inputs = 2
  Threads = {"Shooter", "Drives"}
  Watches <- MCWatches
  MaxPackets = 3
  SleepTime = 5
  Lapses <- MCLapses
  MaxCount = 2
  MinWindow = 2
  SetPoints <- MCSetPoints
  RampLimit = 2
  LoopTimeLimit = 1
  MaxLapse = 2
  TopSpeed = 3
  MaxBack = 1
  MaxLines = 4
INVARIANTS SubsystemsSound
PROPERTIES PressesTold DisabledComesToRest CycleAlternates
CHECK_DEADLOCK FALSE
