SPECIFICATION MCSpec
CONSTANTS
  Callers = {"t1", "t2"}
  MaxUid = 1
  MaxCalls = 3
  MaxLosses = 1
  MaxVersions = 2
  MaxFiles = 3
  MaxCrashes = 1
  Keys <- MCKeys
  Specs <- MCSpecs
  MaxChanges = 2
  MaxRegs = 2
  MaxThreads = 2
  Addresses = {0, 1, 2}
  MaxDsThreads = 2
  MaxMessages = 3
  MaxDsCalls = 4
  MaxFd = 3
  MaxStreams = 2
INVARIANTS RpcSafe SaveSafe NoticesArrive OverrideSound DescriptorsSound
PROPERTIES HeardInOrder ShutdownEndsAccept
CHECK_DEADLOCK FALSE
