SPECIFICATION MCSpec
CONSTANTS
  WireMessages <- MCWireMessages
  LongString = 3
  LongArray = 3
  MaxSent = 3
  TextEntries <- MCTextEntries
  OtherEntries <- MCOtherEntries
  Texts <- MCTexts
  Needles <- MCNeedles
  Ordered <- MCOrdered
  Numerals <- MCNumerals
  WordBits = 8
  NaiveBelow = 3
  TableKeys = {1, 2, 3, 4}
  HashOf <- MCHash
  FirstBuckets = 4
  LeastBuckets = 8
  InlineBuckets = 4
  MaxBuckets = 16
  Chunks <- MCChunks
  BlockSize = 3
  FormatFree = 1
  Source <- MCSource
  BlockIn = 2
  MaxOutCalls = 3
  ApiTypes = {"boolean", "raw", "stringArray"}
  MaxItems = 1
  Slots = {"a", "b"}
  ConfigFiles <- MCConfigFiles
  UIntOf <- MCUInts
  Pictures <- MCPictures
  MaxRefresh = 1
  MaxModes = 1
INVARIANTS CodecsSound ContainersSound TargetsSound
CHECK_DEADLOCK FALSE
