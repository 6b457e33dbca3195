SPECIFICATION FairSpec
CONSTANT Orders <- MotionsAndStop
INVARIANT StoppedMeansStopped
