SPECIFICATION FairSpec
CONSTANT Orders <- MotionsAndStop
PROPERTIES StopHonoured
