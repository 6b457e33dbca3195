SPECIFICATION FairSpec
CONSTANT Orders <- SomeMotions
INVARIANTS TypeOK StandbyAtRest DoneMeansStill StandbyMotorsOff
PROPERTIES HonoursContract AbortHonoured
