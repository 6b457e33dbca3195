SPECIFICATION FairSpec
CONSTANT MaxImages = 3
INVARIANTS TypeOK AimVouchedFor
PROPERTIES TargetTaken
