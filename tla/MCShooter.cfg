SPECIFICATION ShooterFairSpec
CONSTANT Orders <- AllOrders
INVARIANTS ShooterTypeOK
PROPERTIES SwitchesObeyed EdgeTakenUp
