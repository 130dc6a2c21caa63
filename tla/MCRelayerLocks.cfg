SPECIFICATION FairSpec
CONSTANTS
  Rails = {"fmina", "fxrp"}
  Escrow = "fmina"
  Deployments <- MCOnePort
  Lookback = 2
  Null = Null
  Policies = {1, 2}
  NoPolicy = 0
  MaxPool = 4
  WAVE = 2
PROPERTIES
  EveryLockDelivered
CHECK_DEADLOCK FALSE
