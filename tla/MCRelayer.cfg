SPECIFICATION FairSpec
CONSTANTS
  Rails = {"fmina", "fxrp"}
  Escrow = "fmina"
  Deployments <- MCDeployments
  Lookback = 2
  Null = Null
  Policies = {1, 2}
  NoPolicy = 0
  MaxPool = 3
  WAVE = 2
INVARIANTS
  TypeOK
  SettledRowsArePassed
  ReleasedWerePaid
PROPERTIES
  EveryWithdrawalReleased
  EveryLockClaimed
CHECK_DEADLOCK FALSE
