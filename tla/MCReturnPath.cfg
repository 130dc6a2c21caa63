SPECIFICATION FairSpec
CONSTANTS
  fmina = fmina
  fxrp = fxrp
  k1 = k1
  k2 = k2
  alice = alice
  wide = wide
  main = main
  other = other
  NoKey = NoKey
  Tokens = {fmina, fxrp}
  Appenders = {}
  MinaKeys = {k1, k2}
  MaxUint64 = 3
  EscrowToken = fmina
  FlareChain = main
  Emitters = {main, other}
  Policies = {1, 2}
  NoPolicy = 0
  ProtocolIds = {100, 200}
  FDC_PROTOCOL_ID = 200
  RequiredWeight = 1
  FlareAddresses = {alice}
  OtherFields = {wide}
  Transfers <- MCTransfers
  ForgedRecords <- MCForged
  DepositInputs <- MCDepositInputs
  LastPolicy = 2
  MaxTransfers = 4
  MaxDeposits = 1
  MaxStrays = 1
INVARIANTS
  TypeOK
  OnTheChain
  PaidExactlyBelowCursor
PROPERTIES
  CursorAdvances
  ImplementsQueue
  EveryBurnIsPaid
CHECK_DEADLOCK FALSE
