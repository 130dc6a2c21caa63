SPECIFICATION BridgeSpec
CONSTANTS
  fmina = fmina
  fxrp = fxrp
  bridge = bridge
  vault = vault
  alice = alice
  zero = zero
  k1 = k1
  honest = honest
  watcher = watcher
  main = main
  NoChain = NoChain
  NoKey = NoKey
  Tokens = {fmina, fxrp}
  Appenders = {bridge, vault}
  MinaKeys = {k1}
  MaxUint64 = 2
  Accounts = {alice}
  ZeroAddress = zero
  FMina = fmina
  BridgeAddress = bridge
  Chains = {main}
  Deposits <- MCTwoDeposits
  Expiries = {1}
  Attestors = {watcher}
  BurnAmounts = {2}
  MinaWords = {k1}
  Verifiers = {honest}
  Accepts <- MCAccepts
  BridgeId = "fmina"
  GenesisActionState <- MCGenesis
  ActionStates <- MCActionStates
  FirstVerifier = honest
  VerifierChoices = {}
  DefaultLimits <- MCLimits
  LimitChoices = {}
  Grants <- MCGrants
  ForeignTransfers = {}
  UpdateDelay = 1
  MaxTime = 1
  MaxTransfers = 2
  EscrowToken = fmina
  FlareChain = main
  Emitters = {main}
  Policies = {1}
  NoPolicy = 0
  ProtocolIds = {200}
  FDC_PROTOCOL_ID = 200
  RequiredWeight = 1
  FlareAddresses = {alice, zero}
  OtherFields = {}
  WatcherKey = watcher
  MIN_ATTESTED = 1
  MAX_ATTESTED = 2
  NoAccount = NoAccount
  BlindReadings = {NoAccount}
  MaxActions = 2
INVARIANTS
  BridgeTypeOK
  ShortfallBounded
  SettledPrefix
