SPECIFICATION MCSpec
CONSTANTS
  fxrp = fxrp
  fmina = fmina
  bridge = bridge
  vault = vault
  alice = alice
  zero = zero
  k1 = k1
  k2 = k2
  watcher = watcher
  main = main
  Tokens = {fxrp, fmina}
  Appenders = {bridge, vault}
  MinaKeys = {k1, k2}
  MaxUint64 = 2
  NoKey = NoKey
  Vault = vault
  Chains = {main}
  NoChain = NoChain
  NoToken = NoToken
  SCALE = 2
  FlareAccounts = {alice}
  ZeroAddress = zero
  Attestors = {watcher}
  Asset = fxrp
  FlareChain = main
  Emitters = {main}
  Policies = {1}
  NoPolicy = 0
  ProtocolIds = {200}
  FDC_PROTOCOL_ID = 200
  RequiredWeight = 1
  ReadsMayFail = FALSE
  NoCheck = NoCheck
  AttestorKey = watcher
  Locks <- MCLocks
  NativeLocks <- MCNativeLocks
  Foreign <- MCForeign
  Donations = {}
  Burns <- MCBurns
  Amounts = {1}
  OwnerReleases <- MCOwnerReleases
  Grants = {}
  AcceptChoices = {}
  AttestorChoices = {watcher}
  LimitChoices = {1}
  RouteChoices = {fxrp}
  ChainChoices = {main}
  ForgedRecords <- MCForged
  MaxTransfers = 1
  MaxRows = 2
  MaxDonated = 1
  MaxOutflow = 2
CHECK_DEADLOCK FALSE
INVARIANTS
  EachReleaseHasItsDrop
