SPECIFICATION FlareSpec
CONSTANTS
  fmina = fmina
  fxrp = fxrp
  bridge = bridge
  vault = vault
  alice = alice
  bob = bob
  zero = zero
  k1 = k1
  k2 = k2
  badWord = badWord
  sound = sound
  unsound = unsound
  s0 = s0
  s1 = s1
  s2 = s2
  attestor = attestor
  main = main
  next = next
  NoChain = NoChain
  Tokens = {fmina, fxrp}
  Appenders = {bridge, vault}
  MinaKeys = {k1, k2}
  MaxUint64 = 2
  Accounts = {alice, bob}
  ZeroAddress = zero
  FMina = fmina
  BridgeAddress = bridge
  Chains = {main, next}
  Deposits <- MCDeposits
  Expiries = {1}
  Attestors = {attestor}
  BurnAmounts = {1, 3}
  MinaWords = {k1, badWord}
  Verifiers = {sound}
  Accepts <- MCAccepts
  BridgeId = "fmina"
  GenesisActionState = s0
  ActionStates = {s0, s1, s2}
  FirstVerifier = sound
  VerifierChoices = {}
  DefaultLimits <- MCDefaultLimits
  LimitChoices = {}
  Grants <- MCGrants
  ForeignTransfers <- MCForeign
  UpdateDelay = 1
  MaxTime = 2
  MaxTransfers = 2
INVARIANTS
  TypeOK
  Collateral
  EveryMintAndBurnIsAccounted
