SPECIFICATION FlareSpec
CONSTANTS
  fmina = fmina
  fxrp = fxrp
  bridge = bridge
  vault = vault
  alice = alice
  bob = bob
  zero = zero
  k1 = k1
  k2 = k2
  badWord = badWord
  sound = sound
  unsound = unsound
  s0 = s0
  s1 = s1
  s2 = s2
  attestor = attestor
  main = main
  next = next
  NoChain = NoChain
  Tokens = {fmina, fxrp}
  Appenders = {bridge, vault}
  MinaKeys = {k1, k2}
  MaxUint64 = 3
  Accounts = {alice}
  ZeroAddress = zero
  FMina = fmina
  BridgeAddress = bridge
  Chains = {main}
  Deposits <- MCLargeDeposit
  Expiries = {5}
  Attestors = {attestor}
  BurnAmounts = {3}
  MinaWords = {k1}
  Verifiers = {sound, unsound}
  Accepts <- MCUnsoundAccepts
  BridgeId = "fmina"
  GenesisActionState = s0
  ActionStates = {s0, s1, s2}
  FirstVerifier = sound
  VerifierChoices = {sound, unsound}
  DefaultLimits <- MCDefaultLimits
  LimitChoices <- MCCeilings
  Grants <- MCBridgeGrant
  ForeignTransfers = {}
  UpdateDelay = 2
  MaxTime = 3
  MaxTransfers = 1
INVARIANTS
  MintsWereAnnounced
  RootsWereProvenToAnnounced
