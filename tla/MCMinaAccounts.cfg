SPECIFICATION PagesSpec
CONSTANTS
  k1 = k1
  k2 = k2
  a1 = a1
  a2 = a2
  p1 = p1
  p2 = p2
  Keys = {k1, k2}
  Accounts = {a1, a2}
  KeyOf <- MCKeyOf
  Calls = {"unwrap", "withdraw", "lockNative", "swapExactNATForTokens"}
  Hooks = {"withdraw"}
  Signatures <- MCSignatures
  ChainId = "flare"
  MaxTime = 1
  MaxDepth = 2
  Pages = {p1, p2}
  SessionOf <- MCSessionOf
  NoExpiry = 1
  Elsewhere <- MCElsewhere
  NoPage = NoPage
INVARIANTS
  IInv
  OnceInFullOrNotAtAll
  OnePerNonce
  
CHECK_DEADLOCK FALSE
