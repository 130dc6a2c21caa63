SPECIFICATION MCSpec
CONSTANTS
  fmina = fmina
  fxrp = fxrp
  k1 = k1
  k2 = k2
  NoKey = NoKey
  Tokens = {fmina, fxrp}
  Appenders = {}
  MinaKeys = {k1, k2}
  MaxUint64 = 3
  MaxProofs = 5
  StartHeads <- MCStartHeads
  LinkRecords <- MCLinkRecords
  r1 = r1
  r2 = r2
  r3 = r3
  forged = forged
  v1 = v1
  v2 = v2
  v3 = v3
  chain = chain
  port = port
  t1 = t1
  t3 = t3
  ChainAddress = chain
  TransferTopic0 = "Transfer"
  TransactionOf <- MCTransactionOf
  LogsOf <- MCLogsOf
  Responses = {r1, r2, r3, forged}
  EventOf <- MCEventOf
  Validators = {v1, v2, v3}
  Messages <- MCMessages
  SignedBy <- MCSignedBy
  NodesOf <- MCNodesOf
  NoJob = NoJob
  PolicyTrees <- MCPolicyTrees
  Climbs <- MCClimbs
  PolicyOf <- MCPolicyOf
  Threshold = 4
  RelayCalls <- MCRelayCalls
  Served <- MCServed
INVARIANTS
  ProofsAreFaithful
  ProofsAreDeterministic
  AttestedWasSigned
  WhatIsBuiltIsAccepted
CHECK_DEADLOCK FALSE
