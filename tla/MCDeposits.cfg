SPECIFICATION MCSpec
CONSTANTS
  d1 = d1
  d2 = d2
  d3 = d3
  burn = burn
  Lane = {"user"}
  Requests = {d1, d2, d3, burn}
  LaneOf <- MCLaneOf
  MaxForks = 2
  Null = Null
  Deposits = {d1, d2, d3}
  Deposit <- MCDeposit
  ZeroAddress = "zero"
  MinAttested = 1
  MaxAttested = 2
  TickLimit = 1
  AttestorKey = "key"
  Bridges <- MCBridges
  Submitters = {TRUE, FALSE}
  MaxFaults = 1
INVARIANTS
  OneProofAtATime
  DepositsAreDistinct
  
PROPERTIES
  WhatWasSentIsAnswered
  
CHECK_DEADLOCK FALSE
