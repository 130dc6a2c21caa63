------------------------------ MODULE MCBridge ------------------------------
(* Small instances of Bridge: one holder, two deposits, one chain.           *)
EXTENDS Bridge

CONSTANTS fmina, fxrp, bridge, vault, alice, zero, k1, honest, watcher, main

MCDeposit(amount, nonce) ==
  [sender |-> k1, recipient |-> alice, amount |-> amount, nonce |-> nonce]
MCTwoDeposits == {MCDeposit(2, 0), MCDeposit(1, 1)}

\* Every batch that some history of Mina's actions makes sound.
MCBatch(s, from, nonce) ==
  [proofValid |-> TRUE, bridgeId |-> BridgeId, batchNonce |-> nonce,
   previousActionState |-> SubSeq(s, 1, from), newActionState |-> s,
   depositsRoot |-> {s[i] : i \in (from + 1) .. Len(s)}]
MCAccepts ==
  [v \in Verifiers |->
     UNION {UNION {{MCBatch(s, from, nonce) : from \in 0 .. n, nonce \in 1 .. MaxActions}
                     : s \in [1 .. n -> Deposits]} : n \in 0 .. MaxActions}]

MCActionStates == Seq(Deposits)
MCGenesis == << >>
MCLimits == [maxPerDeposit |-> 2, cumulativeCap |-> 3]
MCGrants == {<<bridge, fmina>>}
============================================================================
