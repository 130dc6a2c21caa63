--------------------------- MODULE MCFlareBridge ---------------------------
(* Small instances of FlareBridge: two holders, two Mina keys, one or two    *)
(* chains, and two verifiers of which the second proves what the first does  *)
(* not.                                                                      *)
EXTENDS FlareBridge

CONSTANTS fmina, fxrp, bridge, vault, alice, bob, zero, k1, k2, badWord,
          sound, unsound, s0, s1, s2, attestor, main, next

MCDeposit(sender, recipient, amount, nonce) ==
  [sender |-> sender, recipient |-> recipient, amount |-> amount, nonce |-> nonce]

\* One deposit is minted to no one, as a recipient of zero must revert.
d1 == MCDeposit(k1, alice, 2, 0)
d2 == MCDeposit(k1, bob, 1, 1)
dZero == MCDeposit(k2, zero, 1, 0)

MCBatch(before, after, nonce, root) ==
  [proofValid |-> TRUE, bridgeId |-> BridgeId, previousActionState |-> before,
   newActionState |-> after, batchNonce |-> nonce, depositsRoot |-> root \intersect Deposits]

\* The batches of Mina's actions in order, one proven for another zkApp and
\* one whose proof failed; the second batch repeats a leaf of the first.
MCSoundBatches ==
  {MCBatch(s0, s1, 1, {d1}), MCBatch(s1, s2, 2, {d1, d2, dZero}),
   [MCBatch(s0, s1, 1, {d2}) EXCEPT !.bridgeId = "other"],
   [MCBatch(s0, s1, 1, {dZero}) EXCEPT !.proofValid = FALSE]}

MCAccepts == [v \in Verifiers |-> MCSoundBatches]
MCDeposits == {d1, d2, dZero}

\* For the two timelocks: one deposit, above the first ceiling, that only the
\* second verifier has a proof of.
dLarge == MCDeposit(k1, alice, 3, 0)
MCLargeDeposit == {dLarge}
MCUnsoundAccepts ==
  [v \in Verifiers |-> IF v = sound THEN {} ELSE {MCBatch(s0, s2, 1, {dLarge})}]

MCLimits(each, all) == [maxPerDeposit |-> each, cumulativeCap |-> all]
MCDefaultLimits == MCLimits(3, 2)
MCCeilings == {MCLimits(2, 1), MCLimits(3, 3)}

MCGrants == {<<bridge, fmina>>, <<vault, fxrp>>}
MCBridgeGrant == {<<bridge, fmina>>}
MCForeign == {[appender |-> vault, token |-> fxrp, recipient |-> k2, amount |-> 1]}
============================================================================
