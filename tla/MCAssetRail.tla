----------------------------- MODULE MCAssetRail -----------------------------
(* Small instances of AssetRail: one asset, two holders, one chain that it   *)
(* shares with another bridge.  The runs start from a deployment that is     *)
(* wired, as the scripts of flare-contracts leave it; the owner may undo it.    *)
EXTENDS AssetRail

CONSTANTS fxrp, fmina, bridge, vault, alice, zero, k1, k2, watcher, main

MCLock(amount, received, key) ==
  [token |-> fxrp, amount |-> amount, received |-> received, recipient |-> key]
MCLocks == {MCLock(2, 2, k1), MCLock(2, 1, k2)}
MCNativeLocks == {[value |-> 2, recipient |-> k1]}
MCForeign == {[appender |-> bridge, token |-> fmina, recipient |-> k1, amount |-> 1]}
MCDonations == {[token |-> fxrp, amount |-> 1]}
MCBurn(key, amount) == [sender |-> key, recipient |-> alice, amount |-> amount]
MCBurns == {MCBurn(k1, 1)}
MCOwnerReleases ==
  {[claimId |-> 0, token |-> fxrp, amount |-> 1, recipient |-> alice]}
MCGrants == {<<vault, fxrp>>, <<bridge, fmina>>}
MCForged ==
  {[index |-> 0, token |-> fxrp, recipient |-> k2, amount |-> 2]}

MCInit ==
  /\ chains = [c \in {main} |-> SetAppender(SetAppender(NewChain, bridge, fmina, TRUE),
                                            vault, fxrp, TRUE)]
  /\ transferChain = main /\ NATIVE_WRAPPER = fxrp
  /\ accepted = {fxrp} /\ paused = FALSE
  /\ burnAttestor = watcher
  /\ maxAttestedReleaseOf = [t \in Tokens |-> 1]
  /\ lockedOf = [t \in Tokens |-> 0] /\ nextClaimIdOf = [t \in Tokens |-> 0]
  /\ releasedClaims = [t \in Tokens |-> {}] /\ consumedIntents = {}
  /\ balanceOf = [t \in Tokens |-> 0] /\ released = [t \in Tokens |-> 0]
  /\ PortInit /\ DeskInit
  /\ outflow = [k \in MinaKeys |-> 0]

MCSpec == MCInit /\ [][Next]_vars
==============================================================================
