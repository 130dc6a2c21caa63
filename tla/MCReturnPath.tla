---------------------------- MODULE MCReturnPath ----------------------------
(* Small instances of ReturnPath: FMINA and one other asset, two accounts.   *)
EXTENDS ReturnPath

CONSTANTS fmina, fxrp, k1, k2, alice, wide, main, other

MCRecord(i, token, recipient, amount) ==
  [index |-> i, token |-> token, recipient |-> recipient, amount |-> amount]

MCTransfers ==
  {[token |-> fmina, recipient |-> k1, amount |-> 1],
   [token |-> fmina, recipient |-> k2, amount |-> 2],
   [token |-> fxrp, recipient |-> k1, amount |-> 1]}

\* A burn that never happened.
MCForged == {MCRecord(3, fmina, k2, 1)}

MCDepositInputs ==
  {[sender |-> k1, nonce |-> 0, flareRecipient |-> alice, amount |-> 3],
   [sender |-> k1, nonce |-> 0, flareRecipient |-> wide, amount |-> 3],
   [sender |-> k1, nonce |-> 0, flareRecipient |-> alice, amount |-> 0]}
============================================================================
