--------------------------- MODULE MCMinaAccounts ---------------------------
(* A small instance of AccountPages: one key with two accounts and a page for *)
(* each, and calls that were signed elsewhere, one of another key.  A wrapper *)
(* that is withdrawn from, and a router that swaps for the native coin, call  *)
(* the account back.                                                          *)
EXTENDS AccountPages

CONSTANTS k1, k2, a1, a2, p1, p2

MCKeyOf == [a \in Accounts |-> k1]
MCSessionOf == [p \in Pages |-> IF p = p1 THEN a1 ELSE a2]

MCSignature(k, p, a, c, n) ==
  [key |-> k, purpose |-> p, chainId |-> "flare", target |-> a, calls |-> c,
   nonce |-> n, expiry |-> 1]

MCElsewhere ==
  {[MCSignature(k1, ACCOUNT_CALL, a1, <<"withdraw">>, 0) EXCEPT !.expiry = 0],
   [MCSignature(k1, ACCOUNT_CALL, a1, <<"withdraw">>, 1) EXCEPT !.chainId = "other"],
   MCSignature(k2, ACCOUNT_CALL, a2, <<"lockNative">>, 0)}

MCSignatures ==
  MCElsewhere \union
    {MCSignature(k1, ACCOUNT_BATCH, a1, <<"unwrap", "withdraw">>, n) : n \in 0 .. 1} \union
    {MCSignature(k1, ACCOUNT_BATCH, a2, <<"lockNative">>, n) : n \in 0 .. 1} \union
    {MCSignature(k1, ACCOUNT_BATCH, a2, <<"swapExactNATForTokens">>, 1)}
=============================================================================
