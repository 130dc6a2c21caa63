------------------------------ MODULE AssetPort ------------------------------
(***************************************************************************)
(* The Mina side of the asset rail: the zkApp of AssetPort.ts, which is    *)
(* the admin contract of one wrapped token, and that token.  One action    *)
(* per method; assertions and preconditions are guards, as in MinaEscrow.  *)
(*                                                                         *)
(* A mint takes two transactions: authorizeMint moves the cursor over the  *)
(* next lock and arms a commitment to it, and the token's mint, which asks *)
(* canMint, spends the commitment.  A second account update on the same    *)
(* zkApp does not see what an earlier one wrote, so they cannot be one.    *)
(* canMint does not ask who calls it, so a commitment can be spent with    *)
(* nothing minted (canMintAlone).                                          *)
(*                                                                         *)
(* canChangeAdmin, canPause, canResume and canChangeVerificationKey answer *)
(* no, so the token has no such steps.                                     *)
(***************************************************************************)
EXTENDS Segments

CONSTANTS
  Asset,             \* `asset`: the Flare token this port mints for
  FlareChain,        \* `flareChain`: the TransferChain whose events are taken
  Emitters,          \* contracts an attested event may come from
  Policies,          \* signing-policy roots
  NoPolicy,          \* Field(0): accepts no proof
  ProtocolIds, FDC_PROTOCOL_ID,
  RequiredWeight     \* `requiredWeight`

ASSUME AssetPortAssumption ==
  /\ Asset \in Tokens
  /\ FlareChain \in Emitters
  /\ NoPolicy \notin Policies
  /\ FDC_PROTOCOL_ID \in ProtocolIds
  /\ RequiredWeight \in Nat

VARIABLES
  signingPolicyRoot, flareLockState, processedLockState, mintAuthorization,
  balance,   \* per Mina account, of the wrapped token
  spent      \* history: the commitments canMint cleared, in order, each with
             \* the position of the cursor then, and whether it was for a mint

portVars == <<signingPolicyRoot, flareLockState, processedLockState,
              mintAuthorization>>
assetVars == <<portVars, balance, spent>>

\* The commitment binds the recipient and the amount, and nothing else.
mintCommitment(recipient, amount) == [recipient |-> recipient, amount |-> amount]
NO_MINT_AUTHORIZED == mintCommitment(NoKey, 0)

Spending == [at : Nat, recipient : MinaKeys, amount : Nat, minted : BOOLEAN]

AttestedState ==
  [actionState : Heads, emitter : Emitters, policy : Policies, weight : Nat,
   protocolId : ProtocolIds]

PortTypeOK ==
  /\ signingPolicyRoot \in Policies \union {NoPolicy}
  /\ flareLockState \in Heads /\ processedLockState \in Heads
  /\ mintAuthorization \in [recipient : MinaKeys \union {NoKey}, amount : Nat]
  /\ balance \in [MinaKeys -> Nat] /\ spent \in Seq(Spending)

\* deploy and init.
PortInit ==
  /\ signingPolicyRoot = NoPolicy
  /\ flareLockState = EmptyHead
  /\ processedLockState = EmptyHead
  /\ mintAuthorization = NO_MINT_AUTHORIZED
  /\ balance = [k \in MinaKeys |-> 0]
  /\ spent = << >>

\* Signed by the admin, whose key hashes to adminHash.
setSigningPolicyRoot(root) ==
  /\ signingPolicyRoot' = root
  /\ UNCHANGED <<flareLockState, processedLockState, mintAuthorization, balance,
                 spent>>

\* Altered Publishable: the weight is not looked at.
PublishableUnweighed(attested) ==
  /\ attested.policy = signingPolicyRoot
  /\ attested.protocolId = FDC_PROTOCOL_ID
  /\ attested.emitter = FlareChain

\* What the public output of an attestation must say to be taken.
Publishable(attested) ==
  /\ attested.policy = signingPolicyRoot
  /\ attested.weight >= RequiredWeight
  /\ attested.protocolId = FDC_PROTOCOL_ID
  /\ attested.emitter = FlareChain

publishFlareLockState(attested) ==
  /\ Publishable(attested)
  /\ flareLockState' = attested.actionState
  /\ UNCHANGED <<signingPolicyRoot, processedLockState, mintAuthorization, balance,
                 spent>>

\* What the public output of a segment must say for its lock to be minted.
Mintable(segment) ==
  /\ segment.token = Asset
  /\ segment.from = processedLockState
  /\ segment.to = flareLockState
  /\ segment.found
  /\ segment.firstAmount > 0

\* Altered authorizeMint: an armed claim is overwritten.
AuthorizeOver(segment) ==
  /\ Mintable(segment)
  /\ processedLockState' = segment.stateAfterFirst
  /\ mintAuthorization' = mintCommitment(segment.firstRecipient, segment.firstAmount)
  /\ UNCHANGED <<signingPolicyRoot, flareLockState, balance, spent>>

\* Arms the next lock of the asset; refuses while one is armed.
authorizeMint(segment) ==
  /\ Mintable(segment)
  /\ mintAuthorization = NO_MINT_AUTHORIZED
  /\ processedLockState' = segment.stateAfterFirst
  /\ mintAuthorization' = mintCommitment(segment.firstRecipient, segment.firstAmount)
  /\ UNCHANGED <<signingPolicyRoot, flareLockState, balance, spent>>

\* Altered canMint: the commitment is not cleared.
MintAgain(recipient, amount) ==
  /\ mintAuthorization # NO_MINT_AUTHORIZED
  /\ mintCommitment(recipient, amount) = mintAuthorization
  /\ UNCHANGED mintAuthorization

\* Clears the commitment for an account update that says what is armed.
canMint(recipient, amount) ==
  /\ mintAuthorization # NO_MINT_AUTHORIZED
  /\ mintCommitment(recipient, amount) = mintAuthorization
  /\ mintAuthorization' = NO_MINT_AUTHORIZED

Spends(recipient, amount, minted) ==
  spent' = Append(spent, [at |-> Len(processedLockState), recipient |-> recipient,
                          amount |-> amount, minted |-> minted])

\* canMint in a transaction of its own: nobody built the update it is shown.
canMintAlone(recipient, amount) ==
  /\ canMint(recipient, amount)
  /\ Spends(recipient, amount, FALSE)
  /\ UNCHANGED <<signingPolicyRoot, flareLockState, processedLockState, balance>>

----------------------------------------------------------------------------
(* The token: FungibleToken of mina-fungible-token, as the port relies on  *)
(* it and as the relayer's worker and the wallets call it.                 *)

mint(recipient, amount) ==
  /\ canMint(recipient, amount)
  /\ balance' = [balance EXCEPT ![recipient] = @ + amount]
  /\ Spends(recipient, amount, TRUE)
  /\ UNCHANGED <<signingPolicyRoot, flareLockState, processedLockState>>

burn(holder, amount) ==
  /\ amount <= balance[holder]
  /\ balance' = [balance EXCEPT ![holder] = @ - amount]
  /\ UNCHANGED <<portVars, spent>>

transfer(from, to, amount) ==
  /\ from # to /\ amount <= balance[from]
  /\ balance' = [balance EXCEPT ![from] = @ - amount, ![to] = @ + amount]
  /\ UNCHANGED <<portVars, spent>>
==============================================================================
