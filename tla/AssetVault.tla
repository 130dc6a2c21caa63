----------------------------- MODULE AssetVault -----------------------------
(***************************************************************************)
(* The Flare side of the asset rail: AssetVault.sol, which locks ERC-20    *)
(* tokens and records every lock in the shared chain.  One action per      *)
(* external function that changes state; a revert is a disabled action,    *)
(* and every function that moves value is nonReentrant, so it is one step. *)
(*                                                                         *)
(* The native coin crosses as NATIVE_WRAPPER, SCALE coins to a unit.  The  *)
(* wrapper holds SCALE of its underlying per unit (BridgeWrapper.sol), so  *)
(* unwrapping what the vault holds does not fail.                          *)
(***************************************************************************)
EXTENDS TransferChain, FiniteSets

CONSTANTS
  Vault,             \* this contract's address, as an appender
  Chains, NoChain,   \* deployments of TransferChain, and the unset one
  NoToken,           \* the unset NATIVE_WRAPPER
  SCALE,             \* native units per unit of the wrapper
  FlareAccounts,     \* recipients of releases
  ZeroAddress,       \* address(0), for a recipient or an attestor
  Attestors          \* keys that may be made burnAttestor

ASSUME AssetVaultAssumption ==
  /\ Vault \in Appenders
  /\ NoChain \notin Chains /\ NoToken \notin Tokens
  /\ SCALE \in Nat \ {0}
  /\ ZeroAddress \notin Attestors

VARIABLES
  chains,           \* the TransferChain deployments
  transferChain, accepted, NATIVE_WRAPPER, paused,
  lockedOf, nextClaimIdOf,
  releasedClaims,   \* per token, the claim ids released by the owner
  burnAttestor, maxAttestedReleaseOf, consumedIntents,
  balanceOf,        \* per token, what the ERC-20 says the vault holds
  released          \* history: per token, the amount released

lockVars == <<lockedOf, nextClaimIdOf>>
settingVars == <<transferChain, accepted, NATIVE_WRAPPER, paused, burnAttestor,
                 maxAttestedReleaseOf>>
replayVars == <<releasedClaims, consumedIntents>>
vaultVars == <<chains, lockVars, settingVars, replayVars, balanceOf, released>>

ReleaseIntent ==
  [minaSender : MinaKeys, token : Tokens, recipient : FlareAccounts \union {ZeroAddress},
   amount : Nat, nonce : Nat]

VaultTypeOK ==
  /\ chains \in [Chains -> ChainState]
  /\ transferChain \in Chains \union {NoChain}
  /\ accepted \in SUBSET Tokens /\ NATIVE_WRAPPER \in Tokens \union {NoToken}
  /\ paused \in BOOLEAN
  /\ lockedOf \in [Tokens -> Nat] /\ nextClaimIdOf \in [Tokens -> Nat]
  /\ releasedClaims \in [Tokens -> SUBSET Nat]
  /\ consumedIntents \in SUBSET ReleaseIntent
  /\ burnAttestor \in Attestors \union {ZeroAddress}
  /\ maxAttestedReleaseOf \in [Tokens -> Nat]
  /\ balanceOf \in [Tokens -> Nat] /\ released \in [Tokens -> Nat]

\* initialize.  The chain is deployed beside it and grants nothing yet.
VaultInit ==
  /\ chains = [c \in Chains |-> NewChain]
  /\ transferChain = NoChain /\ NATIVE_WRAPPER = NoToken
  /\ accepted = {} /\ paused = FALSE
  /\ burnAttestor = ZeroAddress
  /\ maxAttestedReleaseOf = [t \in Tokens |-> 0]
  /\ lockedOf = [t \in Tokens |-> 0] /\ nextClaimIdOf = [t \in Tokens |-> 0]
  /\ releasedClaims = [t \in Tokens |-> {}] /\ consumedIntents = {}
  /\ balanceOf = [t \in Tokens |-> 0] /\ released = [t \in Tokens |-> 0]

----------------------------------------------------------------------------
(* Locking.                                                                *)

\* The shared tail of both locks.  A recipient that names no account is
\* refused by MinaAddressLib.unpack.
_record(token, received, recipient) ==
  /\ received # 0
  /\ received <= MaxUint64
  /\ transferChain # NoChain
  /\ recipient \in MinaKeys
  /\ CanAppend(chains[transferChain], Vault, token, received)
  /\ nextClaimIdOf' = [nextClaimIdOf EXCEPT ![token] = @ + 1]
  /\ lockedOf' = [lockedOf EXCEPT ![token] = @ + received]
  /\ chains' = [chains EXCEPT ![transferChain] =
                  Appended(@, token, recipient, received)]

\* Altered lock: what was asked for is credited, not what arrived.
LockAsked(token, amount, received, recipient) ==
  /\ ~paused
  /\ amount # 0
  /\ token \in accepted
  /\ received <= amount
  /\ balanceOf' = [balanceOf EXCEPT ![token] = @ + received]
  /\ _record(token, amount, recipient)
  /\ UNCHANGED <<settingVars, replayVars, released>>

\* received is the change of the vault's balance: a token that charges on
\* transfer delivers less than it was asked for.
lock(token, amount, received, recipient) ==
  /\ ~paused
  /\ amount # 0
  /\ token \in accepted
  /\ received <= amount
  /\ balanceOf' = [balanceOf EXCEPT ![token] = @ + received]
  /\ _record(token, received, recipient)
  /\ UNCHANGED <<settingVars, replayVars, released>>

\* wrap refuses an amount with dust.
lockNative(value, recipient) ==
  /\ ~paused
  /\ value # 0
  /\ NATIVE_WRAPPER \in accepted
  /\ value % SCALE = 0
  /\ balanceOf' = [balanceOf EXCEPT ![NATIVE_WRAPPER] = @ + (value \div SCALE)]
  /\ _record(NATIVE_WRAPPER, value \div SCALE, recipient)
  /\ UNCHANGED <<settingVars, replayVars, released>>

\* Anyone may send the vault tokens.
Donate(token, amount) ==
  /\ balanceOf' = [balanceOf EXCEPT ![token] = @ + amount]
  /\ UNCHANGED <<chains, lockVars, settingVars, replayVars, released>>

----------------------------------------------------------------------------
(* Releasing.                                                              *)

\* Altered PayOut: the lock is not debited.
PayOutUndebited(token, amount) ==
  /\ lockedOf[token] >= amount
  /\ balanceOf[token] >= amount
  /\ balanceOf' = [balanceOf EXCEPT ![token] = @ - amount]
  /\ released' = [released EXCEPT ![token] = @ + amount]
  /\ UNCHANGED <<chains, lockVars>>

\* Altered PayOut: what the vault holds is paid, locked or not.
PayOutUnlocked(token, amount) ==
  /\ balanceOf[token] >= amount
  /\ lockedOf' = [lockedOf EXCEPT ![token] = @ - amount]
  /\ balanceOf' = [balanceOf EXCEPT ![token] = @ - amount]
  /\ released' = [released EXCEPT ![token] = @ + amount]
  /\ UNCHANGED <<chains, nextClaimIdOf>>

\* The debit and the transfer that end every release.
PayOut(token, amount) ==
  /\ lockedOf[token] >= amount
  /\ balanceOf[token] >= amount
  /\ lockedOf' = [lockedOf EXCEPT ![token] = @ - amount]
  /\ balanceOf' = [balanceOf EXCEPT ![token] = @ - amount]
  /\ released' = [released EXCEPT ![token] = @ + amount]
  /\ UNCHANGED <<chains, nextClaimIdOf>>

\* Called by the owner, acting on an attestation of a burn.
release(claimId, token, recipient, amount) ==
  /\ ~paused
  /\ amount # 0 /\ recipient # ZeroAddress
  /\ claimId \notin releasedClaims[token]
  /\ releasedClaims' = [releasedClaims EXCEPT ![token] = @ \union {claimId}]
  /\ PayOut(token, amount)
  /\ UNCHANGED <<settingVars, consumedIntents>>

\* The same for a native lock, which goes home as the coin.
releaseNative(claimId, recipient, amount) ==
  /\ NATIVE_WRAPPER # NoToken
  /\ release(claimId, NATIVE_WRAPPER, recipient, amount)

\* The holder's signature is over the intent and an expiry; one that has run
\* out is signed again, for the same intent.  signer has signed the digest.
releaseWithMinaSignature(intent, signer) ==
  /\ ~paused
  /\ intent.amount # 0 /\ intent.recipient # ZeroAddress
  /\ burnAttestor # ZeroAddress
  /\ intent.amount <= maxAttestedReleaseOf[intent.token]
  /\ intent \notin consumedIntents
  /\ signer = burnAttestor
  /\ consumedIntents' = consumedIntents \union {intent}
  /\ PayOut(intent.token, intent.amount)
  /\ UNCHANGED <<settingVars, releasedClaims>>

----------------------------------------------------------------------------
(* Administration.                                                         *)

valueVars == <<lockVars, replayVars, balanceOf, released>>

setTransferChain(chain) ==
  /\ transferChain' = chain
  /\ UNCHANGED <<chains, valueVars, accepted, NATIVE_WRAPPER, paused, burnAttestor,
                 maxAttestedReleaseOf>>

setNativeRoute(wrapper) ==
  /\ NATIVE_WRAPPER' = wrapper
  /\ UNCHANGED <<chains, valueVars, transferChain, accepted, paused, burnAttestor,
                 maxAttestedReleaseOf>>

setAccepted(token, value) ==
  /\ accepted' = IF value THEN accepted \union {token} ELSE accepted \ {token}
  /\ UNCHANGED <<chains, valueVars, transferChain, NATIVE_WRAPPER, paused, burnAttestor,
                 maxAttestedReleaseOf>>

setBurnAttestor(attestor) ==
  /\ burnAttestor' = attestor
  /\ UNCHANGED <<chains, valueVars, transferChain, accepted, NATIVE_WRAPPER, paused,
                 maxAttestedReleaseOf>>

setMaxAttestedRelease(token, maxPerRelease) ==
  /\ maxAttestedReleaseOf' = [maxAttestedReleaseOf EXCEPT ![token] = maxPerRelease]
  /\ UNCHANGED <<chains, valueVars, transferChain, accepted, NATIVE_WRAPPER, paused,
                 burnAttestor>>

SetPaused(value) ==
  /\ paused' = value
  /\ UNCHANGED <<chains, valueVars, transferChain, accepted, NATIVE_WRAPPER,
                 burnAttestor, maxAttestedReleaseOf>>

\* setAppender on the chain, and another bridge recording a transfer in it.
ChainSetAppender(chain, appender, token, allowed) ==
  /\ chains' = [chains EXCEPT ![chain] = SetAppender(@, appender, token, allowed)]
  /\ UNCHANGED <<valueVars, settingVars>>

ForeignAppend(chain, appender, token, recipient, amount) ==
  /\ appender # Vault
  /\ CanAppend(chains[chain], appender, token, amount)
  /\ chains' = [chains EXCEPT ![chain] = Appended(@, token, recipient, amount)]
  /\ UNCHANGED <<valueVars, settingVars>>
=============================================================================
