---------------------------- MODULE FlareBridge ----------------------------
(***************************************************************************)
(* The Flare side of the FMINA rail: MinaPortBridge.sol with its token     *)
(* FMINA.sol, and the deployments of TransferChain.sol it may be pointed   *)
(* at.  One action per external function that changes state; a revert is a *)
(* disabled action.  The EVM runs one transaction at a time and every      *)
(* value-moving function is nonReentrant, so a function is one step.       *)
(*                                                                         *)
(* Digests are collision free: a deposit leaf and a deposit intent are     *)
(* both modelled by the fields they hash, a Merkle root by the set of      *)
(* leaves under it, and a signature by what it signs and under which key.  *)
(***************************************************************************)
EXTENDS TransferChain, FiniteSets, FiniteSetsExt

CONSTANTS
  Accounts,             \* Flare addresses that hold FMINA
  ZeroAddress,          \* address(0), for an account, attestor or verifier
  FMina,                \* the token's address
  BridgeAddress,        \* this contract's address, as an appender
  Chains,               \* deployments of TransferChain
  NoChain,              \* the unset transferChain
  Deposits,             \* the deposits that are ever signed or batched
  Expiries,             \* expiry timestamps a depositor signs
  Attestors,            \* attestor keys
  BurnAmounts,          \* amounts passed to burnToMina and to transfer
  MinaWords,            \* recipient words passed to burnToMina
  Verifiers,            \* settlement verifiers
  Accepts,              \* the public values each verifier has a proof for
  BridgeId,             \* the zkApp and network this bridge serves
  GenesisActionState,
  ActionStates,
  FirstVerifier,
  VerifierChoices,      \* verifiers the owner may propose
  DefaultLimits,        \* the two ceilings set by initialize
  LimitChoices,         \* ceilings the owner may propose or lower to
  Grants,               \* what the owner of a chain grants in setAppender
  ForeignTransfers,     \* what another appender records on a chain
  UpdateDelay,          \* VERIFIER_UPDATE_DELAY
  MaxTime, MaxTransfers \* bounds: the clock, and the records of one chain

Limits == [maxPerDeposit : Nat, cumulativeCap : Nat]
NoLimits == [maxPerDeposit |-> 0, cumulativeCap |-> 0]

Deposit == [sender : MinaKeys, recipient : Accounts \union {ZeroAddress},
            amount : Nat, nonce : Nat]

PublicValues ==
  [proofValid : BOOLEAN, bridgeId : {BridgeId, "other"},
   previousActionState : ActionStates, newActionState : ActionStates,
   batchNonce : Nat, depositsRoot : SUBSET Deposits]

ASSUME FlareBridgeAssumption ==
  /\ FMina \in Tokens /\ BridgeAddress \in Appenders
  /\ ZeroAddress \notin Accounts \union Attestors \union Verifiers
  /\ NoChain \notin Chains
  /\ IsFiniteSet(Accounts) /\ IsFiniteSet(Chains)
  /\ Deposits \subseteq Deposit
  /\ Expiries \subseteq Nat /\ BurnAmounts \subseteq Nat
  /\ FirstVerifier \in Verifiers /\ VerifierChoices \subseteq Verifiers
  /\ Accepts \in [Verifiers -> SUBSET PublicValues]
  /\ GenesisActionState \in ActionStates
  /\ DefaultLimits \in Limits /\ LimitChoices \subseteq Limits
  \* "The escrow may only record FMINA; the vault only the tokens it accepts."
  /\ Grants \subseteq Appenders \X Tokens
  /\ \A g \in Grants : g[2] = FMina => g[1] = BridgeAddress
  /\ ForeignTransfers \subseteq
       [appender : Appenders \ {BridgeAddress}, token : Tokens,
        recipient : MinaKeys, amount : Nat]
  /\ UpdateDelay \in Nat \ {0} /\ MaxTime \in Nat /\ MaxTransfers \in Nat

VARIABLES
  chains,                   \* the TransferChain deployments
  transferChain, nextWithdrawalNonce, processedWithdrawalNonces,
  balanceOf, totalSupply,   \* FMINA
  escrowedNanomina,
  currentMinaActionState, lastBatchNonce, acceptedDepositRoots,
  claimedDeposits,
  escrowAttestor, consumedIntents, attestedMintedNanomina,
  limits, pendingLimits, limitsUpdateReadyAt,
  verifier, pendingVerifier, verifierUpdateReadyAt,
  paused,
  now,                      \* block.timestamp, in units of which one is > 0
  raiseProposals,           \* history: every raise proposed, and when
  rotationProposals         \* history: every verifier proposed, and when

withdrawalVars == <<transferChain, nextWithdrawalNonce, processedWithdrawalNonces>>
tokenVars      == <<balanceOf, totalSupply, escrowedNanomina>>
settlementVars == <<currentMinaActionState, lastBatchNonce, acceptedDepositRoots>>
attestedVars   == <<consumedIntents, attestedMintedNanomina>>
limitVars      == <<limits, pendingLimits, limitsUpdateReadyAt, raiseProposals>>
verifierVars   == <<verifier, pendingVerifier, verifierUpdateReadyAt,
                    rotationProposals>>
flareVars == <<chains, withdrawalVars, tokenVars, settlementVars, claimedDeposits,
               escrowAttestor, attestedVars, limitVars, verifierVars, paused, now>>

----------------------------------------------------------------------------
(* initialize, with transferChain still unset.                             *)
FlareInit ==
  /\ chains = [c \in Chains |-> NewChain]
  /\ transferChain = NoChain
  /\ nextWithdrawalNonce = 0
  /\ processedWithdrawalNonces = {}
  /\ balanceOf = [a \in Accounts |-> 0]
  /\ totalSupply = 0
  /\ escrowedNanomina = 0
  /\ currentMinaActionState = GenesisActionState
  /\ lastBatchNonce = 0
  /\ acceptedDepositRoots = {}
  /\ claimedDeposits = {}
  /\ escrowAttestor = ZeroAddress
  /\ consumedIntents = {}
  /\ attestedMintedNanomina = 0
  /\ limits = DefaultLimits
  /\ pendingLimits = NoLimits
  /\ limitsUpdateReadyAt = 0
  /\ verifier = FirstVerifier
  /\ pendingVerifier = ZeroAddress
  /\ verifierUpdateReadyAt = 0
  /\ paused = FALSE
  /\ now = 1
  /\ raiseProposals = {}
  /\ rotationProposals = {}

----------------------------------------------------------------------------
(* Mina -> Flare, proven batches.                                          *)

\* Altered SubmitDepositBatch: the batch need not start where the last ended.
SubmitOutOfPlace(pv) ==
  /\ ~paused
  /\ pv \in Accepts[verifier]
  /\ pv.proofValid
  /\ pv.bridgeId = BridgeId
  /\ pv.batchNonce = lastBatchNonce + 1
  /\ pv.depositsRoot \notin acceptedDepositRoots
  /\ currentMinaActionState' = pv.newActionState
  /\ lastBatchNonce' = pv.batchNonce
  /\ acceptedDepositRoots' = acceptedDepositRoots \union {pv.depositsRoot}
  /\ UNCHANGED <<chains, withdrawalVars, tokenVars, claimedDeposits, escrowAttestor,
                 attestedVars, limitVars, verifierVars, paused, now>>

\* verifySettlement reverts unless the verifier in force has a proof of pv.
SubmitDepositBatch(pv) ==
  /\ ~paused
  /\ pv \in Accepts[verifier]
  /\ pv.proofValid
  /\ pv.bridgeId = BridgeId
  /\ pv.previousActionState = currentMinaActionState
  /\ pv.batchNonce = lastBatchNonce + 1
  /\ pv.depositsRoot \notin acceptedDepositRoots
  /\ currentMinaActionState' = pv.newActionState
  /\ lastBatchNonce' = pv.batchNonce
  /\ acceptedDepositRoots' = acceptedDepositRoots \union {pv.depositsRoot}
  /\ UNCHANGED <<chains, withdrawalVars, tokenVars, claimedDeposits, escrowAttestor,
                 attestedVars, limitVars, verifierVars, paused, now>>

\* Altered Mint: the counter is not raised.
MintUncounted(recipient, amount) ==
  /\ balanceOf' = [balanceOf EXCEPT ![recipient] = @ + amount]
  /\ totalSupply' = totalSupply + amount
  /\ UNCHANGED escrowedNanomina

\* FMINA.mint, with the escrow counter that both callers raise beside it.
Mint(recipient, amount) ==
  /\ escrowedNanomina' = escrowedNanomina + amount
  /\ balanceOf' = [balanceOf EXCEPT ![recipient] = @ + amount]
  /\ totalSupply' = totalSupply + amount

\* Altered ClaimDeposit: the leaf is not marked.
ClaimUnmarked(deposit, depositsRoot) ==
  /\ ~paused
  /\ depositsRoot \in acceptedDepositRoots
  /\ deposit.amount # 0
  /\ deposit.recipient # ZeroAddress
  /\ deposit \notin claimedDeposits
  /\ deposit \in depositsRoot
  /\ Mint(deposit.recipient, deposit.amount)
  /\ UNCHANGED <<chains, withdrawalVars, settlementVars, claimedDeposits,
                 escrowAttestor, attestedVars, limitVars, verifierVars, paused, now>>

ClaimDeposit(deposit, depositsRoot) ==
  /\ ~paused
  /\ depositsRoot \in acceptedDepositRoots
  /\ deposit.amount # 0
  /\ deposit.recipient # ZeroAddress
  /\ deposit \notin claimedDeposits
  /\ deposit \in depositsRoot          \* MerkleProof.verify
  /\ claimedDeposits' = claimedDeposits \union {deposit}
  /\ Mint(deposit.recipient, deposit.amount)
  /\ UNCHANGED <<chains, withdrawalVars, settlementVars, escrowAttestor,
                 attestedVars, limitVars, verifierVars, paused, now>>

----------------------------------------------------------------------------
(* Mina -> Flare, the signature path.  The intent both signatures cover is *)
(* the deposit; the depositor's also covers the expiry.                    *)

ClaimWithMinaSignature(intent, expiry, signer) ==
  /\ ~paused
  /\ intent.amount # 0
  /\ intent.recipient # ZeroAddress
  /\ now <= expiry
  /\ escrowAttestor # ZeroAddress
  /\ intent.amount <= limits.maxPerDeposit
  /\ attestedMintedNanomina + intent.amount <= limits.cumulativeCap
  /\ intent \notin consumedIntents
  /\ signer = escrowAttestor
  /\ consumedIntents' = consumedIntents \union {intent}
  /\ attestedMintedNanomina' = attestedMintedNanomina + intent.amount
  /\ Mint(intent.recipient, intent.amount)
  /\ UNCHANGED <<chains, withdrawalVars, settlementVars, claimedDeposits,
                 escrowAttestor, limitVars, verifierVars, paused, now>>

SetEscrowAttestor(attestor) ==
  /\ escrowAttestor' = attestor
  /\ UNCHANGED <<chains, withdrawalVars, tokenVars, settlementVars, claimedDeposits,
                 attestedVars, limitVars, verifierVars, paused, now>>

----------------------------------------------------------------------------
(* The two ceilings: lowering is immediate, raising waits UpdateDelay.     *)

limitsFrame == <<chains, withdrawalVars, tokenVars, settlementVars, claimedDeposits,
                 escrowAttestor, attestedVars, verifierVars, paused, now>>

LowerAttestedMintLimits(lower) ==
  /\ lower.maxPerDeposit <= limits.maxPerDeposit
  /\ lower.cumulativeCap <= limits.cumulativeCap
  /\ limits' = lower
  /\ UNCHANGED <<pendingLimits, limitsUpdateReadyAt, raiseProposals>>
  /\ UNCHANGED limitsFrame

\* Altered proposal: a second one inherits the wait of the first.
RaiseKeepsTimer(raised) ==
  /\ pendingLimits' = raised
  /\ limitsUpdateReadyAt' = IF limitsUpdateReadyAt = 0 THEN now + UpdateDelay
                                                      ELSE limitsUpdateReadyAt
  /\ raiseProposals' = raiseProposals \union {[limits |-> raised, at |-> now]}
  /\ UNCHANGED limits
  /\ UNCHANGED limitsFrame

ProposeAttestedMintLimitsRaise(raised) ==
  /\ pendingLimits' = raised
  /\ limitsUpdateReadyAt' = now + UpdateDelay
  /\ raiseProposals' = raiseProposals \union {[limits |-> raised, at |-> now]}
  /\ UNCHANGED limits
  /\ UNCHANGED limitsFrame

CancelAttestedMintLimitsRaise ==
  /\ limitsUpdateReadyAt # 0
  /\ pendingLimits' = NoLimits
  /\ limitsUpdateReadyAt' = 0
  /\ UNCHANGED <<limits, raiseProposals>>
  /\ UNCHANGED limitsFrame

ExecuteAttestedMintLimitsRaise ==
  /\ limitsUpdateReadyAt # 0
  /\ now >= limitsUpdateReadyAt
  /\ limits' = pendingLimits
  /\ pendingLimits' = NoLimits
  /\ limitsUpdateReadyAt' = 0
  /\ UNCHANGED raiseProposals
  /\ UNCHANGED limitsFrame

----------------------------------------------------------------------------
(* Flare -> Mina.                                                          *)

\* unpack reverts on a word that names no Mina account, the uint256
\* subtraction on an underflow and burn on a short balance.
BurnToMina(holder, amount, minaRecipient) ==
  /\ ~paused
  /\ amount # 0
  /\ amount <= MaxUint64
  /\ minaRecipient \in MinaKeys
  /\ transferChain # NoChain
  /\ amount <= escrowedNanomina
  /\ amount <= balanceOf[holder]
  /\ LET chain == chains[transferChain]
     IN  /\ chain.nextIndex < MaxTransfers
         /\ CanAppend(chain, BridgeAddress, FMina, amount)
         /\ chains' = [chains EXCEPT ![transferChain] =
                         Appended(chain, FMina, minaRecipient, amount)]
         /\ processedWithdrawalNonces' =
              processedWithdrawalNonces \union {chain.nextIndex}
  /\ nextWithdrawalNonce' = nextWithdrawalNonce + 1
  /\ escrowedNanomina' = escrowedNanomina - amount
  /\ balanceOf' = [balanceOf EXCEPT ![holder] = @ - amount]
  /\ totalSupply' = totalSupply - amount
  /\ UNCHANGED <<transferChain, settlementVars, claimedDeposits, escrowAttestor,
                 attestedVars, limitVars, verifierVars, paused, now>>

SetTransferChain(chain) ==
  /\ transferChain' = chain
  /\ UNCHANGED <<chains, nextWithdrawalNonce, processedWithdrawalNonces, tokenVars,
                 settlementVars, claimedDeposits, escrowAttestor, attestedVars,
                 limitVars, verifierVars, paused, now>>

\* The owner of a chain grants or withdraws an appender.
ChainSetAppender(chain, appender, token, allowed) ==
  /\ chains' = [chains EXCEPT ![chain] = SetAppender(@, appender, token, allowed)]
  /\ UNCHANGED <<withdrawalVars, tokenVars, settlementVars, claimedDeposits,
                 escrowAttestor, attestedVars, limitVars, verifierVars, paused, now>>

\* Another contract (AssetVault._record) folds a transfer of its own.
ForeignAppend(chain, transfer) ==
  /\ chains[chain].nextIndex < MaxTransfers
  /\ CanAppend(chains[chain], transfer.appender, transfer.token, transfer.amount)
  /\ chains' = [chains EXCEPT ![chain] =
                  Appended(@, transfer.token, transfer.recipient, transfer.amount)]
  /\ UNCHANGED <<withdrawalVars, tokenVars, settlementVars, claimedDeposits,
                 escrowAttestor, attestedVars, limitVars, verifierVars, paused, now>>

----------------------------------------------------------------------------
(* Administration, the token's own transfer, and time.                     *)

verifierFrame == <<chains, withdrawalVars, tokenVars, settlementVars,
                   claimedDeposits, escrowAttestor, attestedVars, limitVars,
                   paused, now>>

\* Altered proposal: a second one inherits the wait of the first.
RotationKeepsTimer(newVerifier) ==
  /\ pendingVerifier' = newVerifier
  /\ verifierUpdateReadyAt' = IF pendingVerifier = ZeroAddress
                               THEN now + UpdateDelay ELSE verifierUpdateReadyAt
  /\ rotationProposals' =
       rotationProposals \union {[verifier |-> newVerifier, at |-> now]}
  /\ UNCHANGED verifier
  /\ UNCHANGED verifierFrame

ProposeVerifier(newVerifier) ==
  /\ pendingVerifier' = newVerifier
  /\ verifierUpdateReadyAt' = now + UpdateDelay
  /\ rotationProposals' =
       rotationProposals \union {[verifier |-> newVerifier, at |-> now]}
  /\ UNCHANGED verifier
  /\ UNCHANGED verifierFrame

CancelVerifierUpdate ==
  /\ pendingVerifier # ZeroAddress
  /\ pendingVerifier' = ZeroAddress
  /\ verifierUpdateReadyAt' = 0
  /\ UNCHANGED <<verifier, rotationProposals>>
  /\ UNCHANGED verifierFrame

ExecuteVerifierUpdate ==
  /\ pendingVerifier # ZeroAddress
  /\ now >= verifierUpdateReadyAt
  /\ verifier' = pendingVerifier
  /\ pendingVerifier' = ZeroAddress
  /\ verifierUpdateReadyAt' = 0
  /\ UNCHANGED rotationProposals
  /\ UNCHANGED verifierFrame

SetPaused(stop) ==
  /\ paused # stop
  /\ paused' = stop
  /\ UNCHANGED <<chains, withdrawalVars, tokenVars, settlementVars, claimedDeposits,
                 escrowAttestor, attestedVars, limitVars, verifierVars, now>>

\* Altered Transfer: the balance is not checked.
TransferUnchecked(from, to, amount) ==
  /\ from # to
  /\ balanceOf' = [balanceOf EXCEPT ![from] = @ - amount, ![to] = @ + amount]
  /\ UNCHANGED <<chains, withdrawalVars, totalSupply, escrowedNanomina,
                 settlementVars, claimedDeposits, escrowAttestor, attestedVars,
                 limitVars, verifierVars, paused, now>>

\* ERC20.transfer, not stopped by the bridge's pause.
Transfer(from, to, amount) ==
  /\ from # to
  /\ amount <= balanceOf[from]
  /\ balanceOf' = [balanceOf EXCEPT ![from] = @ - amount, ![to] = @ + amount]
  /\ UNCHANGED <<chains, withdrawalVars, totalSupply, escrowedNanomina,
                 settlementVars, claimedDeposits, escrowAttestor, attestedVars,
                 limitVars, verifierVars, paused, now>>

Tick ==
  /\ now < MaxTime
  /\ now' = now + 1
  /\ UNCHANGED <<chains, withdrawalVars, tokenVars, settlementVars, claimedDeposits,
                 escrowAttestor, attestedVars, limitVars, verifierVars, paused>>

----------------------------------------------------------------------------
\* Everything but the two ways of minting and the burn, whose inputs another
\* module may want to restrict.
Administration ==
  \/ \E attestor \in Attestors \union {ZeroAddress} : SetEscrowAttestor(attestor)
  \/ \E l \in LimitChoices : LowerAttestedMintLimits(l)
  \/ \E l \in LimitChoices : ProposeAttestedMintLimitsRaise(l)
  \/ CancelAttestedMintLimitsRaise
  \/ ExecuteAttestedMintLimitsRaise
  \/ \E chain \in Chains : SetTransferChain(chain)
  \/ \E chain \in Chains, grant \in Grants, allowed \in BOOLEAN :
       ChainSetAppender(chain, grant[1], grant[2], allowed)
  \/ \E v \in VerifierChoices : ProposeVerifier(v)
  \/ CancelVerifierUpdate
  \/ ExecuteVerifierUpdate
  \/ \E stop \in BOOLEAN : SetPaused(stop)

DepositFlows ==
  \/ \E pv \in UNION {Accepts[v] : v \in Verifiers} : SubmitDepositBatch(pv)
  \/ \E deposit \in Deposits, depositsRoot \in acceptedDepositRoots :
       ClaimDeposit(deposit, depositsRoot)
  \/ \E intent \in Deposits, expiry \in Expiries, signer \in Attestors :
       ClaimWithMinaSignature(intent, expiry, signer)

HolderFlows ==
  \/ \E holder \in Accounts, amount \in BurnAmounts, word \in MinaWords :
       BurnToMina(holder, amount, word)
  \/ \E chain \in Chains, transfer \in ForeignTransfers :
       ForeignAppend(chain, transfer)
  \/ \E from, to \in Accounts, amount \in BurnAmounts : Transfer(from, to, amount)

FlareNext == DepositFlows \/ HolderFlows \/ Administration \/ Tick

FlareSpec == FlareInit /\ [][FlareNext]_flareVars

----------------------------------------------------------------------------
(* Properties.                                                             *)

(* Every variable stays in its type: balances, supply and escrow never      *)
(* underflow, and a head is a sequence of well-formed records.              *)
TypeOK ==
  /\ chains \in [Chains -> ChainState]
  /\ transferChain \in Chains \union {NoChain}
  /\ nextWithdrawalNonce \in Nat
  /\ processedWithdrawalNonces \in SUBSET Nat
  /\ balanceOf \in [Accounts -> Nat]
  /\ totalSupply \in Nat /\ escrowedNanomina \in Nat
  /\ currentMinaActionState \in ActionStates
  /\ lastBatchNonce \in Nat
  /\ acceptedDepositRoots \in SUBSET SUBSET Deposits
  /\ claimedDeposits \in SUBSET Deposits
  /\ escrowAttestor \in Attestors \union {ZeroAddress}
  /\ consumedIntents \in SUBSET Deposits
  /\ attestedMintedNanomina \in Nat
  /\ limits \in Limits /\ pendingLimits \in Limits
  /\ limitsUpdateReadyAt \in Nat
  /\ verifier \in Verifiers
  /\ pendingVerifier \in Verifiers \union {ZeroAddress}
  /\ verifierUpdateReadyAt \in Nat
  /\ paused \in BOOLEAN
  /\ now \in Nat
  /\ raiseProposals \in SUBSET [limits : Limits, at : Nat]
  /\ rotationProposals \in SUBSET [verifier : Verifiers, at : Nat]

(* collateralInvariantHolds: the supply of FMINA is what the bridge counts  *)
(* as escrowed, whichever of the three value-moving functions ran.          *)
Collateral == totalSupply = escrowedNanomina

AmountsOf(deposits) == [d \in deposits |-> d.amount]

BurnRecords ==
  {b \in Chains \X (1 .. MaxTransfers) :
     /\ b[2] \in DOMAIN chains[b[1]].head
     /\ chains[b[1]].head[b[2]].token = FMina}

Burned == [b \in BurnRecords |-> chains[b[1]].head[b[2]].amount]

(* Nothing is minted or burned off the books.  The supply is held by the    *)
(* accounts; what was ever minted is the claimed leaves and the consumed    *)
(* intents, each counted once; and what is no longer in supply is in the    *)
(* FMINA records of the chains, which is all Mina will ever be asked for.   *)
EveryMintAndBurnIsAccounted ==
  /\ totalSupply = SumFunction(balanceOf)
  /\ attestedMintedNanomina = SumFunction(AmountsOf(consumedIntents))
  /\ SumFunction(AmountsOf(claimedDeposits)) + attestedMintedNanomina
       = totalSupply + SumFunction(Burned)

(* What the signature path has minted in all fits a cumulative ceiling that *)
(* was there from the start or was announced a full delay ago: no           *)
(* interleaving of raises, cancellations, lowerings and round trips through *)
(* burnToMina gives the attestor key more.                                  *)
AnnouncedCap(cap) ==
  \/ cap <= DefaultLimits.cumulativeCap
  \/ \E p \in raiseProposals : /\ cap <= p.limits.cumulativeCap
                               /\ p.at + UpdateDelay <= now

MintsWereAnnounced == AnnouncedCap(attestedMintedNanomina)

AnnouncedVerifier(v) ==
  \/ v = FirstVerifier
  \/ \E p \in rotationProposals : /\ v = p.verifier
                                  /\ p.at + UpdateDelay <= now

(* Every accepted root was proven to a verifier that was there from the     *)
(* start or that was announced a full delay ago.                            *)
RootsWereProvenToAnnounced ==
  \A root \in acceptedDepositRoots :
    \E v \in Verifiers : /\ AnnouncedVerifier(v)
                         /\ \E pv \in Accepts[v] : pv.depositsRoot = root
============================================================================
