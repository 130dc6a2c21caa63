------------------------------- MODULE Bridge -------------------------------
(***************************************************************************)
(* The FMINA rail as one system: the Flare contracts (FlareBridge), the    *)
(* Mina escrow (MinaEscrow), the watcher that attests deposits for the     *)
(* signature path (watcher.ts), and the two messengers between the chains  *)
(* that cannot lie: a settlement proof about Mina and a connector          *)
(* attestation about Flare.  ReturnPath looks at the second in detail,     *)
(* with wrong attestations and rotating signers; here every published head *)
(* is one that Flare's chain had.                                          *)
(*                                                                         *)
(* Nothing ties the two deposit paths together: a deposit is what Mina's   *)
(* action says, and the contract keys proven claims by the leaf and signed *)
(* claims by the intent.                                                   *)
(***************************************************************************)
EXTENDS FlareBridge, MinaEscrow

CONSTANTS
  WatcherKey,   \* ATTESTOR_PRIVATE_KEY
  MIN_ATTESTED, MAX_ATTESTED,
  NoAccount,    \* the node knows no such account: accountState gives null
  BlindReadings, \* {NoAccount} if that can happen, else {}
  MaxActions    \* bound on the deposits Mina dispatches

ASSUME BridgeAssumption ==
  /\ EscrowToken = FMina
  /\ FlareChain \in Chains
  /\ FlareAddresses = Accounts \union {ZeroAddress}
  /\ WatcherKey \in Attestors
  /\ ActionStates = Seq(Deposits) /\ GenesisActionState = << >>
  /\ BlindReadings \subseteq {NoAccount}
  /\ MIN_ATTESTED \in Nat \ {0} /\ MAX_ATTESTED \in Nat
  /\ MaxActions \in Nat

VARIABLES
  polled,     \* the escrow balance the watcher read last
  attested    \* the intents it has signed

watcherVars == <<polled, attested>>
bridgeVars == <<flareVars, escrowVars, watcherVars>>

----------------------------------------------------------------------------
(* What the messengers say.                                                *)

\* The Flare form of a deposit action.
Leaf(action) == [sender |-> action.sender, recipient |-> action.flareRecipient,
                 amount |-> action.amount, nonce |-> action.nonce]

Dispatched == [i \in DOMAIN actionState |-> Leaf(actionState[i])]

\* A settlement proof is about a stretch of the actions Mina has dispatched.
BatchOf(from, to, nonce) ==
  [proofValid |-> TRUE, bridgeId |-> BridgeId, batchNonce |-> nonce,
   previousActionState |-> SubSeq(Dispatched, 1, from),
   newActionState |-> SubSeq(Dispatched, 1, to),
   depositsRoot |-> {Dispatched[i] : i \in (from + 1) .. to}]

SoundBatches ==
  UNION {{BatchOf(from, to, nonce) : from \in 0 .. to, nonce \in 1 .. MaxActions}
           : to \in DOMAIN Dispatched}

\* A connector attestation is about a head the chain has had.
FlareHeads ==
  LET head == chains[FlareChain].head
  IN  {SubSeq(head, 1, n) : n \in 0 .. Len(head)}

----------------------------------------------------------------------------
(* The watcher's tick: the balance is read once, over the network, and the *)
(* deposits in the database are then signed one by one against it.  The    *)
(* rows come from wallets that say they have broadcast; whether a deposit  *)
(* landed is not looked at.  A node that does not know the account (or no  *)
(* MINA_BRIDGE_ACCOUNT to ask for) leaves nothing to compare with.         *)

Poll ==
  /\ polled' \in {balance} \union BlindReadings
  /\ UNCHANGED <<flareVars, escrowVars, attested>>

Attest(row) ==
  /\ row \notin attested
  /\ MIN_ATTESTED <= row.amount /\ row.amount <= MAX_ATTESTED   \* withinPolicy
  /\ polled # NoAccount => row.amount <= polled
  /\ attested' = attested \union {row}
  /\ UNCHANGED <<flareVars, escrowVars, polled>>

----------------------------------------------------------------------------
(* The two chains.                                                         *)

FlareStep ==
  /\ \/ \E pv \in SoundBatches : SubmitDepositBatch(pv)
     \/ \E leaf \in Deposits, depositsRoot \in acceptedDepositRoots :
          ClaimDeposit(leaf, depositsRoot)
     \/ \E intent \in attested, expiry \in Expiries :
          ClaimWithMinaSignature(intent, expiry, WatcherKey)
     \/ HolderFlows
     \/ Administration
     \/ Tick
  /\ UNCHANGED <<escrowVars, watcherVars>>

MinaStep ==
  /\ \/ \E root \in Policies : root # signingPolicyRoot /\ setSigningPolicyRoot(root)
     \/ /\ Len(actionState) < MaxActions
        /\ \E d \in Deposits : deposit(d.sender, d.nonce, d.recipient, d.amount)
     \/ \E head \in FlareHeads \ {EmptyHead, flareActionState} :
          publishFlareActionState(
            [actionState |-> head, emitter |-> FlareChain,
             policy |-> signingPolicyRoot, weight |-> RequiredWeight,
             protocolId |-> FDC_PROTOCOL_ID])
     \/ \E segment \in SegmentsFrom(processedActionState, flareActionState, FMina) :
          releaseWithdrawal(segment)
  /\ UNCHANGED <<flareVars, watcherVars>>

BridgeInit == FlareInit /\ EscrowInit /\ polled = 0 /\ attested = {}

BridgeNext == FlareStep \/ MinaStep \/ Poll \/ \E row \in Deposits : Attest(row)

BridgeSpec == BridgeInit /\ [][BridgeNext]_bridgeVars

----------------------------------------------------------------------------
(* Properties.                                                             *)

(* Every variable stays in its type: in particular the escrow never owes a  *)
(* release it cannot represent.                                             *)
BridgeTypeOK ==
  /\ TypeOK
  /\ signingPolicyRoot \in Policies \union {NoPolicy}
  /\ flareActionState \in Heads /\ processedActionState \in Heads
  /\ balance \in Nat
  /\ actionState \in Seq(DepositAction)
  /\ withdrawals \in Seq(Withdrawal)
  /\ polled \in Nat \union {NoAccount}
  /\ attested \in SUBSET Deposits

Unpaid ==
  {b \in BurnRecords : b[1] # FlareChain \/ b[2] > Len(processedActionState)}

\* What holders can still ask of the escrow: the supply, and the burns it has
\* not paid.
Claims == totalSupply + SumFunctionOnSet(Burned, Unpaid)

(* GAP 1 of the threat model, "bounded by": whatever the watcher signs and  *)
(* whichever path a deposit is claimed on, what the holders are owed        *)
(* exceeds what Mina holds by no more than the signature path has minted,   *)
(* which the ceilings bound.                                                *)
ShortfallBounded == Claims <= balance + attestedMintedNanomina

(* The collateral promise in the doc of MinaPortBridge.ts: the escrow's     *)
(* balance is what is held for bridged users, and equals the supply once    *)
(* everything in flight has settled, so it is never short of the claims.    *)
(* TLC refutes it in MCBridge (README, 4): see ShortfallBounded.            *)
EscrowCoversSupply == Claims <= balance

(* Settlement keeps its place: the settled action state is a state Mina     *)
(* had, and the accepted roots hold the deposits up to it, none missed and  *)
(* none from beyond, whoever submits which batch when and whichever         *)
(* verifier is in force.                                                    *)
SettledPrefix ==
  /\ Len(currentMinaActionState) <= Len(Dispatched)
  /\ currentMinaActionState = SubSeq(Dispatched, 1, Len(currentMinaActionState))
  /\ UNION acceptedDepositRoots
       = {currentMinaActionState[i] : i \in DOMAIN currentMinaActionState}

(* The doc of MinaPortEncoding.Deposit: the nonce is "Monotonic, so every   *)
(* deposit leaf is unique even for identical (sender, recipient, amount)".  *)
(* TLC refutes it in MCBridge (README, 4): the depositor chooses the nonce. *)
LeavesUnique ==
  \A i, j \in DOMAIN Dispatched : Dispatched[i] = Dispatched[j] => i = j

(* The header of watcher.ts, "How inclusion is decided": by the depositor's *)
(* nonce having passed and the balance, so what the watcher has signed is   *)
(* in the escrow.  The tick compares one balance with one amount, and TLC   *)
(* refutes it in MCBridge (README, 4).                                      *)
AttestedDepositsLanded ==
  \A row \in attested : \E i \in DOMAIN Dispatched : Dispatched[i] = row
=============================================================================
