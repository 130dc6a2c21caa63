----------------------------- MODULE MinaEscrow -----------------------------
(***************************************************************************)
(* The Mina side of the FMINA rail: the escrow zkApp of MinaPortBridge.ts. *)
(* One action per method.  A method's assertions and the preconditions its *)
(* proof puts on account state are guards: Mina applies a transaction      *)
(* whole, against the state it finds, or not at all.                       *)
(*                                                                         *)
(* A proof handed to a method is modelled by its public output: an         *)
(* AttestedState (FdcAttestation.ts) or a ChainSegment (TransferChain.ts). *)
(***************************************************************************)
EXTENDS Segments

CONSTANTS
  EscrowToken,       \* `token`: FMINA on Flare
  FlareChain,        \* `flareChain`: the TransferChain whose events are taken
  Emitters,          \* contracts an attested event may come from
  Policies,          \* signing-policy roots
  NoPolicy,          \* Field(0): accepts no proof
  ProtocolIds, FDC_PROTOCOL_ID,
  RequiredWeight,    \* `requiredWeight`
  FlareAddresses,    \* field elements that fit in 160 bits
  OtherFields        \* field elements that do not

ASSUME MinaEscrowAssumption ==
  /\ EscrowToken \in Tokens
  /\ FlareChain \in Emitters
  /\ NoPolicy \notin Policies
  /\ FDC_PROTOCOL_ID \in ProtocolIds
  /\ RequiredWeight \in Nat
  /\ FlareAddresses \intersect OtherFields = {}

VARIABLES
  signingPolicyRoot, flareActionState, processedActionState,
  balance,       \* of the zkApp account: receive and send need its proof
  actionState,   \* the deposit actions dispatched, oldest first
  withdrawals    \* history: the payments made, in order, each with the
                 \* position of the cursor it left

escrowVars == <<signingPolicyRoot, flareActionState, processedActionState,
                balance, actionState, withdrawals>>

DepositAction ==
  [nonce : Nat, sender : MinaKeys, flareRecipient : FlareAddresses, amount : Nat]

AttestedState ==
  [actionState : Heads, emitter : Emitters, policy : Policies, weight : Nat,
   protocolId : ProtocolIds]

Withdrawal == [at : Nat, recipient : MinaKeys \union {NoKey}, amount : Nat]

\* deploy and init.
EscrowInit ==
  /\ signingPolicyRoot = NoPolicy
  /\ flareActionState = EmptyHead
  /\ processedActionState = EmptyHead
  /\ balance = 0
  /\ actionState = << >>
  /\ withdrawals = << >>

\* Altered setSigningPolicyRoot: the root can be set only once.
SetPolicyOnce(root) ==
  /\ signingPolicyRoot = NoPolicy
  /\ signingPolicyRoot' = root
  /\ UNCHANGED <<flareActionState, processedActionState, balance, actionState,
                 withdrawals>>

\* Signed by the admin key.
setSigningPolicyRoot(root) ==
  /\ signingPolicyRoot' = root
  /\ UNCHANGED <<flareActionState, processedActionState, balance, actionState,
                 withdrawals>>

\* Altered deposit: the recipient's range is not checked.
DepositUnranged(sender, nonce, flareRecipient, amount) ==
  /\ amount > 0
  /\ balance' = balance + amount
  /\ actionState' = Append(actionState,
       [nonce |-> nonce, sender |-> sender, flareRecipient |-> flareRecipient,
        amount |-> amount])
  /\ UNCHANGED <<signingPolicyRoot, flareActionState, processedActionState,
                 withdrawals>>

\* Signed by the sender, whose balance the network checks.
deposit(sender, nonce, flareRecipient, amount) ==
  /\ amount > 0
  /\ flareRecipient \in FlareAddresses
  /\ balance' = balance + amount
  /\ actionState' = Append(actionState,
       [nonce |-> nonce, sender |-> sender, flareRecipient |-> flareRecipient,
        amount |-> amount])
  /\ UNCHANGED <<signingPolicyRoot, flareActionState, processedActionState,
                 withdrawals>>

\* Altered Publishable: an event of any contract is taken.
PublishableFromAnyone(attested) ==
  /\ attested.policy = signingPolicyRoot
  /\ attested.weight >= RequiredWeight
  /\ attested.protocolId = FDC_PROTOCOL_ID

\* What the public output of an attestation must say to be taken.
Publishable(attested) ==
  /\ attested.policy = signingPolicyRoot
  /\ attested.weight >= RequiredWeight
  /\ attested.protocolId = FDC_PROTOCOL_ID
  /\ attested.emitter = FlareChain

publishFlareActionState(attested) ==
  /\ Publishable(attested)
  /\ flareActionState' = attested.actionState
  /\ UNCHANGED <<signingPolicyRoot, processedActionState, balance, actionState,
                 withdrawals>>

\* Altered Payable: the segment may start anywhere; the payment need not be
\* covered.
PayableFromAnywhere(segment) ==
  /\ segment.token = EscrowToken
  /\ segment.to = flareActionState
  /\ segment.found
  /\ segment.firstAmount > 0
  /\ segment.firstAmount <= balance
PayableUncovered(segment) ==
  /\ segment.token = EscrowToken
  /\ segment.from = processedActionState
  /\ segment.to = flareActionState
  /\ segment.found
  /\ segment.firstAmount > 0

\* What the public output of a segment must say to be paid.  The last line is
\* the precondition `balance.requireBetween`.
Payable(segment) ==
  /\ segment.token = EscrowToken
  /\ segment.from = processedActionState
  /\ segment.to = flareActionState
  /\ segment.found
  /\ segment.firstAmount > 0
  /\ segment.firstAmount <= balance

PaymentOf(segment) ==
  [at |-> Len(segment.stateAfterFirst),
   recipient |-> segment.firstRecipient, amount |-> segment.firstAmount]

\* Altered releaseWithdrawal: the cursor goes to the head that was published;
\* the cursor stays; the payment leaves the balance.
ReleaseToHead(segment) ==
  /\ Payable(segment)
  /\ processedActionState' = segment.to
  /\ balance' = balance - segment.firstAmount
  /\ withdrawals' = Append(withdrawals, PaymentOf(segment))
  /\ UNCHANGED <<signingPolicyRoot, flareActionState, actionState>>
ReleaseInPlace(segment) ==
  /\ Payable(segment)
  /\ balance' = balance - segment.firstAmount
  /\ withdrawals' = Append(withdrawals, PaymentOf(segment))
  /\ UNCHANGED <<signingPolicyRoot, flareActionState, processedActionState,
                 actionState>>
ReleaseUndebited(segment) ==
  /\ Payable(segment)
  /\ processedActionState' = segment.stateAfterFirst
  /\ withdrawals' = Append(withdrawals, PaymentOf(segment))
  /\ UNCHANGED <<signingPolicyRoot, flareActionState, balance, actionState>>

releaseWithdrawal(segment) ==
  /\ Payable(segment)
  /\ processedActionState' = segment.stateAfterFirst
  /\ balance' = balance - segment.firstAmount
  /\ withdrawals' = Append(withdrawals, PaymentOf(segment))
  /\ UNCHANGED <<signingPolicyRoot, flareActionState, actionState>>
============================================================================
