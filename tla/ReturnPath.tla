----------------------------- MODULE ReturnPath -----------------------------
(***************************************************************************)
(* Flare -> Mina, end to end: transfers of every asset are folded into the *)
(* shared chain on Flare, Flare's data connector attests the heads, an     *)
(* attested head is published to the escrow, and the escrow pays its own   *)
(* transfers one by one.  This module is the escrow with the rest of that  *)
(* path around it.                                                         *)
(*                                                                         *)
(* Flare's validator set changes every epoch.  signed[p] is how much of    *)
(* the chain there was when policy p was last in force: those are the      *)
(* heads a round under p can attest.  A weight of RequiredWeight under a   *)
(* policy that was Flare's is taken to sign only what happened; everything *)
(* else may be attested too, and has to be refused.                        *)
(***************************************************************************)
EXTENDS MinaEscrow, FiniteSetsExt

CONSTANTS
  Transfers,         \* what bridges record: token, recipient and amount
  ForgedRecords,     \* records no bridge recorded
  DepositInputs,     \* arguments of deposit
  LastPolicy,        \* Policies is 1 .. LastPolicy, in order of epoch
  MaxTransfers,      \* bound on the chain
  MaxDeposits,       \* bound on the deposits
  MaxStrays          \* bound on publications of a head that is not the newest

ASSUME ReturnPathAssumption ==
  /\ Transfers \subseteq [token : Tokens, recipient : MinaKeys,
                          amount : (1 .. MaxUint64)]
  /\ ForgedRecords \subseteq TransferRecord
  /\ DepositInputs \subseteq [sender : MinaKeys, nonce : Nat,
                              amount : (0 .. MaxUint64),
                              flareRecipient : FlareAddresses \union OtherFields]
  /\ LastPolicy \in Nat \ {0} /\ Policies = 1 .. LastPolicy /\ NoPolicy = 0
  /\ MaxTransfers \in Nat /\ MaxDeposits \in Nat /\ MaxStrays \in Nat

VARIABLES
  chain,     \* the TransferChain deployment that FlareChain names
  policy,    \* Flare's signing policy in force
  signed,    \* per policy, the number of transfers its rounds can attest
  strays     \* publications so far of a head that was not the newest

pathVars == <<chain, policy, signed, strays>>
vars == <<escrowVars, pathVars>>

----------------------------------------------------------------------------
(* Proofs that exist.                                                      *)

HeadAt(n) == SubSeq(chain.head, 1, n)

\* The heads of the chain, and heads only a forger would prove about.
GenuineHeads == {HeadAt(n) : n \in 0 .. Len(chain.head)}
KnownHeads ==
  GenuineHeads \union {applyTransfer(h, r) : h \in GenuineHeads, r \in ForgedRecords}

Attested(head, p) ==
  [actionState |-> head, emitter |-> FlareChain, policy |-> p,
   weight |-> RequiredWeight, protocolId |-> FDC_PROTOCOL_ID]

\* What happened: a head the chain had while the policy was in force.
SoundAttestations ==
  UNION {{Attested(HeadAt(n), p) : n \in 1 .. signed[p]} : p \in Policies}

\* What did not: a forged head, and so a weight nobody honest gave, another
\* protocol's round, or another contract's event.
UnsoundAttestations ==
  {a \in [actionState : KnownHeads \ GenuineHeads, emitter : Emitters,
          policy : Policies, weight : {0, RequiredWeight},
          protocolId : ProtocolIds] :
     \/ a.weight < RequiredWeight
     \/ a.protocolId # FDC_PROTOCOL_ID
     \/ a.emitter # FlareChain}

Attestations == SoundAttestations \union UnsoundAttestations

----------------------------------------------------------------------------
(* Flare.                                                                  *)

Unpaid == {i \in DOMAIN chain.head : /\ chain.head[i].token = EscrowToken
                                     /\ i > Len(processedActionState)}

UnpaidAmount == MapThenSumSet(LAMBDA i : chain.head[i].amount, Unpaid)

\* A bridge records a transfer.  FMINA can only be burned while the escrow
\* backs it (FlareBridge, and Bridge for the two sides together).
Record(t) ==
  /\ chain.nextIndex < MaxTransfers
  /\ t.token = EscrowToken => UnpaidAmount + t.amount <= balance
  /\ chain' = Appended(chain, t.token, t.recipient, t.amount)
  /\ signed' = [signed EXCEPT ![policy] = Len(chain.head) + 1]
  /\ UNCHANGED <<escrowVars, policy, strays>>

\* A new epoch: the same chain, another validator set.
RotatePolicy ==
  /\ policy < LastPolicy
  /\ policy' = policy + 1
  /\ signed' = [signed EXCEPT ![policy + 1] = Len(chain.head)]
  /\ UNCHANGED <<escrowVars, chain, strays>>

----------------------------------------------------------------------------
(* Mina.                                                                   *)

SetPolicy ==
  /\ signingPolicyRoot # policy
  /\ setSigningPolicyRoot(policy)
  /\ UNCHANGED pathVars

Deposit ==
  /\ Len(actionState) < MaxDeposits
  /\ \E d \in DepositInputs : deposit(d.sender, d.nonce, d.flareRecipient, d.amount)
  /\ UNCHANGED pathVars

\* The relayer carries the head of the chain (publish in transfers.ts).
PublishHead ==
  /\ flareActionState # chain.head
  /\ \E a \in Attestations : /\ a.actionState = chain.head
                             /\ publishFlareActionState(a)
  /\ UNCHANGED pathVars

\* Anyone may publish what any attestation says.
PublishOther ==
  /\ strays < MaxStrays
  /\ \E a \in Attestations : /\ a.actionState # chain.head
                             /\ publishFlareActionState(a)
  /\ strays' = strays + 1
  /\ UNCHANGED <<chain, policy, signed>>

Release ==
  /\ \E from, to \in KnownHeads, token \in Tokens :
       /\ Extends(to, from)
       /\ \E i \in DOMAIN to :
            LET segment == FoundSegment(from, to, token, i)
            IN  /\ FirstOfToken(segment, i)
                /\ releaseWithdrawal(segment)
  /\ UNCHANGED pathVars

----------------------------------------------------------------------------
Init ==
  /\ EscrowInit
  /\ chain = NewChain
  /\ policy = 1
  /\ signed = [p \in Policies |-> 0]
  /\ strays = 0

Next ==
  \/ \E t \in Transfers : Record(t)
  \/ RotatePolicy \/ SetPolicy \/ Deposit \/ PublishHead \/ PublishOther \/ Release

Spec == Init /\ [][Next]_vars

\* The relayer's loops retry for ever: the publisher rotates the root and
\* publishes the head as long as the escrow is behind (publish in transfers.ts,
\* handlePublish in worker.ts), the releaser as long as something is payable
\* (release in withdrawals.ts).  Nobody has to burn, deposit or rotate.
FairSpec == /\ Spec
            /\ WF_vars(SetPolicy) /\ WF_vars(PublishHead) /\ WF_vars(Release)

----------------------------------------------------------------------------
(* Properties.                                                             *)

(* Every variable stays in its type.                                        *)
TypeOK ==
  /\ signingPolicyRoot \in Policies \union {NoPolicy}
  /\ flareActionState \in Heads /\ processedActionState \in Heads
  /\ balance \in Nat
  /\ actionState \in Seq(DepositAction)
  /\ withdrawals \in Seq(Withdrawal)
  /\ chain \in ChainState
  /\ policy \in Policies
  /\ signed \in [Policies -> Nat]
  /\ strays \in Nat

(* What the escrow has accepted and how far it has paid are heads Flare's   *)
(* chain really had: no attestation it takes and no segment it follows      *)
(* leads off the chain.                                                     *)
OnTheChain ==
  /\ Extends(chain.head, flareActionState)
  /\ Extends(chain.head, processedActionState)

(* The FMINA transfers below the escrow's cursor are exactly the ones it    *)
(* has paid, each once, in order, to its recipient and in full; none above  *)
(* the cursor has been paid.                                                *)
PaidExactlyBelowCursor ==
  /\ \A n \in DOMAIN withdrawals :
       LET w == withdrawals[n]
       IN  /\ w.at \in 1 .. Len(processedActionState)
           /\ chain.head[w.at].token = EscrowToken
           /\ chain.head[w.at].recipient = w.recipient
           /\ chain.head[w.at].amount = w.amount
  /\ \A m, n \in DOMAIN withdrawals : m < n => withdrawals[m].at < withdrawals[n].at
  /\ \A i \in 1 .. Len(processedActionState) :
       chain.head[i].token = EscrowToken =>
         \E n \in DOMAIN withdrawals : withdrawals[n].at = i

(* The doc of flareActionState: "Append-only, so a newer state contains     *)
(* every older one and publishing strands nothing."  TLC refutes it in      *)
(* MCReturnPath (README, 4): an older head may be published after a newer.  *)
AppendOnly == [][Extends(flareActionState', flareActionState)]_vars

(* The cursor never returns to a transfer it has passed.                    *)
CursorAdvances ==
  [][processedActionState' # processedActionState =>
       /\ Extends(processedActionState', processedActionState)
       /\ Len(processedActionState') > Len(processedActionState)]_vars

\* The refinement mapping to WithdrawalQueue: what the chain owes the escrow's
\* holders, and what the escrow has paid.
Request(r) == [recipient |-> r.recipient, amount |-> r.amount]
OwedAt == {i \in DOMAIN chain.head : chain.head[i].token = EscrowToken}
PlaceOf(i) == Cardinality({j \in OwedAt : j <= i})
OwedIn(n) == CHOOSE i \in OwedAt : PlaceOf(i) = n
Owed == [n \in 1 .. Cardinality(OwedAt) |-> Request(chain.head[OwedIn(n)])]
Paid == [n \in DOMAIN withdrawals |-> Request(withdrawals[n])]

Queue == INSTANCE WithdrawalQueue
           WITH Recipients <- MinaKeys, Amounts <- 1 .. MaxUint64,
                MaxOwed <- MaxTransfers, owed <- Owed, paid <- Paid,
                fund <- balance

(* The whole path is a queue: every payment is the oldest request that has  *)
(* not been paid, made from the fund that deposits fill, whatever is proven *)
(* to the escrow and whoever publishes.                                     *)
ImplementsQueue == Queue!Safety

(* A publication that goes back does not strand a burn for good: a burn is  *)
(* eventually paid whatever heads were published in between and however     *)
(* often Flare's policy rotated.                                            *)
EveryBurnIsPaid == Queue!EveryRequestIsPaid
=============================================================================
