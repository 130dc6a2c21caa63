------------------------------ MODULE AssetRail ------------------------------
(***************************************************************************)
(* The asset rail, both chains and both directions: a token is locked in   *)
(* the vault, the lock is attested and minted on Mina by the token's port, *)
(* the wrapped token moves and is burned, the relayer attests the burn and *)
(* the vault releases the token.                                           *)
(*                                                                         *)
(* Anyone may publish, arm, mint, and call canMint with no mint around it, *)
(* in any order, as the contracts allow.                                   *)
(* A policy that was Flare's signs with RequiredWeight only what happened; *)
(* ReturnPath has its rotations.                                           *)
(***************************************************************************)
EXTENDS ReleaseDesk, Functions

CONSTANTS
  Locks,             \* arguments of lock: token, amount, received, recipient
  NativeLocks,       \* arguments of lockNative: value, recipient
  Foreign,           \* what other bridges record: appender, token, amount, ...
  Donations,         \* tokens somebody gives the vault: token, amount
  Burns,             \* requests to build a burn: sender, recipient, amount
  Amounts,           \* amounts burned and transferred on Mina
  OwnerReleases,     \* arguments of release: claimId, token, recipient, amount
  Grants,            \* what an owner of a chain grants: appender, token
  AcceptChoices, AttestorChoices, LimitChoices, RouteChoices, ChainChoices,
                     \* what the owner of the vault may set
  ForgedRecords,     \* records no bridge recorded
  MaxTransfers,      \* bound on a chain
  MaxRows,           \* bound on the rows and the requests for one
  MaxDonated,        \* bound on what is given
  MaxOutflow         \* bound on what one holder burns and sends away

ASSUME AssetRailAssumption ==
  /\ FlareChain \in Chains /\ IsFiniteSet(Chains) /\ Emitters = Chains
  /\ Locks \subseteq [token : Tokens, amount : Nat, received : Nat,
                      recipient : MinaKeys \union {NoKey}]
  /\ NativeLocks \subseteq [value : Nat, recipient : MinaKeys \union {NoKey}]
  /\ Foreign \subseteq [appender : Appenders, token : Tokens \ {Asset},
                        recipient : MinaKeys, amount : 1 .. MaxUint64]
  /\ Donations \subseteq [token : Tokens, amount : Nat]
  /\ Burns \subseteq [sender : MinaKeys, amount : Nat,
                      recipient : FlareAccounts \union {ZeroAddress}]
  /\ Amounts \subseteq Nat
  /\ OwnerReleases \subseteq [claimId : Nat, token : Tokens, amount : Nat,
                              recipient : FlareAccounts \union {ZeroAddress}]
  /\ Grants \subseteq Appenders \X Tokens
  /\ AcceptChoices \subseteq Tokens
  /\ AttestorChoices \subseteq Attestors \union {ZeroAddress}
  /\ LimitChoices \subseteq Nat
  /\ RouteChoices \subseteq Tokens /\ ChainChoices \subseteq Chains
  /\ ForgedRecords \subseteq TransferRecord
  /\ MaxTransfers \in Nat /\ MaxRows \in Nat
  /\ MaxDonated \in Nat /\ MaxOutflow \in Nat

VARIABLE outflow   \* history: per Mina account, what was burned or sent away

vars == <<vaultVars, assetVars, deskVars, outflow>>

minaVars == <<assetVars, outflow>>

----------------------------------------------------------------------------
(* Flare.                                                                  *)

Room(c) == c # NoChain => chains[c].nextIndex < MaxTransfers

Lock ==
  /\ Room(transferChain)
  /\ \/ \E l \in Locks : lock(l.token, l.amount, l.received, l.recipient)
     \/ \E l \in NativeLocks : lockNative(l.value, l.recipient)
  /\ UNCHANGED <<minaVars, deskVars>>

RecordForeign ==
  /\ \E c \in Chains, f \in Foreign :
       /\ Room(c)
       /\ ForeignAppend(c, f.appender, f.token, f.recipient, f.amount)
  /\ UNCHANGED <<minaVars, deskVars>>

Give ==
  /\ \E d \in Donations : /\ balanceOf[d.token] + d.amount <= lockedOf[d.token] + MaxDonated
                          /\ Donate(d.token, d.amount)
  /\ UNCHANGED <<minaVars, deskVars>>

OwnerRelease ==
  /\ \E r \in OwnerReleases : \/ release(r.claimId, r.token, r.recipient, r.amount)
                              \/ /\ r.token = NATIVE_WRAPPER
                                 /\ releaseNative(r.claimId, r.recipient, r.amount)
  /\ UNCHANGED <<minaVars, deskVars>>

\* An attested row is claimed by its holder or through the relayer, which may
\* not live to write the row.
Claim ==
  /\ \E i \in DOMAIN releases :
       /\ releases[i].status \in {"attested", "released"}
       /\ releaseWithMinaSignature(IntentOf(releases[i]), AttestorKey)
       /\ markReleaseSettled(i) \/ UNCHANGED deskVars
  /\ UNCHANGED minaVars

Administer ==
  /\ \/ \E c \in ChainChoices : setTransferChain(c)
     \/ \E t \in RouteChoices : setNativeRoute(t)
     \/ \E t \in AcceptChoices, value \in BOOLEAN : setAccepted(t, value)
     \/ \E a \in AttestorChoices : setBurnAttestor(a)
     \/ \E t \in Tokens, n \in LimitChoices : setMaxAttestedRelease(t, n)
     \/ \E value \in BOOLEAN : SetPaused(value)
     \/ \E c \in Chains, g \in Grants, allowed \in BOOLEAN :
          ChainSetAppender(c, g[1], g[2], allowed)
  /\ UNCHANGED <<minaVars, deskVars>>

----------------------------------------------------------------------------
(* Mina.                                                                   *)

Attested(head, emitter, p, weight) ==
  [actionState |-> head, emitter |-> emitter, policy |-> p, weight |-> weight,
   protocolId |-> FDC_PROTOCOL_ID]

\* What a chain emitted, and what nobody gave weight to.
SoundAttestations ==
  {Attested(SubSeq(chains[cn[1]].head, 1, cn[2]), cn[1], p, RequiredWeight) :
     cn \in {x \in Chains \X (1 .. MaxTransfers) : x[2] <= Len(chains[x[1]].head)},
     p \in Policies}
UnsoundAttestations ==
  {Attested(applyTransfer(chains[FlareChain].head, r), FlareChain, p, 0) :
     r \in ForgedRecords, p \in Policies}
Attestations == SoundAttestations \union UnsoundAttestations

Port ==
  /\ \/ \E p \in Policies : setSigningPolicyRoot(p)
     \/ \E a \in Attestations : publishFlareLockState(a)
     \/ \E token \in Tokens :
          \E s \in SegmentsFrom(processedLockState, flareLockState, token) :
            authorizeMint(s)
     \/ \E recipient \in MinaKeys, amount \in 1 .. MaxUint64 :
          mint(recipient, amount) \/ canMintAlone(recipient, amount)
  /\ UNCHANGED <<vaultVars, deskVars, outflow>>

Spend ==
  /\ \E holder \in MinaKeys, amount \in Amounts :
       /\ outflow[holder] + amount <= MaxOutflow
       /\ burn(holder, amount) \/ \E to \in MinaKeys : transfer(holder, to, amount)
       /\ outflow' = [outflow EXCEPT ![holder] = @ + amount]
  /\ UNCHANGED <<vaultVars, deskVars>>

----------------------------------------------------------------------------
(* The relayer.                                                            *)

Desk ==
  /\ \/ \E b \in Burns : /\ Len(releases) + Cardinality(builds) < MaxRows
                         /\ ReadForBuild(b.sender, b.recipient, b.amount)
     \/ \E b \in builds : recordRelease(b)
     \/ \E i \in DOMAIN releases : markReleaseSubmitted(i)
     \/ \E k \in MinaKeys : ReadForCheck(k)
     \/ markReleaseAttested \/ reanchorPendingReleases
     \/ Crash
  /\ UNCHANGED <<vaultVars, minaVars>>

Init == /\ VaultInit /\ PortInit /\ DeskInit
        /\ outflow = [k \in MinaKeys |-> 0]

Next == \/ Lock \/ RecordForeign \/ Give \/ OwnerRelease \/ Claim \/ Administer
        \/ Port \/ Spend \/ Desk

Spec == Init /\ [][Next]_vars

----------------------------------------------------------------------------
(* Properties.                                                             *)

(* Every variable stays in its type: no balance and no lock underflows.     *)
TypeOK ==
  VaultTypeOK /\ PortTypeOK /\ DeskTypeOK /\ outflow \in [MinaKeys -> Nat]

(* The invariant AssetVault.sol states: the vault holds at least what it    *)
(* says is locked, of every token, through tokens that charge on transfer,  *)
(* donations, and three ways of releasing with two replay sets.             *)
VaultSolvent == \A t \in Tokens : balanceOf[t] >= lockedOf[t]

(* The port never leaves the chain of the Flare it was deployed for: what   *)
(* it has accepted and minted up to are heads that chain had.               *)
OnTheChain ==
  /\ Extends(chains[FlareChain].head, flareLockState)
  /\ Extends(chains[FlareChain].head, processedLockState)

Armed == mintAuthorization # NO_MINT_AUTHORIZED
Cursor == Len(processedLockState)

(* Every lock of the asset below the port's cursor was armed once, in order, *)
(* and what was armed was spent once, in full and for its recipient, except  *)
(* that the newest may still be armed: so nothing is minted that was not     *)
(* locked, nor twice, whoever mints and clears what (authorizeMint and       *)
(* canMint in AssetPort.ts; the port keeps neither a list nor a count).      *)
MintsFollowLocks ==
  /\ \A n \in DOMAIN spent :
       LET m == spent[n]
       IN  /\ m.at \in 1 .. Cursor
           /\ processedLockState[m.at].token = Asset
           /\ processedLockState[m.at].recipient = m.recipient
           /\ processedLockState[m.at].amount = m.amount
  /\ \A m, n \in DOMAIN spent : m < n => spent[m].at < spent[n].at
  /\ \A i \in 1 .. Cursor :
       processedLockState[i].token = Asset =>
         ((\E n \in DOMAIN spent : spent[n].at = i) <=> ~(i = Cursor /\ Armed))
  /\ Armed => /\ Cursor > 0
              /\ processedLockState[Cursor].token = Asset
              /\ mintAuthorization = mintCommitment(processedLockState[Cursor].recipient,
                                                    processedLockState[Cursor].amount)

\* The locks of the asset on any chain, what each delivers, and those that the
\* port has not come to, on its chain, or never will, on another.
AssetLocks ==
  {l \in Chains \X (1 .. MaxTransfers) :
     /\ l[2] \in DOMAIN chains[l[1]].head
     /\ chains[l[1]].head[l[2]].token = Asset}
LockedAmounts == [l \in AssetLocks |-> chains[l[1]].head[l[2]].amount]
Unreached == {l \in AssetLocks : l[1] # FlareChain \/ l[2] > Cursor}

SpentAmounts == [n \in DOMAIN spent |-> spent[n].amount]
Minted == {n \in DOMAIN spent : spent[n].minted}
Lost == {n \in DOMAIN spent : ~spent[n].minted}

(* What the vault has locked and what it has released account for every      *)
(* wrapped token ever minted, what was armed and cleared with no mint, what  *)
(* is armed, and the locks still waiting, on the port's chain or stranded on *)
(* another one (_record in AssetVault.sol, authorizeMint and canMint in      *)
(* AssetPort.ts).                                                            *)
LocksBackTheToken ==
  lockedOf[Asset] + released[Asset]
    = SumFunctionOnSet(SpentAmounts, Minted) + SumFunctionOnSet(SpentAmounts, Lost)
        + mintAuthorization.amount + SumFunctionOnSet(LockedAmounts, Unreached)

(* No two burns have the same intent: the vault would pay one of them, and  *)
(* the other could never be released (nextReleaseNonceFor is read before    *)
(* the row is inserted).                                                    *)
IntentsDistinct ==
  \A i, j \in DOMAIN releases :
    IntentOf(releases[i]) = IntentOf(releases[j]) => i = j

(* The doc of reanchorPendingReleases (db/index.ts): "Whenever a burn is    *)
(* confirmed, the rest are re-anchored to what is left, so each needs its   *)
(* own further drop."  So what is attested for a holder has left the        *)
(* holder's account.                                                        *)
EachReleaseHasItsDrop ==
  \A k \in MinaKeys :
    MapThenSumSet(LAMBDA i : releases[i].amount,
                  {i \in RowsOf(k) : releases[i].status \in {"attested", "released"}})
      <= outflow[k]
==============================================================================
