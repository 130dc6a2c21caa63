---------------------------- MODULE BridgeProofs ----------------------------
(***************************************************************************)
(* What MinaPortBridge.sol guarantees for every set of accounts, deposits, *)
(* verifiers and ceilings, and however long the clock and the chains are   *)
(* let run; and what the rail it makes with the Mina escrow keeps: all of  *)
(* that, the place of settlement in Mina's deposits, and the bound on what *)
(* the holders may be short of.  An inductive invariant for each, proved   *)
(* one action at a time.                                                   *)
(***************************************************************************)
EXTENDS Bridge, SumTheorems, TLAPS

USE FlareBridgeAssumption, MaxUint64Assumption

USE DEF withdrawalVars, tokenVars, settlementVars, attestedVars, limitVars,
        verifierVars, limitsFrame, verifierFrame

----------------------------------------------------------------------------
(* The books.                                                              *)

\* append keeps a chain well formed.
LEMMA AppendedTyped ==
  ASSUME NEW chain \in ChainState, NEW token \in Tokens,
         NEW recipient \in MinaKeys, NEW amount \in Nat
  PROVE  Appended(chain, token, recipient, amount) \in ChainState
<1> DEFINE record == [index |-> chain.nextIndex, token |-> token,
                      recipient |-> recipient, amount |-> amount]
<1>1. record \in TransferRecord
  BY DEF ChainState, TransferRecord
<1>2. applyTransfer(chain.head, record) \in Heads
  BY <1>1 DEF applyTransfer, Heads, ChainState
<1>3. /\ chain.nextIndex + 1 \in Nat
      /\ chain.mayAppend \in SUBSET (Appenders \X Tokens)
  BY DEF ChainState
<1>4. Appended(chain, token, recipient, amount) =
        [chain EXCEPT !.nextIndex = chain.nextIndex + 1,
                      !.head = applyTransfer(chain.head, record)]
  BY Zenon DEF Appended, ChainState
<1> QED
  BY <1>2, <1>3, <1>4 DEF ChainState

\* setAppender does too.
LEMMA SetAppenderTyped ==
  ASSUME NEW chain \in ChainState, NEW grant \in Appenders \X Tokens,
         NEW allowed \in BOOLEAN
  PROVE  SetAppender(chain, grant[1], grant[2], allowed) \in ChainState
<1>1. <<grant[1], grant[2]>> \in Appenders \X Tokens
  OBVIOUS
<1> QED
  BY <1>1 DEF SetAppender, ChainState

Books == TypeOK /\ Collateral

LEMMA InitBooks == FlareInit => Books
<1> SUFFICES ASSUME FlareInit PROVE Books
  OBVIOUS
<1>1. NewChain \in ChainState
  BY DEF NewChain, ChainState, Heads, EmptyHead
<1>2. NoLimits \in Limits
  BY DEF NoLimits, Limits
<1> QED
  BY <1>1, <1>2 DEF FlareInit, Books, TypeOK, Collateral

\* mint raises the supply and the escrow counter together.
LEMMA MintKeepsBooks ==
  ASSUME Books, NEW leaf \in Deposits, leaf.recipient # ZeroAddress,
         Mint(leaf.recipient, leaf.amount)
  PROVE  /\ balanceOf' \in [Accounts -> Nat]
         /\ totalSupply' \in Nat /\ escrowedNanomina' \in Nat
         /\ Collateral'
<1>1. leaf.recipient \in Accounts /\ leaf.amount \in Nat
  BY DEF Deposit
<1>2. balanceOf[leaf.recipient] + leaf.amount \in Nat
  BY <1>1 DEF Books, TypeOK
<1> QED
  BY <1>1, <1>2 DEF Books, TypeOK, Collateral, Mint

\* The two ways in and the way out.
LEMMA DepositFlowsKeepBooks == Books /\ DepositFlows => Books'
<1> SUFFICES ASSUME Books, DepositFlows PROVE Books'
  OBVIOUS
<1>1. ASSUME NEW pv \in UNION {Accepts[v] : v \in Verifiers},
             SubmitDepositBatch(pv)
      PROVE  Books'
  <2>1. pv \in PublicValues
    OBVIOUS
  <2> QED
    BY <1>1, <2>1 DEF SubmitDepositBatch, Books, TypeOK, Collateral, PublicValues
<1>2. ASSUME NEW leaf \in Deposits, NEW root \in acceptedDepositRoots,
             ClaimDeposit(leaf, root)
      PROVE  Books'
  <2>1. /\ balanceOf' \in [Accounts -> Nat]
        /\ totalSupply' \in Nat /\ escrowedNanomina' \in Nat
        /\ Collateral'
    BY <1>2, MintKeepsBooks DEF ClaimDeposit
  <2> QED
    BY <1>2, <2>1 DEF ClaimDeposit, Books, TypeOK
<1>3. ASSUME NEW intent \in Deposits, NEW expiry \in Expiries,
             NEW signer \in Attestors,
             ClaimWithMinaSignature(intent, expiry, signer)
      PROVE  Books'
  <2>1. /\ balanceOf' \in [Accounts -> Nat]
        /\ totalSupply' \in Nat /\ escrowedNanomina' \in Nat
        /\ Collateral'
    BY <1>3, MintKeepsBooks DEF ClaimWithMinaSignature
  <2>2. attestedMintedNanomina' \in Nat
    BY <1>3 DEF ClaimWithMinaSignature, Books, TypeOK, Deposit
  <2> QED
    BY <1>3, <2>1, <2>2 DEF ClaimWithMinaSignature, Books, TypeOK
<1> QED
  BY <1>1, <1>2, <1>3 DEF DepositFlows

LEMMA HolderFlowsKeepBooks == Books /\ HolderFlows => Books'
<1> SUFFICES ASSUME Books, HolderFlows PROVE Books'
  OBVIOUS
<1>1. ASSUME NEW holder \in Accounts, NEW amount \in BurnAmounts,
             NEW word \in MinaWords, BurnToMina(holder, amount, word)
      PROVE  Books'
  <2>1. /\ transferChain \in Chains /\ word \in MinaKeys /\ amount \in Nat
        /\ chains[transferChain] \in ChainState
    BY <1>1 DEF BurnToMina, Books, TypeOK
  <2>2. Appended(chains[transferChain], FMina, word, amount) \in ChainState
    BY <2>1, AppendedTyped
  <2>3. chains' \in [Chains -> ChainState]
    BY <1>1, <2>1, <2>2 DEF BurnToMina, Books, TypeOK
  <2>4. processedWithdrawalNonces' \in SUBSET Nat /\ nextWithdrawalNonce' \in Nat
    <3>1. chains[transferChain].nextIndex \in Nat
      BY <2>1 DEF ChainState
    <3>2. processedWithdrawalNonces' =
            processedWithdrawalNonces \union {chains[transferChain].nextIndex}
      BY <1>1 DEF BurnToMina
    <3>3. processedWithdrawalNonces \in SUBSET Nat /\ nextWithdrawalNonce \in Nat
      BY DEF Books, TypeOK
    <3>4. nextWithdrawalNonce' = nextWithdrawalNonce + 1
      BY <1>1 DEF BurnToMina
    <3>5. processedWithdrawalNonces' \in SUBSET Nat
      BY <3>1, <3>2, <3>3, Zenon
    <3> QED
      BY <3>3, <3>4, <3>5
  <2>5. balanceOf' \in [Accounts -> Nat]
    BY <1>1, <2>1 DEF BurnToMina, Books, TypeOK
  <2>6. /\ totalSupply' \in Nat /\ escrowedNanomina' \in Nat
        /\ totalSupply' = escrowedNanomina'
    BY <1>1, <2>1 DEF BurnToMina, Books, TypeOK, Collateral
  <2> QED
    BY <1>1, <2>3, <2>4, <2>5, <2>6 DEF BurnToMina, Books, TypeOK, Collateral
<1>2. ASSUME NEW chain \in Chains, NEW transfer \in ForeignTransfers,
             ForeignAppend(chain, transfer)
      PROVE  Books'
  <2>1. Appended(chains[chain], transfer.token, transfer.recipient,
                 transfer.amount) \in ChainState
    BY AppendedTyped DEF Books, TypeOK
  <2>2. chains' \in [Chains -> ChainState]
    BY <1>2, <2>1 DEF ForeignAppend, Books, TypeOK
  <2> QED
    BY <1>2, <2>2 DEF ForeignAppend, Books, TypeOK, Collateral
<1>3. ASSUME NEW from \in Accounts, NEW to \in Accounts, NEW amount \in BurnAmounts,
             Transfer(from, to, amount)
      PROVE  Books'
  <2>1. balanceOf' \in [Accounts -> Nat]
    BY <1>3 DEF Transfer, Books, TypeOK
  <2> QED
    BY <1>3, <2>1 DEF Transfer, Books, TypeOK, Collateral
<1> QED
  BY <1>1, <1>2, <1>3 DEF HolderFlows

LEMMA AdministrationKeepsBooks == Books /\ (Administration \/ Tick) => Books'
<1> SUFFICES ASSUME Books, Administration \/ Tick PROVE Books'
  OBVIOUS
<1>1. ASSUME NEW attestor \in Attestors \union {ZeroAddress},
             SetEscrowAttestor(attestor)
      PROVE  Books'
  BY <1>1 DEF SetEscrowAttestor, Books, TypeOK, Collateral
<1>2. ASSUME NEW l \in LimitChoices, LowerAttestedMintLimits(l)
      PROVE  Books'
  BY <1>2 DEF LowerAttestedMintLimits, Books, TypeOK, Collateral
<1>3. ASSUME NEW l \in LimitChoices, ProposeAttestedMintLimitsRaise(l)
      PROVE  Books'
  <2>1. raiseProposals' \in SUBSET [limits : Limits, at : Nat]
    BY <1>3 DEF ProposeAttestedMintLimitsRaise, Books, TypeOK
  <2> QED
    BY <1>3, <2>1 DEF ProposeAttestedMintLimitsRaise, Books, TypeOK, Collateral
<1>4. CASE CancelAttestedMintLimitsRaise
  BY <1>4 DEF CancelAttestedMintLimitsRaise, Books, TypeOK, Collateral, NoLimits,
              Limits
<1>5. CASE ExecuteAttestedMintLimitsRaise
  BY <1>5 DEF ExecuteAttestedMintLimitsRaise, Books, TypeOK, Collateral, NoLimits,
              Limits
<1>6. ASSUME NEW chain \in Chains, SetTransferChain(chain)
      PROVE  Books'
  BY <1>6 DEF SetTransferChain, Books, TypeOK, Collateral
<1>7. ASSUME NEW chain \in Chains, NEW grant \in Grants, NEW allowed \in BOOLEAN,
             ChainSetAppender(chain, grant[1], grant[2], allowed)
      PROVE  Books'
  <2>1. SetAppender(chains[chain], grant[1], grant[2], allowed) \in ChainState
    BY SetAppenderTyped DEF Books, TypeOK
  <2>2. chains' \in [Chains -> ChainState]
    BY <1>7, <2>1 DEF ChainSetAppender, Books, TypeOK
  <2> QED
    BY <1>7, <2>2 DEF ChainSetAppender, Books, TypeOK, Collateral
<1>8. ASSUME NEW v \in VerifierChoices, ProposeVerifier(v)
      PROVE  Books'
  <2>1. rotationProposals' \in SUBSET [verifier : Verifiers, at : Nat]
    BY <1>8 DEF ProposeVerifier, Books, TypeOK
  <2> QED
    BY <1>8, <2>1 DEF ProposeVerifier, Books, TypeOK, Collateral
<1>9. CASE CancelVerifierUpdate
  BY <1>9 DEF CancelVerifierUpdate, Books, TypeOK, Collateral
<1>10. CASE ExecuteVerifierUpdate
  BY <1>10 DEF ExecuteVerifierUpdate, Books, TypeOK, Collateral
<1>11. ASSUME NEW stop \in BOOLEAN, SetPaused(stop)
       PROVE  Books'
  BY <1>11 DEF SetPaused, Books, TypeOK, Collateral
<1>12. CASE Tick
  BY <1>12 DEF Tick, Books, TypeOK, Collateral
<1> QED
  BY <1>1, <1>2, <1>3, <1>4, <1>5, <1>6, <1>7, <1>8, <1>9, <1>10, <1>11, <1>12
     DEF Administration

LEMMA NextKeepsBooks == Books /\ [FlareNext]_flareVars => Books'
<1>1. Books /\ UNCHANGED flareVars => Books'
  BY DEF Books, TypeOK, Collateral, flareVars
<1> QED
  BY <1>1, DepositFlowsKeepBooks, HolderFlowsKeepBooks, AdministrationKeepsBooks
     DEF FlareNext

\* The supply of FMINA is always what the bridge counts as escrowed, and no
\* balance, supply or escrow ever leaves its type (MinaPortBridge.sol 264-283,
\* 392-451, 537-568; collateralInvariantHolds 632).
THEOREM CollateralHolds == FlareSpec => [](TypeOK /\ Collateral)
<1>1. Books => TypeOK /\ Collateral
  BY DEF Books
<1> QED
  BY <1>1, InitBooks, NextKeepsBooks, PTL DEF FlareSpec

\* Every variable of the Flare contracts stays in its type: no balance, supply
\* or escrow counter underflows, on any path and under any administration.
THEOREM FlareTypeOK == FlareSpec => []TypeOK
<1> QED
  BY CollateralHolds, PTL

----------------------------------------------------------------------------
(* The ceilings.  MintsWereAnnounced is not inductive alone: the ceiling in *)
(* force must be an announced one, and a pending raise must be exactly one  *)
(* that was proposed UpdateDelay before it can be executed.                 *)

PendingRaiseWasProposed ==
  limitsUpdateReadyAt # 0 =>
    \E p \in raiseProposals : /\ p.limits = pendingLimits
                             /\ p.at + UpdateDelay = limitsUpdateReadyAt

Ceilings == /\ AnnouncedCap(limits.cumulativeCap)
            /\ PendingRaiseWasProposed
            /\ MintsWereAnnounced

\* A ceiling below an announced one, or seen later, is announced too.
LEMMA AnnouncedCapMonotone ==
  ASSUME TypeOK, TypeOK', NEW high \in Nat, NEW low \in Nat, low <= high,
         AnnouncedCap(high), raiseProposals \subseteq raiseProposals',
         now <= now'
  PROVE  AnnouncedCap(low)'
<1>1. CASE high <= DefaultLimits.cumulativeCap
  BY <1>1 DEF AnnouncedCap, Limits
<1>2. ASSUME NEW p \in raiseProposals, high <= p.limits.cumulativeCap,
             p.at + UpdateDelay <= now
      PROVE  AnnouncedCap(low)'
  <2>1. p \in [limits : Limits, at : Nat] /\ p \in raiseProposals'
    BY DEF TypeOK
  <2>2. /\ p.limits.cumulativeCap \in Nat /\ p.at \in Nat
        /\ now \in Nat /\ now' \in Nat
    BY <2>1 DEF TypeOK, Limits
  <2>3. low <= p.limits.cumulativeCap /\ p.at + UpdateDelay <= now'
    BY <1>2, <2>2
  <2> QED
    BY <2>1, <2>3 DEF AnnouncedCap
<1> QED
  BY <1>1, <1>2 DEF AnnouncedCap

\* What no step but those on the ceilings and the two mints disturbs.
LEMMA CeilingsUnchanged ==
  ASSUME TypeOK, TypeOK', Ceilings, UNCHANGED limitVars,
         UNCHANGED attestedMintedNanomina, now <= now'
  PROVE  Ceilings'
<1>1. limits.cumulativeCap \in Nat /\ attestedMintedNanomina \in Nat
  BY DEF TypeOK, Limits
<1>2. AnnouncedCap(limits.cumulativeCap)'
  BY <1>1, AnnouncedCapMonotone DEF Ceilings
<1>3. MintsWereAnnounced'
  BY <1>1, AnnouncedCapMonotone DEF Ceilings, MintsWereAnnounced
<1> QED
  BY <1>2, <1>3 DEF Ceilings, PendingRaiseWasProposed

LEMMA NextKeepsCeilings ==
  TypeOK /\ TypeOK' /\ Ceilings /\ [FlareNext]_flareVars => Ceilings'
<1> SUFFICES ASSUME TypeOK, TypeOK', Ceilings, [FlareNext]_flareVars
             PROVE  Ceilings'
  OBVIOUS
<1>1. ASSUME UNCHANGED limitVars, UNCHANGED attestedMintedNanomina, now' = now
      PROVE  Ceilings'
  BY <1>1, CeilingsUnchanged DEF TypeOK
<1>2. ASSUME NEW intent \in Deposits, NEW expiry \in Expiries,
             NEW signer \in Attestors,
             ClaimWithMinaSignature(intent, expiry, signer)
      PROVE  Ceilings'
  <2>1. /\ attestedMintedNanomina' <= limits.cumulativeCap
        /\ UNCHANGED limitVars /\ now' = now
    BY <1>2 DEF ClaimWithMinaSignature
  <2>2. /\ limits.cumulativeCap \in Nat /\ attestedMintedNanomina' \in Nat
        /\ now \in Nat
    BY DEF TypeOK, Limits
  <2>3. AnnouncedCap(attestedMintedNanomina')
    BY <2>1, <2>2, AnnouncedCapMonotone, SMT DEF Ceilings, AnnouncedCap, TypeOK, Limits
  <2>4. MintsWereAnnounced'
    BY <2>1, <2>3 DEF MintsWereAnnounced, AnnouncedCap
  <2> QED
    BY <2>1, <2>4 DEF Ceilings, AnnouncedCap, PendingRaiseWasProposed
<1>3. ASSUME NEW l \in LimitChoices, LowerAttestedMintLimits(l)
      PROVE  Ceilings'
  <2>1. /\ limits' = l /\ l.cumulativeCap <= limits.cumulativeCap
        /\ UNCHANGED <<pendingLimits, limitsUpdateReadyAt, raiseProposals>>
        /\ UNCHANGED <<attestedMintedNanomina, now>>
    BY <1>3 DEF LowerAttestedMintLimits
  <2>2. /\ l.cumulativeCap \in Nat /\ limits.cumulativeCap \in Nat
        /\ now \in Nat
    BY DEF TypeOK, Limits
  <2>3. AnnouncedCap(l.cumulativeCap)'
    BY <2>1, <2>2, AnnouncedCapMonotone DEF Ceilings
  <2> QED
    BY <2>1, <2>3 DEF Ceilings, MintsWereAnnounced, AnnouncedCap,
                      PendingRaiseWasProposed
<1>4. ASSUME NEW l \in LimitChoices, ProposeAttestedMintLimitsRaise(l)
      PROVE  Ceilings'
  <2> DEFINE p == [limits |-> l, at |-> now]
  <2>1. /\ pendingLimits' = l /\ limitsUpdateReadyAt' = now + UpdateDelay
        /\ raiseProposals' = raiseProposals \union {p}
        /\ UNCHANGED <<limits, attestedMintedNanomina, now>>
    BY <1>4 DEF ProposeAttestedMintLimitsRaise
  <2>2. PendingRaiseWasProposed'
    <3>1. /\ p \in raiseProposals' /\ p.limits = pendingLimits'
          /\ p.at + UpdateDelay = limitsUpdateReadyAt'
      BY <2>1
    <3> QED
      BY <3>1 DEF PendingRaiseWasProposed
  <2>3. AnnouncedCap(limits.cumulativeCap)' /\ MintsWereAnnounced'
    BY <2>1 DEF Ceilings, MintsWereAnnounced, AnnouncedCap
  <2> QED
    BY <2>2, <2>3 DEF Ceilings
<1>5. CASE CancelAttestedMintLimitsRaise
  BY <1>5 DEF CancelAttestedMintLimitsRaise, Ceilings, PendingRaiseWasProposed,
              MintsWereAnnounced, AnnouncedCap
<1>6. CASE ExecuteAttestedMintLimitsRaise
  <2>1. /\ limits' = pendingLimits /\ limitsUpdateReadyAt' = 0
        /\ limitsUpdateReadyAt # 0 /\ limitsUpdateReadyAt <= now
        /\ UNCHANGED <<raiseProposals, attestedMintedNanomina, now>>
    BY <1>6 DEF ExecuteAttestedMintLimitsRaise
  <2>2. PICK p \in raiseProposals : /\ p.limits = pendingLimits
                                   /\ p.at + UpdateDelay = limitsUpdateReadyAt
    BY <2>1 DEF Ceilings, PendingRaiseWasProposed
  <2>3. pendingLimits.cumulativeCap \in Nat
    BY DEF TypeOK, Limits
  <2>4. AnnouncedCap(limits.cumulativeCap)'
    BY <2>1, <2>2, <2>3 DEF AnnouncedCap
  <2> QED
    BY <2>1, <2>4 DEF Ceilings, PendingRaiseWasProposed, MintsWereAnnounced,
                      AnnouncedCap
<1>7. CASE Tick
  <2>1. UNCHANGED limitVars /\ UNCHANGED attestedMintedNanomina /\ now <= now'
    BY <1>7 DEF Tick, TypeOK
  <2> QED
    BY <2>1, CeilingsUnchanged
<1>8. DepositFlows =>
        \/ UNCHANGED <<limitVars, attestedMintedNanomina, now>>
        \/ \E intent \in Deposits, expiry \in Expiries, signer \in Attestors :
             ClaimWithMinaSignature(intent, expiry, signer)
  BY DEF DepositFlows, SubmitDepositBatch, ClaimDeposit
<1>9. HolderFlows => UNCHANGED <<limitVars, attestedMintedNanomina, now>>
  BY DEF HolderFlows, BurnToMina, ForeignAppend, Transfer
<1>10. Administration =>
         \/ UNCHANGED <<limitVars, attestedMintedNanomina, now>>
         \/ \E l \in LimitChoices : LowerAttestedMintLimits(l)
         \/ \E l \in LimitChoices : ProposeAttestedMintLimitsRaise(l)
         \/ CancelAttestedMintLimitsRaise
         \/ ExecuteAttestedMintLimitsRaise
  BY DEF Administration, SetEscrowAttestor, SetTransferChain, ChainSetAppender,
         ProposeVerifier, CancelVerifierUpdate, ExecuteVerifierUpdate, SetPaused
<1>11. UNCHANGED flareVars => UNCHANGED <<limitVars, attestedMintedNanomina, now>>
  BY DEF flareVars
<1> QED
  BY <1>1, <1>2, <1>3, <1>4, <1>5, <1>6, <1>7, <1>8, <1>9, <1>10, <1>11
     DEF FlareNext

\* Whatever the owner does, and in whatever order, all the signature path has
\* ever minted fits a ceiling holders had a full delay to see coming
\* (MinaPortBridge.sol 392-451, 469-518; "only up to the ceiling in force
\* today, not one they set themselves" 467-468).
THEOREM MintsAnnounced == FlareSpec => []MintsWereAnnounced
<1>1. FlareInit => Books /\ Ceilings
  BY InitBooks DEF FlareInit, Ceilings, AnnouncedCap, PendingRaiseWasProposed,
                   MintsWereAnnounced, Limits
<1>2. Books /\ Ceilings /\ [FlareNext]_flareVars => (Books /\ Ceilings)'
  BY NextKeepsBooks, NextKeepsCeilings DEF Books
<1>3. Books /\ Ceilings => MintsWereAnnounced
  BY DEF Ceilings
<1> QED
  BY <1>1, <1>2, <1>3, PTL DEF FlareSpec

----------------------------------------------------------------------------
(* The verifiers, along the same argument.                                 *)

PendingVerifierWasProposed ==
  pendingVerifier # ZeroAddress =>
    \E p \in rotationProposals : /\ p.verifier = pendingVerifier
                                /\ p.at + UpdateDelay = verifierUpdateReadyAt

Rotations == /\ AnnouncedVerifier(verifier)
             /\ PendingVerifierWasProposed
             /\ RootsWereProvenToAnnounced

LEMMA AnnouncedVerifierMonotone ==
  ASSUME TypeOK, TypeOK', NEW v \in Verifiers, AnnouncedVerifier(v),
         rotationProposals \subseteq rotationProposals', now <= now'
  PROVE  AnnouncedVerifier(v)'
<1>1. CASE v = FirstVerifier
  BY <1>1 DEF AnnouncedVerifier
<1>2. ASSUME NEW p \in rotationProposals, v = p.verifier,
             p.at + UpdateDelay <= now
      PROVE  AnnouncedVerifier(v)'
  <2>1. p.at \in Nat /\ now \in Nat /\ now' \in Nat /\ p \in rotationProposals'
    BY DEF TypeOK
  <2>2. p.at + UpdateDelay <= now'
    BY <1>2, <2>1
  <2> QED
    BY <1>2, <2>1, <2>2 DEF AnnouncedVerifier
<1> QED
  BY <1>1, <1>2 DEF AnnouncedVerifier

LEMMA RootsStayProven ==
  ASSUME TypeOK, TypeOK', RootsWereProvenToAnnounced,
         UNCHANGED acceptedDepositRoots,
         rotationProposals \subseteq rotationProposals', now <= now'
  PROVE  RootsWereProvenToAnnounced'
<1> SUFFICES ASSUME NEW root \in acceptedDepositRoots
             PROVE  \E v \in Verifiers :
                      /\ AnnouncedVerifier(v)'
                      /\ \E pv \in Accepts[v] : pv.depositsRoot = root
  BY DEF RootsWereProvenToAnnounced
<1>1. PICK v \in Verifiers : /\ AnnouncedVerifier(v)
                            /\ \E pv \in Accepts[v] : pv.depositsRoot = root
  BY DEF RootsWereProvenToAnnounced
<1>2. AnnouncedVerifier(v)'
  BY <1>1, AnnouncedVerifierMonotone
<1> QED
  BY <1>1, <1>2

LEMMA NextKeepsRotations ==
  TypeOK /\ TypeOK' /\ Rotations /\ [FlareNext]_flareVars => Rotations'
<1> SUFFICES ASSUME TypeOK, TypeOK', Rotations, [FlareNext]_flareVars
             PROVE  Rotations'
  OBVIOUS
<1>1. ASSUME UNCHANGED <<verifierVars, acceptedDepositRoots>>, now <= now'
      PROVE  Rotations'
  <2>1. AnnouncedVerifier(verifier)'
    BY <1>1, AnnouncedVerifierMonotone DEF Rotations, TypeOK
  <2>2. RootsWereProvenToAnnounced'
    BY <1>1, RootsStayProven DEF Rotations
  <2> QED
    BY <1>1, <2>1, <2>2 DEF Rotations, PendingVerifierWasProposed
<1>2. ASSUME NEW pv, SubmitDepositBatch(pv)
      PROVE  Rotations'
  <2>1. /\ pv \in Accepts[verifier] /\ UNCHANGED <<verifierVars, now>>
        /\ acceptedDepositRoots' = acceptedDepositRoots \union {pv.depositsRoot}
    BY <1>2 DEF SubmitDepositBatch
  <2>2. ASSUME NEW root \in acceptedDepositRoots'
        PROVE  \E v \in Verifiers :
                 /\ AnnouncedVerifier(v)'
                 /\ \E q \in Accepts[v] : q.depositsRoot = root
    <3>1. CASE root = pv.depositsRoot
      <4>1. verifier \in Verifiers /\ AnnouncedVerifier(verifier)'
        BY <2>1 DEF Rotations, TypeOK, AnnouncedVerifier
      <4> QED
        BY <2>1, <3>1, <4>1
    <3>2. CASE root \in acceptedDepositRoots
      BY <2>1, <3>2 DEF Rotations, RootsWereProvenToAnnounced, AnnouncedVerifier
    <3> QED
      BY <2>1, <3>1, <3>2
  <2>3. RootsWereProvenToAnnounced'
    BY <2>2 DEF RootsWereProvenToAnnounced
  <2> QED
    BY <2>1, <2>3 DEF Rotations, PendingVerifierWasProposed, AnnouncedVerifier
<1>3. ASSUME NEW v \in VerifierChoices, ProposeVerifier(v)
      PROVE  Rotations'
  <2> DEFINE p == [verifier |-> v, at |-> now]
  <2>1. /\ pendingVerifier' = v /\ verifierUpdateReadyAt' = now + UpdateDelay
        /\ rotationProposals' = rotationProposals \union {p}
        /\ UNCHANGED <<verifier, acceptedDepositRoots, now>>
    BY <1>3 DEF ProposeVerifier
  <2>2. PendingVerifierWasProposed'
    <3>1. /\ p \in rotationProposals' /\ p.verifier = pendingVerifier'
          /\ p.at + UpdateDelay = verifierUpdateReadyAt'
      BY <2>1
    <3> QED
      BY <3>1 DEF PendingVerifierWasProposed
  <2>3. now <= now'
    BY <2>1 DEF TypeOK
  <2>4. AnnouncedVerifier(verifier)'
    BY <2>1, <2>3, AnnouncedVerifierMonotone DEF Rotations, TypeOK
  <2>5. RootsWereProvenToAnnounced'
    BY <2>1, <2>3, RootsStayProven DEF Rotations
  <2> QED
    BY <2>2, <2>4, <2>5 DEF Rotations
<1>4. CASE CancelVerifierUpdate
  <2>1. /\ pendingVerifier' = ZeroAddress
        /\ UNCHANGED <<verifier, rotationProposals, acceptedDepositRoots, now>>
    BY <1>4 DEF CancelVerifierUpdate
  <2> QED
    BY <2>1 DEF Rotations, PendingVerifierWasProposed, AnnouncedVerifier,
                RootsWereProvenToAnnounced
<1>5. CASE ExecuteVerifierUpdate
  <2>1. /\ pendingVerifier # ZeroAddress /\ verifierUpdateReadyAt <= now
        /\ verifier' = pendingVerifier /\ pendingVerifier' = ZeroAddress
        /\ UNCHANGED <<rotationProposals, acceptedDepositRoots, now>>
    BY <1>5 DEF ExecuteVerifierUpdate
  <2>2. AnnouncedVerifier(verifier)'
    BY <2>1 DEF Rotations, PendingVerifierWasProposed, AnnouncedVerifier
  <2> QED
    BY <2>1, <2>2 DEF Rotations, PendingVerifierWasProposed, AnnouncedVerifier,
                      RootsWereProvenToAnnounced
<1>6. now \in Nat
  BY DEF TypeOK
<1>7. Tick => UNCHANGED <<verifierVars, acceptedDepositRoots>> /\ now <= now'
  BY <1>6 DEF Tick
<1>8. DepositFlows =>
        \/ UNCHANGED <<verifierVars, acceptedDepositRoots, now>>
        \/ \E pv \in UNION {Accepts[v] : v \in Verifiers} : SubmitDepositBatch(pv)
  BY DEF DepositFlows, ClaimDeposit, ClaimWithMinaSignature
<1>9. HolderFlows => UNCHANGED <<verifierVars, acceptedDepositRoots, now>>
  BY DEF HolderFlows, BurnToMina, ForeignAppend, Transfer
<1>10. Administration =>
         \/ UNCHANGED <<verifierVars, acceptedDepositRoots, now>>
         \/ \E v \in VerifierChoices : ProposeVerifier(v)
         \/ CancelVerifierUpdate
         \/ ExecuteVerifierUpdate
  BY DEF Administration, SetEscrowAttestor, SetTransferChain, ChainSetAppender,
         LowerAttestedMintLimits, ProposeAttestedMintLimitsRaise,
         CancelAttestedMintLimitsRaise, ExecuteAttestedMintLimitsRaise, SetPaused
<1>11. UNCHANGED flareVars => UNCHANGED <<verifierVars, acceptedDepositRoots, now>>
  BY DEF flareVars
<1>12. UNCHANGED <<verifierVars, acceptedDepositRoots, now>> => Rotations'
  BY <1>1, <1>6
<1> QED
  BY <1>1, <1>2, <1>3, <1>4, <1>5, <1>7, <1>8, <1>9, <1>10, <1>11, <1>12
     DEF FlareNext

\* No batch is ever settled under a verifier holders did not have a full delay
\* to see coming (MinaPortBridge.sol 225-255, 581-609).
THEOREM RootsProvenToAnnounced == FlareSpec => []RootsWereProvenToAnnounced
<1>1. FlareInit => Books /\ Rotations
  BY InitBooks DEF FlareInit, Rotations, AnnouncedVerifier,
                   PendingVerifierWasProposed, RootsWereProvenToAnnounced
<1>2. Books /\ Rotations /\ [FlareNext]_flareVars => (Books /\ Rotations)'
  BY NextKeepsBooks, NextKeepsRotations DEF Books
<1>3. Books /\ Rotations => RootsWereProvenToAnnounced
  BY DEF Rotations
<1> QED
  BY <1>1, <1>2, <1>3, PTL DEF FlareSpec

----------------------------------------------------------------------------
(* The accounts.  Each sum moves with the state it sums over.               *)

(* The accounting, with what it needs of the chains: no chain outgrows its  *)
(* bound, positions are counted by nextIndex, and only the bridge may       *)
(* record FMINA.                                                            *)
Regular(c) ==
  /\ Len(chains[c].head) = chains[c].nextIndex
  /\ chains[c].nextIndex <= MaxTransfers
  /\ \A a \in Appenders : <<a, FMina>> \in chains[c].mayAppend => a = BridgeAddress

Accounting ==
  /\ EveryMintAndBurnIsAccounted
  /\ IsFiniteSet(claimedDeposits) /\ IsFiniteSet(consumedIntents)
  /\ \A c \in Chains : Regular(c)

LEMMA RecordsFinite ==
  /\ IsFiniteSet(BurnRecords) /\ BurnRecords \subseteq Chains \X (1 .. MaxTransfers)
<1>1. IsFiniteSet(1 .. MaxTransfers)
  BY FS_Interval
<1>2. IsFiniteSet(Chains \X (1 .. MaxTransfers))
  BY <1>1, FS_Product
<1>3. BurnRecords \subseteq Chains \X (1 .. MaxTransfers)
  BY DEF BurnRecords
<1> QED
  BY <1>2, <1>3, FS_Subset

\* What one more deposit adds to a sum over a set of them.
LEMMA OneMoreDeposit ==
  ASSUME NEW S \in SUBSET Deposits, IsFiniteSet(S), NEW d \in Deposits, d \notin S
  PROVE  SumFunction(AmountsOf(S \union {d})) = SumFunction(AmountsOf(S)) + d.amount
<1> DEFINE T == S \union {d}
<1>1. /\ DOMAIN AmountsOf(T) = T /\ DOMAIN AmountsOf(S) = S
      /\ \A x \in T : AmountsOf(T)[x] = x.amount
      /\ \A x \in S : AmountsOf(S)[x] = x.amount
  BY DEF AmountsOf
<1>2. \A x \in T : AmountsOf(T)[x] \in Nat
  BY <1>1 DEF Deposit
<1>3. SumFunctionOnSet(AmountsOf(T), S) = SumFunctionOnSet(AmountsOf(S), S)
  <2>1. \A x \in S : AmountsOf(T)[x] = AmountsOf(S)[x]
    BY <1>1
  <2> DEFINE f == AmountsOf(T)
             e == AmountsOf(S)
  <2> HIDE DEF f, e
  <2>2. SumFunctionOnSet(f, S) = SumFunctionOnSet(e, S)
    BY <2>1, SumsAgree DEF f, e
  <2> QED
    BY <2>2 DEF f, e
<1>4. SumFunctionOnSet(AmountsOf(T), T)
        = SumFunctionOnSet(AmountsOf(T), S) + AmountsOf(T)[d]
  BY <1>2, SumWith
<1>5. AmountsOf(T)[d] = d.amount
  BY <1>1
<1> HIDE DEF T
<1>6. /\ SumFunction(AmountsOf(T)) = SumFunctionOnSet(AmountsOf(T), T)
      /\ SumFunction(AmountsOf(S)) = SumFunctionOnSet(AmountsOf(S), S)
  BY <1>1, Zenon DEF SumFunction
<1> QED
  BY <1>3, <1>4, <1>5, <1>6 DEF T

\* What a change of one balance does to the sum of them.
LEMMA OneBalanceChanged ==
  ASSUME NEW f \in [Accounts -> Nat], NEW a \in Accounts, NEW v \in Nat
  PROVE  SumFunction([f EXCEPT ![a] = v]) + f[a] = SumFunction(f) + v
<1> DEFINE e == [f EXCEPT ![a] = v]
<1>1. /\ DOMAIN e = Accounts /\ DOMAIN f = Accounts /\ e[a] = v
      /\ \A x \in Accounts : f[x] \in Nat /\ e[x] \in Nat
      /\ \A x \in Accounts \ {a} : f[x] = e[x]
  OBVIOUS
<1> HIDE DEF e
<1>2. SumFunctionOnSet(f, Accounts) + e[a] = SumFunctionOnSet(e, Accounts) + f[a]
  BY <1>1, SumChanged
<1>3. SumFunction(f) = SumFunctionOnSet(f, Accounts)
  BY <1>1, Zenon DEF SumFunction
<1>4. SumFunction(e) = SumFunctionOnSet(e, Accounts)
  BY <1>1, Zenon DEF SumFunction
<1>5. SumFunction(f) + v = SumFunction(e) + f[a]
  BY <1>1, <1>2, <1>3, <1>4
<1> QED
  BY <1>5 DEF e

LEMMA BalancesSumIsNat ==
  ASSUME NEW f \in [Accounts -> Nat]
  PROVE  SumFunction(f) \in Nat
BY SumType DEF SumFunction

\* The records of heads that did not change are the same records.
LEMMA BurnedUnchanged ==
  ASSUME \A c \in Chains : chains'[c].head = chains[c].head
  PROVE  BurnRecords' = BurnRecords /\ Burned' = Burned
<1>1. BurnRecords' = BurnRecords
  BY DEF BurnRecords
<1>2. \A b \in BurnRecords : chains'[b[1]].head[b[2]] = chains[b[1]].head[b[2]]
  BY DEF BurnRecords
<1> QED
  BY <1>1, <1>2 DEF Burned

(* What append does to the chains: one record more on one of them.         *)
GrewBy(c, token, amount) ==
  /\ Len(chains'[c].head) = Len(chains[c].head) + 1
  /\ \A i \in 1 .. Len(chains[c].head) : chains'[c].head[i] = chains[c].head[i]
  /\ chains'[c].head[Len(chains[c].head) + 1].token = token
  /\ chains'[c].head[Len(chains[c].head) + 1].amount = amount
  /\ chains'[c].nextIndex = chains[c].nextIndex + 1
  /\ chains'[c].mayAppend = chains[c].mayAppend
  /\ \A d \in Chains \ {c} : chains'[d] = chains[d]

LEMMA AppendedHead ==
  ASSUME TypeOK, NEW c \in Chains, NEW token \in Tokens, NEW key \in MinaKeys,
         NEW amount \in Nat,
         chains' = [chains EXCEPT ![c] = Appended(chains[c], token, key, amount)]
  PROVE  GrewBy(c, token, amount)
<1> DEFINE record == [index |-> chains[c].nextIndex, token |-> token,
                      recipient |-> key, amount |-> amount]
           head == chains[c].head
<1>1. chains[c] \in ChainState /\ DOMAIN chains = Chains
  BY DEF TypeOK
<1>2. head \in Heads /\ record \in TransferRecord
  BY <1>1 DEF ChainState, TransferRecord
<1>3. chains'[c] = [chains[c] EXCEPT !.nextIndex = chains[c].nextIndex + 1,
                                     !.head = Append(head, record)]
  BY <1>1, Zenon DEF Appended, applyTransfer, ChainState
<1>4. /\ chains'[c].head = Append(head, record)
      /\ chains'[c].nextIndex = chains[c].nextIndex + 1
      /\ chains'[c].mayAppend = chains[c].mayAppend
  BY <1>1, <1>3 DEF ChainState
<1>5. \A d \in Chains \ {c} : chains'[d] = chains[d]
  BY <1>1
<1>6. record.token = token /\ record.amount = amount
  OBVIOUS
<1> HIDE DEF record, head
<1>7. /\ Len(Append(head, record)) = Len(head) + 1
      /\ \A i \in 1 .. Len(head) : Append(head, record)[i] = head[i]
      /\ Append(head, record)[Len(head) + 1] = record
  BY <1>2 DEF Heads
<1> QED
  BY <1>4, <1>5, <1>6, <1>7 DEF head, GrewBy

\* What append adds to the records of burns, when it records one and when not.
LEMMA AppendedBurns ==
  ASSUME TypeOK, NEW c \in Chains, NEW token \in Tokens, NEW key \in MinaKeys,
         NEW amount \in Nat, Regular(c), chains[c].nextIndex < MaxTransfers,
         chains' = [chains EXCEPT ![c] = Appended(chains[c], token, key, amount)]
  PROVE  /\ \A b \in BurnRecords : b \in BurnRecords' /\ Burned'[b] = Burned[b]
         /\ <<c, Len(chains[c].head) + 1>> \notin BurnRecords
         /\ token = FMina =>
              /\ BurnRecords' = BurnRecords \union {<<c, Len(chains[c].head) + 1>>}
              /\ Burned'[<<c, Len(chains[c].head) + 1>>] = amount
         /\ token # FMina => BurnRecords' = BurnRecords
<1> DEFINE n == Len(chains[c].head)
           new == <<c, n + 1>>
<1>1. /\ Len(chains'[c].head) = n + 1
      /\ \A i \in 1 .. n : chains'[c].head[i] = chains[c].head[i]
      /\ chains'[c].head[n + 1].token = token
      /\ chains'[c].head[n + 1].amount = amount
      /\ \A d \in Chains \ {c} : chains'[d] = chains[d]
  <2>1. GrewBy(c, token, amount)
    BY AppendedHead
  <2> QED
    BY <2>1, Zenon DEF GrewBy
<1>2. n \in Nat /\ n + 1 \in 1 .. MaxTransfers
  BY DEF Regular, TypeOK, ChainState
<1>3. DOMAIN chains[c].head = 1 .. n
  BY DEF TypeOK, ChainState, Heads
<1>4. DOMAIN chains'[c].head = 1 .. (n + 1)
  <2>1. chains' \in [Chains -> ChainState]
    <3>1. Appended(chains[c], token, key, amount) \in ChainState
      BY AppendedTyped DEF TypeOK
    <3> QED
      BY <3>1 DEF TypeOK
  <2>2. chains'[c].head \in Heads
    BY <2>1 DEF ChainState
  <2> QED
    BY <1>1, <2>2 DEF Heads
<1> HIDE DEF n
<1>5. ASSUME NEW b \in Chains \X (1 .. MaxTransfers), b # new
      PROVE  /\ b[2] \in DOMAIN chains'[b[1]].head <=> b[2] \in DOMAIN chains[b[1]].head
             /\ b[2] \in DOMAIN chains[b[1]].head =>
                  chains'[b[1]].head[b[2]] = chains[b[1]].head[b[2]]
  <2>1. CASE b[1] = c
    <3>1. b = <<b[1], b[2]>> /\ b[2] \in Nat
      OBVIOUS
    <3>2. b[2] # n + 1
      BY <1>5, <2>1, <3>1
    <3> QED
      BY <1>1, <1>2, <1>3, <1>4, <2>1, <3>1, <3>2
  <2>2. CASE b[1] # c
    BY <1>1, <2>2
  <2> QED
    BY <2>1, <2>2
<1>6. new \in Chains \X (1 .. MaxTransfers) /\ new[1] = c /\ new[2] = n + 1
  BY <1>2
<1>7. new \notin BurnRecords
  BY <1>2, <1>3, <1>6 DEF BurnRecords
<1>8. new \in BurnRecords' <=> token = FMina
  BY <1>1, <1>2, <1>4, <1>6 DEF BurnRecords
<1> HIDE DEF new
<1>9. \A b \in Chains \X (1 .. MaxTransfers) :
        b # new => (b \in BurnRecords' <=> b \in BurnRecords)
  BY <1>5 DEF BurnRecords
<1>10. /\ BurnRecords \subseteq Chains \X (1 .. MaxTransfers)
       /\ BurnRecords' \subseteq Chains \X (1 .. MaxTransfers)
  BY DEF BurnRecords
<1>11. \A b \in BurnRecords : b \in BurnRecords' /\ Burned'[b] = Burned[b]
  <2> SUFFICES ASSUME NEW b \in BurnRecords
               PROVE  b \in BurnRecords' /\ Burned'[b] = Burned[b]
    OBVIOUS
  <2>1. b \in Chains \X (1 .. MaxTransfers) /\ b # new /\ b \in BurnRecords'
    BY <1>7, <1>9, <1>10
  <2>2. chains'[b[1]].head[b[2]] = chains[b[1]].head[b[2]]
    BY <1>5, <2>1 DEF BurnRecords
  <2> QED
    BY <2>1, <2>2 DEF Burned
<1>12. token = FMina => BurnRecords' = BurnRecords \union {new}
  BY <1>8, <1>9, <1>10
<1>13. ASSUME token # FMina
       PROVE  BurnRecords' = BurnRecords
  <2>1. \A b \in Chains \X (1 .. MaxTransfers) : b \in BurnRecords' <=> b \in BurnRecords
    BY <1>7, <1>8, <1>9, <1>13
  <2> QED
    BY <1>10, <2>1
<1>14. token = FMina => Burned'[new] = amount
  <2>1. token = FMina => Burned'[new] = chains'[new[1]].head[new[2]].amount
    BY <1>8 DEF Burned
  <2> QED
    BY <1>1, <1>6, <2>1
<1> QED
  BY <1>7, <1>11, <1>12, <1>13, <1>14 DEF new, n

BurnedIsTyped ==
  /\ DOMAIN Burned = BurnRecords /\ \A b \in BurnRecords : Burned[b] \in Nat
  /\ SumFunction(Burned) = SumFunctionOnSet(Burned, BurnRecords)

LEMMA BurnedTyped == TypeOK => BurnedIsTyped
<1> SUFFICES ASSUME TypeOK PROVE BurnedIsTyped
  OBVIOUS
<1>1. DOMAIN Burned = BurnRecords
  BY DEF Burned
<1>2. ASSUME NEW b \in BurnRecords
      PROVE  Burned[b] \in Nat
  <2>1. b[1] \in Chains /\ b[2] \in DOMAIN chains[b[1]].head
    BY DEF BurnRecords
  <2>2. chains[b[1]].head \in Seq(TransferRecord)
    BY <2>1 DEF TypeOK, ChainState, Heads
  <2>3. chains[b[1]].head[b[2]] \in TransferRecord
    BY <2>1, <2>2
  <2> QED
    BY <2>3 DEF Burned, TransferRecord
<1> QED
  BY <1>1, <1>2, Zenon DEF SumFunction, BurnedIsTyped

\* A burn adds what it burned to the records, another bridge's record nothing.
LEMMA BurnsGrow ==
  ASSUME TypeOK, TypeOK', NEW c \in Chains, NEW token \in Tokens, NEW key \in MinaKeys,
         NEW amount \in Nat, Regular(c), chains[c].nextIndex < MaxTransfers,
         chains' = [chains EXCEPT ![c] = Appended(chains[c], token, key, amount)]
  PROVE  /\ token = FMina => SumFunction(Burned') = SumFunction(Burned) + amount
         /\ token # FMina => SumFunction(Burned') = SumFunction(Burned)
<1> DEFINE new == <<c, Len(chains[c].head) + 1>>
           f == Burned
           e == Burned'
           R == BurnRecords
           Q == BurnRecords'
<1>1. /\ \A b \in R : b \in Q /\ e[b] = f[b]
      /\ new \notin R
      /\ token = FMina => Q = R \union {new} /\ e[new] = amount
      /\ token # FMina => Q = R
  BY AppendedBurns
<1>2. /\ DOMAIN f = R /\ (\A b \in R : f[b] \in Nat)
      /\ SumFunction(f) = SumFunctionOnSet(f, R)
  BY BurnedTyped DEF BurnedIsTyped
<1>3. /\ DOMAIN e = Q /\ (\A b \in Q : e[b] \in Nat)
      /\ SumFunction(e) = SumFunctionOnSet(e, Q)
  <2>1. BurnedIsTyped'
    BY BurnedTyped, PTL
  <2> QED
    BY <2>1 DEF BurnedIsTyped
<1>4. IsFiniteSet(R)
  BY RecordsFinite
<1> HIDE DEF new, f, e, R, Q
<1>5. SumFunctionOnSet(e, R) = SumFunctionOnSet(f, R)
  BY <1>1, <1>4, SumsAgree
<1>6. CASE token = FMina
  <2>1. SumFunctionOnSet(e, R \union {new}) = SumFunctionOnSet(e, R) + e[new]
    BY <1>1, <1>3, <1>4, <1>6, SumWith
  <2>2. SumFunctionOnSet(e, Q) = SumFunctionOnSet(f, R) + amount
    BY <1>1, <1>5, <1>6, <2>1
  <2> QED
    BY <1>2, <1>3, <1>6, <2>2 DEF f, e
<1>7. CASE token # FMina
  BY <1>1, <1>2, <1>3, <1>5, <1>7 DEF f, e
<1> QED
  BY <1>6, <1>7

\* A record leaves the chains as regular as they were.
LEMMA AppendKeepsRegular ==
  ASSUME TypeOK, NEW c \in Chains, NEW token \in Tokens, NEW key \in MinaKeys,
         NEW amount \in Nat, \A d \in Chains : Regular(d),
         chains[c].nextIndex < MaxTransfers,
         chains' = [chains EXCEPT ![c] = Appended(chains[c], token, key, amount)]
  PROVE  \A d \in Chains : Regular(d)'
<1>1. GrewBy(c, token, amount)
  BY AppendedHead
<1>2. Regular(c)'
  <2>1. chains[c].nextIndex \in Nat
    BY DEF TypeOK, ChainState
  <2> QED
    BY <1>1, <2>1 DEF GrewBy, Regular
<1>3. ASSUME NEW d \in Chains \ {c}
      PROVE  Regular(d)'
  BY <1>1 DEF GrewBy, Regular
<1> QED
  BY <1>2, <1>3

LEMMA InitAccounting == FlareInit => Accounting
<1> SUFFICES ASSUME FlareInit PROVE Accounting
  OBVIOUS
<1>1. SumFunction(balanceOf) = 0
  <2>1. SumFunctionOnSet(balanceOf, Accounts) = 0
    BY SumOfZeros DEF FlareInit
  <2> QED
    BY <2>1 DEF SumFunction, FlareInit
<1>2. BurnRecords = {}
  BY DEF FlareInit, BurnRecords, NewChain, EmptyHead
<1>3. SumFunction(Burned) = 0
  BY <1>2, SumOfNone DEF SumFunction, Burned
<1>4. SumFunction(AmountsOf({})) = 0
  BY SumOfNone DEF SumFunction, AmountsOf
<1>5. \A c \in Chains : Regular(c)
  BY DEF FlareInit, NewChain, EmptyHead, Regular
<1>6. /\ totalSupply = 0 /\ attestedMintedNanomina = 0
      /\ claimedDeposits = {} /\ consumedIntents = {}
  BY DEF FlareInit
<1>7. EveryMintAndBurnIsAccounted
  BY <1>1, <1>3, <1>4, <1>6 DEF EveryMintAndBurnIsAccounted
<1> QED
  BY <1>5, <1>6, <1>7, FS_EmptySet DEF Accounting

\* Both ways in raise the supply and one balance by the amount.
LEMMA MintAccounted ==
  ASSUME TypeOK, TypeOK', EveryMintAndBurnIsAccounted,
         NEW leaf \in Deposits, leaf.recipient # ZeroAddress,
         Mint(leaf.recipient, leaf.amount)
  PROVE  /\ leaf.amount \in Nat
         /\ totalSupply' = totalSupply + leaf.amount
         /\ totalSupply' = SumFunction(balanceOf')
<1>1. leaf.recipient \in Accounts /\ leaf.amount \in Nat
  BY DEF Deposit
<1> DEFINE a == leaf.recipient
           v == balanceOf[a] + leaf.amount
<1>2. balanceOf \in [Accounts -> Nat] /\ balanceOf[a] \in Nat /\ v \in Nat
  BY <1>1 DEF TypeOK
<1>3. totalSupply' = totalSupply + leaf.amount /\ balanceOf' = [balanceOf EXCEPT ![a] = v]
  BY DEF Mint
<1> HIDE DEF v
<1>4. SumFunction([balanceOf EXCEPT ![a] = v]) + balanceOf[a] = SumFunction(balanceOf) + v
  BY <1>1, <1>2, OneBalanceChanged
<1>5. SumFunction(balanceOf') + balanceOf[a] = SumFunction(balanceOf) + v
  BY <1>3, <1>4
<1>6. /\ SumFunction(balanceOf) = totalSupply /\ totalSupply \in Nat
      /\ SumFunction(balanceOf') \in Nat
  BY BalancesSumIsNat DEF EveryMintAndBurnIsAccounted, TypeOK
<1> QED
  BY <1>1, <1>2, <1>3, <1>5, <1>6 DEF v

\* Of everything but the two ways in, the burn, another bridge's record and the
\* token's transfer, the accounts see nothing.
LEMMA AccountingKept ==
  ASSUME Accounting, UNCHANGED <<balanceOf, totalSupply, attestedVars, claimedDeposits>>,
         \A c \in Chains : chains'[c].head = chains[c].head /\ Regular(c)'
  PROVE  Accounting'
<1>1. Burned' = Burned
  BY BurnedUnchanged
<1> QED
  BY <1>1 DEF Accounting, EveryMintAndBurnIsAccounted

LEMMA TotalsTyped ==
  ASSUME TypeOK, Accounting
  PROVE  /\ totalSupply \in Nat /\ attestedMintedNanomina \in Nat
         /\ SumFunction(Burned) \in Nat
         /\ SumFunction(AmountsOf(claimedDeposits)) \in Nat
<1>1. SumFunction(Burned) \in Nat
  BY BurnedTyped, RecordsFinite, SumType DEF BurnedIsTyped
<1>2. SumFunction(AmountsOf(claimedDeposits)) \in Nat
  <2>1. \A x \in claimedDeposits : AmountsOf(claimedDeposits)[x] \in Nat
    BY DEF AmountsOf, TypeOK, Deposit
  <2>2. DOMAIN AmountsOf(claimedDeposits) = claimedDeposits
    BY DEF AmountsOf
  <2> QED
    BY <2>1, <2>2, SumType DEF SumFunction, Accounting
<1> QED
  BY <1>1, <1>2 DEF TypeOK

LEMMA ClaimAccounted ==
  ASSUME TypeOK, TypeOK', Accounting,
         NEW leaf \in Deposits, NEW root, ClaimDeposit(leaf, root)
  PROVE  Accounting'
<1>1. /\ leaf \notin claimedDeposits /\ claimedDeposits' = claimedDeposits \union {leaf}
      /\ leaf.recipient # ZeroAddress /\ Mint(leaf.recipient, leaf.amount)
      /\ UNCHANGED <<chains, attestedMintedNanomina, consumedIntents>>
  BY DEF ClaimDeposit
<1>2. /\ leaf.amount \in Nat /\ totalSupply' = totalSupply + leaf.amount
      /\ totalSupply' = SumFunction(balanceOf')
  BY <1>1, MintAccounted DEF Accounting
<1>3. SumFunction(AmountsOf(claimedDeposits'))
        = SumFunction(AmountsOf(claimedDeposits)) + leaf.amount
  BY <1>1, OneMoreDeposit DEF Accounting, TypeOK
<1>4. Burned' = Burned /\ AmountsOf(consumedIntents') = AmountsOf(consumedIntents)
  BY <1>1, BurnedUnchanged
<1>5. /\ totalSupply \in Nat /\ attestedMintedNanomina \in Nat
      /\ SumFunction(Burned) \in Nat /\ SumFunction(AmountsOf(claimedDeposits)) \in Nat
  BY TotalsTyped
<1>6. EveryMintAndBurnIsAccounted'
  <2>1. attestedMintedNanomina' = SumFunction(AmountsOf(consumedIntents'))
    BY <1>1, <1>4 DEF Accounting, EveryMintAndBurnIsAccounted
  <2>2. SumFunction(AmountsOf(claimedDeposits')) + attestedMintedNanomina'
          = totalSupply' + SumFunction(Burned')
    BY <1>1, <1>2, <1>3, <1>4, <1>5 DEF Accounting, EveryMintAndBurnIsAccounted
  <2> QED
    BY <1>2, <2>1, <2>2 DEF EveryMintAndBurnIsAccounted
<1>7. IsFiniteSet(claimedDeposits') /\ IsFiniteSet(consumedIntents')
  BY <1>1, FS_AddElement DEF Accounting
<1>8. \A c \in Chains : Regular(c)'
  BY <1>1 DEF Accounting, Regular
<1> QED
  BY <1>6, <1>7, <1>8 DEF Accounting

LEMMA SignedClaimAccounted ==
  ASSUME TypeOK, TypeOK', Accounting, NEW intent \in Deposits, NEW expiry, NEW signer,
         ClaimWithMinaSignature(intent, expiry, signer)
  PROVE  Accounting'
<1>1. /\ intent \notin consumedIntents /\ consumedIntents' = consumedIntents \union {intent}
      /\ attestedMintedNanomina' = attestedMintedNanomina + intent.amount
      /\ intent.recipient # ZeroAddress /\ Mint(intent.recipient, intent.amount)
      /\ UNCHANGED <<chains, claimedDeposits>>
  BY DEF ClaimWithMinaSignature
<1>2. /\ intent.amount \in Nat /\ totalSupply' = totalSupply + intent.amount
      /\ totalSupply' = SumFunction(balanceOf')
  BY <1>1, MintAccounted DEF Accounting
<1>3. SumFunction(AmountsOf(consumedIntents'))
        = SumFunction(AmountsOf(consumedIntents)) + intent.amount
  BY <1>1, OneMoreDeposit DEF Accounting, TypeOK
<1>4. Burned' = Burned /\ AmountsOf(claimedDeposits') = AmountsOf(claimedDeposits)
  BY <1>1, BurnedUnchanged
<1>5. /\ totalSupply \in Nat /\ attestedMintedNanomina \in Nat
      /\ SumFunction(Burned) \in Nat /\ SumFunction(AmountsOf(claimedDeposits)) \in Nat
  BY TotalsTyped
<1>6. EveryMintAndBurnIsAccounted'
  <2>1. attestedMintedNanomina' = SumFunction(AmountsOf(consumedIntents'))
    BY <1>1, <1>3 DEF Accounting, EveryMintAndBurnIsAccounted
  <2>2. SumFunction(AmountsOf(claimedDeposits')) + attestedMintedNanomina'
          = totalSupply' + SumFunction(Burned')
    BY <1>1, <1>2, <1>4, <1>5 DEF Accounting, EveryMintAndBurnIsAccounted
  <2> QED
    BY <1>2, <2>1, <2>2 DEF EveryMintAndBurnIsAccounted
<1>7. IsFiniteSet(claimedDeposits') /\ IsFiniteSet(consumedIntents')
  BY <1>1, FS_AddElement DEF Accounting
<1>8. \A c \in Chains : Regular(c)'
  BY <1>1 DEF Accounting, Regular
<1> QED
  BY <1>6, <1>7, <1>8 DEF Accounting

LEMMA BurnAccounted ==
  ASSUME TypeOK, TypeOK', Accounting, NEW holder \in Accounts,
         NEW amount \in BurnAmounts, NEW word, BurnToMina(holder, amount, word)
  PROVE  Accounting'
<1> DEFINE c == transferChain
           v == balanceOf[holder] - amount
<1>1. /\ c \in Chains /\ word \in MinaKeys /\ amount \in Nat
      /\ chains[c].nextIndex < MaxTransfers
      /\ chains' = [chains EXCEPT ![c] = Appended(chains[c], FMina, word, amount)]
  BY DEF BurnToMina, TypeOK
<1>2. /\ amount <= balanceOf[holder] /\ totalSupply' = totalSupply - amount
      /\ balanceOf' = [balanceOf EXCEPT ![holder] = v]
      /\ UNCHANGED <<claimedDeposits, consumedIntents, attestedMintedNanomina>>
  BY DEF BurnToMina
<1>3. SumFunction(Burned') = SumFunction(Burned) + amount
  BY <1>1, BurnsGrow DEF Accounting
<1>4. \A d \in Chains : Regular(d)'
  BY <1>1, AppendKeepsRegular DEF Accounting
<1>5. balanceOf \in [Accounts -> Nat] /\ balanceOf[holder] \in Nat /\ v \in Nat
  BY <1>1, <1>2 DEF TypeOK
<1> HIDE DEF v
<1>6. SumFunction(balanceOf') + balanceOf[holder] = SumFunction(balanceOf) + v
  BY <1>2, <1>5, OneBalanceChanged
<1>7. /\ SumFunction(balanceOf) = totalSupply /\ totalSupply \in Nat
      /\ SumFunction(balanceOf') \in Nat
  BY BalancesSumIsNat DEF Accounting, EveryMintAndBurnIsAccounted, TypeOK
<1>8. totalSupply' = SumFunction(balanceOf')
  BY <1>1, <1>2, <1>5, <1>6, <1>7 DEF v
<1>9. EveryMintAndBurnIsAccounted'
  <2>1. SumFunction(AmountsOf(claimedDeposits)) + attestedMintedNanomina
          = totalSupply' + SumFunction(Burned')
    BY <1>1, <1>2, <1>3, TotalsTyped DEF Accounting, EveryMintAndBurnIsAccounted
  <2>2. attestedMintedNanomina' = SumFunction(AmountsOf(consumedIntents'))
    BY <1>2 DEF Accounting, EveryMintAndBurnIsAccounted
  <2> QED
    BY <1>2, <1>8, <2>1, <2>2 DEF EveryMintAndBurnIsAccounted
<1> QED
  BY <1>2, <1>4, <1>9 DEF Accounting

\* Only the bridge may record FMINA, so another's record is no burn.
LEMMA ForeignAccounted ==
  ASSUME TypeOK, TypeOK', Accounting, NEW c \in Chains, NEW transfer \in ForeignTransfers,
         ForeignAppend(c, transfer)
  PROVE  Accounting'
<1>1. /\ transfer.token \in Tokens /\ transfer.recipient \in MinaKeys
      /\ transfer.amount \in Nat /\ transfer.appender \in Appenders \ {BridgeAddress}
  OBVIOUS
<1>2. /\ chains[c].nextIndex < MaxTransfers
      /\ <<transfer.appender, transfer.token>> \in chains[c].mayAppend
      /\ chains' = [chains EXCEPT ![c] = Appended(chains[c], transfer.token,
                                                 transfer.recipient, transfer.amount)]
      /\ UNCHANGED <<balanceOf, totalSupply, attestedVars, claimedDeposits>>
  BY DEF ForeignAppend, CanAppend
<1>3. transfer.token # FMina
  BY <1>1, <1>2 DEF Accounting, Regular
<1>4. SumFunction(Burned') = SumFunction(Burned)
  BY <1>1, <1>2, <1>3, BurnsGrow DEF Accounting
<1>5. \A d \in Chains : Regular(d)'
  BY <1>1, <1>2, AppendKeepsRegular DEF Accounting
<1> QED
  BY <1>2, <1>4, <1>5 DEF Accounting, EveryMintAndBurnIsAccounted

\* What one account sends the other receives.
LEMMA TransferAccounted ==
  ASSUME TypeOK, TypeOK', Accounting, NEW from \in Accounts, NEW to \in Accounts,
         NEW amount \in BurnAmounts, Transfer(from, to, amount)
  PROVE  Accounting'
<1> DEFINE less == balanceOf[from] - amount
           more == balanceOf[to] + amount
           sent == [balanceOf EXCEPT ![from] = less]
<1>1. /\ from # to /\ amount <= balanceOf[from]
      /\ balanceOf' = [balanceOf EXCEPT ![from] = less, ![to] = more]
      /\ UNCHANGED <<chains, totalSupply, attestedVars, claimedDeposits>>
  BY DEF Transfer
<1>2. /\ balanceOf \in [Accounts -> Nat] /\ balanceOf[from] \in Nat
      /\ balanceOf[to] \in Nat /\ less \in Nat /\ more \in Nat /\ amount \in Nat
  BY <1>1 DEF TypeOK
<1>3. sent \in [Accounts -> Nat] /\ sent[to] = balanceOf[to]
  BY <1>1, <1>2
<1>4. balanceOf' = [sent EXCEPT ![to] = more]
  BY <1>1, <1>2
<1> HIDE DEF less, more
<1>5. SumFunction(sent) + balanceOf[from] = SumFunction(balanceOf) + less
  BY <1>2, OneBalanceChanged
<1> HIDE DEF sent
<1>6. SumFunction([sent EXCEPT ![to] = more]) + sent[to] = SumFunction(sent) + more
  BY <1>2, <1>3, OneBalanceChanged
<1>7. SumFunction(balanceOf') + balanceOf[to] = SumFunction(sent) + more
  BY <1>3, <1>4, <1>6
<1>8. /\ SumFunction(balanceOf) \in Nat /\ SumFunction(sent) \in Nat
      /\ SumFunction(balanceOf') \in Nat
  BY <1>2, <1>3, BalancesSumIsNat DEF TypeOK
<1>9. SumFunction(balanceOf') = SumFunction(balanceOf)
  BY <1>1, <1>2, <1>5, <1>7, <1>8 DEF less, more
<1>10. Burned' = Burned
  BY <1>1, BurnedUnchanged
<1> QED
  BY <1>1, <1>9, <1>10 DEF Accounting, EveryMintAndBurnIsAccounted, Regular

LEMMA GrantAccounted ==
  ASSUME TypeOK, Accounting, NEW chain \in Chains, NEW grant \in Grants,
         NEW allowed \in BOOLEAN, ChainSetAppender(chain, grant[1], grant[2], allowed)
  PROVE  Accounting'
<1>1. /\ chains' = [chains EXCEPT ![chain] =
                      SetAppender(chains[chain], grant[1], grant[2], allowed)]
      /\ UNCHANGED <<balanceOf, totalSupply, attestedVars, claimedDeposits>>
  BY DEF ChainSetAppender
<1>2. chains \in [Chains -> ChainState] /\ chains[chain] \in ChainState
  BY DEF TypeOK
<1>3. /\ chains'[chain].head = chains[chain].head
      /\ chains'[chain].nextIndex = chains[chain].nextIndex
      /\ chains'[chain].mayAppend
           \subseteq chains[chain].mayAppend \union {<<grant[1], grant[2]>>}
  BY <1>1, <1>2 DEF SetAppender, ChainState
<1>4. \A c \in Chains \ {chain} : chains'[c] = chains[c]
  BY <1>1, <1>2
<1>5. grant[2] = FMina => grant[1] = BridgeAddress
  OBVIOUS
<1>6. ASSUME NEW a \in Appenders, <<a, FMina>> \in chains'[chain].mayAppend
      PROVE  a = BridgeAddress
  BY <1>3, <1>5, <1>6 DEF Accounting, Regular
<1>7. \A c \in Chains : chains'[c].head = chains[c].head /\ Regular(c)'
  BY <1>3, <1>4, <1>6 DEF Accounting, Regular
<1> QED
  BY <1>1, <1>7, AccountingKept

LEMMA NextKeepsAccounting ==
  ASSUME TypeOK, TypeOK', Accounting, [FlareNext]_flareVars
  PROVE  Accounting'
<1>1. ASSUME UNCHANGED <<chains, balanceOf, totalSupply, attestedVars, claimedDeposits>>
      PROVE  Accounting'
  <2>1. \A c \in Chains : chains'[c].head = chains[c].head /\ Regular(c)'
    BY <1>1 DEF Accounting, Regular
  <2> QED
    BY <1>1, <2>1, AccountingKept
<1>2. CASE DepositFlows
  BY <1>1, <1>2, ClaimAccounted, SignedClaimAccounted
     DEF DepositFlows, SubmitDepositBatch
<1>3. CASE HolderFlows
  BY <1>3, BurnAccounted, ForeignAccounted, TransferAccounted DEF HolderFlows
<1>4. CASE Administration
  <2>1. CASE \E chain \in Chains, grant \in Grants, allowed \in BOOLEAN :
               ChainSetAppender(chain, grant[1], grant[2], allowed)
    BY <2>1, GrantAccounted
  <2>2. CASE UNCHANGED <<chains, balanceOf, totalSupply, attestedVars, claimedDeposits>>
    BY <1>1, <2>2
  <2> QED
    BY <1>4, <2>1, <2>2
       DEF Administration, SetEscrowAttestor, LowerAttestedMintLimits,
           ProposeAttestedMintLimitsRaise, CancelAttestedMintLimitsRaise,
           ExecuteAttestedMintLimitsRaise, SetTransferChain, ProposeVerifier,
           CancelVerifierUpdate, ExecuteVerifierUpdate, SetPaused
<1>5. CASE Tick \/ UNCHANGED flareVars
  BY <1>1, <1>5 DEF Tick, flareVars
<1> QED
  BY <1>2, <1>3, <1>4, <1>5 DEF FlareNext

LEMMA AccountingHolds == FlareSpec => []Accounting
<1>1. FlareInit => Accounting
  BY InitAccounting
<1>2. TypeOK /\ TypeOK' /\ Accounting /\ [FlareNext]_flareVars => Accounting'
  BY NextKeepsAccounting
<1> QED
  BY <1>1, <1>2, FlareTypeOK, PTL DEF FlareSpec

\* On whatever path deposits are claimed and by whomever tokens are moved and
\* burned: the supply is in the accounts, the signature path's counter is what
\* its consumed intents add up to, and all that was ever minted and is no longer
\* in supply stands in a record that Mina can be asked to pay
\* (MinaPortBridge.sol 264-283, 392-451, 537-568; TransferChain.sol append).
THEOREM AccountsBalance == FlareSpec => []EveryMintAndBurnIsAccounted
<1>1. Accounting => EveryMintAndBurnIsAccounted
  BY DEF Accounting
<1> QED
  BY <1>1, AccountingHolds, PTL

HIDE DEF withdrawalVars, tokenVars, settlementVars, attestedVars, limitVars,
         verifierVars, limitsFrame, verifierFrame

----------------------------------------------------------------------------
(* The rail.                                                               *)

USE MinaEscrowAssumption, BridgeAssumption

----------------------------------------------------------------------------
(* The Flare side of the composition is FlareBridge.                       *)

\* What a step needs to know to be one of FlareBridge's.
Typed ==
  /\ verifier \in Verifiers
  /\ pendingVerifier \in Verifiers \union {ZeroAddress}
  /\ attested \in SUBSET Deposits

LEMMA InitTyped == BridgeInit => Typed
BY DEF BridgeInit, FlareInit, Typed

\* Only the three rotation actions touch the verifiers.
LEMMA FlareStepTyped ==
  ASSUME Typed, FlareStep
  PROVE  Typed'
<1>1. attested' = attested
  BY DEF FlareStep, watcherVars
<1>2. CASE \E pv \in SoundBatches : SubmitDepositBatch(pv)
  BY <1>1, <1>2 DEF Typed, SubmitDepositBatch, verifierVars
<1>3. CASE \E leaf \in Deposits, depositsRoot \in acceptedDepositRoots :
             ClaimDeposit(leaf, depositsRoot)
  BY <1>1, <1>3 DEF Typed, ClaimDeposit, verifierVars
<1>4. CASE \E intent \in attested, expiry \in Expiries :
             ClaimWithMinaSignature(intent, expiry, WatcherKey)
  BY <1>1, <1>4 DEF Typed, ClaimWithMinaSignature, verifierVars
<1>5. CASE HolderFlows
  BY <1>1, <1>5 DEF Typed, HolderFlows, BurnToMina, ForeignAppend, Transfer,
                    verifierVars
<1>6. CASE Administration
  <2>1. CASE \E v \in VerifierChoices : ProposeVerifier(v)
    BY <1>1, <2>1 DEF Typed, ProposeVerifier
  <2>2. CASE CancelVerifierUpdate
    BY <1>1, <2>2 DEF Typed, CancelVerifierUpdate
  <2>3. CASE ExecuteVerifierUpdate
    BY <1>1, <2>3 DEF Typed, ExecuteVerifierUpdate
  <2>4. CASE UNCHANGED verifierVars
    BY <1>1, <2>4 DEF Typed, verifierVars
  <2> QED
    BY <1>6, <2>1, <2>2, <2>3, <2>4
    DEF Administration, SetEscrowAttestor, LowerAttestedMintLimits,
        ProposeAttestedMintLimitsRaise, CancelAttestedMintLimitsRaise,
        ExecuteAttestedMintLimitsRaise, SetTransferChain, ChainSetAppender,
        SetPaused, limitsFrame
<1>7. CASE Tick
  BY <1>1, <1>7 DEF Typed, Tick, verifierVars
<1> QED
  BY <1>2, <1>3, <1>4, <1>5, <1>6, <1>7 DEF FlareStep

LEMMA NextTyped ==
  ASSUME Typed, [BridgeNext]_bridgeVars
  PROVE  Typed'
<1>1. CASE FlareStep
  BY <1>1, FlareStepTyped
<1>2. CASE MinaStep \/ Poll \/ UNCHANGED bridgeVars
  BY <1>2 DEF Typed, MinaStep, Poll, bridgeVars, flareVars, verifierVars,
              watcherVars
<1>3. CASE \E row \in Deposits : Attest(row)
  BY <1>3 DEF Typed, Attest, flareVars, verifierVars
<1> QED
  BY <1>1, <1>2, <1>3 DEF BridgeNext

\* A step of the rail is a step of the Flare contracts, or leaves them alone.
LEMMA StepIsFlares ==
  ASSUME Typed, [BridgeNext]_bridgeVars
  PROVE  [FlareNext]_flareVars
<1>1. CASE FlareStep
  <2>1. CASE \E pv \in SoundBatches : SubmitDepositBatch(pv)
    <3> PICK pv \in SoundBatches : SubmitDepositBatch(pv)
      BY <2>1
    <3>1. pv \in Accepts[verifier] /\ verifier \in Verifiers
      BY DEF Typed, SubmitDepositBatch
    <3>2. pv \in UNION {Accepts[v] : v \in Verifiers}
      BY <3>1
    <3> QED
      BY <3>2 DEF FlareNext, DepositFlows
  <2>2. CASE \E intent \in attested, expiry \in Expiries :
               ClaimWithMinaSignature(intent, expiry, WatcherKey)
    BY <2>2 DEF Typed, FlareNext, DepositFlows
  <2> QED
    BY <1>1, <2>1, <2>2 DEF FlareStep, FlareNext, DepositFlows
<1>2. CASE MinaStep \/ Poll \/ UNCHANGED bridgeVars
  BY <1>2 DEF MinaStep, Poll, bridgeVars
<1>3. CASE \E row \in Deposits : Attest(row)
  BY <1>3 DEF Attest
<1> QED
  BY <1>1, <1>2, <1>3 DEF BridgeNext

(* Every behaviour of the composed rail is one of FlareBridge by itself:    *)
(* the Mina side and the watcher only choose among what the contracts       *)
(* allow, so whatever is proved of FlareBridge holds of the rail.           *)
THEOREM RailImplementsFlareBridge == BridgeSpec => FlareSpec
<1>1. BridgeInit => FlareInit
  BY DEF BridgeInit
<1> QED
  BY <1>1, InitTyped, NextTyped, StepIsFlares, PTL DEF BridgeSpec, FlareSpec

----------------------------------------------------------------------------
(* Settlement keeps its place.                                             *)

\* SettledPrefix position by position, with the types it needs.
Settled ==
  /\ actionState \in Seq(DepositAction)
  /\ currentMinaActionState \in Seq({Leaf(a) : a \in DepositAction})
  /\ Len(currentMinaActionState) <= Len(actionState)
  /\ \A i \in 1 .. Len(currentMinaActionState) :
       currentMinaActionState[i] = Leaf(actionState[i])
  /\ UNION acceptedDepositRoots
       = {currentMinaActionState[i] : i \in DOMAIN currentMinaActionState}

\* The leaves of Mina's actions, as a sequence.
LEMMA DispatchedSeq ==
  ASSUME actionState \in Seq(DepositAction)
  PROVE  /\ Dispatched \in Seq({Leaf(a) : a \in DepositAction})
         /\ Len(Dispatched) = Len(actionState)
         /\ \A i \in 1 .. Len(actionState) : Dispatched[i] = Leaf(actionState[i])
<1>1. DOMAIN actionState = 1 .. Len(actionState) /\ Len(actionState) \in Nat
  OBVIOUS
<1>2. \A i \in 1 .. Len(actionState) : actionState[i] \in DepositAction
  OBVIOUS
<1>3. Dispatched \in [1 .. Len(actionState) -> {Leaf(a) : a \in DepositAction}]
  BY <1>1, <1>2 DEF Dispatched
<1> QED
  BY <1>1, <1>3 DEF Dispatched

LEMMA SettledIsPrefix == Settled => SettledPrefix
<1> SUFFICES ASSUME Settled PROVE SettledPrefix
  OBVIOUS
<1> DEFINE n == Len(currentMinaActionState)
<1>1. /\ n \in Nat /\ n <= Len(Dispatched)
      /\ Dispatched \in Seq({Leaf(a) : a \in DepositAction})
      /\ currentMinaActionState \in Seq({Leaf(a) : a \in DepositAction})
      /\ \A i \in 1 .. n : currentMinaActionState[i] = Dispatched[i]
  BY DispatchedSeq DEF Settled
<1> HIDE DEF Dispatched
<1>2. /\ SubSeq(Dispatched, 1, n) \in Seq({Leaf(a) : a \in DepositAction})
      /\ Len(SubSeq(Dispatched, 1, n)) = n
      /\ \A i \in 1 .. n : SubSeq(Dispatched, 1, n)[i] = Dispatched[i]
  BY <1>1
<1>3. currentMinaActionState = SubSeq(Dispatched, 1, n)
  BY <1>1, <1>2
<1> QED
  BY <1>1, <1>3 DEF SettledPrefix, Settled

\* A deposit adds an action behind the settled ones.
LEMMA DepositSettles ==
  ASSUME Settled, NEW d \in Deposits, UNCHANGED settlementVars,
         deposit(d.sender, d.nonce, d.recipient, d.amount)
  PROVE  Settled'
<1> DEFINE a == [nonce |-> d.nonce, sender |-> d.sender,
                 flareRecipient |-> d.recipient, amount |-> d.amount]
<1>1. a \in DepositAction /\ actionState' = Append(actionState, a)
  BY DEF Deposit, DepositAction, deposit
<1> HIDE DEF a
<1>2. /\ actionState' \in Seq(DepositAction)
      /\ Len(actionState') = Len(actionState) + 1
      /\ \A i \in 1 .. Len(actionState) : actionState'[i] = actionState[i]
  BY <1>1 DEF Settled
<1>3. Len(currentMinaActionState) \in Nat /\ Len(actionState) \in Nat
  BY DEF Settled
<1>4. /\ currentMinaActionState' = currentMinaActionState
      /\ acceptedDepositRoots' = acceptedDepositRoots
  BY DEF settlementVars
<1>5. ASSUME NEW i \in 1 .. Len(currentMinaActionState)
      PROVE  currentMinaActionState[i] = Leaf(actionState'[i])
  <2>1. i \in 1 .. Len(actionState)
    BY <1>3 DEF Settled
  <2>2. currentMinaActionState[i] = Leaf(actionState[i])
    BY DEF Settled
  <2> QED
    BY <2>1, <2>2, <1>2
<1>6. Len(currentMinaActionState) <= Len(actionState')
  BY <1>2, <1>3 DEF Settled
<1> QED
  BY <1>2, <1>4, <1>5, <1>6 DEF Settled

\* Sequences that agree on a set of positions show the same elements there.
LEMMA SameElements ==
  ASSUME NEW S, NEW f, NEW g, \A i \in S : f[i] = g[i]
  PROVE  {f[i] : i \in S} = {g[i] : i \in S}
<1>1. ASSUME NEW x
      PROVE  x \in {f[i] : i \in S} <=> x \in {g[i] : i \in S}
  <2>1. x \in {f[i] : i \in S} <=> \E i \in S : x = f[i]
    OBVIOUS
  <2>2. x \in {g[i] : i \in S} <=> \E i \in S : x = g[i]
    OBVIOUS
  <2> QED
    BY <2>1, <2>2
<1> QED
  BY <1>1

\* A batch that is accepted starts where the settled state ends.
LEMMA BatchSettles ==
  ASSUME Settled, NEW pv \in SoundBatches, SubmitDepositBatch(pv),
         UNCHANGED actionState
  PROVE  Settled'
<1>0. PICK to \in DOMAIN Dispatched :
        pv \in {BatchOf(from, to, nonce) : from \in 0 .. to, nonce \in 1 .. MaxActions}
  BY DEF SoundBatches
<1> PICK from \in 0 .. to, nonce \in 1 .. MaxActions : pv = BatchOf(from, to, nonce)
  BY <1>0
<1> DEFINE n == Len(currentMinaActionState)
           Leaves == {Leaf(a) : a \in DepositAction}
<1>1. /\ Dispatched \in Seq(Leaves) /\ Len(Dispatched) = Len(actionState)
      /\ \A i \in 1 .. Len(actionState) : Dispatched[i] = Leaf(actionState[i])
  BY DispatchedSeq DEF Settled
<1> HIDE DEF Dispatched, Leaves
<1>2. /\ to \in 1 .. Len(Dispatched) /\ from \in 0 .. Len(Dispatched)
      /\ Len(Dispatched) \in Nat
  BY <1>1
<1>3. /\ SubSeq(Dispatched, 1, from) = currentMinaActionState
      /\ currentMinaActionState' = SubSeq(Dispatched, 1, to)
      /\ acceptedDepositRoots' = acceptedDepositRoots
           \union {{Dispatched[i] : i \in (from + 1) .. to}}
  <2>1. /\ pv.previousActionState = SubSeq(Dispatched, 1, from)
        /\ pv.newActionState = SubSeq(Dispatched, 1, to)
        /\ pv.depositsRoot = {Dispatched[i] : i \in (from + 1) .. to}
    BY DEF BatchOf
  <2>2. /\ pv.previousActionState = currentMinaActionState
        /\ currentMinaActionState' = pv.newActionState
        /\ acceptedDepositRoots' = acceptedDepositRoots \union {pv.depositsRoot}
    BY DEF SubmitDepositBatch
  <2> QED
    BY <2>1, <2>2, Zenon
<1>4. n = from
  <2>1. Len(SubSeq(Dispatched, 1, from)) = from
    BY <1>1, <1>2
  <2> QED
    BY <2>1, <1>3
<1>5. /\ currentMinaActionState' \in Seq(Leaves)
      /\ Len(currentMinaActionState') = to
      /\ \A i \in 1 .. to : currentMinaActionState'[i] = Dispatched[i]
  BY <1>1, <1>2, <1>3
<1>6. \A i \in 1 .. n : currentMinaActionState[i] = Dispatched[i]
  BY <1>1, <1>2, <1>3, <1>4
<1>7. UNION acceptedDepositRoots'
        = (UNION acceptedDepositRoots) \union {Dispatched[i] : i \in (from + 1) .. to}
  BY <1>3
<1>8. UNION acceptedDepositRoots = {Dispatched[i] : i \in 1 .. from}
  <2>1. DOMAIN currentMinaActionState = 1 .. from
    BY <1>4 DEF Settled
  <2>2. UNION acceptedDepositRoots = {currentMinaActionState[i] : i \in 1 .. from}
    BY <2>1 DEF Settled
  <2>3. \A i \in 1 .. from : currentMinaActionState[i] = Dispatched[i]
    BY <1>4, <1>6
  <2>4. {currentMinaActionState[i] : i \in 1 .. from}
          = {Dispatched[i] : i \in 1 .. from}
    BY <2>3, SameElements
  <2> QED
    BY <2>2, <2>4, Zenon
<1>9. UNION acceptedDepositRoots' = {Dispatched[i] : i \in 1 .. to}
  <2>1. 1 .. to = (1 .. from) \union ((from + 1) .. to)
    BY <1>2
  <2> QED
    BY <2>1, <1>7, <1>8
<1>10. UNION acceptedDepositRoots'
         = {currentMinaActionState'[i] : i \in DOMAIN currentMinaActionState'}
  <2>1. DOMAIN currentMinaActionState' = 1 .. to
    BY <1>2, <1>5
  <2>2. {currentMinaActionState'[i] : i \in 1 .. to}
          = {Dispatched[i] : i \in 1 .. to}
    BY <1>5, SameElements
  <2> QED
    BY <2>1, <2>2, <1>9, Zenon
<1>11. \A i \in 1 .. to : currentMinaActionState'[i] = Leaf(actionState[i])
  BY <1>1, <1>2, <1>5
<1> QED
  BY <1>1, <1>2, <1>5, <1>10, <1>11 DEF Settled, Leaves

LEMMA NextSettles ==
  ASSUME Settled, [BridgeNext]_bridgeVars
  PROVE  Settled'
<1>1. ASSUME UNCHANGED <<actionState, settlementVars>>
      PROVE  Settled'
  BY SMTT(30), <1>1 DEF Settled, settlementVars
<1>2. CASE FlareStep
  <2>1. UNCHANGED actionState
    BY <1>2 DEF FlareStep, escrowVars
  <2>2. CASE \E pv \in SoundBatches : SubmitDepositBatch(pv)
    BY <2>1, <2>2, BatchSettles
  <2>3. CASE Administration
    BY <1>1, <2>1, <2>3
    DEF Administration, SetEscrowAttestor, LowerAttestedMintLimits,
        ProposeAttestedMintLimitsRaise, CancelAttestedMintLimitsRaise,
        ExecuteAttestedMintLimitsRaise, SetTransferChain, ChainSetAppender,
        ProposeVerifier, CancelVerifierUpdate, ExecuteVerifierUpdate,
        SetPaused, limitsFrame, verifierFrame, settlementVars
  <2> QED
    BY <1>1, <1>2, <2>1, <2>2, <2>3
    DEF FlareStep, ClaimDeposit, ClaimWithMinaSignature, HolderFlows,
        BurnToMina, ForeignAppend, Transfer, Tick, settlementVars
<1>3. CASE MinaStep
  <2>1. UNCHANGED settlementVars
    BY <1>3 DEF MinaStep, flareVars
  <2>2. CASE \E d \in Deposits : deposit(d.sender, d.nonce, d.recipient, d.amount)
    BY <2>1, <2>2, DepositSettles
  <2>3. CASE UNCHANGED actionState
    BY <1>1, <2>1, <2>3
  <2> QED
    BY <1>3, <2>2, <2>3
    DEF MinaStep, setSigningPolicyRoot, publishFlareActionState, releaseWithdrawal
<1>4. CASE Poll \/ (\E row \in Deposits : Attest(row)) \/ UNCHANGED bridgeVars
  BY <1>1, <1>4 DEF Poll, Attest, bridgeVars, flareVars, escrowVars, settlementVars
<1> QED
  BY <1>2, <1>3, <1>4 DEF BridgeNext

(* The settled action state is always a state Mina had, and the accepted    *)
(* roots hold exactly the deposits up to it, whatever sound batches are     *)
(* submitted in whatever order and however verifiers rotate.                *)
THEOREM SettlementKeepsItsPlace == BridgeSpec => []SettledPrefix
<1>1. BridgeInit => Settled
  BY DEF BridgeInit, FlareInit, EscrowInit, Settled
<1> QED
  BY <1>1, NextSettles, SettledIsPrefix, PTL DEF BridgeSpec

----------------------------------------------------------------------------
(* Types of the rail.  Flare's are FlareBridge's, since the rail implements  *)
(* it; what is left is the escrow and the watcher.                           *)

EscrowTyped ==
  /\ signingPolicyRoot \in Policies \union {NoPolicy}
  /\ flareActionState \in Heads /\ processedActionState \in Heads
  /\ balance \in Nat
  /\ actionState \in Seq(DepositAction)
  /\ withdrawals \in Seq(Withdrawal)
  /\ polled \in Nat \union {NoAccount}
  /\ attested \in SUBSET Deposits

LEMMA InitEscrowTyped == BridgeInit => EscrowTyped
BY DEF BridgeInit, EscrowInit, EscrowTyped, Heads, EmptyHead

\* A payment is covered by the balance, so the balance does not underflow.
LEMMA ReleaseTyped ==
  ASSUME EscrowTyped,
         NEW s \in SegmentsFrom(processedActionState, flareActionState, FMina),
         releaseWithdrawal(s)
  PROVE  /\ processedActionState' \in Heads /\ balance' \in Nat
         /\ withdrawals' \in Seq(Withdrawal)
<1> DEFINE to == flareActionState
<1>1. PICK i \in DOMAIN to : s = FoundSegment(processedActionState, to, FMina, i)
  BY DEF SegmentsFrom
<1>2. to \in Heads /\ i \in 1 .. Len(to) /\ to[i] \in TransferRecord
  BY <1>1 DEF EscrowTyped, Heads
<1>3. /\ processedActionState' = SubSeq(to, 1, i)
      /\ to[i].amount <= balance /\ balance' = balance - to[i].amount
      /\ withdrawals' = Append(withdrawals,
           [at |-> Len(SubSeq(to, 1, i)), recipient |-> to[i].recipient,
            amount |-> to[i].amount])
  <2>1. /\ s.stateAfterFirst = SubSeq(to, 1, i)
        /\ s.firstRecipient = to[i].recipient /\ s.firstAmount = to[i].amount
    BY <1>1 DEF FoundSegment
  <2>2. /\ processedActionState' = s.stateAfterFirst
        /\ s.firstAmount <= balance /\ balance' = balance - s.firstAmount
        /\ withdrawals' = Append(withdrawals,
             [at |-> Len(s.stateAfterFirst), recipient |-> s.firstRecipient,
              amount |-> s.firstAmount])
    BY DEF releaseWithdrawal, Payable, PaymentOf
  <2> QED
    BY <2>1, <2>2
<1> HIDE DEF to
<1>4. SubSeq(to, 1, i) \in Heads /\ Len(SubSeq(to, 1, i)) \in Nat
  BY <1>2 DEF Heads
<1>5. to[i].recipient \in MinaKeys /\ to[i].amount \in Nat
  BY <1>2 DEF TransferRecord
<1>6. balance' \in Nat
  BY <1>3, <1>5 DEF EscrowTyped
<1> DEFINE w == [at |-> Len(SubSeq(to, 1, i)), recipient |-> to[i].recipient,
                 amount |-> to[i].amount]
<1>7. w \in Withdrawal
  BY <1>4, <1>5 DEF Withdrawal
<1> HIDE DEF w
<1>8. withdrawals \in Seq(Withdrawal) /\ withdrawals' = Append(withdrawals, w)
  BY <1>3 DEF w, EscrowTyped
<1>9. withdrawals' \in Seq(Withdrawal)
  BY <1>7, <1>8
<1> QED
  BY <1>3, <1>4, <1>6, <1>9

LEMMA NextEscrowTyped ==
  ASSUME TypeOK, EscrowTyped, [BridgeNext]_bridgeVars
  PROVE  EscrowTyped'
<1>1. CASE FlareStep \/ Poll \/ (\E row \in Deposits : Attest(row)) \/ UNCHANGED bridgeVars
  BY <1>1 DEF FlareStep, Poll, Attest, EscrowTyped, bridgeVars, escrowVars, watcherVars
<1>2. ASSUME MinaStep
      PROVE  EscrowTyped'
  <2>0. UNCHANGED <<polled, attested>>
    BY <1>2 DEF MinaStep, watcherVars
  <2>1. ASSUME NEW root \in Policies, setSigningPolicyRoot(root)
        PROVE  EscrowTyped'
    BY <2>0, <2>1 DEF setSigningPolicyRoot, EscrowTyped
  <2>2. ASSUME NEW d \in Deposits, deposit(d.sender, d.nonce, d.recipient, d.amount)
        PROVE  EscrowTyped'
    <3> DEFINE a == [nonce |-> d.nonce, sender |-> d.sender,
                     flareRecipient |-> d.recipient, amount |-> d.amount]
    <3>1. a \in DepositAction
      BY DEF DepositAction, Deposit
    <3>2. /\ balance' = balance + d.amount /\ actionState' = Append(actionState, a)
          /\ UNCHANGED <<signingPolicyRoot, flareActionState, processedActionState,
                         withdrawals>>
      BY <2>2 DEF deposit
    <3>3. d.amount \in Nat
      BY DEF Deposit
    <3> HIDE DEF a
    <3>4. actionState' \in Seq(DepositAction) /\ balance' \in Nat
      BY <3>1, <3>2, <3>3 DEF EscrowTyped
    <3> QED
      BY <2>0, <3>2, <3>4 DEF EscrowTyped
  <2>3. ASSUME NEW head \in FlareHeads, flareActionState' = head,
               UNCHANGED <<signingPolicyRoot, processedActionState, balance,
                           actionState, withdrawals>>
        PROVE  EscrowTyped'
    <3> DEFINE h == chains[FlareChain].head
    <3>1. h \in Heads
      BY DEF TypeOK, ChainState
    <3>2. PICK n \in 0 .. Len(h) : head = SubSeq(h, 1, n)
      BY <2>3 DEF FlareHeads
    <3> HIDE DEF h
    <3>3. head \in Heads
      BY <3>1, <3>2 DEF Heads
    <3> QED
      BY <2>0, <2>3, <3>3 DEF EscrowTyped
  <2>4. ASSUME NEW s \in SegmentsFrom(processedActionState, flareActionState, FMina),
               releaseWithdrawal(s)
        PROVE  EscrowTyped'
    <3>1. UNCHANGED <<signingPolicyRoot, flareActionState, actionState>>
      BY <2>4 DEF releaseWithdrawal
    <3> QED
      BY <2>0, <2>4, <3>1, ReleaseTyped DEF EscrowTyped
  <2> QED
    BY <1>2, <2>1, <2>2, <2>3, <2>4 DEF MinaStep, publishFlareActionState
<1> QED
  BY <1>1, <1>2 DEF BridgeNext

\* Every variable of the composed rail stays in its type: on neither chain does
\* a claim, a burn or a release take more than is there (MinaPortBridge.sol
\* burnToMina, MinaPortBridge.ts releaseWithdrawal).
THEOREM BridgeTyped == BridgeSpec => []BridgeTypeOK
<1>1. TypeOK /\ EscrowTyped => BridgeTypeOK
  BY DEF EscrowTyped, BridgeTypeOK
<1>2. TypeOK /\ EscrowTyped /\ [BridgeNext]_bridgeVars => EscrowTyped'
  BY NextEscrowTyped
<1> QED
  BY <1>1, <1>2, InitEscrowTyped, RailImplementsFlareBridge, FlareTypeOK, PTL
     DEF BridgeSpec

\* The FMINA supply is the escrow counter in the composed rail as well
\* (MinaPortBridge.sol, collateralInvariantHolds).
THEOREM RailCollateral == BridgeSpec => []Collateral
<1> QED
  BY RailImplementsFlareBridge, CollateralHolds, PTL

----------------------------------------------------------------------------
(* The shortfall.                                                          *)

(* What Mina has paid, and what it was ever given.                          *)
Paid == BurnRecords \ Unpaid
Given == [i \in DOMAIN actionState |-> actionState[i].amount]

(* ShortfallBounded is not inductive: it is the accounts of both sides put  *)
(* together.  The escrow holds what it was given and has not paid; what it  *)
(* has paid are records of Flare's chain; and what was claimed by proof had *)
(* been given.                                                              *)
Backed ==
  /\ Extends(chains[FlareChain].head, flareActionState)
  /\ Extends(chains[FlareChain].head, processedActionState)
  /\ balance + SumFunctionOnSet(Burned, Paid) = SumFunction(Given)
  /\ claimedDeposits \subseteq UNION acceptedDepositRoots

LEMMA PaidAre ==
  ASSUME EscrowTyped
  PROVE  Paid = {b \in BurnRecords : b[1] = FlareChain /\ b[2] <= Len(processedActionState)}
<1>1. Len(processedActionState) \in Nat
  BY DEF EscrowTyped, Heads
<1>2. \A b \in BurnRecords : b[2] \in Nat
  BY DEF BurnRecords
<1> QED
  BY <1>1, <1>2 DEF Paid, Unpaid

GivenIsTyped ==
  /\ DOMAIN Given = 1 .. Len(actionState) /\ IsFiniteSet(1 .. Len(actionState))
  /\ \A i \in 1 .. Len(actionState) : /\ Given[i] = actionState[i].amount
                                     /\ actionState[i] \in DepositAction
                                     /\ Given[i] \in Nat
  /\ SumFunction(Given) = SumFunctionOnSet(Given, 1 .. Len(actionState))

LEMMA GivenTyped == EscrowTyped => GivenIsTyped
<1> SUFFICES ASSUME EscrowTyped PROVE GivenIsTyped
  OBVIOUS
<1>1. /\ DOMAIN actionState = 1 .. Len(actionState) /\ Len(actionState) \in Nat
      /\ \A i \in 1 .. Len(actionState) : actionState[i] \in DepositAction
  BY DEF EscrowTyped
<1>2. /\ DOMAIN Given = 1 .. Len(actionState)
      /\ \A i \in 1 .. Len(actionState) : Given[i] = actionState[i].amount
  BY <1>1 DEF Given
<1>3. \A i \in 1 .. Len(actionState) : Given[i] \in Nat
  BY <1>1, <1>2 DEF DepositAction
<1>4. IsFiniteSet(1 .. Len(actionState))
  BY <1>1, FS_Interval
<1> QED
  BY <1>1, <1>2, <1>3, <1>4, Zenon DEF GivenIsTyped, SumFunction

LEMMA PaidSum ==
  ASSUME TypeOK
  PROVE  /\ IsFiniteSet(Paid) /\ IsFiniteSet(Unpaid)
         /\ SumFunctionOnSet(Burned, Paid) \in Nat
         /\ SumFunctionOnSet(Burned, Unpaid) \in Nat
         /\ SumFunction(Burned)
              = SumFunctionOnSet(Burned, Unpaid) + SumFunctionOnSet(Burned, Paid)
<1>1. /\ BurnRecords = Unpaid \union Paid /\ Unpaid \intersect Paid = {}
      /\ Paid \in SUBSET BurnRecords /\ Unpaid \in SUBSET BurnRecords
  BY DEF Paid, Unpaid
<1>2. IsFiniteSet(Paid) /\ IsFiniteSet(Unpaid)
  BY <1>1, RecordsFinite, FS_Subset
<1>3. /\ \A b \in BurnRecords : Burned[b] \in Nat
      /\ SumFunction(Burned) = SumFunctionOnSet(Burned, BurnRecords)
  BY BurnedTyped DEF BurnedIsTyped
<1>4. SumFunctionOnSet(Burned, Unpaid \union Paid)
        = SumFunctionOnSet(Burned, Unpaid) + SumFunctionOnSet(Burned, Paid)
  BY <1>1, <1>2, <1>3, SumOfUnion
<1>5. SumFunctionOnSet(Burned, Paid) \in Nat /\ SumFunctionOnSet(Burned, Unpaid) \in Nat
  BY <1>1, <1>2, <1>3, SumType
<1> QED
  BY <1>1, <1>2, <1>3, <1>4, <1>5

\* Each leaf that was claimed is that of an action of its own.
LEMMA ClaimedWereGiven ==
  ASSUME TypeOK, EscrowTyped, Settled, Accounting,
         claimedDeposits \subseteq UNION acceptedDepositRoots
  PROVE  SumFunction(AmountsOf(claimedDeposits)) <= SumFunction(Given)
<1> DEFINE N == 1 .. Len(actionState)
           at == [d \in claimedDeposits |-> CHOOSE i \in N : Leaf(actionState[i]) = d]
<1>1. \A d \in claimedDeposits : \E i \in N : Leaf(actionState[i]) = d
  <2> SUFFICES ASSUME NEW d \in claimedDeposits
               PROVE  \E i \in N : Leaf(actionState[i]) = d
    OBVIOUS
  <2>1. /\ Len(currentMinaActionState) \in Nat /\ Len(actionState) \in Nat
        /\ DOMAIN currentMinaActionState = 1 .. Len(currentMinaActionState)
    BY DEF Settled
  <2>2. d \in {currentMinaActionState[i] : i \in DOMAIN currentMinaActionState}
    BY DEF Settled
  <2>3. PICK i \in 1 .. Len(currentMinaActionState) : d = currentMinaActionState[i]
    BY <2>1, <2>2
  <2> QED
    BY <2>1, <2>3 DEF Settled
<1>2. \A d \in claimedDeposits : at[d] \in N /\ Leaf(actionState[at[d]]) = d
  BY <1>1
<1> HIDE DEF at
<1>3. \A c, d \in claimedDeposits : at[c] = at[d] => c = d
  BY <1>2
<1>4. /\ DOMAIN Given = N /\ IsFiniteSet(N)
      /\ \A i \in N : Given[i] = actionState[i].amount /\ Given[i] \in Nat
      /\ SumFunction(Given) = SumFunctionOnSet(Given, N)
  BY GivenTyped DEF GivenIsTyped
<1> DEFINE f == AmountsOf(claimedDeposits)
           Im == {at[d] : d \in claimedDeposits}
<1>5. /\ DOMAIN f = claimedDeposits
      /\ \A d \in claimedDeposits : f[d] = d.amount
  BY DEF AmountsOf
<1>6. \A d \in claimedDeposits : f[d] \in Nat /\ f[d] = Given[at[d]]
  <2> TAKE d \in claimedDeposits
  <2>1. d.amount = actionState[at[d]].amount
    BY <1>2 DEF Leaf
  <2> HIDE DEF f
  <2> QED
    BY <1>2, <1>4, <1>5, <2>1
<1>7. SumFunction(f) = SumFunctionOnSet(f, claimedDeposits)
  BY <1>5, Zenon DEF SumFunction
<1> HIDE DEF f, N
<1>8. SumFunctionOnSet(f, claimedDeposits) = SumFunctionOnSet(Given, Im)
  BY <1>3, <1>6, SumOfImage DEF Accounting
<1>9. SumFunctionOnSet(Given, Im) <= SumFunctionOnSet(Given, N)
  <2>1. Im \in SUBSET N
    BY <1>2
  <2> HIDE DEF Im
  <2> QED
    BY <1>4, <2>1, SumOfPart
<1> QED
  BY <1>4, <1>7, <1>8, <1>9 DEF f

LEMMA BackedBounds ==
  ASSUME TypeOK, EscrowTyped, Settled, Accounting, Backed
  PROVE  ShortfallBounded
<1>1. SumFunction(AmountsOf(claimedDeposits)) <= SumFunction(Given)
  BY ClaimedWereGiven DEF Backed
<1>2. SumFunction(Given) \in Nat
  BY GivenTyped, SumType DEF GivenIsTyped
<1>3. SumFunction(AmountsOf(claimedDeposits)) + attestedMintedNanomina
        = totalSupply + SumFunction(Burned)
  BY DEF Accounting, EveryMintAndBurnIsAccounted
<1> DEFINE claimed == SumFunction(AmountsOf(claimedDeposits))
           paid == SumFunctionOnSet(Burned, Paid)
           unpaid == SumFunctionOnSet(Burned, Unpaid)
           given == SumFunction(Given)
<1>4. /\ claimed + attestedMintedNanomina = totalSupply + (unpaid + paid)
      /\ balance + paid = given /\ claimed <= given
  BY <1>1, <1>3, PaidSum DEF Backed
<1>5. /\ claimed \in Nat /\ paid \in Nat /\ unpaid \in Nat /\ given \in Nat
      /\ totalSupply \in Nat /\ attestedMintedNanomina \in Nat /\ balance \in Nat
  BY <1>2, TotalsTyped, PaidSum DEF EscrowTyped
<1> HIDE DEF claimed, paid, unpaid, given
<1>6. totalSupply + unpaid <= balance + attestedMintedNanomina
  BY <1>4, <1>5
<1> QED
  BY <1>6 DEF ShortfallBounded, Claims, unpaid

\* What leaves the escrow, the claims and what Flare recorded as they were.
LEMMA BackedKept ==
  ASSUME Backed, UNCHANGED <<escrowVars, claimedDeposits>>,
         acceptedDepositRoots \subseteq acceptedDepositRoots',
         \A c \in Chains : chains'[c].head = chains[c].head
  PROVE  Backed'
<1>1. Burned' = Burned /\ BurnRecords' = BurnRecords
  BY BurnedUnchanged
<1>2. Paid' = Paid
  BY <1>1 DEF Paid, Unpaid, escrowVars
<1>3. UNION acceptedDepositRoots \subseteq UNION acceptedDepositRoots'
  OBVIOUS
<1>4. chains'[FlareChain].head = chains[FlareChain].head
  OBVIOUS
<1>5. Extends(chains[FlareChain].head, flareActionState)'
      /\ Extends(chains[FlareChain].head, processedActionState)'
  BY <1>4 DEF Backed, escrowVars, Extends
<1>6. Given' = Given
  BY DEF Given, escrowVars
<1>7. (balance + SumFunctionOnSet(Burned, Paid) = SumFunction(Given))'
  BY <1>1, <1>2, <1>6 DEF Backed, escrowVars
<1> QED
  BY <1>3, <1>5, <1>7 DEF Backed

\* A record, of a burn or not, is behind all that Mina has seen.
LEMMA AppendBacked ==
  ASSUME TypeOK, EscrowTyped, EscrowTyped', \A c \in Chains : Regular(c), Backed,
         NEW c \in Chains, NEW token \in Tokens, NEW key \in MinaKeys,
         NEW amount \in Nat, chains[c].nextIndex < MaxTransfers,
         chains' = [chains EXCEPT ![c] = Appended(chains[c], token, key, amount)],
         UNCHANGED <<escrowVars, claimedDeposits, acceptedDepositRoots>>
  PROVE  Backed'
<1> DEFINE n == Len(chains[c].head)
           new == <<c, n + 1>>
           k == Len(processedActionState)
<1>1. GrewBy(c, token, amount)
  BY AppendedHead
<1>2. /\ n \in Nat /\ k \in Nat /\ Len(flareActionState) \in Nat
  <2>1. chains[c].head \in Seq(TransferRecord)
    BY DEF TypeOK, ChainState, Heads
  <2>2. /\ processedActionState \in Seq(TransferRecord)
        /\ flareActionState \in Seq(TransferRecord)
    BY DEF Heads, EscrowTyped
  <2> QED
    BY <2>1, <2>2
<1>3. ASSUME NEW h \in Heads, Extends(chains[FlareChain].head, h)
      PROVE  Extends(chains'[FlareChain].head, h)
  <2>1. CASE c = FlareChain
    <3>1. /\ Len(chains'[c].head) = n + 1
          /\ \A i \in 1 .. n : chains'[c].head[i] = chains[c].head[i]
      BY <1>1 DEF GrewBy
    <3>2. Len(h) <= n /\ (\A i \in 1 .. Len(h) : chains[c].head[i] = h[i])
      BY <1>3, <2>1 DEF Extends
    <3>3. Len(h) \in Nat
      BY DEF Heads
    <3> HIDE DEF n
    <3>4. Len(h) <= Len(chains'[c].head)
      BY <1>2, <3>1, <3>2, <3>3
    <3>5. \A i \in 1 .. Len(h) : chains'[c].head[i] = h[i]
      BY <1>2, <3>1, <3>2, <3>3
    <3> QED
      BY <2>1, <3>4, <3>5 DEF Extends
  <2>2. CASE c # FlareChain
    <3>1. chains'[FlareChain] = chains[FlareChain]
      BY <1>1, <2>2 DEF GrewBy
    <3> QED
      BY <1>3, <3>1
  <2> QED
    BY <2>1, <2>2
<1>4. /\ Extends(chains'[FlareChain].head, flareActionState')
      /\ Extends(chains'[FlareChain].head, processedActionState')
  BY <1>3 DEF Backed, EscrowTyped, escrowVars
<1>5. /\ \A b \in BurnRecords : b \in BurnRecords' /\ Burned'[b] = Burned[b]
      /\ BurnRecords' \in {BurnRecords, BurnRecords \union {new}}
  BY AppendedBurns
<1>6. Paid' = Paid
  <2>1. Paid = {b \in BurnRecords : b[1] = FlareChain /\ b[2] <= k}
    BY PaidAre
  <2>2. Paid' = {b \in BurnRecords' : b[1] = FlareChain /\ b[2] <= k}
    <3>1. Len(processedActionState') = k
      BY DEF escrowVars
    <3>2. \A b \in BurnRecords' : b[2] \in Nat
      BY DEF BurnRecords
    <3>3. Paid' = {b \in BurnRecords' : ~(b[1] # FlareChain \/ b[2] > k)}
      BY <3>1 DEF Paid, Unpaid
    <3> HIDE DEF k
    <3> QED
      BY <1>2, <3>2, <3>3
  <2>3. ~(new[1] = FlareChain /\ new[2] <= k)
    <3>1. c = FlareChain => k <= n
      BY DEF Backed, Extends
    <3> HIDE DEF n, k
    <3> QED
      BY <1>2, <3>1
  <2> HIDE DEF new, k
  <2> QED
    BY <1>5, <2>1, <2>2, <2>3
<1>7. SumFunctionOnSet(Burned', Paid') = SumFunctionOnSet(Burned, Paid)
  <2>1. \A b \in Paid : Burned'[b] = Burned[b]
    BY <1>5 DEF Paid
  <2> DEFINE f == Burned
             e == Burned'
             S == Paid
  <2>2. IsFiniteSet(S) /\ \A b \in S : e[b] = f[b]
    BY <2>1, PaidSum
  <2> HIDE DEF f, e, S
  <2>3. SumFunctionOnSet(e, S) = SumFunctionOnSet(f, S)
    BY <2>2, SumsAgree
  <2> QED
    BY <1>6, <2>3 DEF f, e, S
<1>8. Given' = Given /\ balance' = balance
  BY DEF Given, escrowVars
<1>9. (balance + SumFunctionOnSet(Burned, Paid) = SumFunction(Given))'
  BY <1>7, <1>8 DEF Backed
<1> QED
  BY <1>4, <1>9 DEF Backed

\* A deposit adds the same to the balance and to what was given.
LEMMA DepositBacked ==
  ASSUME TypeOK, EscrowTyped, EscrowTyped', Backed, NEW d \in Deposits,
         deposit(d.sender, d.nonce, d.recipient, d.amount),
         UNCHANGED <<flareVars>>
  PROVE  Backed'
<1> DEFINE a == [nonce |-> d.nonce, sender |-> d.sender,
                 flareRecipient |-> d.recipient, amount |-> d.amount]
           n == Len(actionState)
<1>1. /\ balance' = balance + d.amount /\ actionState' = Append(actionState, a)
      /\ UNCHANGED <<flareActionState, processedActionState>>
      /\ d.amount \in Nat /\ a.amount = d.amount
  BY DEF deposit, Deposit
<1> HIDE DEF a
<1>2. UNCHANGED <<chains, claimedDeposits, acceptedDepositRoots>>
  BY DEF flareVars, settlementVars
<1>3. /\ n \in Nat /\ Len(actionState') = n + 1
      /\ \A i \in 1 .. n : actionState'[i] = actionState[i]
      /\ actionState'[n + 1] = a
  BY <1>1 DEF EscrowTyped
<1>4. GivenIsTyped /\ GivenIsTyped'
  <2>1. GivenIsTyped
    BY GivenTyped
  <2>2. GivenIsTyped'
    BY GivenTyped, PTL
  <2> QED
    BY <2>1, <2>2
<1> DEFINE f == Given
           e == Given'
<1>5. /\ IsFiniteSet(1 .. n) /\ (\A i \in 1 .. n : e[i] = f[i]) /\ e[n + 1] = d.amount
      /\ \A i \in (1 .. n) \union {n + 1} : e[i] \in Nat
      /\ SumFunction(f) = SumFunctionOnSet(f, 1 .. n)
      /\ SumFunction(e) = SumFunctionOnSet(e, 1 .. (n + 1))
      /\ \A i \in 1 .. n : f[i] \in Nat
  <2>1. /\ IsFiniteSet(1 .. n) /\ SumFunction(f) = SumFunctionOnSet(f, 1 .. n)
        /\ \A i \in 1 .. n : f[i] = actionState[i].amount /\ f[i] \in Nat
    BY <1>4 DEF GivenIsTyped
  <2>2. /\ SumFunction(e) = SumFunctionOnSet(e, 1 .. (n + 1))
        /\ \A i \in 1 .. (n + 1) : e[i] = actionState'[i].amount /\ e[i] \in Nat
    BY <1>3, <1>4 DEF GivenIsTyped
  <2> HIDE DEF f, e, n
  <2>3. (1 .. n) \union {n + 1} = 1 .. (n + 1) /\ n + 1 \notin 1 .. n
    BY <1>3
  <2> QED
    BY <1>1, <1>3, <2>1, <2>2, <2>3
<1> HIDE DEF f, e, n
<1>6. (1 .. n) \union {n + 1} = 1 .. (n + 1) /\ n + 1 \notin 1 .. n
  BY <1>3
<1>7. SumFunctionOnSet(e, (1 .. n) \union {n + 1}) = SumFunctionOnSet(e, 1 .. n) + e[n + 1]
  BY <1>5, <1>6, SumWith
<1>8. SumFunctionOnSet(e, 1 .. n) = SumFunctionOnSet(f, 1 .. n)
  BY <1>5, SumsAgree
<1>9. SumFunction(e) = SumFunction(f) + d.amount
  BY <1>5, <1>6, <1>7, <1>8
<1>10. Paid' = Paid /\ Burned' = Burned
  BY <1>1, <1>2 DEF Paid, Unpaid, Burned, BurnRecords
<1>11. SumFunctionOnSet(Burned, Paid) \in Nat /\ balance \in Nat
  BY PaidSum DEF EscrowTyped
<1>12. balance' + SumFunctionOnSet(Burned', Paid') = SumFunction(e)
  <2>1. balance + SumFunctionOnSet(Burned, Paid) = SumFunction(f)
    BY DEF Backed, f
  <2> QED
    BY <1>1, <1>9, <1>10, <1>11, <2>1
<1>13. balance' + SumFunctionOnSet(Burned', Paid') = SumFunction(Given')
  BY <1>12 DEF e
<1> QED
  BY <1>1, <1>2, <1>13 DEF Backed, Extends

\* A payment leaves the balance and joins what was paid: it is the first burn on
\* Flare's chain that was not.
LEMMA ReleaseBacked ==
  ASSUME TypeOK, EscrowTyped, EscrowTyped', Backed, \A c \in Chains : Regular(c),
         NEW s \in SegmentsFrom(processedActionState, flareActionState, FMina),
         releaseWithdrawal(s), UNCHANGED flareVars
  PROVE  Backed'
<1> DEFINE to == flareActionState
           head == chains[FlareChain].head
           k == Len(processedActionState)
<1>1. PICK i \in DOMAIN to : s = FoundSegment(processedActionState, to, FMina, i)
  BY DEF SegmentsFrom
<1>2. /\ to \in Seq(TransferRecord) /\ head \in Seq(TransferRecord)
      /\ i \in 1 .. Len(to) /\ i \in Nat /\ k \in Nat
      /\ Len(to) \in Nat /\ Len(head) \in Nat /\ to[i] \in TransferRecord
  <2>1. to \in Seq(TransferRecord) /\ processedActionState \in Seq(TransferRecord)
    BY DEF EscrowTyped, Heads
  <2>2. head \in Seq(TransferRecord)
    BY DEF TypeOK, ChainState, Heads
  <2> HIDE DEF to, head
  <2>3. k \in Nat /\ Len(to) \in Nat /\ Len(head) \in Nat
    BY <2>1, <2>2
  <2>4. i \in 1 .. Len(to) /\ i \in Nat /\ to[i] \in TransferRecord
    BY <1>1, <2>1
  <2> QED
    BY <2>1, <2>2, <2>3, <2>4
<1>3. /\ s.stateAfterFirst = SubSeq(to, 1, i) /\ s.to = to /\ s.token = FMina
      /\ s.from = processedActionState /\ s.firstAmount = to[i].amount
  BY <1>1 DEF FoundSegment
<1>4. FirstOfToken(s, i)
  <2>1. PICK j \in DOMAIN to : s.stateAfterFirst = SubSeq(to, 1, j) /\ FirstOfToken(s, j)
    BY DEF SegmentsFrom
  <2>2. j \in 1 .. Len(to)
    BY <1>2, <2>1
  <2> HIDE DEF to
  <2>3. Len(SubSeq(to, 1, i)) = i /\ Len(SubSeq(to, 1, j)) = j
    BY <1>2, <2>2
  <2>4. i = j
    BY <1>3, <2>1, <2>3
  <2> QED
    BY <2>1, <2>4
<1>5. /\ i \in (k + 1) .. Len(to) /\ to[i].token = FMina
      /\ \A j \in (k + 1) .. (i - 1) : to[j].token # FMina
  BY <1>3, <1>4 DEF FirstOfToken
<1>6. /\ processedActionState' = SubSeq(to, 1, i) /\ flareActionState' = to
      /\ balance' = balance - to[i].amount /\ to[i].amount <= balance
      /\ actionState' = actionState
  BY <1>3 DEF releaseWithdrawal, Payable
<1>7. Len(to) <= Len(head) /\ \A j \in 1 .. Len(to) : head[j] = to[j]
  BY DEF Backed, Extends
<1>8. UNCHANGED <<chains, claimedDeposits, acceptedDepositRoots>>
  BY DEF flareVars, settlementVars
<1>9. Extends(head, processedActionState')
  <2> HIDE DEF to, head
  <2>1. /\ Len(SubSeq(to, 1, i)) = i
        /\ \A j \in 1 .. i : SubSeq(to, 1, i)[j] = to[j]
    BY <1>2
  <2> QED
    BY <1>2, <1>6, <1>7, <2>1 DEF Extends
<1>10. Len(head) <= MaxTransfers /\ DOMAIN head = 1 .. Len(head)
  BY <1>2 DEF Regular
<1> DEFINE new == <<FlareChain, i>>
<1>11. /\ new \in BurnRecords /\ new[1] = FlareChain /\ new[2] = i
       /\ Burned[new] = to[i].amount
  <2>1. i \in 1 .. MaxTransfers /\ i \in DOMAIN head /\ head[i] = to[i]
    BY <1>2, <1>5, <1>7, <1>10
  <2>2. new \in BurnRecords
    BY <1>5, <2>1 DEF BurnRecords
  <2> QED
    BY <2>1, <2>2 DEF Burned
<1>12. Burned' = Burned /\ BurnRecords' = BurnRecords /\ Given' = Given
  BY <1>6, <1>8 DEF Burned, BurnRecords, Given
<1>13. \A b \in BurnRecords : b[1] = FlareChain =>
         (b[2] <= i <=> b[2] <= k \/ b = new)
  <2> TAKE b \in BurnRecords
  <2> HAVE b[1] = FlareChain
  <2>1. /\ b = <<b[1], b[2]>> /\ b[2] \in Nat /\ b[2] \in DOMAIN head
        /\ head[b[2]].token = FMina
    BY DEF BurnRecords
  <2>2. b[2] = i <=> b = new
    BY <2>1
  <2> HIDE DEF new, to, head, k
  <2>3. b[2] \in 1 .. Len(head)
    BY <1>10, <2>1
  <2>4. ASSUME b[2] <= i PROVE b[2] <= k \/ b[2] = i
    <3>1. b[2] \in 1 .. Len(to)
      BY <1>2, <2>1, <2>3, <2>4
    <3>2. to[b[2]].token = FMina
      BY <1>7, <2>1, <3>1
    <3>3. ~(b[2] \in (k + 1) .. (i - 1))
      BY <1>5, <3>2
    <3> QED
      BY <1>2, <2>1, <2>4, <3>3, SMTT(30)
  <2> HIDE DEF new, to, head, k
  <2> QED
    BY <1>2, <1>5, <2>1, <2>2, <2>4, SMTT(30)
<1>14. Paid = {b \in BurnRecords : b[1] = FlareChain /\ b[2] <= k}
  BY PaidAre
<1>15. Paid' = {b \in BurnRecords : b[1] = FlareChain /\ b[2] <= i}
  <2>1. Len(processedActionState') = i
    <3> HIDE DEF to
    <3> QED
      BY <1>2, <1>6
  <2>2. \A b \in BurnRecords : b[2] \in Nat
    BY DEF BurnRecords
  <2>3. Paid' = {b \in BurnRecords : ~(b[1] # FlareChain \/ b[2] > i)}
    BY <1>12, <2>1 DEF Paid, Unpaid
  <2> QED
    BY <1>2, <2>2, <2>3
<1> HIDE DEF new, k, to, head
<1>16. Paid' = Paid \union {new} /\ new \notin Paid
  <2>1. ~(new[2] <= k)
    BY <1>2, <1>5, <1>11
  <2> QED
    BY <1>11, <1>13, <1>14, <1>15, <2>1
<1>17. SumFunctionOnSet(Burned, Paid \union {new}) = SumFunctionOnSet(Burned, Paid) + Burned[new]
  <2>1. \A b \in BurnRecords : Burned[b] \in Nat
    BY BurnedTyped DEF BurnedIsTyped
  <2>2. IsFiniteSet(Paid) /\ Paid \union {new} \subseteq BurnRecords
    BY <1>11, PaidSum DEF Paid
  <2> QED
    BY <1>16, <2>1, <2>2, SumWith
<1>18. balance' + SumFunctionOnSet(Burned', Paid') = SumFunction(Given')
  <2>1. SumFunctionOnSet(Burned, Paid) \in Nat /\ balance \in Nat /\ to[i].amount \in Nat
    BY <1>2, PaidSum DEF EscrowTyped, TransferRecord
  <2>2. balance + SumFunctionOnSet(Burned, Paid) = SumFunction(Given)
    BY DEF Backed
  <2>3. SumFunctionOnSet(Burned', Paid') = SumFunctionOnSet(Burned, Paid) + to[i].amount
    BY <1>11, <1>12, <1>16, <1>17
  <2> QED
    BY <1>6, <1>12, <2>1, <2>2, <2>3
<1>19. Extends(chains[FlareChain].head, processedActionState)'
  BY <1>8, <1>9 DEF head
<1>20. Extends(chains[FlareChain].head, flareActionState)'
  BY <1>6, <1>8 DEF Backed, to
<1> QED
  BY <1>8, <1>18, <1>19, <1>20 DEF Backed

\* A published head is one that Flare's chain had.
LEMMA PublishBacked ==
  ASSUME TypeOK, EscrowTyped, Backed, NEW h \in FlareHeads, flareActionState' = h,
         UNCHANGED <<flareVars, processedActionState, balance, actionState>>
  PROVE  Backed'
<1> DEFINE head == chains[FlareChain].head
<1>1. head \in Seq(TransferRecord)
  BY DEF TypeOK, ChainState, Heads
<1>2. PICK n \in 0 .. Len(head) : h = SubSeq(head, 1, n)
  BY DEF FlareHeads
<1>3. Extends(head, h)
  <2> HIDE DEF head
  <2>1. Len(SubSeq(head, 1, n)) = n /\ \A j \in 1 .. n : SubSeq(head, 1, n)[j] = head[j]
    BY <1>1, <1>2
  <2> QED
    BY <1>1, <1>2, <2>1 DEF Extends
<1>4. UNCHANGED <<chains, claimedDeposits, acceptedDepositRoots>>
  BY DEF flareVars, settlementVars
<1>5. Paid' = Paid /\ Burned' = Burned /\ Given' = Given
  BY <1>4 DEF Paid, Unpaid, Burned, BurnRecords, Given
<1>6. (balance + SumFunctionOnSet(Burned, Paid) = SumFunction(Given))'
  BY <1>5 DEF Backed
<1> QED
  BY <1>3, <1>4, <1>6 DEF Backed, head

LEMMA NextBacked ==
  ASSUME TypeOK, TypeOK', EscrowTyped, EscrowTyped', Accounting, Backed,
         [BridgeNext]_bridgeVars
  PROVE  Backed'
<1>0. \A c \in Chains : Regular(c)
  BY DEF Accounting
<1>1. ASSUME UNCHANGED <<escrowVars, claimedDeposits, acceptedDepositRoots, chains>>
      PROVE  Backed'
  BY <1>1, BackedKept
<1>2. CASE FlareStep
  <2>0. UNCHANGED escrowVars
    BY <1>2 DEF FlareStep
  <2>1. ASSUME NEW pv, SubmitDepositBatch(pv)
        PROVE  Backed'
    BY <2>0, <2>1, BackedKept DEF SubmitDepositBatch
  <2>2. ASSUME NEW leaf \in Deposits, NEW root \in acceptedDepositRoots,
               ClaimDeposit(leaf, root)
        PROVE  Backed'
    <3>1. /\ leaf \in root /\ claimedDeposits' = claimedDeposits \union {leaf}
          /\ UNCHANGED <<chains, acceptedDepositRoots>>
      BY <2>2 DEF ClaimDeposit, settlementVars
    <3>2. claimedDeposits' \subseteq UNION acceptedDepositRoots'
      BY <3>1 DEF Backed
    <3>3. Paid' = Paid /\ Burned' = Burned /\ Given' = Given
      BY <2>0, <3>1 DEF Paid, Unpaid, Burned, BurnRecords, Given, escrowVars
    <3>4. (balance + SumFunctionOnSet(Burned, Paid) = SumFunction(Given))'
      BY <2>0, <3>3 DEF Backed, escrowVars
    <3> QED
      BY <2>0, <3>1, <3>2, <3>4 DEF Backed, escrowVars
  <2>3. ASSUME NEW intent, NEW expiry, ClaimWithMinaSignature(intent, expiry, WatcherKey)
        PROVE  Backed'
    BY <1>1, <2>0, <2>3 DEF ClaimWithMinaSignature, settlementVars
  <2>4. ASSUME NEW holder \in Accounts, NEW amount \in BurnAmounts, NEW word,
               BurnToMina(holder, amount, word)
        PROVE  Backed'
    <3>1. /\ transferChain \in Chains /\ word \in MinaKeys /\ amount \in Nat
          /\ chains[transferChain].nextIndex < MaxTransfers
          /\ chains' = [chains EXCEPT ![transferChain] =
                          Appended(chains[transferChain], FMina, word, amount)]
          /\ UNCHANGED <<claimedDeposits, acceptedDepositRoots>>
      BY <2>4 DEF BurnToMina, TypeOK, settlementVars
    <3> QED
      BY <1>0, <2>0, <3>1, AppendBacked
  <2>5. ASSUME NEW c \in Chains, NEW transfer \in ForeignTransfers,
               ForeignAppend(c, transfer)
        PROVE  Backed'
    <3>1. /\ transfer.token \in Tokens /\ transfer.recipient \in MinaKeys
          /\ transfer.amount \in Nat /\ chains[c].nextIndex < MaxTransfers
          /\ chains' = [chains EXCEPT ![c] = Appended(chains[c], transfer.token,
                                                     transfer.recipient, transfer.amount)]
          /\ UNCHANGED <<claimedDeposits, acceptedDepositRoots>>
      BY <2>5 DEF ForeignAppend, settlementVars
    <3> QED
      BY <1>0, <2>0, <3>1, AppendBacked
  <2>6. ASSUME NEW from, NEW to, NEW amount, Transfer(from, to, amount)
        PROVE  Backed'
    BY <1>1, <2>0, <2>6 DEF Transfer, settlementVars
  <2>7. CASE Administration
    <3>1. ASSUME NEW chain \in Chains, NEW grant \in Grants, NEW allowed \in BOOLEAN,
                 ChainSetAppender(chain, grant[1], grant[2], allowed)
          PROVE  Backed'
      <4>1. /\ chains' = [chains EXCEPT ![chain] =
                            SetAppender(chains[chain], grant[1], grant[2], allowed)]
            /\ UNCHANGED <<claimedDeposits, acceptedDepositRoots>>
        BY <3>1 DEF ChainSetAppender, settlementVars
      <4>2. chains \in [Chains -> ChainState]
        BY DEF TypeOK
      <4>3. \A c \in Chains : chains'[c].head = chains[c].head
        BY <4>1, <4>2 DEF SetAppender, ChainState
      <4> QED
        BY <2>0, <4>1, <4>3, BackedKept
    <3>2. CASE UNCHANGED <<chains, claimedDeposits, acceptedDepositRoots>>
      BY <1>1, <2>0, <3>2
    <3> QED
      BY <2>7, <3>1, <3>2
         DEF Administration, SetEscrowAttestor, LowerAttestedMintLimits,
             ProposeAttestedMintLimitsRaise, CancelAttestedMintLimitsRaise,
             ExecuteAttestedMintLimitsRaise, SetTransferChain, ProposeVerifier,
             CancelVerifierUpdate, ExecuteVerifierUpdate, SetPaused, limitsFrame,
             verifierFrame, settlementVars
  <2>8. CASE Tick
    BY <1>1, <2>0, <2>8 DEF Tick, settlementVars
  <2> QED
    BY <1>2, <2>1, <2>2, <2>3, <2>4, <2>5, <2>6, <2>7, <2>8 DEF FlareStep, HolderFlows
<1>3. CASE MinaStep
  <2>0. UNCHANGED flareVars
    BY <1>3 DEF MinaStep
  <2>1. CASE \E root \in Policies : root # signingPolicyRoot /\ setSigningPolicyRoot(root)
    <3>1. UNCHANGED <<chains, claimedDeposits, acceptedDepositRoots>>
      BY <2>0 DEF flareVars, settlementVars
    <3>2. UNCHANGED <<flareActionState, processedActionState, balance, actionState>>
      BY <2>1 DEF setSigningPolicyRoot
    <3>3. Paid' = Paid /\ Burned' = Burned /\ Given' = Given
      BY <3>1, <3>2 DEF Paid, Unpaid, Burned, BurnRecords, Given
    <3> QED
      BY <3>1, <3>2, <3>3 DEF Backed
  <2>2. ASSUME NEW d \in Deposits, deposit(d.sender, d.nonce, d.recipient, d.amount)
        PROVE  Backed'
    BY <2>0, <2>2, DepositBacked
  <2>3. ASSUME NEW h \in FlareHeads, flareActionState' = h,
               UNCHANGED <<processedActionState, balance, actionState>>
        PROVE  Backed'
    BY <2>0, <2>3, PublishBacked
  <2>4. ASSUME NEW s \in SegmentsFrom(processedActionState, flareActionState, FMina),
               releaseWithdrawal(s)
        PROVE  Backed'
    BY <1>0, <2>0, <2>4, ReleaseBacked
  <2> QED
    BY <1>3, <2>1, <2>2, <2>3, <2>4 DEF MinaStep, publishFlareActionState
<1>4. CASE Poll \/ (\E row \in Deposits : Attest(row)) \/ UNCHANGED bridgeVars
  BY <1>1, <1>4 DEF Poll, Attest, bridgeVars, flareVars, settlementVars
<1> QED
  BY <1>2, <1>3, <1>4 DEF BridgeNext

(* Whatever the watcher signs, whichever path a deposit is claimed on and   *)
(* however often, whatever is burned, published and paid in whatever order: *)
(* what the holders can still ask of the escrow exceeds what it holds by at *)
(* most what the signature path has minted (GAP 1 of the threat model;      *)
(* MinaPortBridge.sol claimDeposit, claimWithMinaSignature and burnToMina,  *)
(* MinaPortBridge.ts deposit and releaseWithdrawal).                        *)
THEOREM ShortfallIsBounded == BridgeSpec => []ShortfallBounded
<1>1. BridgeInit => Settled
  BY DEF BridgeInit, FlareInit, EscrowInit, Settled
<1>2. BridgeInit => Backed
  <2> SUFFICES ASSUME BridgeInit PROVE Backed
    OBVIOUS
  <2>1. Paid = {} /\ DOMAIN Given = {}
    BY DEF BridgeInit, FlareInit, EscrowInit, Paid, BurnRecords, NewChain, EmptyHead, Given
  <2>2. SumFunctionOnSet(Burned, Paid) = 0 /\ SumFunction(Given) = 0
    BY <2>1, SumOfNone DEF SumFunction
  <2> QED
    BY <2>2 DEF BridgeInit, FlareInit, EscrowInit, Backed, NewChain, EmptyHead, Extends
<1>3. BridgeSpec => [](TypeOK /\ Accounting)
  BY RailImplementsFlareBridge, FlareTypeOK, AccountingHolds, PTL
<1>4. BridgeSpec => []EscrowTyped
  <2>1. TypeOK /\ EscrowTyped /\ [BridgeNext]_bridgeVars => EscrowTyped'
    BY NextEscrowTyped
  <2> QED
    BY <2>1, <1>3, InitEscrowTyped, PTL DEF BridgeSpec
<1>5. Settled /\ [BridgeNext]_bridgeVars => Settled'
  BY NextSettles
<1>6. TypeOK /\ TypeOK' /\ EscrowTyped /\ EscrowTyped' /\ Accounting /\ Backed
        /\ [BridgeNext]_bridgeVars => Backed'
  BY NextBacked
<1>7. TypeOK /\ EscrowTyped /\ Settled /\ Accounting /\ Backed => ShortfallBounded
  BY BackedBounds
<1> QED
  BY <1>1, <1>2, <1>3, <1>4, <1>5, <1>6, <1>7, PTL DEF BridgeSpec
============================================================================
