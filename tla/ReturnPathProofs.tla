-------------------------- MODULE ReturnPathProofs --------------------------
(***************************************************************************)
(* The escrow never leaves Flare's chain and has paid exactly the FMINA    *)
(* transfers below its cursor, for every set of transfers, accounts,       *)
(* policies and attestations, and a chain of any length.                   *)
(*                                                                         *)
(* The invariant adds to what the runs check that no round attests more of *)
(* the chain than there is.  Given that, a publication keeps the accepted  *)
(* head on the chain, and a release pays the first FMINA transfer between  *)
(* two heads that are on it.                                               *)
(*                                                                         *)
(* So it implements the abstract queue: a record of FMINA takes the next   *)
(* place in it, and a release pays what is in the oldest place not paid.   *)
(***************************************************************************)
EXTENDS ReturnPath, FiniteSetTheorems, SequenceTheorems, TLAPS

USE MaxUint64Assumption, MinaEscrowAssumption, ReturnPathAssumption

SignedIsOnTheChain == \A p \in Policies : signed[p] <= Len(chain.head)

Inv == TypeOK /\ OnTheChain /\ PaidExactlyBelowCursor /\ SignedIsOnTheChain

----------------------------------------------------------------------------
(* Heads.                                                                  *)

\* A prefix of a head is a head the longer one extends.
LEMMA PrefixOfHead ==
  ASSUME NEW s \in Heads, NEW n \in 0 .. Len(s)
  PROVE  /\ SubSeq(s, 1, n) \in Heads
         /\ Len(SubSeq(s, 1, n)) = n
         /\ Extends(s, SubSeq(s, 1, n))
<1>1. /\ SubSeq(s, 1, n) \in Heads /\ Len(SubSeq(s, 1, n)) = n
      /\ \A k \in 1 .. n : SubSeq(s, 1, n)[k] = s[k]
  BY DEF Heads
<1> QED
  BY <1>1 DEF Extends, Heads

\* One more record extends a head, and whatever it extended.
LEMMA AppendedExtends ==
  ASSUME NEW s \in Heads, NEW r \in TransferRecord, NEW h \in Heads,
         Extends(s, h)
  PROVE  /\ applyTransfer(s, r) \in Heads
         /\ Len(applyTransfer(s, r)) = Len(s) + 1
         /\ Extends(applyTransfer(s, r), s)
         /\ Extends(applyTransfer(s, r), h)
<1>1. /\ applyTransfer(s, r) \in Heads
      /\ Len(applyTransfer(s, r)) = Len(s) + 1
      /\ Extends(applyTransfer(s, r), s)
  BY DEF applyTransfer, Extends, Heads
<1>2. Extends(applyTransfer(s, r), h)
  BY <1>1 DEF Extends, Heads
<1> QED
  BY <1>1, <1>2

----------------------------------------------------------------------------
(* What publication and release rely on.                                   *)

\* The only attestations the escrow takes are of heads the chain has had.
LEMMA PublishableIsOnTheChain ==
  ASSUME Inv, NEW a \in Attestations, Publishable(a)
  PROVE  a.actionState \in Heads /\ Extends(chain.head, a.actionState)
<1>1. a \in SoundAttestations
  BY DEF Attestations, UnsoundAttestations, Publishable
<1>2. PICK p \in Policies : a \in {Attested(HeadAt(n), p) : n \in 1 .. signed[p]}
  BY <1>1 DEF SoundAttestations
<1> PICK n \in 1 .. signed[p] : a = Attested(HeadAt(n), p)
  BY <1>2
<1>3. a.actionState = SubSeq(chain.head, 1, n)
  BY DEF Attested, HeadAt
<1>4. chain.head \in Heads /\ n \in 0 .. Len(chain.head)
  <2>1. signed[p] \in Nat /\ signed[p] <= Len(chain.head)
    BY DEF Inv, TypeOK, SignedIsOnTheChain
  <2>2. chain.head \in Heads
    BY DEF Inv, TypeOK, ChainState
  <2>3. Len(chain.head) \in Nat
    BY <2>2 DEF Heads
  <2> QED
    BY <2>1, <2>2, <2>3
<1> QED
  BY <1>3, <1>4, PrefixOfHead

\* The payments are right as long as the chain under the cursor stays put.
LEMMA PaidStaysPaid ==
  ASSUME Inv, chain.head' \in Heads, Extends(chain.head', chain.head),
         UNCHANGED <<withdrawals, processedActionState>>
  PROVE  PaidExactlyBelowCursor'
<1>1. /\ processedActionState \in Heads /\ chain.head \in Heads
      /\ Len(processedActionState) <= Len(chain.head)
  BY DEF Inv, TypeOK, OnTheChain, Extends, ChainState
<1>2. ASSUME NEW i \in 1 .. Len(processedActionState)
      PROVE  chain.head'[i] = chain.head[i]
  BY <1>1 DEF Extends, Heads
<1> QED
  BY <1>2 DEF Inv, PaidExactlyBelowCursor

LEMMA ReleaseKeepsInv ==
  ASSUME Inv, Release
  PROVE  Inv'
<1>0. PICK from \in KnownHeads, to \in KnownHeads, token \in Tokens :
        \E i \in DOMAIN to :
          /\ FirstOfToken(FoundSegment(from, to, token, i), i)
          /\ releaseWithdrawal(FoundSegment(from, to, token, i))
  BY DEF Release
<1>1. PICK i \in DOMAIN to :
        /\ FirstOfToken(FoundSegment(from, to, token, i), i)
        /\ releaseWithdrawal(FoundSegment(from, to, token, i))
  BY <1>0
<1> DEFINE last == Len(processedActionState)
           w == [at |-> Len(SubSeq(to, 1, i)), recipient |-> to[i].recipient,
                 amount |-> to[i].amount]
<1>2. /\ from = processedActionState /\ to = flareActionState
      /\ token = EscrowToken /\ to[i].amount <= balance
      /\ processedActionState' = SubSeq(to, 1, i)
      /\ balance' = balance - to[i].amount
      /\ withdrawals' = Append(withdrawals, w)
      /\ UNCHANGED <<signingPolicyRoot, flareActionState, actionState>>
      /\ UNCHANGED pathVars
  <2>1. UNCHANGED pathVars
    BY DEF Release
  <2> QED
    BY <1>1, <2>1 DEF releaseWithdrawal, Payable, PaymentOf, FoundSegment
<1>3. /\ i \in (Len(from) + 1) .. Len(to) /\ to[i].token = token
      /\ \A j \in (Len(from) + 1) .. (i - 1) : to[j].token # token
  BY <1>1 DEF FirstOfToken, FoundSegment
<1>4. /\ to \in Heads /\ from \in Heads /\ chain.head \in Heads
      /\ Extends(chain.head, to) /\ Extends(chain.head, from)
      /\ Len(to) \in Nat /\ last \in Nat /\ Len(chain.head) \in Nat
  BY SMTT(30), <1>2 DEF Inv, TypeOK, OnTheChain, ChainState, Heads
<1>5. i \in 1 .. Len(to) /\ i \in 0 .. Len(to) /\ last < i /\ i \in Nat
  BY <1>2, <1>3, <1>4
<1>6. /\ processedActionState' \in Heads /\ Len(processedActionState') = i
      /\ Extends(to, processedActionState')
  BY <1>2, <1>4, <1>5, PrefixOfHead
<1>7. Extends(chain.head, processedActionState')
  <2>1. Len(processedActionState') <= Len(chain.head)
    BY <1>4, <1>5, <1>6 DEF Extends
  <2>2. ASSUME NEW k \in 1 .. Len(processedActionState')
        PROVE  chain.head[k] = processedActionState'[k]
    <3>1. k \in 1 .. Len(to)
      BY <1>4, <1>5, <1>6
    <3> QED
      BY <1>4, <1>6, <3>1 DEF Extends
  <2> QED
    BY <2>1, <2>2 DEF Extends
<1>8. \A k \in 1 .. Len(to) : chain.head[k] = to[k]
  BY <1>4 DEF Extends
<1>9. to[i] \in TransferRecord
  BY <1>4, <1>5 DEF Heads
<1>10. w \in Withdrawal /\ w.at = i
  BY <1>2, <1>5, <1>6, <1>9 DEF Withdrawal, TransferRecord
<1>11. TypeOK'
  <2>1. to[i].amount \in Nat
    BY <1>9 DEF TransferRecord
  <2>2. balance' \in Nat
    BY <1>2, <2>1, SMTT(30) DEF Inv, TypeOK
  <2>3. withdrawals' \in Seq(Withdrawal)
    <3> HIDE DEF w
    <3>1. withdrawals \in Seq(Withdrawal)
      BY DEF Inv, TypeOK
    <3> QED
      BY <1>2, <1>10, <3>1
  <2> QED
    BY <1>2, <1>6, <2>2, <2>3 DEF Inv, TypeOK, pathVars
<1>12. OnTheChain'
  BY <1>2, <1>7 DEF Inv, OnTheChain, pathVars
<1>13. SignedIsOnTheChain'
  BY <1>2 DEF Inv, SignedIsOnTheChain, pathVars
<1>14. /\ withdrawals \in Seq(Withdrawal)
       /\ Len(withdrawals') = Len(withdrawals) + 1
       /\ withdrawals'[Len(withdrawals) + 1] = w
       /\ \A n \in 1 .. Len(withdrawals) : withdrawals'[n] = withdrawals[n]
  <2> HIDE DEF w
  <2>1. withdrawals \in Seq(Withdrawal)
    BY DEF Inv, TypeOK
  <2> QED
    BY <1>2, <1>10, <2>1
<1>15. /\ DOMAIN withdrawals = 1 .. Len(withdrawals)
       /\ DOMAIN withdrawals' = 1 .. (Len(withdrawals) + 1)
       /\ Len(withdrawals) \in Nat
  BY <1>2, <1>14
<1>16. chain' = chain
  BY <1>2 DEF pathVars
<1>17. /\ chain.head[i].token = EscrowToken
       /\ chain.head[i].recipient = w.recipient /\ chain.head[i].amount = w.amount
  BY <1>2, <1>3, <1>5, <1>8
<1>18. \A n \in DOMAIN withdrawals : withdrawals[n].at \in 1 .. last
  BY DEF Inv, PaidExactlyBelowCursor
<1>19. PaidExactlyBelowCursor'
  <2>1. ASSUME NEW n \in DOMAIN withdrawals'
        PROVE  /\ withdrawals'[n].at \in 1 .. Len(processedActionState')
               /\ chain.head[withdrawals'[n].at].token = EscrowToken
               /\ chain.head[withdrawals'[n].at].recipient = withdrawals'[n].recipient
               /\ chain.head[withdrawals'[n].at].amount = withdrawals'[n].amount
    <3>1. CASE n \in DOMAIN withdrawals
      <4>1. withdrawals'[n] = withdrawals[n]
        BY <1>14, <1>15, <3>1
      <4>2. withdrawals[n].at \in 1 .. i
        BY <1>5, <1>4, <1>18, <3>1
      <4>3. /\ chain.head[withdrawals[n].at].token = EscrowToken
            /\ chain.head[withdrawals[n].at].recipient = withdrawals[n].recipient
            /\ chain.head[withdrawals[n].at].amount = withdrawals[n].amount
        BY <3>1 DEF Inv, PaidExactlyBelowCursor
      <4> QED
        BY <1>6, <4>1, <4>2, <4>3
    <3>2. CASE n = Len(withdrawals) + 1
      BY <1>5, <1>6, <1>10, <1>14, <1>17, <3>2
    <3> QED
      BY <1>15, <3>1, <3>2
  <2>2. ASSUME NEW m \in DOMAIN withdrawals', NEW n \in DOMAIN withdrawals', m < n
        PROVE  withdrawals'[m].at < withdrawals'[n].at
    <3>1. m \in DOMAIN withdrawals /\ withdrawals'[m] = withdrawals[m]
      BY <1>14, <1>15, <2>2
    <3>2. CASE n \in DOMAIN withdrawals
      <4>1. withdrawals'[n] = withdrawals[n]
        BY <1>14, <1>15, <3>2
      <4>2. withdrawals[m].at < withdrawals[n].at
        BY <2>2, <3>1, <3>2 DEF Inv, PaidExactlyBelowCursor
      <4> QED
        BY <3>1, <4>1, <4>2
    <3>3. CASE n = Len(withdrawals) + 1
      <4>1. withdrawals'[n].at = i
        BY <1>10, <1>14, <3>3
      <4>2. withdrawals[m].at \in 1 .. last
        BY <1>18, <3>1
      <4> QED
        BY <1>4, <1>5, <3>1, <4>1, <4>2
    <3> QED
      BY <1>15, <3>2, <3>3
  <2>3. ASSUME NEW k \in 1 .. Len(processedActionState'),
               chain.head[k].token = EscrowToken
        PROVE  \E n \in DOMAIN withdrawals' : withdrawals'[n].at = k
    <3>1. CASE k \in 1 .. last
      <4>1. PICK n \in DOMAIN withdrawals : withdrawals[n].at = k
        BY <2>3, <3>1 DEF Inv, PaidExactlyBelowCursor
      <4>2. n \in DOMAIN withdrawals' /\ withdrawals'[n] = withdrawals[n]
        BY <1>14, <1>15
      <4> QED
        BY <4>1, <4>2
    <3>2. CASE k \in (last + 1) .. (i - 1)
      <4>1. to[k].token # EscrowToken
        BY <1>2, <1>3, <3>2
      <4>2. k \in 1 .. Len(to)
        BY <1>4, <1>5, <3>2
      <4> QED
        BY <1>8, <2>3, <4>1, <4>2
    <3>3. CASE k = i
      <4>1. Len(withdrawals) + 1 \in DOMAIN withdrawals'
        BY <1>15
      <4> QED
        BY <1>10, <1>14, <3>3, <4>1
    <3>4. k \in 1 .. i
      BY <1>6
    <3> QED
      BY <1>4, <1>5, <3>1, <3>2, <3>3, <3>4
  <2> QED
    BY <1>16, <2>1, <2>2, <2>3 DEF PaidExactlyBelowCursor
<1> QED
  BY <1>11, <1>12, <1>13, <1>19 DEF Inv

LEMMA RecordKeepsInv ==
  ASSUME Inv, NEW t \in Transfers, Record(t)
  PROVE  Inv'
<1> DEFINE r == [index |-> chain.nextIndex, token |-> t.token,
                 recipient |-> t.recipient, amount |-> t.amount]
<1>1. chain \in ChainState /\ chain.head \in Heads /\ chain.nextIndex \in Nat
  BY DEF Inv, TypeOK, ChainState
<1>2. r \in TransferRecord
  BY <1>1 DEF TransferRecord
<1>3. /\ chain' = [chain EXCEPT !.nextIndex = chain.nextIndex + 1,
                               !.head = applyTransfer(chain.head, r)]
      /\ signed' = [signed EXCEPT ![policy] = Len(chain.head) + 1]
      /\ UNCHANGED <<escrowVars, policy, strays>>
  BY Zenon DEF Record, Appended
<1>4. chain.head' = applyTransfer(chain.head, r)
  BY <1>1, <1>3 DEF ChainState
<1>5. /\ chain.head' \in Heads /\ Len(chain.head') = Len(chain.head) + 1
      /\ Extends(chain.head', chain.head)
      /\ Extends(chain.head', flareActionState)
      /\ Extends(chain.head', processedActionState)
  <2>1. /\ flareActionState \in Heads /\ processedActionState \in Heads
        /\ Extends(chain.head, flareActionState)
        /\ Extends(chain.head, processedActionState)
    BY DEF Inv, TypeOK, OnTheChain
  <2> QED
    BY <1>1, <1>2, <1>4, <2>1, AppendedExtends
<1>6. chain' \in ChainState
  <2>1. chain.nextIndex + 1 \in Nat /\ applyTransfer(chain.head, r) \in Heads
    BY <1>1, <1>4, <1>5
  <2> QED
    BY <1>1, <1>3, <2>1 DEF ChainState
<1>7. Len(chain.head) \in Nat
  BY <1>1 DEF Heads
<1>8. TypeOK'
  BY SMTT(30), <1>3, <1>6, <1>7 DEF Inv, TypeOK, escrowVars
<1>9. OnTheChain'
  BY <1>3, <1>5 DEF OnTheChain, escrowVars
<1>10. PaidExactlyBelowCursor'
  <2>1. UNCHANGED <<withdrawals, processedActionState>>
    BY <1>3 DEF escrowVars
  <2> QED
    BY <1>5, <2>1, PaidStaysPaid
<1>11. SignedIsOnTheChain'
  <2>1. /\ signed \in [Policies -> Nat] /\ policy' = policy
        /\ \A p \in Policies : signed[p] <= Len(chain.head)
    BY <1>3 DEF Inv, TypeOK, SignedIsOnTheChain
  <2>2. ASSUME NEW p \in Policies
        PROVE  signed'[p] <= Len(chain.head) + 1
    <3>1. signed'[p] = IF p = policy THEN Len(chain.head) + 1 ELSE signed[p]
      BY <1>3, <2>1
    <3>2. signed[p] \in Nat /\ signed[p] <= Len(chain.head)
      BY <2>1
    <3> QED
      BY <1>7, <3>1, <3>2
  <2> QED
    BY <1>5, <2>2 DEF SignedIsOnTheChain
<1> QED
  BY <1>8, <1>9, <1>10, <1>11 DEF Inv

----------------------------------------------------------------------------
(* The induction.                                                          *)

LEMMA InitInv == Init => Inv
<1> SUFFICES ASSUME Init PROVE Inv
  OBVIOUS
<1>1. EmptyHead \in Heads /\ Len(EmptyHead) = 0 /\ chain.head = EmptyHead
  BY DEF Init, NewChain, EmptyHead, Heads
<1>2. chain \in ChainState
  BY <1>1 DEF Init, NewChain, ChainState
<1>3. Extends(EmptyHead, EmptyHead)
  BY DEF Extends, EmptyHead
<1>4. TypeOK
  BY <1>1, <1>2 DEF Init, EscrowInit, TypeOK
<1>5. OnTheChain
  BY <1>1, <1>3 DEF Init, EscrowInit, OnTheChain
<1>6. PaidExactlyBelowCursor
  BY <1>1 DEF Init, EscrowInit, PaidExactlyBelowCursor
<1>7. SignedIsOnTheChain
  BY <1>1 DEF Init, SignedIsOnTheChain
<1> QED
  BY <1>4, <1>5, <1>6, <1>7 DEF Inv

LEMMA NextKeepsInv == Inv /\ [Next]_vars => Inv'
<1> SUFFICES ASSUME Inv, [Next]_vars PROVE Inv'
  OBVIOUS
<1>1. ASSUME NEW t \in Transfers, Record(t)
      PROVE  Inv'
  BY <1>1, RecordKeepsInv
<1>2. CASE RotatePolicy
  <2>1. /\ policy' = policy + 1 /\ policy < LastPolicy /\ policy \in Policies
        /\ signed' = [signed EXCEPT ![policy + 1] = Len(chain.head)]
        /\ UNCHANGED <<escrowVars, chain, strays>>
    BY <1>2 DEF RotatePolicy, Inv, TypeOK
  <2>2. Len(chain.head) \in Nat
    BY DEF Inv, TypeOK, ChainState, Heads
  <2>3. TypeOK'
    BY <2>1, <2>2 DEF Inv, TypeOK, escrowVars
  <2>4. SignedIsOnTheChain'
    BY <2>1, <2>2 DEF Inv, TypeOK, SignedIsOnTheChain
  <2> QED
    BY <2>1, <2>3, <2>4 DEF Inv, OnTheChain, PaidExactlyBelowCursor, escrowVars
<1>3. CASE SetPolicy
  BY <1>3 DEF SetPolicy, setSigningPolicyRoot, pathVars, Inv, TypeOK, OnTheChain,
              PaidExactlyBelowCursor, SignedIsOnTheChain
<1>4. CASE Deposit
  <2>1. PICK d \in DepositInputs :
          deposit(d.sender, d.nonce, d.flareRecipient, d.amount)
    BY <1>4 DEF Deposit
  <2> DEFINE act == [nonce |-> d.nonce, sender |-> d.sender,
                     flareRecipient |-> d.flareRecipient, amount |-> d.amount]
  <2>2. /\ balance' = balance + d.amount /\ d.flareRecipient \in FlareAddresses
        /\ actionState' = Append(actionState, act)
        /\ UNCHANGED <<signingPolicyRoot, flareActionState, processedActionState,
                       withdrawals>>
        /\ UNCHANGED pathVars
    BY <1>4, <2>1 DEF Deposit, deposit
  <2>3. act \in DepositAction
    BY <2>2 DEF DepositAction
  <2>4. actionState' \in Seq(DepositAction)
    BY <2>2, <2>3 DEF Inv, TypeOK
  <2>5. balance' \in Nat
    BY <2>2 DEF Inv, TypeOK
  <2> QED
    BY <2>2, <2>4, <2>5 DEF pathVars, Inv, TypeOK, OnTheChain,
                            PaidExactlyBelowCursor, SignedIsOnTheChain
<1>5. ASSUME NEW a \in Attestations, publishFlareActionState(a),
             UNCHANGED <<chain, policy, signed>>, strays' \in Nat
      PROVE  Inv'
  <2>1. a.actionState \in Heads /\ Extends(chain.head, a.actionState)
    BY <1>5, PublishableIsOnTheChain DEF publishFlareActionState
  <2> QED
    BY <1>5, <2>1 DEF publishFlareActionState, Inv, TypeOK, OnTheChain,
                      PaidExactlyBelowCursor, SignedIsOnTheChain
<1>6. CASE PublishHead
  BY <1>5, <1>6 DEF PublishHead, pathVars, Inv, TypeOK
<1>7. CASE PublishOther
  BY <1>5, <1>7 DEF PublishOther, Inv, TypeOK
<1>8. CASE Release
  BY <1>8, ReleaseKeepsInv
<1>9. CASE UNCHANGED vars
  BY <1>9 DEF vars, escrowVars, pathVars, Inv, TypeOK, OnTheChain,
              PaidExactlyBelowCursor, SignedIsOnTheChain
<1> QED
  BY <1>1, <1>2, <1>3, <1>4, <1>6, <1>7, <1>8, <1>9 DEF Next

\* What the escrow accepts and follows is always a head Flare's chain had, and
\* it has paid every FMINA transfer below its cursor, each once, in order, to
\* its recipient and in full, and nothing else (MinaPortBridge.ts 278-352).
THEOREM PaidExactly == Spec => [](OnTheChain /\ PaidExactlyBelowCursor)
<1>1. Inv => OnTheChain /\ PaidExactlyBelowCursor
  BY DEF Inv
<1> QED
  BY <1>1, InitInv, NextKeepsInv, PTL DEF Spec

\* Every variable of the return path stays in its type: no payment underflows
\* the escrow's balance, whatever is attested and published.
THEOREM ReturnPathTypeOK == Spec => []TypeOK
<1>1. Inv => TypeOK
  BY DEF Inv
<1> QED
  BY <1>1, InitInv, NextKeepsInv, PTL DEF Spec

\* What the escrow accepts and follows is always a head that Flare's chain had
\* (publishFlareActionState of MinaPortBridge.ts).
THEOREM EscrowOnTheChain == Spec => []OnTheChain
<1> QED
  BY PaidExactly, PTL

\* No release moves the cursor back or leaves it where it was, so no transfer
\* is ever offered for payment again (MinaPortBridge.ts 316-342).
THEOREM CursorOnlyAdvances == Spec => CursorAdvances
<1> DEFINE Advance == processedActionState' # processedActionState =>
                        /\ Extends(processedActionState', processedActionState)
                        /\ Len(processedActionState') > Len(processedActionState)
<1>1. ASSUME Inv, Release
      PROVE  Advance
  <2>0. PICK from \in KnownHeads, to \in KnownHeads, token \in Tokens :
          \E i \in DOMAIN to :
            /\ FirstOfToken(FoundSegment(from, to, token, i), i)
            /\ releaseWithdrawal(FoundSegment(from, to, token, i))
    BY <1>1 DEF Release
  <2>1. PICK i \in DOMAIN to :
          /\ FirstOfToken(FoundSegment(from, to, token, i), i)
          /\ releaseWithdrawal(FoundSegment(from, to, token, i))
    BY <2>0
  <2>2. /\ from = processedActionState /\ to = flareActionState
        /\ processedActionState' = SubSeq(to, 1, i)
        /\ i \in (Len(from) + 1) .. Len(to)
    BY <2>1 DEF releaseWithdrawal, Payable, PaymentOf, FoundSegment, FirstOfToken
  <2>3. /\ to \in Heads /\ from \in Heads /\ chain.head \in Heads
        /\ Extends(chain.head, to) /\ Extends(chain.head, from)
        /\ Len(to) \in Nat /\ Len(from) \in Nat
    BY <1>1, <2>2 DEF Inv, TypeOK, OnTheChain, ChainState, Heads
  <2>4. i \in 0 .. Len(to) /\ Len(from) < i
    BY <2>2, <2>3
  <2>5. /\ Len(processedActionState') = i
        /\ Extends(to, processedActionState') /\ processedActionState' \in Heads
    BY <2>2, <2>3, <2>4, PrefixOfHead
  <2>6. \A k \in 1 .. Len(from) : processedActionState'[k] = from[k]
    BY <2>3, <2>4, <2>5 DEF Extends, Heads
  <2> QED
    BY <2>2, <2>3, <2>4, <2>5, <2>6 DEF Extends
<1>2. Next /\ ~Release => UNCHANGED processedActionState
  BY DEF Next, Record, RotatePolicy, SetPolicy, Deposit, PublishHead, PublishOther,
         setSigningPolicyRoot, deposit, publishFlareActionState, escrowVars
<1>3. Inv /\ [Next]_vars => [Advance]_vars
  BY <1>1, <1>2 DEF vars, escrowVars
<1> QED
  BY <1>3, InitInv, NextKeepsInv, PTL DEF Spec, CursorAdvances
----------------------------------------------------------------------------
(* The queue.  A place in it is a number of positions of the chain, so the  *)
(* invariant adds that every place is taken and that the payments made are  *)
(* as many as the places below the cursor.                                  *)

Filled == \A n \in 1 .. Cardinality(OwedAt) : \E i \in OwedAt : PlaceOf(i) = n
PassedAt == {i \in OwedAt : i <= Len(processedActionState)}
PassedArePaid == Len(withdrawals) = Cardinality(PassedAt)

QueueInv == Filled /\ PassedArePaid

LEMMA OwedFinite ==
  ASSUME Inv
  PROVE  /\ Len(chain.head) \in Nat /\ DOMAIN chain.head = 1 .. Len(chain.head)
         /\ OwedAt \subseteq 1 .. Len(chain.head)
         /\ IsFiniteSet(OwedAt) /\ Cardinality(OwedAt) \in Nat
         /\ \A S \in SUBSET OwedAt :
              /\ IsFiniteSet(S) /\ Cardinality(S) \in Nat
              /\ Cardinality(S) <= Cardinality(OwedAt)
<1>1. Len(chain.head) \in Nat /\ DOMAIN chain.head = 1 .. Len(chain.head)
  BY DEF Inv, TypeOK, ChainState, Heads
<1>2. OwedAt \subseteq 1 .. Len(chain.head)
  BY <1>1 DEF OwedAt
<1>3. IsFiniteSet(OwedAt)
  <2>1. 1 \in Int /\ Len(chain.head) \in Int
    BY <1>1
  <2>2. IsFiniteSet(1 .. Len(chain.head))
    BY <2>1, FS_Interval
  <2> QED
    BY <1>2, <2>2, FS_Subset
<1> QED
  BY <1>1, <1>2, <1>3, FS_Subset, FS_CardinalityType

\* Places follow positions.
LEMMA PlacesAscend ==
  ASSUME Inv, NEW i \in OwedAt, NEW k \in OwedAt, i < k
  PROVE  PlaceOf(i) < PlaceOf(k)
<1> DEFINE low == {j \in OwedAt : j <= i}
           high == {j \in OwedAt : j <= k}
<1>1. OwedAt \subseteq Nat
  BY OwedFinite
<1>2. low \subseteq high /\ k \in high /\ k \notin low /\ high \subseteq OwedAt
  <2>1. i \in Nat /\ k \in Nat /\ ~(k <= i) /\ k <= k
    BY <1>1
  <2>2. \A j \in OwedAt : j <= i => j <= k
    BY <1>1, <2>1
  <2> QED
    BY <2>1, <2>2
<1>3. IsFiniteSet(high) /\ Cardinality(low) \in Nat /\ Cardinality(high) \in Nat
  BY <1>2, OwedFinite
<1> HIDE DEF low, high
<1>4. Cardinality(low) <= Cardinality(high) /\ Cardinality(low) # Cardinality(high)
  BY <1>2, <1>3, FS_Subset
<1>5. Cardinality(low) < Cardinality(high)
  BY <1>3, <1>4
<1> QED
  BY <1>5 DEF PlaceOf, low, high

\* What is owed in a place is the transfer that has it.
EachInItsPlace ==
  \A i \in OwedAt : /\ PlaceOf(i) \in 1 .. Cardinality(OwedAt)
                    /\ \A n : n = PlaceOf(i) => OwedIn(n) = i

LEMMA OwedInPlace == Inv => EachInItsPlace
<1> SUFFICES ASSUME Inv, NEW i \in OwedAt
             PROVE  /\ PlaceOf(i) \in 1 .. Cardinality(OwedAt)
                    /\ OwedIn(PlaceOf(i)) = i
  BY DEF EachInItsPlace
<1> DEFINE low == {j \in OwedAt : j <= i}
<1>1. OwedAt \subseteq Nat
  BY OwedFinite
<1>2. i \in low /\ low \subseteq OwedAt
  BY <1>1
<1>3. IsFiniteSet(low) /\ Cardinality(low) \in Nat /\ Cardinality(low) <= Cardinality(OwedAt)
      /\ Cardinality(OwedAt) \in Nat
  BY <1>2, OwedFinite
<1> HIDE DEF low
<1>4. Cardinality(low) # 0
  BY <1>2, <1>3, FS_EmptySet
<1>5. Cardinality(low) \in 1 .. Cardinality(OwedAt)
  BY <1>3, <1>4
<1>6. PlaceOf(i) \in 1 .. Cardinality(OwedAt)
  BY <1>5 DEF PlaceOf, low
<1>7. \A k \in OwedAt : PlaceOf(k) = PlaceOf(i) => k = i
  <2> SUFFICES ASSUME NEW k \in OwedAt, k # i PROVE PlaceOf(k) # PlaceOf(i)
    OBVIOUS
  <2>1. PlaceOf(k) < PlaceOf(i) \/ PlaceOf(i) < PlaceOf(k)
    BY <1>1, PlacesAscend
  <2>2. PlaceOf(k) \in Nat /\ PlaceOf(i) \in Nat
    BY OwedFinite DEF PlaceOf
  <2> QED
    BY <2>1, <2>2
<1>8. OwedIn(PlaceOf(i)) = i
  <2>1. OwedIn(PlaceOf(i)) \in OwedAt /\ PlaceOf(OwedIn(PlaceOf(i))) = PlaceOf(i)
    BY DEF OwedIn
  <2> QED
    BY <1>7, <2>1
<1> QED
  BY <1>6, <1>8

\* Every place in the queue is that of a transfer on the chain.
LEMMA OwedIsThere ==
  ASSUME Inv, Filled, NEW n \in 1 .. Cardinality(OwedAt)
  PROVE  OwedIn(n) \in OwedAt /\ PlaceOf(OwedIn(n)) = n
BY DEF Filled, OwedIn

\* Nothing of the queue changes while the chain, the cursor and the payments
\* stay.
LEMMA QueueFrame ==
  ASSUME UNCHANGED chain
  PROVE  /\ OwedAt' = OwedAt /\ Owed' = Owed /\ (Filled' <=> Filled)
         /\ \A i : PlaceOf(i)' = PlaceOf(i)
<1>1. OwedAt' = OwedAt
  BY DEF OwedAt
<1>2. \A i : PlaceOf(i)' = PlaceOf(i)
  BY <1>1 DEF PlaceOf
<1>3. \A n : OwedIn(n)' = OwedIn(n)
  BY <1>1, <1>2 DEF OwedIn
<1>4. Owed' = Owed
  BY <1>1, <1>3 DEF Owed
<1>5. Filled' <=> Filled
  BY <1>1, <1>2 DEF Filled
<1> QED
  BY <1>1, <1>2, <1>4, <1>5

\* Queues are sequences of requests, of any amount.
Asked == [recipient : MinaKeys \union {NoKey}, amount : Nat]

LEMMA AppendIs ==
  ASSUME NEW S, NEW s \in Seq(S), NEW e \in S, NEW g, DOMAIN g = 1 .. Len(s) + 1,
         g = [k \in DOMAIN g |-> g[k]],
         \A k \in 1 .. Len(s) : g[k] = s[k], g[Len(s) + 1] = e
  PROVE  g = Append(s, e)
<1>1. /\ Append(s, e) \in Seq(S) /\ Len(Append(s, e)) = Len(s) + 1 /\ Len(s) \in Nat
      /\ \A k \in 1 .. Len(s) : s[k] \in S /\ Append(s, e)[k] = s[k]
      /\ Append(s, e)[Len(s) + 1] = e
  OBVIOUS
<1>2. \A k \in 1 .. Len(s) + 1 : g[k] = Append(s, e)[k] /\ g[k] \in S
  BY <1>1
<1>3. g \in [1 .. Len(s) + 1 -> S]
  BY <1>2
<1>4. g \in Seq(S) /\ Len(g) = Len(s) + 1
  BY <1>1, <1>3
<1> QED
  BY <1>1, <1>2, <1>4, SeqEqual

LEMMA OwedIsASequence ==
  ASSUME Inv, Filled
  PROVE  Owed \in Seq(Asked) /\ Len(Owed) = Cardinality(OwedAt)
<1> DEFINE N == Cardinality(OwedAt)
<1>1. ASSUME NEW n \in 1 .. N
      PROVE  Request(chain.head[OwedIn(n)]) \in Asked
  <2>1. OwedIn(n) \in 1 .. Len(chain.head)
    BY OwedIsThere, OwedFinite
  <2>2. chain.head[OwedIn(n)] \in TransferRecord
    BY <2>1 DEF Inv, TypeOK, ChainState, Heads
  <2> QED
    BY <2>2 DEF TransferRecord, Request, Asked
<1>2. N \in Nat /\ Owed = [n \in 1 .. N |-> Request(chain.head[OwedIn(n)])]
  BY OwedFinite DEF Owed
<1> HIDE DEF N
<1>3. Owed \in [1 .. N -> Asked]
  BY <1>1, <1>2
<1>4. Owed \in Seq(Asked) /\ Len(Owed) = N
  BY <1>2, <1>3
<1> QED
  BY <1>4 DEF N

LEMMA PaidIsASequence ==
  ASSUME Inv
  PROVE  Paid \in Seq(Asked) /\ Len(Paid) = Len(withdrawals)
<1>1. withdrawals \in Seq(Withdrawal)
  BY DEF Inv, TypeOK
<1>2. ASSUME NEW n \in 1 .. Len(withdrawals)
      PROVE  Request(withdrawals[n]) \in Asked
  <2>1. withdrawals[n] \in Withdrawal
    BY <1>1
  <2> QED
    BY <2>1 DEF Withdrawal, Request, Asked
<1>3. Paid = [n \in 1 .. Len(withdrawals) |-> Request(withdrawals[n])]
  BY <1>1 DEF Paid
<1>4. Paid \in [1 .. Len(withdrawals) -> Asked] /\ Len(withdrawals) \in Nat
  BY <1>1, <1>2, <1>3
<1> QED
  BY <1>4

\* What a record changes; one of another token asks for nothing.
LEMMA RecordIs ==
  ASSUME Inv, NEW t \in Transfers, Record(t)
  PROVE  /\ Len(chain.head') = Len(chain.head) + 1
         /\ \A k \in 1 .. Len(chain.head) : chain.head'[k] = chain.head[k]
         /\ chain.head'[Len(chain.head) + 1].token = t.token
         /\ Request(chain.head'[Len(chain.head) + 1]) = Request(t)
         /\ OwedAt' = OwedAt \union (IF t.token = EscrowToken
                                     THEN {Len(chain.head) + 1} ELSE {})
         /\ UNCHANGED <<withdrawals, processedActionState, balance>>
<1> DEFINE r == [index |-> chain.nextIndex, token |-> t.token,
                 recipient |-> t.recipient, amount |-> t.amount]
           last == Len(chain.head) + 1
<1>1. chain \in ChainState /\ chain.head \in Heads /\ chain.nextIndex \in Nat
  BY DEF Inv, TypeOK, ChainState
<1>2. r \in TransferRecord
  BY <1>1 DEF TransferRecord
<1>3. /\ chain' = [chain EXCEPT !.nextIndex = chain.nextIndex + 1,
                               !.head = applyTransfer(chain.head, r)]
      /\ UNCHANGED escrowVars
  BY Zenon DEF Record, Appended
<1>4. chain.head' = applyTransfer(chain.head, r)
  BY <1>1, <1>3 DEF ChainState
<1>5. r.token = t.token /\ Request(r) = Request(t)
  BY DEF Request
<1> HIDE DEF r
<1>6. /\ Len(chain.head') = last /\ DOMAIN chain.head' = 1 .. last
      /\ \A k \in 1 .. Len(chain.head) : chain.head'[k] = chain.head[k]
      /\ chain.head'[last] = r
  BY <1>1, <1>2, <1>4 DEF applyTransfer, Heads
<1>7. /\ Len(chain.head) \in Nat /\ DOMAIN chain.head = 1 .. Len(chain.head)
  BY OwedFinite
<1>8. OwedAt' = OwedAt \union (IF t.token = EscrowToken THEN {last} ELSE {})
  <2>1. ASSUME NEW k
        PROVE  k \in OwedAt' <=> k \in OwedAt \/ (k = last /\ t.token = EscrowToken)
    <3>1. k \in OwedAt' <=> k \in 1 .. last /\ chain.head'[k].token = EscrowToken
      BY <1>6 DEF OwedAt
    <3>2. k \in OwedAt <=> k \in 1 .. Len(chain.head) /\ chain.head[k].token = EscrowToken
      BY <1>7 DEF OwedAt
    <3>3. k \in 1 .. last <=> k \in 1 .. Len(chain.head) \/ k = last
      BY <1>7
    <3>4. last \notin 1 .. Len(chain.head)
      BY <1>7
    <3> QED
      BY <1>5, <1>6, <3>1, <3>2, <3>3, <3>4
  <2> QED
    BY <2>1
<1> QED
  BY <1>3, <1>5, <1>6, <1>8 DEF escrowVars

LEMMA RecordAsks ==
  ASSUME Inv, QueueInv, NEW t \in Transfers, Record(t)
  PROVE  /\ QueueInv'
         /\ Owed' = IF t.token = EscrowToken THEN Append(Owed, Request(t)) ELSE Owed
<1> PICK last : last = Len(chain.head) + 1
  OBVIOUS
<1> PICK N : N = Cardinality(OwedAt)
  OBVIOUS
<1>1. /\ Len(chain.head) \in Nat /\ OwedAt \subseteq 1 .. Len(chain.head)
      /\ IsFiniteSet(OwedAt) /\ N \in Nat /\ last \notin OwedAt
      /\ OwedAt \subseteq Nat /\ \A j \in OwedAt : j <= last
  BY OwedFinite
<1>2. /\ \A k \in 1 .. Len(chain.head) : chain.head'[k] = chain.head[k]
      /\ Request(chain.head'[last]) = Request(t)
      /\ OwedAt' = OwedAt \union (IF t.token = EscrowToken THEN {last} ELSE {})
      /\ UNCHANGED <<withdrawals, processedActionState, balance>>
  BY RecordIs
<1>3. Len(processedActionState) \in Nat /\ Len(processedActionState) <= Len(chain.head)
  BY DEF Inv, TypeOK, OnTheChain, Extends, Heads
<1>4. ASSUME NEW i \in 1 .. Len(chain.head)
      PROVE  PlaceOf(i)' = PlaceOf(i)
  <2>1. i < last
    BY <1>1
  <2>2. {j \in OwedAt' : j <= i} = {j \in OwedAt : j <= i}
    BY <1>1, <1>2, <2>1
  <2> QED
    BY <2>2 DEF PlaceOf
<1>5. PassedAt' = PassedAt
  <2>1. Len(processedActionState)' < last
    BY <1>1, <1>2, <1>3
  <2>2. PassedAt' = {j \in OwedAt' : j <= Len(processedActionState)}
    BY <1>2 DEF PassedAt
  <2> QED
    BY <1>1, <1>2, <1>3, <2>1, <2>2 DEF PassedAt
<1>6. PassedArePaid'
  BY <1>2, <1>5 DEF QueueInv, PassedArePaid
<1>7. Inv'
  BY RecordKeepsInv
<1>8. (\A i \in OwedAt : \A n : n = PlaceOf(i) => OwedIn(n) = i)'
  <2>1. Inv' => EachInItsPlace'
    BY OwedInPlace, PTL
  <2> QED
    BY <1>7, <2>1 DEF EachInItsPlace
<1>9. ASSUME NEW n \in 1 .. N
      PROVE  /\ OwedIn(n)' = OwedIn(n) /\ OwedIn(n) \in OwedAt
             /\ \E i \in OwedAt' : PlaceOf(i)' = n
  <2>1. PICK i \in OwedAt : i = OwedIn(n) /\ PlaceOf(i) = n
    BY OwedIsThere DEF QueueInv
  <2>2. i \in OwedAt' /\ PlaceOf(i)' = n
    BY <1>1, <1>2, <1>4, <2>1
  <2> QED
    BY <1>8, <2>1, <2>2
<1>10. \A n \in 1 .. N : Request(chain.head[OwedIn(n)])' = Request(chain.head[OwedIn(n)])
  BY <1>1, <1>2, <1>9 DEF Request
<1>11. CASE t.token # EscrowToken
  <2>1. OwedAt' = OwedAt
    BY <1>2, <1>11
  <2>2. Owed' = Owed
    BY <1>10, <2>1 DEF Owed
  <2>3. Filled'
    BY <1>9, <2>1 DEF Filled
  <2> QED
    BY <1>6, <1>11, <2>2, <2>3 DEF QueueInv
<1>12. CASE t.token = EscrowToken
  <2>1. OwedAt' = OwedAt \union {last}
    BY <1>2, <1>12
  <2>2. Cardinality(OwedAt') = N + 1
    BY <1>1, <2>1, FS_AddElement
  <2>3. PlaceOf(last)' = N + 1
    <3>1. \A j \in OwedAt' : j <= last
      BY <1>1, <2>1
    <3>2. {j \in OwedAt' : j <= last} = OwedAt'
      BY <3>1
    <3> QED
      BY <2>2, <3>2 DEF PlaceOf
  <2>4. OwedIn(N + 1)' = last
    BY <1>8, <2>1, <2>3
  <2>5. Request(chain.head[OwedIn(N + 1)])' = Request(t)
    BY <1>2, <2>4 DEF Request
  <2>6. Filled'
    <3> SUFFICES ASSUME NEW n \in 1 .. N + 1 PROVE \E i \in OwedAt' : PlaceOf(i)' = n
      BY <2>2 DEF Filled
    <3>1. CASE n = N + 1
      BY <2>1, <2>3, <3>1
    <3>2. CASE n # N + 1
      <4>1. n \in 1 .. N
        BY <1>1, <3>2
      <4> QED
        BY <1>9, <4>1
    <3> QED
      BY <3>1, <3>2
  <2>7. Owed' = [n \in 1 .. N + 1 |-> Request(chain.head[OwedIn(n)])']
    BY <2>2 DEF Owed
  <2>8. Owed' = Append(Owed, Request(t))
    <3>1. Owed \in Seq(Asked) /\ Len(Owed) = N /\ Request(t) \in Asked
      BY <1>1, OwedIsASequence DEF QueueInv, Request, Asked
    <3>2. \A n \in 1 .. N : Owed'[n] = Owed[n]
      <4>1. \A n \in 1 .. N : Owed[n] = Request(chain.head[OwedIn(n)])
        BY DEF Owed
      <4>2. \A n \in 1 .. N : n \in 1 .. N + 1
        BY <1>1
      <4>3. \A n \in 1 .. N : Owed'[n] = Request(chain.head[OwedIn(n)])'
        BY <2>7, <4>2
      <4> QED
        BY <1>10, <4>1, <4>3
    <3>3. Owed'[N + 1] = Request(t)
      BY <1>1, <2>5, <2>7
    <3>4. DOMAIN Owed' = 1 .. N + 1 /\ Owed' = [n \in DOMAIN Owed' |-> Owed'[n]]
      BY <2>7
    <3> QED
      BY <3>1, <3>2, <3>3, <3>4, AppendIs
  <2> QED
    BY <1>6, <1>12, <2>6, <2>8 DEF QueueInv
<1> QED
  BY <1>11, <1>12

\* A release pays what is owed in the next place.
LEMMA ReleaseIs ==
  ASSUME Inv, Release
  PROVE  \E i \in OwedAt :
           /\ Len(processedActionState) < i /\ Len(processedActionState') = i
           /\ \A j \in OwedAt : j < i => j <= Len(processedActionState)
           /\ chain.head[i].amount <= balance
           /\ balance' = balance - chain.head[i].amount
           /\ withdrawals' = Append(withdrawals, [at |-> i, recipient |-> chain.head[i].recipient,
                                                   amount |-> chain.head[i].amount])
           /\ UNCHANGED chain
<1>0. PICK from \in KnownHeads, to \in KnownHeads, token \in Tokens :
        \E i \in DOMAIN to :
          /\ FirstOfToken(FoundSegment(from, to, token, i), i)
          /\ releaseWithdrawal(FoundSegment(from, to, token, i))
  BY DEF Release
<1>1. PICK i \in DOMAIN to :
        /\ FirstOfToken(FoundSegment(from, to, token, i), i)
        /\ releaseWithdrawal(FoundSegment(from, to, token, i))
  BY <1>0
<1>2. /\ from = processedActionState /\ to = flareActionState
      /\ token = EscrowToken /\ to[i].amount <= balance
      /\ processedActionState' = SubSeq(to, 1, i)
      /\ balance' = balance - to[i].amount
      /\ withdrawals' = Append(withdrawals, [at |-> Len(SubSeq(to, 1, i)),
                                recipient |-> to[i].recipient, amount |-> to[i].amount])
  BY <1>1 DEF releaseWithdrawal, Payable, PaymentOf, FoundSegment
<1>3. /\ i \in (Len(from) + 1) .. Len(to) /\ to[i].token = token
      /\ \A j \in (Len(from) + 1) .. (i - 1) : to[j].token # token
  BY <1>1 DEF FirstOfToken, FoundSegment
<1>4. /\ to \in Heads /\ Extends(chain.head, to)
      /\ Len(to) \in Nat /\ Len(from) \in Nat /\ Len(to) <= Len(chain.head)
      /\ Len(chain.head) \in Nat
  BY SMTT(30), <1>2 DEF Inv, TypeOK, OnTheChain, ChainState, Heads, Extends
<1>5. i \in 1 .. Len(to) /\ i \in 0 .. Len(to) /\ Len(from) < i /\ i \in 1 .. Len(chain.head)
  BY <1>3, <1>4
<1>6. Len(SubSeq(to, 1, i)) = i
  BY <1>4, <1>5, PrefixOfHead
<1>7. \A k \in 1 .. Len(to) : chain.head[k] = to[k]
  BY <1>4 DEF Extends
<1>8. i \in OwedAt
  BY <1>2, <1>3, <1>5, <1>7, OwedFinite DEF OwedAt
<1>9. ASSUME NEW j \in OwedAt, j < i
      PROVE  j <= Len(from)
  <2>1. j \in 1 .. Len(to) /\ to[j].token = EscrowToken
    BY <1>4, <1>5, <1>7, <1>9, OwedFinite DEF OwedAt
  <2> QED
    BY <1>2, <1>3, <1>4, <1>5, <1>9, <2>1
<1>10. UNCHANGED chain
  BY DEF Release, pathVars
<1> QED
  BY <1>2, <1>5, <1>6, <1>7, <1>8, <1>9, <1>10

LEMMA ReleasePays ==
  ASSUME Inv, QueueInv, Release
  PROVE  QueueInv' /\ Queue!Pay
<1>1. PICK i \in OwedAt :
           /\ Len(processedActionState) < i /\ Len(processedActionState') = i
           /\ \A j \in OwedAt : j < i => j <= Len(processedActionState)
           /\ chain.head[i].amount <= balance
           /\ balance' = balance - chain.head[i].amount
           /\ withdrawals' = Append(withdrawals, [at |-> i, recipient |-> chain.head[i].recipient,
                                                   amount |-> chain.head[i].amount])
           /\ UNCHANGED chain
  BY ReleaseIs
<1> DEFINE w == [at |-> i, recipient |-> chain.head[i].recipient, amount |-> chain.head[i].amount]
           N == Len(withdrawals)
<1>2. /\ OwedAt \subseteq Nat /\ IsFiniteSet(PassedAt) /\ PassedAt \subseteq OwedAt
      /\ Len(processedActionState) \in Nat /\ N \in Nat /\ N = Cardinality(PassedAt)
  <2>1. PassedAt \subseteq OwedAt
    BY DEF PassedAt
  <2> QED
    BY <2>1, OwedFinite DEF QueueInv, PassedArePaid, Inv, TypeOK, Heads
<1>3. /\ OwedAt' = OwedAt /\ Owed' = Owed /\ Filled'
  BY <1>1, QueueFrame DEF QueueInv
<1>4. {j \in OwedAt : j <= i} = PassedAt \union {i} /\ i \notin PassedAt
  <2>1. \A j \in OwedAt : j <= i <=> j <= Len(processedActionState) \/ j = i
    BY <1>1, <1>2
  <2>2. ~(i <= Len(processedActionState))
    BY <1>1, <1>2
  <2> QED
    BY <2>1, <2>2 DEF PassedAt
<1>5. PlaceOf(i) = N + 1
  <2>1. Cardinality(PassedAt \union {i}) = N + 1
    BY <1>2, <1>4, FS_AddElement
  <2> QED
    BY <1>4, <2>1 DEF PlaceOf
<1>6. N + 1 \in 1 .. Cardinality(OwedAt) /\ OwedIn(N + 1) = i
  BY <1>5, OwedInPlace DEF EachInItsPlace
<1>7. chain.head[i] \in TransferRecord
  BY OwedFinite DEF Inv, TypeOK, ChainState, Heads
<1>8. w \in Withdrawal /\ Request(w) = Request(chain.head[i])
  BY <1>2, <1>7 DEF Withdrawal, TransferRecord, Request
<1> HIDE DEF w
<1>9. /\ withdrawals \in Seq(Withdrawal) /\ Len(withdrawals') = N + 1
      /\ withdrawals' = Append(withdrawals, w) /\ withdrawals'[N + 1] = w
      /\ \A n \in 1 .. N : withdrawals'[n] = withdrawals[n]
      /\ DOMAIN withdrawals = 1 .. N /\ DOMAIN withdrawals' = 1 .. N + 1
  <2>1. withdrawals \in Seq(Withdrawal) /\ withdrawals' = Append(withdrawals, w)
    BY <1>1 DEF Inv, TypeOK, w
  <2> QED
    BY <1>8, <2>1
<1>10. PassedArePaid'
  <2>1. PassedAt' = PassedAt \union {i}
    BY <1>1, <1>3, <1>4 DEF PassedAt
  <2>2. Cardinality(PassedAt') = N + 1
    BY <1>2, <1>4, <2>1, FS_AddElement
  <2> QED
    BY <1>9, <2>2 DEF PassedArePaid
<1>11. /\ Paid \in Seq(Asked) /\ Len(Paid) = N
  BY PaidIsASequence
<1>12. Paid' = Append(Paid, Request(chain.head[i]))
  <2>1. Request(chain.head[i]) \in Asked
    BY <1>7 DEF Request, Asked, TransferRecord
  <2>2. Paid' = [n \in 1 .. N + 1 |-> Request(withdrawals'[n])]
    BY <1>9 DEF Paid
  <2>3. \A n \in 1 .. N : Paid'[n] = Paid[n]
    BY <1>2, <1>9, <2>2 DEF Paid
  <2>4. Paid'[N + 1] = Request(chain.head[i])
    BY <1>2, <1>8, <1>9, <2>2
  <2>5. DOMAIN Paid' = 1 .. N + 1 /\ Paid' = [n \in DOMAIN Paid' |-> Paid'[n]]
    BY <2>2
  <2> HIDE DEF N
  <2> QED
    BY <1>11, <2>1, <2>3, <2>4, <2>5, AppendIs
<1>13. Owed[N + 1] = Request(chain.head[i]) /\ Len(Owed) = Cardinality(OwedAt)
  BY <1>6, OwedIsASequence DEF Owed, QueueInv
<1>14. Request(chain.head[i]).amount = chain.head[i].amount
  BY DEF Request
<1>15. N < Cardinality(OwedAt)
  BY <1>2, <1>6, OwedFinite
<1> HIDE DEF N
<1>16. Queue!Pay
  BY <1>1, <1>3, <1>11, <1>12, <1>13, <1>14, <1>15 DEF Queue!Pay
<1> QED
  BY <1>3, <1>10, <1>16 DEF QueueInv

\* A step of the return path is a step of the queue, or none.
LEMMA NextIsQueueStep ==
  ASSUME Inv, QueueInv, [Next]_vars
  PROVE  QueueInv' /\ [Queue!Next]_(Queue!vars)
<1>1. ASSUME UNCHANGED <<chain, withdrawals, processedActionState>>
      PROVE  QueueInv' /\ UNCHANGED <<Owed, Paid>>
  <2>1. PassedAt' = PassedAt
    BY <1>1, QueueFrame DEF PassedAt
  <2> QED
    BY <1>1, <2>1, QueueFrame DEF QueueInv, PassedArePaid, Paid
<1>2. ASSUME NEW t \in Transfers, Record(t)
      PROVE  QueueInv' /\ [Queue!Next]_(Queue!vars)
  <2>1. UNCHANGED <<withdrawals, balance>>
    BY <1>2, RecordIs
  <2>2. UNCHANGED <<Paid, balance>>
    BY <2>1 DEF Paid
  <2>3. QueueInv' /\ (Owed' = IF t.token = EscrowToken THEN Append(Owed, Request(t)) ELSE Owed)
    BY <1>2, RecordAsks
  <2>4. Request(t) \in Queue!Request
    BY DEF Request, Queue!Request
  <2>5. CASE t.token = EscrowToken
    <3>1. Queue!Ask(Request(t))
      BY <2>2, <2>3, <2>5 DEF Queue!Ask
    <3> QED
      BY <2>3, <2>4, <3>1 DEF Queue!Next
  <2>6. CASE t.token # EscrowToken
    BY <2>2, <2>3, <2>6 DEF Queue!vars
  <2> QED
    BY <2>5, <2>6
<1>3. CASE Deposit
  <2>1. PICK d \in DepositInputs : deposit(d.sender, d.nonce, d.flareRecipient, d.amount)
    BY <1>3 DEF Deposit
  <2>2. /\ d.amount > 0 /\ balance' = balance + d.amount
        /\ UNCHANGED <<chain, withdrawals, processedActionState>>
    BY <1>3, <2>1 DEF Deposit, deposit, pathVars
  <2>3. d.amount \in 1 .. MaxUint64
    BY <2>2
  <2>4. Queue!Deposit(d.amount)
    BY <1>1, <2>2 DEF Queue!Deposit
  <2> QED
    BY <1>1, <2>2, <2>3, <2>4 DEF Queue!Next
<1>4. CASE RotatePolicy \/ SetPolicy \/ PublishHead \/ PublishOther \/ UNCHANGED vars
  <2>1. UNCHANGED <<chain, withdrawals, processedActionState, balance>>
    BY <1>4 DEF RotatePolicy, SetPolicy, setSigningPolicyRoot, PublishHead, PublishOther,
                publishFlareActionState, vars, escrowVars, pathVars
  <2> QED
    BY <1>1, <2>1 DEF Queue!vars
<1>5. CASE Release
  BY <1>5, ReleasePays DEF Queue!Next
<1> QED
  BY <1>2, <1>3, <1>4, <1>5 DEF Next

LEMMA InitIsQueueInit == Init => QueueInv /\ Queue!Init
<1> SUFFICES ASSUME Init PROVE QueueInv /\ Queue!Init
  OBVIOUS
<1>1. OwedAt = {} /\ withdrawals = << >> /\ balance = 0
  BY DEF Init, EscrowInit, NewChain, EmptyHead, OwedAt
<1>2. PassedAt = {}
  BY <1>1 DEF PassedAt
<1>3. Cardinality(OwedAt) = 0 /\ Cardinality(PassedAt) = 0
  BY <1>1, <1>2, FS_EmptySet
<1>4. Owed = << >> /\ Paid = << >>
  BY <1>1, <1>3 DEF Owed, Paid
<1> QED
  BY <1>1, <1>3, <1>4 DEF QueueInv, Filled, PassedArePaid, Queue!Init

\* The return path is a queue: every payment is of the oldest transfer that has
\* not been paid, in full and once, out of what was deposited, for any chain,
\* attestations, policies and order of publications (TransferChain.sol 93-122,
\* MinaPortBridge.ts 229-352).
THEOREM PathImplementsQueue == Spec => ImplementsQueue
<1>1. Spec => []Inv
  BY InitInv, NextKeepsInv, PTL DEF Spec
<1>2. Inv /\ QueueInv /\ [Next]_vars => QueueInv' /\ [Queue!Next]_(Queue!vars)
  BY NextIsQueueStep
<1> QED
  BY <1>1, <1>2, InitIsQueueInit, PTL DEF Spec, ImplementsQueue, Queue!Safety
============================================================================
