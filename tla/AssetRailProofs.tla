--------------------------- MODULE AssetRailProofs ---------------------------
(***************************************************************************)
(* The vault stays solvent; the port's mints follow the locks; what is     *)
(* locked and was released is what was minted, what was cleared unminted   *)
(* and what no mint has come to; and no two burns have the same intent,    *)
(* for every set of tokens, accounts, policies and attestations, and       *)
(* chains and tables of any length.                                        *)
(***************************************************************************)
EXTENDS AssetRail, SumTheorems, SequenceTheorems, TLAPS

USE NoKeyAssumption, AssetVaultAssumption, AssetPortAssumption, AssetRailAssumption,
    ReleaseDeskAssumption, MaxUint64Assumption

----------------------------------------------------------------------------
(* The vault.                                                              *)

VaultInv == VaultTypeOK /\ VaultSolvent

\* A chain that records one more transfer is a chain.
LEMMA AppendedIsAChain ==
  ASSUME NEW chain \in ChainState, NEW token \in Tokens, NEW recipient \in MinaKeys,
         NEW amount \in Nat
  PROVE  Appended(chain, token, recipient, amount) \in ChainState
<1> DEFINE r == [index |-> chain.nextIndex, token |-> token,
                 recipient |-> recipient, amount |-> amount]
<1>1. r \in TransferRecord /\ chain.head \in Heads
  BY DEF ChainState, TransferRecord
<1>2. applyTransfer(chain.head, r) \in Heads
  BY <1>1 DEF applyTransfer, Heads
<1>3. Appended(chain, token, recipient, amount) =
        [chain EXCEPT !.nextIndex = chain.nextIndex + 1,
                      !.head = applyTransfer(chain.head, r)]
  BY Zenon DEF Appended, ChainState
<1>4. chain.nextIndex + 1 \in Nat
  BY DEF ChainState
<1> QED
  BY <1>2, <1>3, <1>4 DEF ChainState

\* What a record leaves of the vault, whoever locked: the lock grows by what
\* arrived.
LEMMA RecordKeepsTypes ==
  ASSUME VaultTypeOK, NEW token \in Tokens, NEW received \in Nat,
         NEW recipient \in MinaKeys \union {NoKey},
         _record(token, received, recipient)
  PROVE  /\ chains' \in [Chains -> ChainState]
         /\ nextClaimIdOf' \in [Tokens -> Nat]
         /\ lockedOf' \in [Tokens -> Nat]
         /\ lockedOf'[token] = lockedOf[token] + received
         /\ \A t \in Tokens : t # token => lockedOf'[t] = lockedOf[t]
<1>1. /\ transferChain \in Chains /\ recipient \in MinaKeys
      /\ nextClaimIdOf' = [nextClaimIdOf EXCEPT ![token] = @ + 1]
      /\ lockedOf' = [lockedOf EXCEPT ![token] = @ + received]
      /\ chains' = [chains EXCEPT ![transferChain] =
                      Appended(chains[transferChain], token, recipient, received)]
  BY DEF _record, VaultTypeOK
<1>2. lockedOf \in [Tokens -> Nat] /\ nextClaimIdOf \in [Tokens -> Nat]
  BY DEF VaultTypeOK
<1>3. chains[transferChain] \in ChainState
  BY <1>1 DEF VaultTypeOK
<1>4. Appended(chains[transferChain], token, recipient, received) \in ChainState
  BY <1>1, <1>3, AppendedIsAChain
<1>5. chains' \in [Chains -> ChainState]
  BY <1>1, <1>4 DEF VaultTypeOK
<1> QED
  BY <1>1, <1>2, <1>5

\* What a payment leaves of it: both sides shrink by what was locked.
LEMMA PayOutKeepsSolvent ==
  ASSUME VaultInv, NEW token \in Tokens, NEW amount \in Nat, PayOut(token, amount)
  PROVE  /\ lockedOf' \in [Tokens -> Nat] /\ balanceOf' \in [Tokens -> Nat]
         /\ released' \in [Tokens -> Nat]
         /\ VaultSolvent'
         /\ UNCHANGED <<chains, nextClaimIdOf>>
<1>1. /\ lockedOf[token] >= amount /\ balanceOf[token] >= amount
      /\ lockedOf' = [lockedOf EXCEPT ![token] = @ - amount]
      /\ balanceOf' = [balanceOf EXCEPT ![token] = @ - amount]
      /\ released' = [released EXCEPT ![token] = @ + amount]
      /\ UNCHANGED <<chains, nextClaimIdOf>>
  BY DEF PayOut
<1>2. /\ lockedOf \in [Tokens -> Nat] /\ balanceOf \in [Tokens -> Nat]
      /\ released \in [Tokens -> Nat]
      /\ \A t \in Tokens : balanceOf[t] >= lockedOf[t]
  BY DEF VaultInv, VaultTypeOK, VaultSolvent
<1>3. /\ lockedOf' \in [Tokens -> Nat] /\ balanceOf' \in [Tokens -> Nat]
      /\ released' \in [Tokens -> Nat]
  BY <1>1, <1>2
<1>4. \A t \in Tokens : balanceOf'[t] >= lockedOf'[t]
  BY <1>1, <1>2
<1> QED
  BY <1>1, <1>3, <1>4 DEF VaultSolvent

LEMMA LockKeepsVault ==
  ASSUME VaultInv, Lock
  PROVE  VaultInv'
<1>1. ASSUME NEW token \in Tokens, NEW received \in Nat,
             NEW recipient \in MinaKeys \union {NoKey},
             balanceOf' = [balanceOf EXCEPT ![token] = @ + received],
             _record(token, received, recipient),
             UNCHANGED <<settingVars, replayVars, released>>
      PROVE  VaultInv'
  <2>1. /\ chains' \in [Chains -> ChainState]
        /\ nextClaimIdOf' \in [Tokens -> Nat]
        /\ lockedOf' \in [Tokens -> Nat]
        /\ lockedOf'[token] = lockedOf[token] + received
        /\ \A t \in Tokens : t # token => lockedOf'[t] = lockedOf[t]
    BY <1>1, RecordKeepsTypes DEF VaultInv
  <2>2. /\ balanceOf \in [Tokens -> Nat] /\ lockedOf \in [Tokens -> Nat]
        /\ \A t \in Tokens : balanceOf[t] >= lockedOf[t]
    BY DEF VaultInv, VaultTypeOK, VaultSolvent
  <2>3. balanceOf' \in [Tokens -> Nat]
    BY <1>1, <2>2
  <2>4. VaultSolvent'
    BY <1>1, <2>1, <2>2 DEF VaultSolvent
  <2>5. VaultTypeOK'
    BY <1>1, <2>1, <2>3 DEF VaultInv, VaultTypeOK, settingVars, replayVars
  <2> QED
    BY <2>4, <2>5 DEF VaultInv
<1>2. ASSUME NEW l \in Locks, lock(l.token, l.amount, l.received, l.recipient)
      PROVE  VaultInv'
  <2>1. l \in [token : Tokens, amount : Nat, received : Nat,
               recipient : MinaKeys \union {NoKey}]
    OBVIOUS
  <2> QED
    BY <1>1, <1>2, <2>1 DEF lock
<1>3. ASSUME NEW l \in NativeLocks, lockNative(l.value, l.recipient)
      PROVE  VaultInv'
  <2>1. l \in [value : Nat, recipient : MinaKeys \union {NoKey}]
    OBVIOUS
  <2>2. NATIVE_WRAPPER \in Tokens
    BY <1>3 DEF lockNative, VaultInv, VaultTypeOK
  <2>3. l.value \div SCALE \in Nat
    BY <2>1
  <2> QED
    BY <1>1, <1>3, <2>1, <2>2, <2>3 DEF lockNative
<1> QED
  BY <1>2, <1>3 DEF Lock

LEMMA AppendKeepsVault ==
  ASSUME VaultInv, RecordForeign
  PROVE  VaultInv'
<1>1. PICK c \in Chains, f \in Foreign :
        ForeignAppend(c, f.appender, f.token, f.recipient, f.amount)
  BY DEF RecordForeign
<1>2. /\ f.token \in Tokens /\ f.recipient \in MinaKeys /\ f.amount \in Nat
  <2>1. f \in [appender : Appenders, token : Tokens \ {Asset},
               recipient : MinaKeys, amount : 1 .. MaxUint64]
    OBVIOUS
  <2> QED
    BY <2>1
<1>3. Appended(chains[c], f.token, f.recipient, f.amount) \in ChainState
  <2>1. chains[c] \in ChainState
    BY DEF VaultInv, VaultTypeOK
  <2> QED
    BY <1>2, <2>1, AppendedIsAChain
<1>4. chains' \in [Chains -> ChainState]
  BY <1>1, <1>3 DEF ForeignAppend, VaultInv, VaultTypeOK
<1> QED
  BY <1>1, <1>4 DEF ForeignAppend, VaultInv, VaultTypeOK, VaultSolvent, valueVars,
                    lockVars, replayVars, settingVars

LEMMA GiveKeepsVault ==
  ASSUME VaultInv, Give
  PROVE  VaultInv'
<1>1. PICK d \in Donations : Donate(d.token, d.amount)
  BY DEF Give
<1>2. d.token \in Tokens /\ d.amount \in Nat
  <2>1. d \in [token : Tokens, amount : Nat]
    OBVIOUS
  <2> QED
    BY <2>1
<1>3. /\ balanceOf' = [balanceOf EXCEPT ![d.token] = @ + d.amount]
      /\ UNCHANGED <<chains, lockVars, settingVars, replayVars, released>>
  BY <1>1 DEF Donate
<1>4. balanceOf' \in [Tokens -> Nat] /\ VaultSolvent'
  BY <1>2, <1>3 DEF VaultInv, VaultTypeOK, VaultSolvent, lockVars
<1> QED
  BY <1>3, <1>4 DEF VaultInv, VaultTypeOK, lockVars, replayVars, settingVars

LEMMA OwnerReleaseKeepsVault ==
  ASSUME VaultInv, OwnerRelease
  PROVE  VaultInv'
<1>1. PICK r \in OwnerReleases : release(r.claimId, r.token, r.recipient, r.amount)
  BY DEF OwnerRelease, releaseNative
<1>2. r.claimId \in Nat /\ r.token \in Tokens /\ r.amount \in Nat
  <2>1. r \in [claimId : Nat, token : Tokens, amount : Nat,
               recipient : FlareAccounts \union {ZeroAddress}]
    OBVIOUS
  <2> QED
    BY <2>1
<1>3. /\ PayOut(r.token, r.amount)
      /\ releasedClaims' = [releasedClaims EXCEPT ![r.token] = @ \union {r.claimId}]
      /\ UNCHANGED <<settingVars, consumedIntents>>
  BY <1>1 DEF release
<1>4. releasedClaims' \in [Tokens -> SUBSET Nat]
  BY <1>2, <1>3 DEF VaultInv, VaultTypeOK
<1> QED
  BY <1>2, <1>3, <1>4, PayOutKeepsSolvent DEF VaultInv, VaultTypeOK, settingVars

LEMMA AdministerKeepsVault ==
  ASSUME VaultInv, Administer
  PROVE  VaultInv'
<1> USE DEF VaultInv, VaultTypeOK, VaultSolvent, valueVars, lockVars, replayVars,
            settingVars
<1>1. ASSUME NEW c \in ChainChoices, setTransferChain(c)
      PROVE  VaultInv'
  BY <1>1 DEF setTransferChain
<1>2. ASSUME NEW t \in RouteChoices, setNativeRoute(t)
      PROVE  VaultInv'
  BY <1>2 DEF setNativeRoute
<1>3. ASSUME NEW t \in AcceptChoices, NEW value \in BOOLEAN, setAccepted(t, value)
      PROVE  VaultInv'
  <2>1. accepted' \in SUBSET Tokens
    BY <1>3 DEF setAccepted
  <2> QED
    BY <1>3, <2>1 DEF setAccepted
<1>4. ASSUME NEW a \in AttestorChoices, setBurnAttestor(a)
      PROVE  VaultInv'
  BY <1>4 DEF setBurnAttestor
<1>5. ASSUME NEW t \in Tokens, NEW n \in LimitChoices, setMaxAttestedRelease(t, n)
      PROVE  VaultInv'
  <2>1. maxAttestedReleaseOf' \in [Tokens -> Nat]
    BY <1>5 DEF setMaxAttestedRelease
  <2> QED
    BY <1>5, <2>1 DEF setMaxAttestedRelease
<1>6. ASSUME NEW value \in BOOLEAN, SetPaused(value)
      PROVE  VaultInv'
  BY <1>6 DEF SetPaused
<1>7. ASSUME NEW c \in Chains, NEW g \in Grants, NEW allowed \in BOOLEAN,
             ChainSetAppender(c, g[1], g[2], allowed)
      PROVE  VaultInv'
  <2>1. /\ chains[c] \in ChainState /\ g \in Appenders \X Tokens
        /\ g = <<g[1], g[2]>>
    OBVIOUS
  <2>2. SetAppender(chains[c], g[1], g[2], allowed) \in ChainState
    BY <2>1 DEF SetAppender, ChainState
  <2>3. chains' \in [Chains -> ChainState]
    BY <1>7, <2>2 DEF ChainSetAppender
  <2> QED
    BY <1>7, <2>3 DEF ChainSetAppender
<1> QED
  BY <1>1, <1>2, <1>3, <1>4, <1>5, <1>6, <1>7 DEF Administer

----------------------------------------------------------------------------
(* The desk.  The next nonce is a maximum and the row to check a minimum;  *)
(* that they exist is not a matter of types.  A holder's rows have a       *)
(* newest one, which only an insert changes.                               *)

HasNewest ==
  \A k \in MinaKeys : RowsOf(k) # {} =>
    \E i \in RowsOf(k) : \A j \in RowsOf(k) : releases[j].nonce <= releases[i].nonce

RowsDistinct ==
  \A i, j \in DOMAIN releases :
    /\ releases[i].minaSender = releases[j].minaSender
    /\ releases[i].nonce = releases[j].nonce
    => i = j

DeskInv == DeskTypeOK /\ HasNewest /\ RowsDistinct

\* The rows keep their keys, whatever else of them is written.
SameKeys ==
  /\ DOMAIN releases' = DOMAIN releases
  /\ \A i \in DOMAIN releases : /\ releases'[i].minaSender = releases[i].minaSender
                                /\ releases'[i].nonce = releases[i].nonce

LEMMA SameKeysSuffice ==
  ASSUME HasNewest, RowsDistinct, SameKeys
  PROVE  HasNewest' /\ RowsDistinct'
<1>1. \A k \in MinaKeys : RowsOf(k)' = RowsOf(k)
  BY DEF SameKeys, RowsOf
<1>2. \A k \in MinaKeys : \A i \in RowsOf(k) : releases'[i].nonce = releases[i].nonce
  BY DEF SameKeys, RowsOf
<1>3. HasNewest'
  BY <1>1, <1>2 DEF HasNewest
<1>4. RowsDistinct'
  BY DEF SameKeys, RowsDistinct
<1> QED
  BY <1>3, <1>4

LEMMA NoncesAreNat ==
  ASSUME releases \in Seq(ReleaseRow)
  PROVE  \A i \in DOMAIN releases : releases[i].nonce \in Nat
<1>1. \A i \in DOMAIN releases : releases[i] \in ReleaseRow
  OBVIOUS
<1>2. \A r \in ReleaseRow : r.nonce \in Nat
  BY DEF ReleaseRow
<1> QED
  BY <1>1, <1>2

LEMMA NextNonceTyped ==
  ASSUME DeskTypeOK, HasNewest, NEW k \in MinaKeys
  PROVE  nextReleaseNonceFor(k) \in Nat
<1> DEFINE S == {0} \union {releases[i].nonce + 1 : i \in RowsOf(k)}
<1>1. \A i \in RowsOf(k) : releases[i].nonce \in Nat
  BY NoncesAreNat DEF DeskTypeOK, RowsOf
<1>2. S \subseteq Nat
  BY <1>1
<1>3. \E x \in S : \A y \in S : x >= y
  <2>1. CASE RowsOf(k) = {}
    BY <2>1
  <2>2. CASE RowsOf(k) # {}
    <3>1. PICK i \in RowsOf(k) :
            \A j \in RowsOf(k) : releases[j].nonce <= releases[i].nonce
      BY <2>2 DEF HasNewest
    <3>2. \A y \in S : releases[i].nonce + 1 >= y
      BY <1>1, <3>1
    <3> QED
      BY <3>2
  <2> QED
    BY <2>1, <2>2
<1>4. Max(S) \in S
  BY <1>3 DEF Max
<1> QED
  BY <1>2, <1>4 DEF nextReleaseNonceFor

LEMMA OldestTyped ==
  ASSUME DeskTypeOK, NEW k \in MinaKeys, Submitted(k) # {}
  PROVE  Min(Submitted(k)) \in Nat
<1> DEFINE R == {ss \in Nat \X Nat : ss[1] < ss[2]}
<1>1. Submitted(k) \subseteq Nat
  BY DEF Submitted, RowsOf, DeskTypeOK
<1>0. IsWellFoundedOn(R, Nat)
  BY NatLessThanWellFounded, Zenon DEF OpToRel
<1>2. PICK x \in Submitted(k) : \A y \in Submitted(k) : ~(<<y, x>> \in R)
  <2> HIDE DEF R
  <2> QED
    BY <1>0, <1>1, WFMin
<1>3. \A y \in Submitted(k) : x <= y
  <2>1. ASSUME NEW m \in Nat, NEW n \in Nat, m < n
        PROVE  <<m, n>> \in R
    <3>1. <<m, n>> \in Nat \X Nat /\ <<m, n>>[1] < <<m, n>>[2]
      BY <2>1
    <3> QED
      BY <3>1, Zenon
  <2> HIDE DEF R
  <2> TAKE y \in Submitted(k)
  <2>2. x \in Nat /\ y \in Nat
    BY <1>1
  <2>3. ~(y < x)
    BY <1>2, <2>1, <2>2, Zenon
  <2> QED
    BY <2>2, <2>3
<1>4. Min(Submitted(k)) \in Submitted(k)
  BY <1>3, Zenon DEF Min
<1> QED
  BY <1>1, <1>4

\* Writing a status or an anchor keeps the row and its key.
LEMMA RowsRewritten ==
  ASSUME DeskInv, releases' \in Seq(ReleaseRow), SameKeys,
         builds' \in SUBSET builds, check' \in Check \union {NoCheck}
  PROVE  DeskInv'
BY SameKeysSuffice DEF DeskInv, DeskTypeOK

LEMMA InsertKeepsDesk ==
  ASSUME DeskInv, NEW b \in builds, recordRelease(b)
  PROVE  DeskInv'
<1>1. /\ releases \in Seq(ReleaseRow) /\ b \in Build /\ builds' \in SUBSET Build
      /\ check' \in Check \union {NoCheck}
  BY DEF DeskInv, DeskTypeOK, recordRelease
<1>2. CASE \E i \in RowsOf(b.minaSender) : releases[i].nonce = b.nonce
  <2>1. UNCHANGED releases
    BY <1>2 DEF recordRelease
  <2>2. SameKeys
    BY <2>1 DEF SameKeys
  <2>3. HasNewest' /\ RowsDistinct'
    BY <2>2, SameKeysSuffice DEF DeskInv
  <2> QED
    BY <1>1, <2>1, <2>3 DEF DeskInv, DeskTypeOK
<1>3. CASE ~ \E i \in RowsOf(b.minaSender) : releases[i].nonce = b.nonce
  <2> DEFINE last == Len(releases) + 1
  <2>1. NewRow(b) \in ReleaseRow /\ NewRow(b).minaSender = b.minaSender
        /\ NewRow(b).nonce = b.nonce /\ b.nonce \in Nat /\ b.minaSender \in MinaKeys
    BY <1>1 DEF NewRow, Build, ReleaseRow
  <2>2. releases' = Append(releases, NewRow(b))
    BY <1>3 DEF recordRelease
  <2>3. /\ releases' \in Seq(ReleaseRow) /\ DOMAIN releases' = DOMAIN releases \union {last}
        /\ last \notin DOMAIN releases /\ last \in Nat
        /\ releases'[last].minaSender = b.minaSender /\ releases'[last].nonce = b.nonce
        /\ \A i \in DOMAIN releases : releases'[i] = releases[i]
    BY <1>1, <2>1, <2>2
  <2>4. \A i \in DOMAIN releases :
          releases[i].minaSender = b.minaSender => releases[i].nonce # b.nonce
    BY <1>3 DEF RowsOf
  <2>5. RowsDistinct'
    BY <2>3, <2>4 DEF DeskInv, RowsDistinct
  <2>6. \A i \in DOMAIN releases : releases[i].nonce \in Nat
    BY <1>1, NoncesAreNat
  <2>7. ASSUME NEW k \in MinaKeys, RowsOf(k)' # {}
        PROVE  \E i \in RowsOf(k)' : \A j \in RowsOf(k)' :
                 releases'[j].nonce <= releases'[i].nonce
    <3>1. CASE k # b.minaSender
      <4>1. RowsOf(k)' = RowsOf(k)
        BY <2>3, <3>1 DEF RowsOf
      <4>2. \A i \in RowsOf(k) : releases'[i].nonce = releases[i].nonce
        BY <2>3 DEF RowsOf
      <4> QED
        BY <2>7, <4>1, <4>2 DEF DeskInv, HasNewest
    <3>2. CASE k = b.minaSender
      <4>1. RowsOf(k)' = RowsOf(k) \union {last}
        BY <2>3, <3>2 DEF RowsOf
      <4>2. /\ \A i \in RowsOf(k) : /\ releases'[i].nonce = releases[i].nonce
                                     /\ releases[i].nonce \in Nat
            /\ releases'[last].nonce = b.nonce
        BY <2>3, <2>6 DEF RowsOf
      <4>3. CASE RowsOf(k) = {}
        BY <2>1, <4>1, <4>2, <4>3
      <4>4. CASE RowsOf(k) # {}
        <5>1. PICK i \in RowsOf(k) :
                \A j \in RowsOf(k) : releases[j].nonce <= releases[i].nonce
          BY <4>4 DEF DeskInv, HasNewest
        <5>2. CASE b.nonce <= releases[i].nonce
          BY <2>1, <4>1, <4>2, <5>1, <5>2
        <5>3. CASE releases[i].nonce < b.nonce
          <6>1. \A j \in RowsOf(k)' : releases'[j].nonce <= releases'[last].nonce
            BY <2>1, <4>1, <4>2, <5>1, <5>3
          <6> QED
            BY <4>1, <6>1
        <5> QED
          BY <2>1, <4>2, <5>2, <5>3
      <4> QED
        BY <4>3, <4>4
    <3> QED
      BY <3>1, <3>2
  <2>8. HasNewest'
    BY <2>7 DEF HasNewest
  <2> QED
    BY <1>1, <2>3, <2>5, <2>8 DEF DeskInv, DeskTypeOK
<1> QED
  BY <1>2, <1>3

LEMMA RowWritten ==
  ASSUME releases \in Seq(ReleaseRow), NEW i \in Nat,
         NEW status \in {"built", "submitted", "attested", "released"},
         releases' = [releases EXCEPT ![i].status = status]
  PROVE  releases' \in Seq(ReleaseRow) /\ SameKeys
<1>1. \A j \in DOMAIN releases : releases[j] \in ReleaseRow
  OBVIOUS
<1>2. \A r \in ReleaseRow : /\ [r EXCEPT !.status = status] \in ReleaseRow
                            /\ [r EXCEPT !.status = status].minaSender = r.minaSender
                            /\ [r EXCEPT !.status = status].nonce = r.nonce
  BY DEF ReleaseRow
<1>3. releases' = [j \in DOMAIN releases |->
                     IF j = i THEN [releases[j] EXCEPT !.status = status]
                     ELSE releases[j]]
  BY Zenon
<1>4. SameKeys
  BY <1>1, <1>2, <1>3 DEF SameKeys
<1>5. \A j \in DOMAIN releases : releases'[j] \in ReleaseRow
  BY <1>1, <1>2, <1>3
<1>6. releases' \in [1 .. Len(releases) -> ReleaseRow]
  <2>1. DOMAIN releases = 1 .. Len(releases)
    BY LenProperties
  <2>2. \A j \in 1 .. Len(releases) :
          (IF j = i THEN [releases[j] EXCEPT !.status = status] ELSE releases[j])
            \in ReleaseRow
    BY <1>1, <1>2, <2>1
  <2> QED
    BY <1>3, <2>1, <2>2, Zenon
<1>7. releases' \in Seq(ReleaseRow)
  BY <1>6, SeqDef
<1> QED
  BY <1>4, <1>7

LEMMA DeskKeepsDesk ==
  ASSUME DeskInv, balance \in [MinaKeys -> Nat], Desk
  PROVE  DeskInv'
<1>0. /\ releases \in Seq(ReleaseRow) /\ builds \in SUBSET Build
      /\ check \in Check \union {NoCheck} /\ HasNewest /\ RowsDistinct
  BY DEF DeskInv, DeskTypeOK
<1>1. ASSUME NEW b \in Burns, ReadForBuild(b.sender, b.recipient, b.amount)
      PROVE  DeskInv'
  <2>1. b \in [sender : MinaKeys, amount : Nat,
               recipient : FlareAccounts \union {ZeroAddress}]
    OBVIOUS
  <2>2. nextReleaseNonceFor(b.sender) \in Nat
    BY <2>1, NextNonceTyped DEF DeskInv
  <2>3. builds' \in SUBSET Build
    BY <1>0, <1>1, <2>1, <2>2 DEF ReadForBuild, Build
  <2>4. UNCHANGED <<releases, check>>
    BY <1>1 DEF ReadForBuild
  <2>5. HasNewest' /\ RowsDistinct'
    BY <1>0, <2>4, SameKeysSuffice DEF SameKeys
  <2> QED
    BY <1>0, <2>3, <2>4, <2>5 DEF DeskInv, DeskTypeOK
<1>2. ASSUME NEW i \in DOMAIN releases, markReleaseSubmitted(i)
      PROVE  DeskInv'
  <2>1. releases' \in Seq(ReleaseRow) /\ SameKeys
    <3>1. i \in Nat
      BY <1>0
    <3> QED
      BY <1>0, <1>2, <3>1, RowWritten DEF markReleaseSubmitted
  <2> QED
    BY <1>0, <1>2, <2>1, RowsRewritten DEF markReleaseSubmitted
<1>3. ASSUME NEW k \in MinaKeys, ReadForCheck(k)
      PROVE  DeskInv'
  <2>1. UNCHANGED <<releases, builds>>
    BY <1>3 DEF ReadForCheck
  <2>2. Min(Submitted(k)) \in Nat
    BY <1>3, OldestTyped DEF ReadForCheck, DeskInv
  <2>3. BalancesRead(k) \subseteq Nat
    BY DEF BalancesRead
  <2>4. check' \in Check
    BY <1>3, <2>2, <2>3 DEF ReadForCheck, Check
  <2> QED
    BY <1>0, <2>1, <2>4, RowsRewritten DEF SameKeys
<1>4. ASSUME markReleaseAttested
      PROVE  DeskInv'
  <2>1. check \in Check /\ check # NoCheck /\ UNCHANGED builds
    BY <1>0, <1>4 DEF markReleaseAttested
  <2>2. CASE HasDropped(releases[check.row], check.balance)
    <3>1. /\ releases' = [releases EXCEPT ![check.row].status = "attested"]
          /\ check' = [check EXCEPT !.stage = "signed"]
      BY <1>4, <2>2 DEF markReleaseAttested
    <3>2. check' \in Check /\ check.row \in Nat
      BY <2>1, <3>1 DEF Check
    <3>3. releases' \in Seq(ReleaseRow) /\ SameKeys
      BY <1>0, <3>1, <3>2, RowWritten
    <3> QED
      BY <2>1, <3>2, <3>3, RowsRewritten
  <2>3. CASE ~HasDropped(releases[check.row], check.balance)
    <3>1. check' = NoCheck /\ UNCHANGED releases
      BY <1>4, <2>3 DEF markReleaseAttested
    <3> QED
      BY <1>0, <2>1, <3>1, RowsRewritten DEF SameKeys
  <2> QED
    BY <2>2, <2>3
<1>5. ASSUME reanchorPendingReleases
      PROVE  DeskInv'
  <2> DEFINE Waits(i) == /\ releases[i].minaSender = releases[check.row].minaSender
                         /\ releases[i].status \in {"built", "submitted"}
  <2>1. check.balance \in Nat /\ check' = NoCheck /\ UNCHANGED builds
    BY <1>0, <1>5 DEF reanchorPendingReleases, Check
  <2>2. \A r \in ReleaseRow :
          /\ [r EXCEPT !.balanceBefore = check.balance] \in ReleaseRow
          /\ [r EXCEPT !.balanceBefore = check.balance].minaSender = r.minaSender
          /\ [r EXCEPT !.balanceBefore = check.balance].nonce = r.nonce
    BY <2>1 DEF ReleaseRow
  <2>3. releases' = [i \in DOMAIN releases |->
          IF Waits(i) THEN [releases[i] EXCEPT !.balanceBefore = check.balance]
          ELSE releases[i]]
    BY <1>5, Zenon DEF reanchorPendingReleases
  <2> HIDE DEF Waits
  <2>4. \A i \in DOMAIN releases : releases[i] \in ReleaseRow
    BY <1>0
  <2>5. SameKeys
    BY <2>2, <2>3, <2>4 DEF SameKeys
  <2>6. releases' \in Seq(ReleaseRow)
    BY SMTT(30), <1>0, <2>2, <2>3, <2>4
  <2> QED
    BY <2>1, <2>5, <2>6, RowsRewritten
<1>6. ASSUME Crash
      PROVE  DeskInv'
  <2>1. builds' \in SUBSET builds /\ check' = NoCheck /\ UNCHANGED releases
    BY <1>6 DEF Crash
  <2>2. SameKeys
    BY <2>1 DEF SameKeys
  <2> QED
    BY <1>0, <2>1, <2>2, RowsRewritten
<1> QED
  BY <1>1, <1>2, <1>3, <1>4, <1>5, <1>6, InsertKeepsDesk DEF Desk

\* A claim pays what a row says, and may mark the row.
LEMMA ClaimKeepsBoth ==
  ASSUME VaultInv, DeskInv, Claim
  PROVE  VaultInv' /\ DeskInv'
<1>1. PICK i \in DOMAIN releases :
        /\ releaseWithMinaSignature(IntentOf(releases[i]), AttestorKey)
        /\ markReleaseSettled(i) \/ UNCHANGED deskVars
  BY DEF Claim
<1>2. releases \in Seq(ReleaseRow) /\ i \in Nat /\ releases[i] \in ReleaseRow
  BY DEF DeskInv, DeskTypeOK
<1>3. IntentOf(releases[i]) \in ReleaseIntent
  BY <1>2 DEF IntentOf, ReleaseRow, ReleaseIntent
<1> DEFINE intent == IntentOf(releases[i])
<1>4. intent.token \in Tokens /\ intent.amount \in Nat
  BY <1>3 DEF ReleaseIntent
<1> HIDE DEF intent
<1>5. /\ PayOut(intent.token, intent.amount)
      /\ consumedIntents' = consumedIntents \union {intent}
      /\ UNCHANGED <<settingVars, releasedClaims>>
  BY <1>1 DEF releaseWithMinaSignature, intent
<1>6. consumedIntents' \in SUBSET ReleaseIntent
  BY <1>3, <1>5 DEF VaultInv, VaultTypeOK, intent
<1>7. VaultInv'
  BY <1>4, <1>5, <1>6, PayOutKeepsSolvent DEF VaultInv, VaultTypeOK, settingVars
<1>8. CASE markReleaseSettled(i)
  <2>1. releases' \in Seq(ReleaseRow) /\ SameKeys
    BY <1>2, <1>8, RowWritten DEF markReleaseSettled
  <2> QED
    BY <1>7, <1>8, <2>1, RowsRewritten DEF markReleaseSettled, DeskInv, DeskTypeOK
<1>9. CASE UNCHANGED deskVars
  BY <1>7, <1>9, RowsRewritten DEF deskVars, DeskInv, DeskTypeOK, SameKeys
<1> QED
  BY <1>1, <1>8, <1>9

----------------------------------------------------------------------------
(* The port.                                                               *)

PortInv == PortTypeOK /\ MintsFollowLocks

\* Whatever is attested is a head.
LEMMA AttestedIsAHead ==
  ASSUME VaultTypeOK, NEW a \in Attestations
  PROVE  a.actionState \in Heads
<1>0. ASSUME NEW c \in Chains
      PROVE  chains[c].head \in Heads
  BY DEF VaultTypeOK, ChainState
<1>1. CASE a \in SoundAttestations
  <2>1. PICK cn \in Chains \X (1 .. MaxTransfers), p \in Policies :
          /\ cn[2] <= Len(chains[cn[1]].head)
          /\ a = Attested(SubSeq(chains[cn[1]].head, 1, cn[2]), cn[1], p, RequiredWeight)
    BY <1>1 DEF SoundAttestations
  <2>2. cn[1] \in Chains /\ cn[2] \in 1 .. MaxTransfers /\ chains[cn[1]].head \in Heads
    BY <1>0
  <2> DEFINE h == chains[cn[1]].head
  <2>3. h \in Heads /\ cn[2] \in 1 .. Len(h)
    BY <2>1, <2>2 DEF Heads
  <2> HIDE DEF h
  <2>4. SubSeq(h, 1, cn[2]) \in Heads
    BY <2>3 DEF Heads
  <2> QED
    BY <2>1, <2>4 DEF h, Attested
<1>2. CASE a \in UnsoundAttestations
  <2>1. PICK r \in ForgedRecords, p \in Policies :
          a = Attested(applyTransfer(chains[FlareChain].head, r), FlareChain, p, 0)
    BY <1>2 DEF UnsoundAttestations
  <2>2. applyTransfer(chains[FlareChain].head, r) \in Heads
    BY <1>0 DEF applyTransfer, Heads
  <2> QED
    BY <2>1, <2>2 DEF Attested
<1> QED
  BY <1>1, <1>2 DEF Attestations

\* The cursor steps over locks of other assets and onto one of its own.
LEMMA AuthorizeKeepsPort ==
  ASSUME PortInv, NEW token \in Tokens,
         NEW s \in SegmentsFrom(processedLockState, flareLockState, token),
         authorizeMint(s)
  PROVE  PortInv'
<1> DEFINE from == processedLockState
           to == flareLockState
<1>1. /\ from \in Heads /\ to \in Heads /\ Len(from) \in Nat /\ Len(to) \in Nat
      /\ spent \in Seq(Spending) /\ balance \in [MinaKeys -> Nat]
      /\ signingPolicyRoot \in Policies \union {NoPolicy}
  BY DEF PortInv, PortTypeOK, Heads
<1>2. PICK i \in DOMAIN to :
        /\ Extends(to, from) /\ s = FoundSegment(from, to, token, i)
  BY DEF SegmentsFrom
<1>3. /\ s.from = from /\ s.to = to /\ s.token = token
      /\ s.stateAfterFirst = SubSeq(to, 1, i)
      /\ s.firstRecipient = to[i].recipient /\ s.firstAmount = to[i].amount
  BY <1>2 DEF FoundSegment
<1>4. FirstOfToken(s, i)
  <2>1. PICK j \in DOMAIN to : s.stateAfterFirst = SubSeq(to, 1, j) /\ FirstOfToken(s, j)
    BY DEF SegmentsFrom
  <2>2. i \in 1 .. Len(to) /\ j \in 1 .. Len(to)
    BY <1>1, <2>1 DEF Heads
  <2>3. Len(SubSeq(to, 1, i)) = i /\ Len(SubSeq(to, 1, j)) = j
    BY <1>1, <2>2 DEF Heads
  <2> QED
    BY <1>3, <2>1, <2>3
<1>5. /\ token = Asset /\ mintAuthorization = NO_MINT_AUTHORIZED
      /\ processedLockState' = SubSeq(to, 1, i)
      /\ mintAuthorization' = mintCommitment(to[i].recipient, to[i].amount)
      /\ UNCHANGED <<signingPolicyRoot, flareLockState, balance, spent>>
  BY <1>3 DEF authorizeMint, Mintable
<1>6. /\ i \in 1 .. Len(to) /\ Len(from) < i /\ to[i].token = Asset
      /\ \A j \in (Len(from) + 1) .. (i - 1) : to[j].token # Asset
  BY <1>1, <1>3, <1>4, <1>5 DEF FirstOfToken
<1>7. /\ \A k \in 1 .. Len(from) : to[k] = from[k]
      /\ to[i] \in TransferRecord
  BY <1>1, <1>2, <1>6 DEF Extends, Heads
<1> HIDE DEF from, to
<1>8. /\ processedLockState' \in Heads /\ Len(processedLockState') = i
      /\ \A k \in 1 .. i : processedLockState'[k] = to[k]
  BY <1>1, <1>5, <1>6 DEF Heads
<1>9. to[i].recipient \in MinaKeys /\ to[i].amount \in Nat
  BY <1>7 DEF TransferRecord
<1>10. PortTypeOK'
  BY <1>1, <1>5, <1>8, <1>9 DEF PortTypeOK, mintCommitment, to
<1>11. Armed' /\ ~Armed
  BY <1>5, <1>9 DEF Armed, NO_MINT_AUTHORIZED, mintCommitment
<1>12. /\ Cursor' = i /\ Cursor = Len(from) /\ spent' = spent
       /\ processedLockState = from
  BY <1>5, <1>8 DEF Cursor, from
<1>13. \A k \in 1 .. Len(from) : processedLockState'[k] = from[k]
  BY <1>1, <1>6, <1>7, <1>8
<1>14. /\ \A n \in DOMAIN spent :
            /\ spent[n].at \in 1 .. Len(from)
            /\ from[spent[n].at].token = Asset
            /\ from[spent[n].at].recipient = spent[n].recipient
            /\ from[spent[n].at].amount = spent[n].amount
       /\ \A m, n \in DOMAIN spent : m < n => spent[m].at < spent[n].at
       /\ \A k \in 1 .. Len(from) :
            from[k].token = Asset => \E n \in DOMAIN spent : spent[n].at = k
  BY <1>11, <1>12 DEF PortInv, MintsFollowLocks
<1>15. \A n \in DOMAIN spent' :
         /\ spent'[n].at \in 1 .. i
         /\ processedLockState'[spent'[n].at].token = Asset
         /\ processedLockState'[spent'[n].at].recipient = spent'[n].recipient
         /\ processedLockState'[spent'[n].at].amount = spent'[n].amount
  BY <1>1, <1>6, <1>12, <1>13, <1>14
<1>16. ASSUME NEW k \in 1 .. i, processedLockState'[k].token = Asset
       PROVE  (\E n \in DOMAIN spent' : spent'[n].at = k) <=> ~(k = i /\ Armed')
  <2>1. CASE k \in 1 .. Len(from)
    BY <1>1, <1>6, <1>12, <1>13, <1>14, <1>16, <2>1
  <2>2. CASE k \in (Len(from) + 1) .. (i - 1)
    BY <1>1, <1>6, <1>8, <1>16, <2>2
  <2>3. CASE k = i
    BY <1>1, <1>6, <1>11, <1>12, <1>14, <2>3
  <2> QED
    BY <1>1, <1>6, <2>1, <2>2, <2>3
<1>17. /\ i > 0 /\ processedLockState'[i].token = Asset
       /\ mintAuthorization' = mintCommitment(processedLockState'[i].recipient,
                                              processedLockState'[i].amount)
  BY <1>5, <1>6, <1>8 DEF to
<1>18. MintsFollowLocks'
  BY <1>12, <1>14, <1>15, <1>16, <1>17 DEF MintsFollowLocks
<1> QED
  BY <1>10, <1>18 DEF PortInv

\* What is armed is spent, with a mint or without.
LEMMA SpendingKeepsPort ==
  ASSUME PortInv, NEW recipient \in MinaKeys, NEW amount \in 1 .. MaxUint64,
         mint(recipient, amount) \/ canMintAlone(recipient, amount)
  PROVE  PortInv'
<1>0. PICK minted \in BOOLEAN : Spends(recipient, amount, minted)
  BY DEF mint, canMintAlone
<1> DEFINE m == [at |-> Cursor, recipient |-> recipient, amount |-> amount,
                 minted |-> minted]
<1>1. /\ Armed /\ mintAuthorization = mintCommitment(recipient, amount)
      /\ mintAuthorization' = NO_MINT_AUTHORIZED
      /\ \/ balance' = [balance EXCEPT ![recipient] = @ + amount]
         \/ balance' = balance
      /\ spent' = Append(spent, m)
      /\ UNCHANGED <<signingPolicyRoot, flareLockState, processedLockState>>
  BY <1>0 DEF mint, canMintAlone, canMint, Spends, Armed, Cursor
<1>2. /\ Cursor \in Nat /\ spent \in Seq(Spending) /\ balance \in [MinaKeys -> Nat]
      /\ amount \in Nat /\ processedLockState \in Heads
  BY DEF PortInv, PortTypeOK, Cursor, Heads
<1>3. /\ Cursor > 0 /\ processedLockState[Cursor].token = Asset
      /\ processedLockState[Cursor].recipient = recipient
      /\ processedLockState[Cursor].amount = amount
  BY <1>1 DEF PortInv, MintsFollowLocks, mintCommitment
<1>4. /\ \A n \in DOMAIN spent :
           /\ spent[n].at \in 1 .. Cursor
           /\ processedLockState[spent[n].at].token = Asset
           /\ processedLockState[spent[n].at].recipient = spent[n].recipient
           /\ processedLockState[spent[n].at].amount = spent[n].amount
      /\ \A k, n \in DOMAIN spent : k < n => spent[k].at < spent[n].at
      /\ \A k \in 1 .. Cursor : processedLockState[k].token = Asset =>
           ((\E n \in DOMAIN spent : spent[n].at = k) <=> k # Cursor)
  BY <1>1 DEF PortInv, MintsFollowLocks
<1>5. \A n \in DOMAIN spent : spent[n].at < Cursor
  BY <1>2, <1>3, <1>4
<1>6. m \in Spending /\ m.at = Cursor /\ m.recipient = recipient /\ m.amount = amount
  BY <1>2 DEF Spending
<1> DEFINE last == Len(spent) + 1
<1> HIDE DEF m
<1>7. /\ spent' \in Seq(Spending) /\ DOMAIN spent' = DOMAIN spent \union {last}
      /\ last \notin DOMAIN spent /\ last \in Nat /\ spent'[last] = m
      /\ \A n \in DOMAIN spent : spent'[n] = spent[n] /\ n \in Nat /\ n < last
  BY <1>1, <1>2, <1>6
<1>8. PortTypeOK'
  <2>1. balance' \in [MinaKeys -> Nat]
    BY <1>1, <1>2
  <2>2. mintAuthorization' \in [recipient : MinaKeys \union {NoKey}, amount : Nat]
    BY <1>1 DEF NO_MINT_AUTHORIZED, mintCommitment
  <2> QED
    BY <1>1, <1>7, <2>1, <2>2 DEF PortInv, PortTypeOK
<1>9. ~Armed' /\ Cursor' = Cursor /\ processedLockState' = processedLockState
  BY <1>1 DEF Armed, Cursor
<1> HIDE DEF last
<1>10. \A n \in DOMAIN spent' :
         /\ spent'[n].at \in 1 .. Cursor
         /\ processedLockState[spent'[n].at].token = Asset
         /\ processedLockState[spent'[n].at].recipient = spent'[n].recipient
         /\ processedLockState[spent'[n].at].amount = spent'[n].amount
  BY <1>2, <1>3, <1>4, <1>6, <1>7
<1>11. \A k, n \in DOMAIN spent' : k < n => spent'[k].at < spent'[n].at
  BY <1>4, <1>5, <1>6, <1>7
<1>12. \A k \in 1 .. Cursor : processedLockState[k].token = Asset =>
         \E n \in DOMAIN spent' : spent'[n].at = k
  BY <1>4, <1>6, <1>7
<1>13. MintsFollowLocks'
  BY <1>9, <1>10, <1>11, <1>12 DEF MintsFollowLocks
<1> QED
  BY <1>8, <1>13 DEF PortInv

LEMMA PortKeepsPort ==
  ASSUME VaultTypeOK, PortInv, Port
  PROVE  PortInv'
<1>1. ASSUME NEW p \in Policies, setSigningPolicyRoot(p)
      PROVE  PortInv'
  BY <1>1 DEF setSigningPolicyRoot, PortInv, PortTypeOK, MintsFollowLocks, Armed, Cursor
<1>2. ASSUME NEW a \in Attestations, publishFlareLockState(a)
      PROVE  PortInv'
  BY <1>2, AttestedIsAHead DEF publishFlareLockState, PortInv, PortTypeOK,
                               MintsFollowLocks, Armed, Cursor
<1> QED
  BY <1>1, <1>2, AuthorizeKeepsPort, SpendingKeepsPort DEF Port

\* Burns and transfers move balances and nothing of the port.
LEMMA SpendKeepsPort ==
  ASSUME PortInv, outflow \in [MinaKeys -> Nat], Spend
  PROVE  PortInv' /\ outflow' \in [MinaKeys -> Nat]
<1>1. PICK holder \in MinaKeys, amount \in Amounts :
        /\ burn(holder, amount) \/ \E to \in MinaKeys : transfer(holder, to, amount)
        /\ outflow' = [outflow EXCEPT ![holder] = @ + amount]
  BY DEF Spend
<1>2. amount \in Nat /\ balance \in [MinaKeys -> Nat]
  BY DEF PortInv, PortTypeOK
<1>3. balance' \in [MinaKeys -> Nat] /\ UNCHANGED <<portVars, spent>>
  <2>1. CASE burn(holder, amount)
    BY <1>2, <2>1 DEF burn
  <2>2. ASSUME NEW to \in MinaKeys, transfer(holder, to, amount)
        PROVE  balance' \in [MinaKeys -> Nat] /\ UNCHANGED <<portVars, spent>>
    <3>1. /\ holder # to /\ amount <= balance[holder]
          /\ balance' = [balance EXCEPT ![holder] = @ - amount, ![to] = @ + amount]
      BY <2>2 DEF transfer
    <3>2. balance' \in [MinaKeys -> Nat]
      BY <1>2, <3>1
    <3> QED
      BY <2>2, <3>2 DEF transfer
  <2> QED
    BY <1>1, <2>1, <2>2
<1>4. outflow' \in [MinaKeys -> Nat]
  BY <1>1, <1>2
<1> QED
  BY <1>3, <1>4 DEF PortInv, PortTypeOK, MintsFollowLocks, Armed, Cursor, portVars

----------------------------------------------------------------------------
(* The rail.                                                               *)

Inv == VaultInv /\ PortInv /\ DeskInv /\ outflow \in [MinaKeys -> Nat]

LEMMA InitInv == Init => Inv
<1> SUFFICES ASSUME Init PROVE Inv
  OBVIOUS
<1>1. VaultInv
  <2>1. NewChain \in ChainState
    BY DEF NewChain, ChainState, Heads, EmptyHead
  <2>2. chains \in [Chains -> ChainState]
    BY <2>1 DEF Init, VaultInit
  <2>3. /\ lockedOf \in [Tokens -> Nat] /\ nextClaimIdOf \in [Tokens -> Nat]
        /\ balanceOf \in [Tokens -> Nat] /\ released \in [Tokens -> Nat]
        /\ maxAttestedReleaseOf \in [Tokens -> Nat]
        /\ releasedClaims \in [Tokens -> SUBSET Nat]
    BY DEF Init, VaultInit
  <2>4. /\ transferChain \in Chains \union {NoChain} /\ accepted \in SUBSET Tokens
        /\ NATIVE_WRAPPER \in Tokens \union {NoToken} /\ paused \in BOOLEAN
        /\ burnAttestor \in Attestors \union {ZeroAddress}
        /\ consumedIntents \in SUBSET ReleaseIntent
    BY DEF Init, VaultInit
  <2>5. VaultSolvent
    <3>1. \A t \in Tokens : lockedOf[t] = 0 /\ balanceOf[t] = 0
      BY Zenon DEF Init, VaultInit
    <3>2. ASSUME NEW t \in Tokens
          PROVE  balanceOf[t] >= lockedOf[t]
      <4>1. balanceOf[t] = 0 /\ lockedOf[t] = 0
        BY <3>1
      <4>2. 0 >= 0
        OBVIOUS
      <4> QED
        BY <4>1, <4>2, Zenon
    <3> QED
      BY <3>2 DEF VaultSolvent
  <2> QED
    BY <2>2, <2>3, <2>4, <2>5 DEF VaultInv, VaultTypeOK
<1>2. PortInv
  <2>1. PortTypeOK
    <3>1. EmptyHead \in Heads /\ << >> \in Seq(Spending)
      BY DEF Heads, EmptyHead
    <3>2. NO_MINT_AUTHORIZED \in [recipient : MinaKeys \union {NoKey}, amount : Nat]
      BY DEF NO_MINT_AUTHORIZED, mintCommitment
    <3> QED
      BY <3>1, <3>2 DEF Init, PortInit, PortTypeOK
  <2>2. MintsFollowLocks
    BY DEF Init, PortInit, MintsFollowLocks, Armed, Cursor, EmptyHead
  <2> QED
    BY <2>1, <2>2 DEF PortInv
<1>3. DeskInv
  BY DEF Init, DeskInit, DeskInv, DeskTypeOK, HasNewest, RowsDistinct, RowsOf
<1> QED
  BY <1>1, <1>2, <1>3 DEF Init, Inv

\* A step that leaves a part's variables alone leaves its invariant alone.
LEMMA VaultFrame == VaultInv /\ UNCHANGED vaultVars => VaultInv'
BY DEF VaultInv, VaultTypeOK, VaultSolvent, vaultVars, lockVars, settingVars, replayVars

LEMMA PortFrame == PortInv /\ UNCHANGED assetVars => PortInv'
BY DEF PortInv, PortTypeOK, MintsFollowLocks, Armed, Cursor, assetVars, portVars

LEMMA DeskFrame == DeskInv /\ UNCHANGED deskVars => DeskInv'
BY RowsRewritten DEF deskVars, SameKeys, DeskInv, DeskTypeOK

LEMMA NextInv == Inv /\ [Next]_vars => Inv'
<1> SUFFICES ASSUME Inv, [Next]_vars PROVE Inv'
  OBVIOUS
<1>0. /\ VaultInv /\ PortInv /\ DeskInv /\ outflow \in [MinaKeys -> Nat]
      /\ VaultTypeOK /\ balance \in [MinaKeys -> Nat]
  BY DEF Inv, VaultInv, PortInv, PortTypeOK
<1>1. CASE Lock
  BY <1>0, <1>1, LockKeepsVault, PortFrame, DeskFrame DEF Lock, Inv, minaVars
<1>2. CASE RecordForeign
  BY <1>0, <1>2, AppendKeepsVault, PortFrame, DeskFrame DEF RecordForeign, Inv, minaVars
<1>3. CASE Give
  BY <1>0, <1>3, GiveKeepsVault, PortFrame, DeskFrame DEF Give, Inv, minaVars
<1>4. CASE OwnerRelease
  BY <1>0, <1>4, OwnerReleaseKeepsVault, PortFrame, DeskFrame
     DEF OwnerRelease, Inv, minaVars
<1>5. CASE Claim
  BY <1>0, <1>5, ClaimKeepsBoth, PortFrame DEF Claim, Inv, minaVars
<1>6. CASE Administer
  BY <1>0, <1>6, AdministerKeepsVault, PortFrame, DeskFrame DEF Administer, Inv, minaVars
<1>7. CASE Port
  BY <1>0, <1>7, PortKeepsPort, VaultFrame, DeskFrame DEF Port, Inv
<1>8. CASE Spend
  BY <1>0, <1>8, SpendKeepsPort, VaultFrame, DeskFrame DEF Spend, Inv
<1>9. CASE Desk
  BY <1>0, <1>9, DeskKeepsDesk, VaultFrame, PortFrame DEF Desk, Inv, minaVars
<1>10. CASE UNCHANGED vars
  BY <1>0, <1>10, VaultFrame, PortFrame, DeskFrame DEF vars, Inv
<1> QED
  BY <1>1, <1>2, <1>3, <1>4, <1>5, <1>6, <1>7, <1>8, <1>9, <1>10 DEF Next

LEMMA Invariance == Spec => []Inv
  BY InitInv, NextInv, PTL DEF Spec

(* Every variable of the rail stays in its type, in both contracts, the     *)
(* port's token and the relayer's table.                                    *)
THEOREM RailTypeOK == Spec => []TypeOK
<1>1. Inv => TypeOK
  BY DEF Inv, TypeOK, VaultInv, PortInv, DeskInv
<1> QED
  BY Invariance, <1>1, PTL

(* AssetVault.sol, isSolvent: the vault holds at least what it says is      *)
(* locked, whatever the tokens deliver, are given or are set to.            *)
THEOREM VaultStaysSolvent == Spec => []VaultSolvent
<1>1. Inv => VaultSolvent
  BY DEF Inv, VaultInv
<1> QED
  BY Invariance, <1>1, PTL

(* AssetPort.ts, authorizeMint and canMint, called by a mint or by anybody: *)
(* what was armed for a lock below the cursor was spent once, in order, in  *)
(* full, or is armed still; so each mint is of a lock of its own.           *)
THEOREM MintsFollow == Spec => []MintsFollowLocks
<1>1. Inv => MintsFollowLocks
  BY DEF Inv, PortInv
<1> QED
  BY Invariance, <1>1, PTL

(* recordRelease of db/index.ts: no two burns have the same intent, however *)
(* the requests for them interleave.                                        *)
THEOREM IntentsStayDistinct == Spec => []IntentsDistinct
<1>1. Inv => IntentsDistinct
  BY DEF Inv, DeskInv, RowsDistinct, IntentsDistinct, IntentOf
<1> QED
  BY Invariance, <1>1, PTL

-----------------------------------------------------------------------------
(* The port stays on the chain.  Chains only grow, whoever appends and       *)
(* whatever their owner sets, so a head that was once reached stays reached. *)

ChainsGrow ==
  \A c \in Chains : /\ Len(chains[c].head) <= Len(chains'[c].head)
                    /\ \A k \in 1 .. Len(chains[c].head) :
                         chains'[c].head[k] = chains[c].head[k]

\* One more record at one chain's end.
LEMMA AppendGrows ==
  ASSUME VaultTypeOK, NEW c \in Chains, NEW token \in Tokens, NEW recipient \in MinaKeys,
         NEW amount \in Nat,
         chains' = [chains EXCEPT ![c] = Appended(chains[c], token, recipient, amount)]
  PROVE  ChainsGrow
<1> DEFINE r == [index |-> chains[c].nextIndex, token |-> token,
                 recipient |-> recipient, amount |-> amount]
<1>1. \A d \in Chains : chains[d] \in ChainState /\ chains[d].head \in Heads
  BY DEF VaultTypeOK, ChainState
<1>2. r \in TransferRecord
  BY <1>1 DEF ChainState, TransferRecord
<1> HIDE DEF r
<1>3. Appended(chains[c], token, recipient, amount).head = applyTransfer(chains[c].head, r)
  BY <1>1 DEF Appended, ChainState, r
<1>4. chains'[c].head = Append(chains[c].head, r)
  BY <1>3 DEF VaultTypeOK, applyTransfer
<1>5. \A d \in Chains : d # c => chains'[d] = chains[d]
  BY DEF VaultTypeOK
<1>6. ASSUME NEW d \in Chains
      PROVE  /\ Len(chains[d].head) <= Len(chains'[d].head)
             /\ \A k \in 1 .. Len(chains[d].head) :
                  chains'[d].head[k] = chains[d].head[k]
  <2>1. CASE d = c
    BY <1>1, <1>2, <1>4, <2>1 DEF Heads
  <2>2. CASE d # c
    BY <1>1, <1>5, <2>2 DEF Heads
  <2> QED
    BY <2>1, <2>2
<1> QED
  BY <1>6 DEF ChainsGrow

LEMMA SameChainsGrow ==
  ASSUME VaultTypeOK, UNCHANGED chains
  PROVE  ChainsGrow
<1>1. \A c \in Chains : Len(chains[c].head) \in Nat
  BY DEF VaultTypeOK, ChainState, Heads
<1> QED
  BY <1>1 DEF ChainsGrow

\* What an appender may is not what a chain holds.
LEMMA GrantsGrow ==
  ASSUME VaultTypeOK, NEW c \in Chains, NEW appender, NEW token, NEW allowed \in BOOLEAN,
         chains' = [chains EXCEPT ![c] = SetAppender(chains[c], appender, token, allowed)]
  PROVE  ChainsGrow
<1>1. \A d \in Chains : chains[d] \in ChainState /\ Len(chains[d].head) \in Nat
  BY SMTT(30) DEF VaultTypeOK, ChainState, Heads
<1>2. SetAppender(chains[c], appender, token, allowed).head = chains[c].head
  BY <1>1 DEF SetAppender, ChainState
<1>3. \A d \in Chains : chains'[d].head = chains[d].head
  BY <1>2 DEF VaultTypeOK
<1> QED
  BY <1>1, <1>3 DEF ChainsGrow

LEMMA StepGrows ==
  ASSUME VaultTypeOK, [Next]_vars
  PROVE  ChainsGrow
<1>0. UNCHANGED chains => ChainsGrow
  BY SameChainsGrow
<1>1. CASE Lock
  <2>1. ASSUME NEW token \in Tokens, NEW received \in Nat,
               NEW recipient \in MinaKeys \union {NoKey},
               _record(token, received, recipient)
        PROVE  ChainsGrow
    <3>1. /\ transferChain \in Chains /\ recipient \in MinaKeys
          /\ chains' = [chains EXCEPT ![transferChain] =
                          Appended(chains[transferChain], token, recipient, received)]
      BY <2>1 DEF _record, VaultTypeOK
    <3> QED
      BY <3>1, AppendGrows
  <2>2. ASSUME NEW l \in Locks, lock(l.token, l.amount, l.received, l.recipient)
        PROVE  ChainsGrow
    <3>1. l \in [token : Tokens, amount : Nat, received : Nat,
                 recipient : MinaKeys \union {NoKey}]
      OBVIOUS
    <3> QED
      BY <2>1, <2>2, <3>1 DEF lock
  <2>3. ASSUME NEW l \in NativeLocks, lockNative(l.value, l.recipient)
        PROVE  ChainsGrow
    <3>1. l \in [value : Nat, recipient : MinaKeys \union {NoKey}]
      OBVIOUS
    <3>2. NATIVE_WRAPPER \in Tokens /\ l.value \div SCALE \in Nat
      BY <2>3, <3>1 DEF lockNative, VaultTypeOK
    <3> QED
      BY <2>1, <2>3, <3>1, <3>2 DEF lockNative
  <2> QED
    BY <1>1, <2>2, <2>3 DEF Lock
<1>2. CASE RecordForeign
  <2>1. PICK c \in Chains, f \in Foreign :
          ForeignAppend(c, f.appender, f.token, f.recipient, f.amount)
    BY <1>2 DEF RecordForeign
  <2>2. f \in [appender : Appenders, token : Tokens \ {Asset},
               recipient : MinaKeys, amount : 1 .. MaxUint64]
    OBVIOUS
  <2>3. f.token \in Tokens /\ f.recipient \in MinaKeys /\ f.amount \in Nat
    BY <2>2
  <2> QED
    BY <2>1, <2>3, AppendGrows DEF ForeignAppend
<1>3. CASE Administer
  <2>1. ASSUME NEW c \in Chains, NEW g \in Grants, NEW allowed \in BOOLEAN,
               ChainSetAppender(c, g[1], g[2], allowed)
        PROVE  ChainsGrow
    BY <2>1, GrantsGrow DEF ChainSetAppender
  <2>2. CASE UNCHANGED chains
    BY <1>0, <2>2
  <2> QED
    BY <1>3, <2>1, <2>2
    DEF Administer, setTransferChain, setNativeRoute, setAccepted, setBurnAttestor,
        setMaxAttestedRelease, SetPaused, valueVars
<1>4. CASE Give \/ OwnerRelease \/ Claim
  <2>1. UNCHANGED chains
    BY <1>4 DEF Give, OwnerRelease, Claim, Donate, releaseNative, release, PayOut,
                releaseWithMinaSignature
  <2> QED
    BY <1>0, <2>1
<1>5. CASE Port \/ Spend \/ Desk \/ UNCHANGED vars
  <2>1. UNCHANGED chains
    BY <1>5 DEF Port, Spend, Desk, vars, vaultVars
  <2> QED
    BY <1>0, <2>1
<1> QED
  BY <1>1, <1>2, <1>3, <1>4, <1>5 DEF Next

\* A head the chain had is one it has when it has grown.
LEMMA ReachedStaysReached ==
  ASSUME NEW b \in Heads, NEW a \in Heads, NEW h \in Heads,
         Extends(a, h), Len(a) <= Len(b), \A k \in 1 .. Len(a) : b[k] = a[k]
  PROVE  Extends(b, h)
BY DEF Extends, Heads

\* What the port accepts is a head of the chain it follows: an attestation that
\* carries weight is of a head some chain had, and the emitter says which.
LEMMA AcceptedIsReached ==
  ASSUME VaultTypeOK, RequiredWeight > 0, NEW a \in Attestations, Publishable(a)
  PROVE  Extends(chains[FlareChain].head, a.actionState)
<1>1. a \in SoundAttestations
  <2>1. ASSUME a \in UnsoundAttestations PROVE FALSE
    BY <2>1 DEF UnsoundAttestations, Attested, Publishable
  <2> QED
    BY <2>1 DEF Attestations
<1>2. PICK cn \in Chains \X (1 .. MaxTransfers), p \in Policies :
        /\ cn[2] <= Len(chains[cn[1]].head)
        /\ a = Attested(SubSeq(chains[cn[1]].head, 1, cn[2]), cn[1], p, RequiredWeight)
  BY <1>1 DEF SoundAttestations
<1>3. cn[1] = FlareChain
  BY <1>2 DEF Publishable, Attested
<1>4. cn[2] \in 1 .. MaxTransfers /\ cn[2] <= Len(chains[FlareChain].head)
  BY <1>2, <1>3
<1>5. a.actionState = SubSeq(chains[FlareChain].head, 1, cn[2])
  BY <1>2, <1>3 DEF Attested
<1>6. chains[FlareChain].head \in Heads
  BY DEF VaultTypeOK, ChainState
<1> DEFINE h == chains[FlareChain].head
           n == cn[2]
<1>7. h \in Heads /\ n \in 1 .. MaxTransfers /\ n <= Len(h)
  BY <1>4, <1>6
<1> HIDE DEF h, n
<1>8. Extends(h, SubSeq(h, 1, n))
  BY <1>7 DEF Extends, Heads
<1> QED
  BY <1>5, <1>8 DEF h, n

LEMMA PortReaches ==
  ASSUME VaultTypeOK, PortTypeOK, RequiredWeight > 0, OnTheChain, Port
  PROVE  /\ Extends(chains[FlareChain].head, flareLockState')
         /\ Extends(chains[FlareChain].head, processedLockState')
<1>0. /\ chains[FlareChain].head \in Heads
      /\ flareLockState \in Heads /\ processedLockState \in Heads
  BY DEF VaultTypeOK, ChainState, PortTypeOK
<1>1. ASSUME NEW p \in Policies, setSigningPolicyRoot(p)
      PROVE  flareLockState' = flareLockState /\ processedLockState' = processedLockState
  BY <1>1 DEF setSigningPolicyRoot
<1>2. ASSUME NEW a \in Attestations, publishFlareLockState(a)
      PROVE  /\ Extends(chains[FlareChain].head, flareLockState')
             /\ processedLockState' = processedLockState
  BY <1>2, AcceptedIsReached DEF publishFlareLockState
<1>3. ASSUME NEW token \in Tokens,
             NEW s \in SegmentsFrom(processedLockState, flareLockState, token),
             authorizeMint(s)
      PROVE  /\ flareLockState' = flareLockState
             /\ Extends(chains[FlareChain].head, processedLockState')
  <2>1. PICK i \in DOMAIN flareLockState :
          s.stateAfterFirst = SubSeq(flareLockState, 1, i)
    BY DEF SegmentsFrom
  <2>2. /\ flareLockState' = flareLockState
        /\ processedLockState' = SubSeq(flareLockState, 1, i)
    BY <1>3, <2>1 DEF authorizeMint
  <2>3. Extends(chains[FlareChain].head, flareLockState)
    BY DEF OnTheChain
  <2> DEFINE h == chains[FlareChain].head
  <2>4. h \in Heads /\ Extends(h, flareLockState) /\ flareLockState \in Heads
    BY <1>0, <2>3
  <2> HIDE DEF h
  <2>5. Extends(h, SubSeq(flareLockState, 1, i))
    BY <2>1, <2>4 DEF Extends, Heads
  <2> QED
    BY <2>2, <2>5 DEF h
<1>4. ASSUME NEW recipient \in MinaKeys, NEW amount \in 1 .. MaxUint64,
             mint(recipient, amount) \/ canMintAlone(recipient, amount)
      PROVE  flareLockState' = flareLockState /\ processedLockState' = processedLockState
  BY <1>4 DEF mint, canMintAlone
<1> QED
  BY <1>1, <1>2, <1>3, <1>4 DEF Port, OnTheChain

(* AssetPort.ts, publishFlareLockState and authorizeMint: whatever is       *)
(* attested, and whoever publishes it, the port has accepted and minted up  *)
(* to heads that the chain it follows had, if any weight is required.       *)
THEOREM PortOnTheChain ==
  ASSUME RequiredWeight > 0
  PROVE  Spec => []OnTheChain
<1>1. Init => OnTheChain
  BY DEF Init, VaultInit, PortInit, OnTheChain, Extends, NewChain, EmptyHead
<1>2. Inv /\ Inv' /\ OnTheChain /\ [Next]_vars => OnTheChain'
  <2> SUFFICES ASSUME Inv, Inv', OnTheChain, [Next]_vars PROVE OnTheChain'
    OBVIOUS
  <2>1. /\ VaultTypeOK /\ PortTypeOK /\ VaultTypeOK' /\ PortTypeOK'
    BY DEF Inv, VaultInv, PortInv
  <2>2. /\ chains[FlareChain].head \in Heads /\ chains'[FlareChain].head \in Heads
        /\ flareLockState' \in Heads /\ processedLockState' \in Heads
    BY <2>1 DEF VaultTypeOK, ChainState, PortTypeOK
  <2>3. /\ Extends(chains[FlareChain].head, flareLockState')
        /\ Extends(chains[FlareChain].head, processedLockState')
    <3>1. CASE Port
      BY <2>1, <3>1, PortReaches
    <3>2. CASE UNCHANGED <<flareLockState, processedLockState>>
      BY <3>2 DEF OnTheChain
    <3>3. ~Port => UNCHANGED <<flareLockState, processedLockState>>
      BY DEF Next, Lock, RecordForeign, Give, OwnerRelease, Claim, Administer, Desk, vars,
             Spend, burn, transfer, minaVars, assetVars, portVars
    <3> QED
      BY <3>1, <3>2, <3>3
  <2>4. /\ Len(chains[FlareChain].head) <= Len(chains'[FlareChain].head)
        /\ \A k \in 1 .. Len(chains[FlareChain].head) :
             chains'[FlareChain].head[k] = chains[FlareChain].head[k]
    BY <2>1, StepGrows DEF ChainsGrow
  <2> QED
    BY <2>2, <2>3, <2>4, ReachedStaysReached DEF OnTheChain
<1> QED
  BY <1>1, <1>2, Invariance, PTL DEF Spec

-----------------------------------------------------------------------------
(* The locks and the token.  What is locked or has been released is what the *)
(* chains' records of the asset say was delivered; what was minted or armed  *)
(* is what the records below the port's cursor say.                          *)

(* The vault's books: each sum moves with the chains it sums over, none of   *)
(* which outgrows its bound, and positions are counted by nextIndex.         *)
Regular(c) ==
  /\ Len(chains[c].head) = chains[c].nextIndex
  /\ chains[c].nextIndex <= MaxTransfers

Books ==
  /\ lockedOf[Asset] + released[Asset] = SumFunction(LockedAmounts)
  /\ \A c \in Chains : Regular(c)

LEMMA LocksFinite ==
  /\ IsFiniteSet(AssetLocks) /\ AssetLocks \subseteq Chains \X (1 .. MaxTransfers)
<1>1. IsFiniteSet(1 .. MaxTransfers)
  BY FS_Interval
<1>2. IsFiniteSet(Chains \X (1 .. MaxTransfers))
  BY <1>1, FS_Product
<1>3. AssetLocks \subseteq Chains \X (1 .. MaxTransfers)
  BY DEF AssetLocks
<1> QED
  BY <1>2, <1>3, FS_Subset

\* The records of heads that did not change are the same records.
LEMMA LocksUnchanged ==
  ASSUME \A c \in Chains : chains'[c].head = chains[c].head
  PROVE  AssetLocks' = AssetLocks /\ LockedAmounts' = LockedAmounts
<1>1. AssetLocks' = AssetLocks
  BY DEF AssetLocks
<1>2. \A b \in AssetLocks : chains'[b[1]].head[b[2]] = chains[b[1]].head[b[2]]
  BY DEF AssetLocks
<1> QED
  BY <1>1, <1>2 DEF LockedAmounts

(* What append does to the chains: one record more on one of them.         *)
GrewBy(c, token, amount) ==
  /\ Len(chains'[c].head) = Len(chains[c].head) + 1
  /\ \A i \in 1 .. Len(chains[c].head) : chains'[c].head[i] = chains[c].head[i]
  /\ chains'[c].head[Len(chains[c].head) + 1].token = token
  /\ chains'[c].head[Len(chains[c].head) + 1].amount = amount
  /\ chains'[c].nextIndex = chains[c].nextIndex + 1
  /\ chains'[c].mayAppend = chains[c].mayAppend
  /\ \A d \in Chains \ {c} : chains'[d] = chains[d]

LEMMA AppendedHead ==
  ASSUME VaultTypeOK, NEW c \in Chains, NEW token \in Tokens, NEW key \in MinaKeys,
         NEW amount \in Nat,
         chains' = [chains EXCEPT ![c] = Appended(chains[c], token, key, amount)]
  PROVE  GrewBy(c, token, amount)
<1> DEFINE record == [index |-> chains[c].nextIndex, token |-> token,
                      recipient |-> key, amount |-> amount]
           head == chains[c].head
<1>1. chains[c] \in ChainState /\ DOMAIN chains = Chains
  BY DEF VaultTypeOK
<1>2. head \in Heads /\ record \in TransferRecord
  BY <1>1 DEF ChainState, TransferRecord
<1>3. chains'[c] = [chains[c] EXCEPT !.nextIndex = chains[c].nextIndex + 1,
                                     !.head = Append(head, record)]
  BY <1>1, Zenon DEF Appended, applyTransfer, ChainState
<1>4. /\ chains'[c].head = Append(head, record)
      /\ chains'[c].nextIndex = chains[c].nextIndex + 1
      /\ chains'[c].mayAppend = chains[c].mayAppend
  BY <1>1, <1>3 DEF ChainState
<1>5. \A d \in Chains \ {c} : chains'[d] = chains[d]
  BY <1>1
<1>6. record.token = token /\ record.amount = amount
  OBVIOUS
<1> HIDE DEF record, head
<1>7. /\ Len(Append(head, record)) = Len(head) + 1
      /\ \A i \in 1 .. Len(head) : Append(head, record)[i] = head[i]
      /\ Append(head, record)[Len(head) + 1] = record
  BY <1>2 DEF Heads
<1> QED
  BY <1>4, <1>5, <1>6, <1>7 DEF head, GrewBy

\* What append adds to the locks of the asset, when it records one and when not.
LEMMA AppendedLocks ==
  ASSUME VaultTypeOK, NEW c \in Chains, NEW token \in Tokens, NEW key \in MinaKeys,
         NEW amount \in Nat, Regular(c), chains[c].nextIndex < MaxTransfers,
         chains' = [chains EXCEPT ![c] = Appended(chains[c], token, key, amount)]
  PROVE  /\ \A b \in AssetLocks : b \in AssetLocks' /\ LockedAmounts'[b] = LockedAmounts[b]
         /\ <<c, Len(chains[c].head) + 1>> \notin AssetLocks
         /\ token = Asset =>
              /\ AssetLocks' = AssetLocks \union {<<c, Len(chains[c].head) + 1>>}
              /\ LockedAmounts'[<<c, Len(chains[c].head) + 1>>] = amount
         /\ token # Asset => AssetLocks' = AssetLocks
<1> DEFINE n == Len(chains[c].head)
           new == <<c, n + 1>>
<1>1. /\ Len(chains'[c].head) = n + 1
      /\ \A i \in 1 .. n : chains'[c].head[i] = chains[c].head[i]
      /\ chains'[c].head[n + 1].token = token
      /\ chains'[c].head[n + 1].amount = amount
      /\ \A d \in Chains \ {c} : chains'[d] = chains[d]
  <2>1. GrewBy(c, token, amount)
    BY AppendedHead
  <2> QED
    BY <2>1, Zenon DEF GrewBy
<1>2. n \in Nat /\ n + 1 \in 1 .. MaxTransfers
  <2>1. chains[c].nextIndex \in Nat /\ MaxTransfers \in Nat
    BY DEF VaultTypeOK, ChainState
  <2>2. n = chains[c].nextIndex
    BY DEF Regular
  <2> HIDE DEF n
  <2> QED
    BY <2>1, <2>2
<1>3. DOMAIN chains[c].head = 1 .. n
  BY DEF VaultTypeOK, ChainState, Heads
<1>4. DOMAIN chains'[c].head = 1 .. (n + 1)
  <2>1. chains' \in [Chains -> ChainState]
    <3>1. Appended(chains[c], token, key, amount) \in ChainState
      BY AppendedIsAChain DEF VaultTypeOK
    <3> QED
      BY <3>1 DEF VaultTypeOK
  <2>2. chains'[c].head \in Heads
    BY <2>1 DEF ChainState
  <2> QED
    BY <1>1, <2>2 DEF Heads
<1> HIDE DEF n
<1>5. ASSUME NEW b \in Chains \X (1 .. MaxTransfers), b # new
      PROVE  /\ b[2] \in DOMAIN chains'[b[1]].head <=> b[2] \in DOMAIN chains[b[1]].head
             /\ b[2] \in DOMAIN chains[b[1]].head =>
                  chains'[b[1]].head[b[2]] = chains[b[1]].head[b[2]]
  <2>1. CASE b[1] = c
    <3>1. b = <<b[1], b[2]>> /\ b[2] \in Nat
      OBVIOUS
    <3>2. b[2] # n + 1
      BY <1>5, <2>1, <3>1
    <3> QED
      BY <1>1, <1>2, <1>3, <1>4, <2>1, <3>1, <3>2
  <2>2. CASE b[1] # c
    BY <1>1, <2>2
  <2> QED
    BY <2>1, <2>2
<1>6. new \in Chains \X (1 .. MaxTransfers) /\ new[1] = c /\ new[2] = n + 1
  BY <1>2
<1>7. new \notin AssetLocks
  BY <1>2, <1>3, <1>6 DEF AssetLocks
<1>8. new \in AssetLocks' <=> token = Asset
  BY <1>1, <1>2, <1>4, <1>6 DEF AssetLocks
<1> HIDE DEF new
<1>9. \A b \in Chains \X (1 .. MaxTransfers) :
        b # new => (b \in AssetLocks' <=> b \in AssetLocks)
  BY <1>5 DEF AssetLocks
<1>10. /\ AssetLocks \subseteq Chains \X (1 .. MaxTransfers)
       /\ AssetLocks' \subseteq Chains \X (1 .. MaxTransfers)
  BY DEF AssetLocks
<1>11. \A b \in AssetLocks : b \in AssetLocks' /\ LockedAmounts'[b] = LockedAmounts[b]
  <2> SUFFICES ASSUME NEW b \in AssetLocks
               PROVE  b \in AssetLocks' /\ LockedAmounts'[b] = LockedAmounts[b]
    OBVIOUS
  <2>1. b \in Chains \X (1 .. MaxTransfers) /\ b # new /\ b \in AssetLocks'
    BY <1>7, <1>9, <1>10
  <2>2. chains'[b[1]].head[b[2]] = chains[b[1]].head[b[2]]
    BY <1>5, <2>1 DEF AssetLocks
  <2> QED
    BY <2>1, <2>2 DEF LockedAmounts
<1>12. token = Asset => AssetLocks' = AssetLocks \union {new}
  BY <1>8, <1>9, <1>10
<1>13. ASSUME token # Asset
       PROVE  AssetLocks' = AssetLocks
  <2>1. \A b \in Chains \X (1 .. MaxTransfers) : b \in AssetLocks' <=> b \in AssetLocks
    BY <1>7, <1>8, <1>9, <1>13
  <2> QED
    BY <1>10, <2>1
<1>14. token = Asset => LockedAmounts'[new] = amount
  <2>1. token = Asset => LockedAmounts'[new] = chains'[new[1]].head[new[2]].amount
    BY <1>8 DEF LockedAmounts
  <2> QED
    BY <1>1, <1>6, <2>1
<1> QED
  BY <1>7, <1>11, <1>12, <1>13, <1>14 DEF new, n

AmountsTyped ==
  /\ DOMAIN LockedAmounts = AssetLocks /\ \A b \in AssetLocks : LockedAmounts[b] \in Nat
  /\ SumFunction(LockedAmounts) = SumFunctionOnSet(LockedAmounts, AssetLocks)

LEMMA LockedTyped == VaultTypeOK => AmountsTyped
<1> SUFFICES ASSUME VaultTypeOK PROVE AmountsTyped
  OBVIOUS
<1>1. DOMAIN LockedAmounts = AssetLocks
  BY DEF LockedAmounts
<1>2. ASSUME NEW b \in AssetLocks
      PROVE  LockedAmounts[b] \in Nat
  <2>1. b[1] \in Chains /\ b[2] \in DOMAIN chains[b[1]].head
    BY DEF AssetLocks
  <2>2. chains[b[1]].head \in Seq(TransferRecord)
    BY <2>1 DEF VaultTypeOK, ChainState, Heads
  <2>3. chains[b[1]].head[b[2]] \in TransferRecord
    BY <2>1, <2>2
  <2> QED
    BY <2>3 DEF LockedAmounts, TransferRecord
<1> QED
  BY <1>1, <1>2, Zenon DEF SumFunction, AmountsTyped

\* A lock adds what arrived to them, another bridge's record nothing.
LEMMA LocksGrow ==
  ASSUME VaultTypeOK, VaultTypeOK', NEW c \in Chains, NEW token \in Tokens, NEW key \in MinaKeys,
         NEW amount \in Nat, Regular(c), chains[c].nextIndex < MaxTransfers,
         chains' = [chains EXCEPT ![c] = Appended(chains[c], token, key, amount)]
  PROVE  /\ token = Asset => SumFunction(LockedAmounts') = SumFunction(LockedAmounts) + amount
         /\ token # Asset => SumFunction(LockedAmounts') = SumFunction(LockedAmounts)
<1> DEFINE new == <<c, Len(chains[c].head) + 1>>
           f == LockedAmounts
           e == LockedAmounts'
           R == AssetLocks
           Q == AssetLocks'
<1>1. /\ \A b \in R : b \in Q /\ e[b] = f[b]
      /\ new \notin R
      /\ token = Asset => Q = R \union {new} /\ e[new] = amount
      /\ token # Asset => Q = R
  BY AppendedLocks
<1>2. /\ DOMAIN f = R /\ (\A b \in R : f[b] \in Nat)
      /\ SumFunction(f) = SumFunctionOnSet(f, R)
  BY LockedTyped DEF AmountsTyped
<1>3. /\ DOMAIN e = Q /\ (\A b \in Q : e[b] \in Nat)
      /\ SumFunction(e) = SumFunctionOnSet(e, Q)
  <2>1. AmountsTyped'
    BY LockedTyped, PTL
  <2> QED
    BY <2>1 DEF AmountsTyped
<1>4. IsFiniteSet(R)
  BY LocksFinite
<1> HIDE DEF new, f, e, R, Q
<1>5. SumFunctionOnSet(e, R) = SumFunctionOnSet(f, R)
  BY <1>1, <1>4, SumsAgree
<1>6. CASE token = Asset
  <2>1. SumFunctionOnSet(e, R \union {new}) = SumFunctionOnSet(e, R) + e[new]
    BY <1>1, <1>3, <1>4, <1>6, SumWith
  <2>2. SumFunctionOnSet(e, Q) = SumFunctionOnSet(f, R) + amount
    BY <1>1, <1>5, <1>6, <2>1
  <2> QED
    BY <1>2, <1>3, <1>6, <2>2 DEF f, e
<1>7. CASE token # Asset
  BY <1>1, <1>2, <1>3, <1>5, <1>7 DEF f, e
<1> QED
  BY <1>6, <1>7

\* A record leaves the chains as regular as they were.
LEMMA AppendKeepsRegular ==
  ASSUME VaultTypeOK, NEW c \in Chains, NEW token \in Tokens, NEW key \in MinaKeys,
         NEW amount \in Nat, \A d \in Chains : Regular(d),
         chains[c].nextIndex < MaxTransfers,
         chains' = [chains EXCEPT ![c] = Appended(chains[c], token, key, amount)]
  PROVE  \A d \in Chains : Regular(d)'
<1>1. GrewBy(c, token, amount)
  BY AppendedHead
<1>2. Regular(c)'
  <2>1. chains[c].nextIndex \in Nat
    BY DEF VaultTypeOK, ChainState
  <2> QED
    BY <1>1, <2>1 DEF GrewBy, Regular
<1>3. ASSUME NEW d \in Chains \ {c}
      PROVE  Regular(d)'
  BY <1>1 DEF GrewBy, Regular
<1> QED
  BY <1>2, <1>3


LEMMA InitBooks == Init => Books
<1> SUFFICES ASSUME Init PROVE Books
  OBVIOUS
<1>1. AssetLocks = {}
  BY DEF Init, VaultInit, AssetLocks, NewChain, EmptyHead
<1>2. SumFunction(LockedAmounts) = 0
  BY <1>1, SumOfNone DEF SumFunction, LockedAmounts
<1>3. \A c \in Chains : Regular(c)
  BY DEF Init, VaultInit, NewChain, EmptyHead, Regular
<1>4. lockedOf[Asset] = 0 /\ released[Asset] = 0
  BY DEF Init, VaultInit
<1> QED
  BY <1>2, <1>3, <1>4 DEF Books

LEMMA RecordKeepsBooks ==
  ASSUME VaultTypeOK, VaultTypeOK', Books, NEW token \in Tokens, NEW received \in Nat,
         NEW recipient \in MinaKeys \union {NoKey}, Room(transferChain),
         _record(token, received, recipient), UNCHANGED released
  PROVE  Books'
<1>1. /\ transferChain \in Chains /\ recipient \in MinaKeys
      /\ chains[transferChain].nextIndex < MaxTransfers
      /\ chains' = [chains EXCEPT ![transferChain] =
                      Appended(chains[transferChain], token, recipient, received)]
  BY DEF _record, VaultTypeOK, Room
<1>2. /\ lockedOf'[token] = lockedOf[token] + received
      /\ \A t \in Tokens : t # token => lockedOf'[t] = lockedOf[t]
  BY RecordKeepsTypes
<1>3. Regular(transferChain) /\ \A c \in Chains : Regular(c)
  BY <1>1 DEF Books
<1>4. /\ token = Asset =>
           SumFunction(LockedAmounts') = SumFunction(LockedAmounts) + received
      /\ token # Asset => SumFunction(LockedAmounts') = SumFunction(LockedAmounts)
  BY <1>1, <1>3, LocksGrow
<1>5. \A c \in Chains : Regular(c)'
  BY <1>1, <1>3, AppendKeepsRegular
<1>6. lockedOf[Asset] \in Nat /\ released[Asset] \in Nat
  BY DEF VaultTypeOK
<1> QED
  BY <1>2, <1>4, <1>5, <1>6 DEF Books

LEMMA ForeignKeepsBooks ==
  ASSUME VaultTypeOK, VaultTypeOK', Books, RecordForeign
  PROVE  Books'
<1>1. PICK c \in Chains, f \in Foreign :
        /\ Room(c) /\ ForeignAppend(c, f.appender, f.token, f.recipient, f.amount)
  BY DEF RecordForeign
<1>2. /\ f.token \in Tokens /\ f.token # Asset
      /\ f.recipient \in MinaKeys /\ f.amount \in Nat
  <2>1. f \in [appender : Appenders, token : Tokens \ {Asset},
               recipient : MinaKeys, amount : 1 .. MaxUint64]
    OBVIOUS
  <2> QED
    BY <2>1
<1>3. /\ chains[c].nextIndex < MaxTransfers
      /\ chains' = [chains EXCEPT ![c] =
                      Appended(chains[c], f.token, f.recipient, f.amount)]
      /\ UNCHANGED <<lockedOf, released>>
  BY <1>1 DEF Room, ForeignAppend, valueVars, lockVars
<1>4. Regular(c) /\ \A d \in Chains : Regular(d)
  BY DEF Books
<1>5. SumFunction(LockedAmounts') = SumFunction(LockedAmounts)
  BY <1>2, <1>3, <1>4, LocksGrow
<1>6. \A d \in Chains : Regular(d)'
  BY <1>2, <1>3, <1>4, AppendKeepsRegular
<1> QED
  BY <1>3, <1>5, <1>6 DEF Books

LEMMA PayOutKeepsBooks ==
  ASSUME VaultTypeOK, Books, NEW token \in Tokens, NEW amount \in Nat,
         PayOut(token, amount)
  PROVE  Books'
<1>1. /\ lockedOf[token] >= amount
      /\ lockedOf' = [lockedOf EXCEPT ![token] = @ - amount]
      /\ released' = [released EXCEPT ![token] = @ + amount]
      /\ UNCHANGED chains
  BY DEF PayOut
<1>2. lockedOf \in [Tokens -> Nat] /\ released \in [Tokens -> Nat]
  BY DEF VaultTypeOK
<1>3. lockedOf'[Asset] + released'[Asset] = lockedOf[Asset] + released[Asset]
  BY <1>1, <1>2
<1>4. LockedAmounts' = LockedAmounts
  BY <1>1, LocksUnchanged
<1> QED
  BY <1>1, <1>3, <1>4 DEF Books, Regular

LEMMA SameBooks ==
  ASSUME Books, UNCHANGED <<lockedOf, released>>,
         \A c \in Chains : /\ chains'[c].head = chains[c].head
                           /\ chains'[c].nextIndex = chains[c].nextIndex
  PROVE  Books'
<1>1. LockedAmounts' = LockedAmounts
  BY LocksUnchanged
<1> QED
  BY <1>1 DEF Books, Regular

LEMMA NextBooks == VaultTypeOK /\ VaultTypeOK' /\ DeskTypeOK /\ Books /\ [Next]_vars => Books'
<1> SUFFICES ASSUME VaultTypeOK, VaultTypeOK', DeskTypeOK, Books, [Next]_vars
             PROVE  Books'
  OBVIOUS
<1>1. CASE Lock
  <2>1. ASSUME NEW l \in Locks, lock(l.token, l.amount, l.received, l.recipient)
        PROVE  Books'
    <3>1. l \in [token : Tokens, amount : Nat, received : Nat,
                 recipient : MinaKeys \union {NoKey}]
      OBVIOUS
    <3> QED
      BY <1>1, <2>1, <3>1, RecordKeepsBooks DEF lock, Lock
  <2>2. ASSUME NEW l \in NativeLocks, lockNative(l.value, l.recipient)
        PROVE  Books'
    <3>1. l \in [value : Nat, recipient : MinaKeys \union {NoKey}]
      OBVIOUS
    <3>2. NATIVE_WRAPPER \in Tokens /\ l.value \div SCALE \in Nat
      BY <2>2, <3>1, SMTT(30) DEF lockNative, VaultTypeOK
    <3> QED
      BY <1>1, <2>2, <3>1, <3>2, RecordKeepsBooks DEF lockNative, Lock
  <2> QED
    BY <1>1, <2>1, <2>2 DEF Lock
<1>2. CASE RecordForeign
  BY <1>2, ForeignKeepsBooks
<1>3. CASE OwnerRelease
  <2>1. PICK r \in OwnerReleases :
          \/ PayOut(r.token, r.amount)
          \/ r.token = NATIVE_WRAPPER /\ PayOut(NATIVE_WRAPPER, r.amount)
    BY <1>3 DEF OwnerRelease, releaseNative, release
  <2>2. r \in [claimId : Nat, token : Tokens, amount : Nat,
               recipient : FlareAccounts \union {ZeroAddress}]
    OBVIOUS
  <2> QED
    BY <2>1, <2>2, PayOutKeepsBooks
<1>4. CASE Claim
  <2>1. PICK i \in DOMAIN releases :
          PayOut(IntentOf(releases[i]).token, IntentOf(releases[i]).amount)
    BY <1>4 DEF Claim, releaseWithMinaSignature
  <2>2. releases[i] \in ReleaseRow
    BY DEF DeskTypeOK
  <2>3. IntentOf(releases[i]).token \in Tokens /\ IntentOf(releases[i]).amount \in Nat
    BY <2>2 DEF IntentOf, ReleaseRow
  <2> QED
    BY <2>1, <2>3, PayOutKeepsBooks
<1>5. CASE Administer
  <2>1. ASSUME NEW c \in Chains, NEW g \in Grants, NEW allowed \in BOOLEAN,
               ChainSetAppender(c, g[1], g[2], allowed)
        PROVE  Books'
    <3>1. /\ chains' = [chains EXCEPT ![c] = SetAppender(chains[c], g[1], g[2], allowed)]
          /\ UNCHANGED <<lockedOf, released>>
      BY <2>1 DEF ChainSetAppender, valueVars, lockVars
    <3>2. \A d \in Chains : chains[d] \in ChainState
      BY DEF VaultTypeOK
    <3>3. /\ SetAppender(chains[c], g[1], g[2], allowed).head = chains[c].head
          /\ SetAppender(chains[c], g[1], g[2], allowed).nextIndex = chains[c].nextIndex
      BY <3>2 DEF SetAppender, ChainState
    <3>4. \A d \in Chains : /\ chains'[d].head = chains[d].head
                            /\ chains'[d].nextIndex = chains[d].nextIndex
      BY <3>1, <3>3 DEF VaultTypeOK
    <3> QED
      BY <3>1, <3>4, SameBooks
  <2>2. CASE UNCHANGED <<chains, lockedOf, released>>
    BY <2>2, SameBooks
  <2> QED
    BY <1>5, <2>1, <2>2
    DEF Administer, setTransferChain, setNativeRoute, setAccepted, setBurnAttestor,
        setMaxAttestedRelease, SetPaused, valueVars, lockVars
<1>6. CASE Give \/ Port \/ Spend \/ Desk \/ UNCHANGED vars
  <2>1. UNCHANGED <<chains, lockedOf, released>>
    BY <1>6 DEF Give, Donate, Port, Spend, Desk, vars, vaultVars, lockVars
  <2> QED
    BY <2>1, SameBooks
<1> QED
  BY <1>1, <1>2, <1>3, <1>4, <1>5, <1>6 DEF Next

Reached == AssetLocks \ Unreached

LEMMA LockedSum ==
  ASSUME VaultTypeOK
  PROVE  /\ IsFiniteSet(Reached)
         /\ SumFunctionOnSet(LockedAmounts, Reached) \in Nat
         /\ SumFunctionOnSet(LockedAmounts, Unreached) \in Nat
         /\ SumFunction(LockedAmounts)
              = SumFunctionOnSet(LockedAmounts, Unreached)
                  + SumFunctionOnSet(LockedAmounts, Reached)
<1>1. /\ AssetLocks = Unreached \union Reached /\ Unreached \intersect Reached = {}
      /\ Reached \in SUBSET AssetLocks /\ Unreached \in SUBSET AssetLocks
  BY DEF Reached, Unreached
<1>2. IsFiniteSet(Reached) /\ IsFiniteSet(Unreached)
  BY <1>1, LocksFinite, FS_Subset
<1>3. /\ \A b \in AssetLocks : LockedAmounts[b] \in Nat
      /\ SumFunction(LockedAmounts) = SumFunctionOnSet(LockedAmounts, AssetLocks)
  BY LockedTyped DEF AmountsTyped
<1>4. SumFunctionOnSet(LockedAmounts, Unreached \union Reached)
        = SumFunctionOnSet(LockedAmounts, Unreached)
            + SumFunctionOnSet(LockedAmounts, Reached)
  BY <1>1, <1>2, <1>3, SumOfUnion
<1>5. /\ SumFunctionOnSet(LockedAmounts, Reached) \in Nat
      /\ SumFunctionOnSet(LockedAmounts, Unreached) \in Nat
  BY <1>1, <1>2, <1>3, SumType
<1> QED
  BY <1>1, <1>2, <1>3, <1>4, <1>5

(* The locks the port has come to: those whose commitment was spent, each    *)
(* once, and the one it is armed for.                                        *)
LEMMA ReachedAreSpentOrArmed ==
  ASSUME VaultTypeOK, PortTypeOK, MintsFollowLocks, OnTheChain, Books
  PROVE  SumFunctionOnSet(LockedAmounts, Reached)
           = SumFunctionOnSet(SpentAmounts, Minted) + SumFunctionOnSet(SpentAmounts, Lost)
               + mintAuthorization.amount
<1> DEFINE N == 1 .. Len(spent)
           g == [n \in N |-> <<FlareChain, spent[n].at>>]
           Im == {g[n] : n \in N}
           armed == <<FlareChain, Cursor>>
<1>1. /\ spent \in Seq(Spending) /\ Len(spent) \in Nat /\ DOMAIN spent = N
      /\ \A n \in N : spent[n] \in Spending /\ n \in Nat
      /\ processedLockState \in Seq(TransferRecord) /\ Cursor \in Nat
      /\ chains[FlareChain].head \in Seq(TransferRecord)
  <2>1. /\ spent \in Seq(Spending) /\ Len(spent) \in Nat /\ DOMAIN spent = N
        /\ \A n \in N : spent[n] \in Spending /\ n \in Nat
    BY DEF PortTypeOK
  <2>2. processedLockState \in Seq(TransferRecord) /\ Cursor \in Nat
    BY DEF PortTypeOK, Heads, Cursor
  <2>3. chains[FlareChain].head \in Seq(TransferRecord)
    BY DEF VaultTypeOK, ChainState, Heads
  <2> QED
    BY <2>1, <2>2, <2>3
<1>2. /\ Cursor <= MaxTransfers
      /\ \A i \in 1 .. Cursor : /\ i \in DOMAIN chains[FlareChain].head
                                /\ chains[FlareChain].head[i] = processedLockState[i]
  <2>1. /\ Len(processedLockState) <= Len(chains[FlareChain].head)
        /\ \A i \in 1 .. Len(processedLockState) :
             chains[FlareChain].head[i] = processedLockState[i]
    BY DEF OnTheChain, Extends
  <2>2. Len(chains[FlareChain].head) <= MaxTransfers
    BY <1>1 DEF Books, Regular
  <2> QED
    BY <1>1, <2>1, <2>2 DEF Cursor
<1>3. \A i \in 1 .. Cursor :
        /\ <<FlareChain, i>> \in AssetLocks <=> processedLockState[i].token = Asset
        /\ <<FlareChain, i>> \in AssetLocks =>
             /\ <<FlareChain, i>> \in Reached
             /\ LockedAmounts[<<FlareChain, i>>] = processedLockState[i].amount
  <2> TAKE i \in 1 .. Cursor
  <2>1. i \in 1 .. MaxTransfers /\ ~(i > Cursor)
    BY <1>1, <1>2
  <2>2. <<FlareChain, i>> \in Chains \X (1 .. MaxTransfers)
    BY <2>1
  <2> QED
    BY <1>2, <2>1, <2>2 DEF AssetLocks, LockedAmounts, Reached, Unreached
<1>4. Reached \subseteq {<<FlareChain, i>> : i \in 1 .. Cursor}
  <2> SUFFICES ASSUME NEW l \in Reached PROVE l \in {<<FlareChain, i>> : i \in 1 .. Cursor}
    OBVIOUS
  <2>1. /\ l \in Chains \X (1 .. MaxTransfers)
        /\ l[1] = FlareChain /\ ~(l[2] > Cursor)
    BY DEF Reached, Unreached, AssetLocks
  <2>2. l = <<FlareChain, l[2]>> /\ l[2] \in 1 .. Cursor
    BY <1>1, <2>1
  <2> QED
    BY <2>2
<1>5. \A n \in N : g[n] = <<FlareChain, spent[n].at>>
  OBVIOUS
<1> HIDE DEF N, g
<1>6. \A n \in N :
        /\ spent[n].at \in 1 .. Cursor
        /\ processedLockState[spent[n].at].token = Asset
        /\ processedLockState[spent[n].at].amount = spent[n].amount
  BY <1>1 DEF MintsFollowLocks
<1>7. \A m, n \in N : g[m] = g[n] => m = n
  <2> SUFFICES ASSUME NEW m \in N, NEW n \in N, g[m] = g[n] PROVE m = n
    OBVIOUS
  <2>1. spent[m].at = spent[n].at /\ spent[m].at \in Nat /\ spent[n].at \in Nat
    BY <1>1, <1>5, <1>6
  <2>2. ~(m < n) /\ ~(n < m)
    BY <1>1, <2>1 DEF MintsFollowLocks
  <2> QED
    BY <1>1, <2>2
<1>8. \A n \in N : /\ g[n] \in Reached
                   /\ SpentAmounts[n] \in Nat
                   /\ SpentAmounts[n] = LockedAmounts[g[n]]
  <2> TAKE n \in N
  <2>1. SpentAmounts[n] = spent[n].amount /\ spent[n].amount \in Nat
    BY <1>1 DEF SpentAmounts, Spending
  <2> QED
    BY <1>3, <1>5, <1>6, <2>1
<1>9. IsFiniteSet(N)
  BY <1>1, FS_Interval DEF N
<1>10. SumFunctionOnSet(SpentAmounts, Minted) + SumFunctionOnSet(SpentAmounts, Lost)
         = SumFunctionOnSet(LockedAmounts, Im)
  <2>1. SumFunctionOnSet(SpentAmounts, N) = SumFunctionOnSet(LockedAmounts, Im)
    BY <1>7, <1>8, <1>9, SumOfImage
  <2>2. /\ Minted \union Lost = N /\ Minted \intersect Lost = {}
        /\ Minted \subseteq N /\ Lost \subseteq N
    BY <1>1 DEF Minted, Lost
  <2>3. IsFiniteSet(Minted) /\ IsFiniteSet(Lost)
    BY <1>9, <2>2, FS_Subset
  <2>4. \A n \in Minted \union Lost : SpentAmounts[n] \in Nat
    BY <1>8, <2>2
  <2> HIDE DEF Im
  <2>5. SumFunctionOnSet(SpentAmounts, Minted \union Lost)
          = SumFunctionOnSet(SpentAmounts, Minted) + SumFunctionOnSet(SpentAmounts, Lost)
    BY <2>2, <2>3, <2>4, SumOfUnion
  <2> QED
    BY <2>1, <2>2, <2>5
<1>11. \A i \in 1 .. Cursor :
         <<FlareChain, i>> \in Im <=> \E n \in N : spent[n].at = i
  BY <1>5
<1>12. Im \subseteq Reached
  BY <1>8
<1> HIDE DEF Im
<1>13. \A i \in 1 .. Cursor : processedLockState[i].token = Asset =>
         (<<FlareChain, i>> \in Im <=> ~(i = Cursor /\ Armed))
  BY <1>1, <1>11 DEF MintsFollowLocks
<1>14. CASE ~Armed
  <2>1. Reached \subseteq Im
    <3> SUFFICES ASSUME NEW l \in Reached PROVE l \in Im
      OBVIOUS
    <3>1. PICK i \in 1 .. Cursor : l = <<FlareChain, i>>
      BY <1>4
    <3>2. l \in AssetLocks
      BY DEF Reached
    <3> QED
      BY <1>3, <1>13, <1>14, <3>1, <3>2
  <2>2. Reached = Im
    BY <1>12, <2>1
  <2>3. mintAuthorization.amount = 0
    BY <1>14 DEF Armed, NO_MINT_AUTHORIZED, mintCommitment
  <2>4. SumFunctionOnSet(LockedAmounts, Reached) \in Nat
    BY LockedSum
  <2> QED
    BY <1>10, <2>2, <2>3, <2>4
<1>15. CASE Armed
  <2>1. /\ Cursor \in 1 .. Cursor /\ processedLockState[Cursor].token = Asset
        /\ mintAuthorization.amount = processedLockState[Cursor].amount
    BY <1>1, <1>15 DEF MintsFollowLocks, mintCommitment
  <2>2. /\ armed \in Reached /\ armed \notin Im
        /\ LockedAmounts[armed] = mintAuthorization.amount
    BY <1>3, <1>13, <1>15, <2>1
  <2>3. Reached \subseteq Im \union {armed}
    <3> SUFFICES ASSUME NEW l \in Reached, l # armed PROVE l \in Im
      OBVIOUS
    <3>1. PICK i \in 1 .. Cursor : l = <<FlareChain, i>>
      BY <1>4
    <3>2. l \in AssetLocks /\ i # Cursor
      BY <3>1 DEF Reached
    <3> QED
      BY <1>3, <1>13, <3>1, <3>2
  <2> HIDE DEF armed
  <2>4. Reached = Im \union {armed}
    BY <1>12, <2>2, <2>3
  <2>5. \A l \in Reached : LockedAmounts[l] \in Nat
    BY LockedTyped DEF AmountsTyped, Reached
  <2>6. IsFiniteSet(Im)
    BY <1>12, LockedSum, FS_Subset
  <2>7. SumFunctionOnSet(LockedAmounts, Im \union {armed})
          = SumFunctionOnSet(LockedAmounts, Im) + LockedAmounts[armed]
    BY <2>2, <2>4, <2>5, <2>6, SumWith
  <2> QED
    BY <1>10, <2>2, <2>4, <2>7
<1> QED
  BY <1>14, <1>15

(* AssetVault.sol, _record, and AssetPort.ts, authorizeMint and canMint:    *)
(* every wrapped token ever minted, whatever is armed, and whatever was     *)
(* cleared with no mint has a lock of its own: the vault's books come out   *)
(* even.                                                                    *)
THEOREM TokenIsBacked ==
  ASSUME RequiredWeight > 0
  PROVE  Spec => []LocksBackTheToken
<1>1. Inv => VaultTypeOK /\ PortTypeOK /\ MintsFollowLocks /\ DeskTypeOK
  BY DEF Inv, VaultInv, PortInv, DeskInv
<1>2. Inv /\ Inv' /\ Books /\ [Next]_vars => Books'
  <2>1. Inv' => VaultTypeOK'
    BY DEF Inv, VaultInv
  <2> QED
    BY <1>1, <2>1, NextBooks
<1>3. Inv /\ Books /\ OnTheChain => LocksBackTheToken
  <2> SUFFICES ASSUME Inv, Books, OnTheChain PROVE LocksBackTheToken
    OBVIOUS
  <2>1. SumFunctionOnSet(LockedAmounts, Reached)
          = SumFunctionOnSet(SpentAmounts, Minted) + SumFunctionOnSet(SpentAmounts, Lost)
              + mintAuthorization.amount
    BY <1>1, ReachedAreSpentOrArmed
  <2>2. /\ SumFunctionOnSet(LockedAmounts, Reached) \in Nat
        /\ SumFunctionOnSet(LockedAmounts, Unreached) \in Nat
        /\ SumFunction(LockedAmounts)
              = SumFunctionOnSet(LockedAmounts, Unreached)
                  + SumFunctionOnSet(LockedAmounts, Reached)
    BY <1>1, LockedSum
  <2> QED
    BY <2>1, <2>2 DEF Books, LocksBackTheToken
<1> QED
  BY <1>2, <1>3, Invariance, InitBooks, PortOnTheChain, PTL DEF Spec
=============================================================================
