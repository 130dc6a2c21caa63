------------------------ MODULE ChainSegmentsProofs ------------------------
(***************************************************************************)
(* Every proof the TransferChain program can produce is faithful, for      *)
(* every set of tokens, accounts and records and however many proofs there *)
(* are; and what the attestation programs attest was signed, for every     *)
(* policy, tree and set of signatures.  One lemma per method of a program, *)
(* and one per step of the worker that runs them, then the induction.      *)
(***************************************************************************)
EXTENDS ChainSegments, Attestation, SumTheorems, TLAPS

USE DEF Heads, EmptyHead

\* A head followed by one more record starts with the head.
LEMMA AppendExtends ==
  ASSUME NEW s \in Heads, NEW r \in TransferRecord
  PROVE  /\ applyTransfer(s, r) \in Heads
         /\ Len(applyTransfer(s, r)) = Len(s) + 1
         /\ applyTransfer(s, r)[Len(s) + 1] = r
         /\ Extends(applyTransfer(s, r), s)
  BY DEF applyTransfer, Extends

\* The public output of `empty` is well formed and faithful.
LEMMA EmptyIsFaithful ==
  ASSUME NEW s \in Heads, NEW t \in Tokens
  PROVE  /\ emptySegment(s, t) \in ChainSegment
         /\ Faithful(emptySegment(s, t))
  BY DEF emptySegment, ChainSegment, Faithful, Extends

\* The public output of `link` is well formed and faithful.
LEMMA LinkIsFaithful ==
  ASSUME NEW s \in Heads, NEW t \in Tokens, NEW r \in TransferRecord
  PROVE  /\ linkSegment(s, t, r) \in ChainSegment
         /\ Faithful(linkSegment(s, t, r))
<1> DEFINE seg == linkSegment(s, t, r)
           to  == applyTransfer(s, r)
<1>1. /\ to \in Heads /\ Len(to) = Len(s) + 1
      /\ to[Len(s) + 1] = r /\ Extends(to, s)
  BY AppendExtends
<1>2. seg \in ChainSegment
  BY <1>1 DEF linkSegment, ChainSegment, TransferRecord
<1>3. ASSUME r.token = t
      PROVE  Faithful(seg)
  <2>1. /\ seg.from = s /\ seg.to = to /\ seg.token = t /\ seg.found
        /\ seg.firstRecipient = r.recipient /\ seg.firstAmount = r.amount
        /\ seg.stateAfterFirst = to
    BY <1>3 DEF linkSegment
  <2>2. FirstOfToken(seg, Len(s) + 1)
    BY <1>1, <1>3, <2>1 DEF FirstOfToken
  <2>3. SubSeq(to, 1, Len(s) + 1) = to
    BY <1>1
  <2> QED
    BY <1>1, <2>1, <2>2, <2>3 DEF Faithful
<1>4. ASSUME r.token # t
      PROVE  Faithful(seg)
  <2>1. seg.from = s /\ seg.to = to /\ seg.token = t /\ ~seg.found
    BY <1>4 DEF linkSegment
  <2> QED
    BY <1>1, <1>4, <2>1 DEF Faithful
<1> QED
  BY <1>2, <1>3, <1>4

\* `merge` keeps both properties: the first record of the token in the lower
\* half is first in the whole, and when the lower half has none the first one
\* of the upper half is.
LEMMA MergeIsFaithful ==
  ASSUME NEW a \in ChainSegment, NEW b \in ChainSegment,
         Faithful(a), Faithful(b), CanMerge(a, b)
  PROVE  /\ mergeSegments(a, b) \in ChainSegment
         /\ Faithful(mergeSegments(a, b))
<1> DEFINE seg == mergeSegments(a, b)
<1>1. seg \in ChainSegment
  BY DEF mergeSegments, ChainSegment, CanMerge
<1>2. /\ a.from \in Heads /\ a.to \in Heads /\ b.from \in Heads /\ b.to \in Heads
      /\ a.to = b.from /\ a.token = b.token
  BY DEF ChainSegment, CanMerge
<1>3. seg.from = a.from /\ seg.to = b.to /\ seg.token = a.token
  BY DEF mergeSegments
<1>4. Extends(a.to, a.from) /\ Extends(b.to, b.from)
  BY DEF Faithful
<1>5. Extends(seg.to, seg.from)
  BY <1>2, <1>3, <1>4 DEF Extends
<1>6. CASE a.found
  <2>1. PICK i \in 1 .. Len(a.to) :
          /\ FirstOfToken(a, i)
          /\ a.firstRecipient = a.to[i].recipient
          /\ a.firstAmount = a.to[i].amount
          /\ a.stateAfterFirst = SubSeq(a.to, 1, i)
    BY <1>6 DEF Faithful
  <2>2. i \in 1 .. Len(b.to) /\ \A k \in 1 .. i : b.to[k] = a.to[k]
    BY <1>2, <1>4 DEF Extends
  <2>3. FirstOfToken(seg, i)
    BY <1>2, <1>3, <2>1, <2>2, SMTT(30) DEF FirstOfToken
  <2>4. SubSeq(b.to, 1, i) = SubSeq(a.to, 1, i)
    BY <1>2, <2>2
  <2>5. /\ seg.found /\ seg.firstRecipient = a.firstRecipient
        /\ seg.firstAmount = a.firstAmount
        /\ seg.stateAfterFirst = a.stateAfterFirst
    BY <1>6 DEF mergeSegments
  <2> QED
    BY <1>1, <1>3, <1>5, <2>1, <2>2, <2>3, <2>4, <2>5 DEF Faithful
<1>7. CASE ~a.found /\ b.found
  <2>1. PICK i \in 1 .. Len(b.to) :
          /\ FirstOfToken(b, i)
          /\ b.firstRecipient = b.to[i].recipient
          /\ b.firstAmount = b.to[i].amount
          /\ b.stateAfterFirst = SubSeq(b.to, 1, i)
    BY <1>7 DEF Faithful
  <2>2. \A j \in (Len(a.from) + 1) .. Len(a.to) : a.to[j].token # a.token
    BY <1>7 DEF Faithful
  <2>3. FirstOfToken(seg, i)
    <3>1. /\ Len(a.from) \in Nat /\ Len(a.to) \in Nat /\ Len(b.to) \in Nat
          /\ Len(a.from) <= Len(a.to)
          /\ i \in (Len(a.to) + 1) .. Len(b.to)
          /\ b.to[i].token = a.token
      BY <1>2, <1>4, <2>1 DEF FirstOfToken, Extends
    <3>2. ASSUME NEW j \in (Len(a.from) + 1) .. (i - 1)
          PROVE  b.to[j].token # a.token
      <4>1. CASE j <= Len(a.to)
        <5>1. j \in (Len(a.from) + 1) .. Len(a.to) /\ j \in 1 .. Len(a.to)
          BY <3>1, <4>1
        <5>2. b.to[j] = a.to[j]
          BY <1>2, <1>4, <5>1 DEF Extends
        <5> QED
          BY <2>2, <5>1, <5>2
      <4>2. CASE ~(j <= Len(a.to))
        <5>1. j \in (Len(b.from) + 1) .. (i - 1)
          BY <1>2, <3>1, <4>2
        <5> QED
          BY <1>2, <2>1, <5>1 DEF FirstOfToken
      <4> QED
        BY <4>1, <4>2
    <3>3. i \in (Len(a.from) + 1) .. Len(b.to)
      BY <3>1
    <3> QED
      BY <1>3, <3>1, <3>2, <3>3 DEF FirstOfToken
  <2>4. /\ seg.found /\ seg.firstRecipient = b.firstRecipient
        /\ seg.firstAmount = b.firstAmount
        /\ seg.stateAfterFirst = b.stateAfterFirst
    BY <1>7 DEF mergeSegments
  <2>5. \E j \in 1 .. Len(seg.to) :
          /\ FirstOfToken(seg, j)
          /\ seg.firstRecipient = seg.to[j].recipient
          /\ seg.firstAmount = seg.to[j].amount
          /\ seg.stateAfterFirst = SubSeq(seg.to, 1, j)
    BY <1>3, <2>1, <2>3, <2>4
  <2> QED
    BY <1>1, <1>5, <2>4, <2>5 DEF Faithful
<1>8. CASE ~a.found /\ ~b.found
  <2>1. /\ \A j \in (Len(a.from) + 1) .. Len(a.to) : a.to[j].token # a.token
        /\ \A j \in (Len(b.from) + 1) .. Len(b.to) : b.to[j].token # b.token
    BY <1>8 DEF Faithful
  <2>2. \A j \in (Len(a.from) + 1) .. Len(b.to) : b.to[j].token # a.token
    BY <1>2, <1>4, <2>1 DEF Extends
  <2>3. ~seg.found
    BY <1>8 DEF mergeSegments
  <2> QED
    BY <1>1, <1>3, <1>5, <2>2, <2>3 DEF Faithful
<1> QED
  BY <1>6, <1>7, <1>8

\* Every segment anybody can prove is well formed and faithful: a consumer that
\* pays the record a segment names and moves its cursor to stateAfterFirst pays
\* the first record of its token and steps over none (releaseWithdrawal in
\* MinaPortBridge.ts, authorizeMint in AssetPort.ts).
THEOREM SegmentsFaithful == Spec => [](TypeOK /\ ProofsAreFaithful)
<1> DEFINE Inv == TypeOK /\ ProofsAreFaithful
<1>1. Init => Inv
  BY DEF Init, TypeOK, ProofsAreFaithful
<1>2. Inv /\ [Next]_proofs => Inv'
  <2> SUFFICES ASSUME Inv, [Next]_proofs
               PROVE  Inv'
    OBVIOUS
  <2>1. KnownHeads \subseteq Heads
    BY SegmentAssumption DEF KnownHeads, TypeOK, ChainSegment
  <2>2. ASSUME NEW s \in KnownHeads, NEW t \in Tokens, Empty(s, t)
        PROVE  Inv'
    BY <2>1, <2>2, EmptyIsFaithful DEF Empty, TypeOK, ProofsAreFaithful
  <2>3. ASSUME NEW s \in KnownHeads, NEW t \in Tokens, NEW r \in LinkRecords,
               Link(s, t, r)
        PROVE  Inv'
    BY <2>1, <2>3, SegmentAssumption, LinkIsFaithful
       DEF Link, TypeOK, ProofsAreFaithful
  <2>4. ASSUME NEW a \in proofs, NEW b \in proofs, Merge(a, b)
        PROVE  Inv'
    BY <2>4, MergeIsFaithful DEF Merge, TypeOK, ProofsAreFaithful
  <2>5. CASE UNCHANGED proofs
    BY <2>5 DEF TypeOK, ProofsAreFaithful
  <2> QED
    BY <2>2, <2>3, <2>4, <2>5 DEF Next
<1> QED
  BY <1>1, <1>2, PTL DEF Spec

----------------------------------------------------------------------------
(* The output is determined by the stretch and the token.  Faithfulness    *)
(* says what a segment that found something names; one that found nothing  *)
(* has the zeroed tail on top.                                             *)

ZeroedTail(seg) ==
  ~seg.found => /\ seg.firstRecipient = NoKey
                /\ seg.firstAmount = 0
                /\ seg.stateAfterFirst = EmptyHead

\* There is one first record of a token in a stretch.
LEMMA FirstIsUnique ==
  ASSUME NEW p \in ChainSegment, NEW q \in ChainSegment,
         p.from = q.from, p.to = q.to, p.token = q.token,
         NEW i \in 1 .. Len(p.to), FirstOfToken(p, i),
         NEW j \in 1 .. Len(q.to), FirstOfToken(q, j)
  PROVE  i = j
<1>1. Len(p.from) \in Nat /\ Len(p.to) \in Nat
  BY DEF ChainSegment
<1>2. ~(i < j) /\ ~(j < i)
  BY <1>1 DEF FirstOfToken
<1> QED
  BY <1>1, <1>2

\* Two faithful outputs about one stretch and one token are the same output.
LEMMA FaithfulIsDeterministic ==
  ASSUME NEW p \in ChainSegment, NEW q \in ChainSegment,
         Faithful(p), Faithful(q), ZeroedTail(p), ZeroedTail(q),
         p.from = q.from, p.to = q.to, p.token = q.token
  PROVE  p = q
<1>0. Len(p.from) \in Nat /\ Len(p.to) \in Nat
  BY DEF ChainSegment
<1>1. p.found = q.found
  <2>1. ASSUME NEW s \in ChainSegment, NEW t \in ChainSegment, Faithful(s), Faithful(t),
               s.from = t.from, s.to = t.to, s.token = t.token, s.found
        PROVE  t.found
    BY <2>1 DEF Faithful, FirstOfToken
  <2> QED
    BY <2>1 DEF ChainSegment
<1>2. /\ p.firstRecipient = q.firstRecipient /\ p.firstAmount = q.firstAmount
      /\ p.stateAfterFirst = q.stateAfterFirst
  <2>1. CASE p.found
    <3>1. PICK i \in 1 .. Len(p.to) :
            /\ FirstOfToken(p, i)
            /\ p.firstRecipient = p.to[i].recipient /\ p.firstAmount = p.to[i].amount
            /\ p.stateAfterFirst = SubSeq(p.to, 1, i)
      BY <2>1 DEF Faithful
    <3>2. PICK j \in 1 .. Len(q.to) :
            /\ FirstOfToken(q, j)
            /\ q.firstRecipient = q.to[j].recipient /\ q.firstAmount = q.to[j].amount
            /\ q.stateAfterFirst = SubSeq(q.to, 1, j)
      BY <2>1, <1>1 DEF Faithful
    <3>3. i = j
      BY <3>1, <3>2, FirstIsUnique
    <3> QED
      BY <3>1, <3>2, <3>3
  <2>2. CASE ~p.found
    BY <2>2, <1>1 DEF ZeroedTail
  <2> QED
    BY <2>1, <2>2
<1> QED
  BY <1>1, <1>2 DEF ChainSegment

\* Two proofs of the same stretch for the same token have the same public
\* output, whatever their proof trees (TransferChain.ts, the zeroed tail of a
\* segment that found nothing).
THEOREM SegmentsDeterministic == Spec => []ProofsAreDeterministic
<1> DEFINE Zeroed == \A seg \in proofs : ZeroedTail(seg)
<1>1. Init => Zeroed
  BY DEF Init
<1>2. Zeroed /\ [Next]_proofs => Zeroed'
  <2> SUFFICES ASSUME Zeroed, [Next]_proofs PROVE Zeroed'
    OBVIOUS
  <2>1. ASSUME NEW s, NEW t, Empty(s, t) PROVE Zeroed'
    <3>1. ZeroedTail(emptySegment(s, t))
      BY DEF emptySegment, ZeroedTail
    <3> QED
      BY <2>1, <3>1 DEF Empty
  <2>2. ASSUME NEW s, NEW t, NEW r, Link(s, t, r) PROVE Zeroed'
    <3>1. ZeroedTail(linkSegment(s, t, r))
      BY DEF linkSegment, ZeroedTail
    <3> QED
      BY <2>2, <3>1 DEF Link
  <2>3. ASSUME NEW a \in proofs, NEW b \in proofs, Merge(a, b) PROVE Zeroed'
    <3>1. ZeroedTail(mergeSegments(a, b))
      BY DEF mergeSegments, ZeroedTail
    <3> QED
      BY <2>3, <3>1 DEF Merge
  <2> QED
    BY <2>1, <2>2, <2>3 DEF Next
<1>3. TypeOK /\ ProofsAreFaithful /\ Zeroed => ProofsAreDeterministic
  BY FaithfulIsDeterministic DEF TypeOK, ProofsAreFaithful, ProofsAreDeterministic
<1> QED
  BY <1>1, <1>2, <1>3, SegmentsFaithful, PTL DEF Spec

----------------------------------------------------------------------------
(* What is attested was signed.                                            *)

AttestedEvent(root, event) ==
  \A m \in Messages : root \in NodesOf[m] =>
    \E r \in Committed(m) : EventOf[r] = event

\* A path whose end is in a tree started in it.
PathSound(p) == \A m \in Messages : p.top \in NodesOf[m] => p.bottom \in NodesOf[m]

SignedFor(f, i) ==
  \E m \in Messages : /\ m.merkleRoot = f.merkleRoot /\ SaysSo(m, f)
                      /\ f.policy[i].key \in SignedBy[m]

\* Voters within the range of a fold that signed, with its weight.
SignersOfFold(f, signers) ==
  /\ signers \subseteq DOMAIN f.policy /\ signers \subseteq f.minIndex .. f.maxIndex
  /\ SumOfWeights(f.policy, signers) = f.weight
  /\ \A i \in signers : SignedFor(f, i)

FoldSigned(f) ==
  /\ IsPolicy(f.policy)
  /\ f.minIndex \in Nat /\ f.maxIndex \in Nat /\ f.minIndex <= f.maxIndex
  /\ f.merkleRoot \in {m.merkleRoot : m \in Messages}
  /\ \E signers : SignersOfFold(f, signers)

WasSigned(a) ==
  \E root \in {m.merkleRoot : m \in Messages}, signers \in SUBSET DOMAIN a.policy :
    /\ SumOfWeights(a.policy, signers) = a.weight
    /\ \A i \in signers : \E m \in Messages :
         /\ m.merkleRoot = root /\ SaysSo(m, a)
         /\ a.policy[i].key \in SignedBy[m]
         /\ \E r \in Committed(m) : EventOf[r] = a.event

JobShape ==
  job = [served |-> job.served, relay |-> job.relay, tree |-> job.tree,
         indices |-> job.indices, fold |-> job.fold, path |-> job.path,
         siblings |-> job.siblings]

JobSound ==
  job # NoJob =>
    /\ JobShape
    /\ job.served.response \in Responses
    /\ job.relay \in {RelayCommitment(m) : m \in Messages}
    /\ IsPolicy(job.tree)
    /\ \A f \in job.fold : FoldSigned(f)
    /\ PathSound(job.path) /\ job.path.bottom = attestationLeaf(job.served.response)

AttestInv ==
  /\ relayProofs \subseteq {RelayCommitment(m) : m \in Messages}
  /\ \A f \in foldProofs : FoldSigned(f)
  /\ \A p \in pathProofs : PathSound(p)
  /\ \A l \in leafProofs : AttestedEvent(l.merkleRoot, l.event)
  /\ \A a \in attestations \union built : WasSigned(a)
  /\ JobSound

AskedShape ==
  asked = [head |-> asked.head, request |-> asked.request, round |-> asked.round,
           served |-> asked.served]

\* A response with the transfer that made a head.
Wanted(response) ==
  expected(EventOf[response]) /\ EventOf[response].actionState \in DOMAIN TransactionOf

WantedInv ==
  /\ asked # NoJob =>
       /\ AskedShape /\ asked.head \in DOMAIN TransactionOf
       /\ asked.served # NoJob => asked.served \in Served /\ Wanted(asked.served.response)
  /\ job # NoJob =>
       /\ JobShape /\ Wanted(job.served.response) /\ job.relay.protocolId = 200
       /\ \A f \in job.fold : f.protocolId = 200
  /\ \A a \in built : OfATransfer(a)

\* The weights of some voters, as a sum.
LEMMA WeightsAre ==
  ASSUME NEW tree, IsPolicy(tree), NEW S, S \subseteq DOMAIN tree, IsFiniteSet(S)
  PROVE  /\ \A i \in S : [j \in DOMAIN tree |-> tree[j].weight][i] \in Nat
         /\ \A i \in S : SumOfWeights(tree, {i}) = tree[i].weight
<1> DEFINE f == [j \in DOMAIN tree |-> tree[j].weight]
<1>1. \A i \in S : f[i] = tree[i].weight /\ f[i] \in Nat
  BY DEF IsPolicy
<1>2. ASSUME NEW i \in S PROVE SumFunctionOnSet(f, {i}) = f[i]
  <2>1. IsFiniteSet({}) /\ {} \union {i} = {i}
    BY FS_EmptySet
  <2>2. \A x \in {} \union {i} : f[x] \in Nat
    BY <1>1
  <2> HIDE DEF f
  <2>3. SumFunctionOnSet(f, {} \union {i}) = SumFunctionOnSet(f, {}) + f[i]
    BY <2>1, <2>2, SumWith
  <2>4. SumFunctionOnSet(f, {}) = 0
    BY SumOfNone
  <2> QED
    BY <2>1, <2>2, <2>3, <2>4
<1> QED
  BY <1>1, <1>2 DEF SumOfWeights

\* One signature is one voter's.
LEMMA SingleIsSigned ==
  ASSUME NEW m \in Messages, NEW tree, IsPolicy(tree), NEW at,
         SingleAccepts(RelayCommitment(m), tree, at)
  PROVE  FoldSigned(SingleSet(RelayCommitment(m), tree, at))
<1> DEFINE f == SingleSet(RelayCommitment(m), tree, at)
<1>1. /\ f.policy = tree /\ f.minIndex = at /\ f.maxIndex = at
      /\ f.weight = tree[at].weight /\ f.merkleRoot = m.merkleRoot
      /\ f.protocolId = m.protocolId /\ f.votingRoundId = m.votingRoundId
  BY DEF SingleSet, SignatureSet, RelayCommitment
<1>2. at \in DOMAIN tree /\ at \in Nat /\ tree[at].key \in SignedBy[m]
  BY DEF SingleAccepts, RelayCommitment, IsPolicy
<1>3. SumOfWeights(tree, {at}) = tree[at].weight
  <2>1. IsFiniteSet({at}) /\ {at} \subseteq DOMAIN tree
    BY <1>2, FS_Singleton
  <2> QED
    BY <2>1, WeightsAre
<1>4. SignersOfFold(f, {at})
  BY <1>1, <1>2, <1>3 DEF SignersOfFold, SignedFor, SaysSo
<1> QED
  BY <1>1, <1>2, <1>4 DEF FoldSigned

\* The ranges of two folds that merge have no voter in common.
LEMMA MergeIsSigned ==
  ASSUME NEW a, NEW b, FoldSigned(a), FoldSigned(b), MergeAccepts(a, b)
  PROVE  FoldSigned(MergedSet(a, b))
<1> DEFINE c == MergedSet(a, b)
<1>0. /\ c.policy = a.policy /\ c.merkleRoot = a.merkleRoot
      /\ c.protocolId = a.protocolId /\ c.votingRoundId = a.votingRoundId
      /\ c.weight = a.weight + b.weight /\ c.minIndex = a.minIndex /\ c.maxIndex = b.maxIndex
  BY DEF MergedSet, SignatureSet
<1> HIDE DEF c
<1>1. PICK S : SignersOfFold(a, S)
  BY DEF FoldSigned
<1>2. PICK T : SignersOfFold(b, T)
  BY DEF FoldSigned
<1>3. /\ b.policy = a.policy /\ a.minIndex \in Nat /\ a.maxIndex \in Nat
      /\ b.minIndex \in Nat /\ b.maxIndex \in Nat
      /\ a.minIndex <= a.maxIndex /\ a.maxIndex < b.minIndex /\ b.minIndex <= b.maxIndex
  BY DEF FoldSigned, MergeAccepts
<1>4. /\ S \subseteq DOMAIN a.policy /\ T \subseteq DOMAIN a.policy
      /\ S \subseteq a.minIndex .. a.maxIndex /\ T \subseteq b.minIndex .. b.maxIndex
  BY <1>1, <1>2, <1>3 DEF SignersOfFold
<1>5. IsFiniteSet(S) /\ IsFiniteSet(T) /\ S \intersect T = {}
  <2>1. \A i, j \in Nat : IsFiniteSet(i .. j)
    BY FS_Interval
  <2>2. IsFiniteSet(S)
    BY <2>1, <1>3, <1>4, FS_Subset
  <2>3. IsFiniteSet(T)
    BY <2>1, <1>3, <1>4, FS_Subset
  <2>4. S \intersect T = {}
    BY <1>3, <1>4
  <2> QED
    BY <2>2, <2>3, <2>4
<1>6. SumOfWeights(a.policy, S \union T) = a.weight + b.weight
  <2> DEFINE w == [j \in DOMAIN a.policy |-> a.policy[j].weight]
  <2>1. \A x \in S \union T : w[x] \in Nat
    BY <1>4 DEF FoldSigned, IsPolicy
  <2>2. SumFunctionOnSet(w, S) = a.weight /\ SumFunctionOnSet(w, T) = b.weight
    BY <1>1, <1>2, <1>3 DEF SignersOfFold, SumOfWeights
  <2> HIDE DEF w
  <2>3. SumFunctionOnSet(w, S \union T)
          = SumFunctionOnSet(w, S) + SumFunctionOnSet(w, T)
    BY <2>1, <1>5, SumOfUnion
  <2> QED
    BY <2>2, <2>3 DEF SumOfWeights, w
<1>7. S \union T \subseteq c.minIndex .. c.maxIndex
  BY <1>0, <1>3, <1>4
<1>8. \A i \in S \union T : SignedFor(c, i)
  <2>1. \A i \in S : SignedFor(a, i)
    BY <1>1 DEF SignersOfFold
  <2>2. \A i \in T : SignedFor(b, i)
    BY <1>2 DEF SignersOfFold
  <2> QED
    BY <1>0, <2>1, <2>2 DEF SignedFor, SaysSo, MergeAccepts
<1>9. SignersOfFold(c, S \union T)
  BY <1>0, <1>4, <1>6, <1>7, <1>8 DEF SignersOfFold
<1>10. FoldSigned(c)
  BY <1>0, <1>3, <1>9 DEF FoldSigned
<1> QED
  BY <1>10 DEF c


\* A level leads from a node of a tree to a node of it.
LEMMA ClimbSound ==
  ASSUME NEW m \in Messages, NEW node, NEW sibling, climb(node, sibling) \in NodesOf[m]
  PROVE  node \in NodesOf[m]
<1>1. DOMAIN climb(node, sibling) = {"pair"} /\ climb(node, sibling).pair = {node, sibling}
  BY DEF climb
<1> QED
  BY <1>1, AttestationAssumption

LEMMA LevelSound == ASSUME NEW node, NEW sibling PROVE PathSound(Level(node, sibling))
  BY ClimbSound DEF Level, PathSegment, PathSound

LEMMA JoinedSound ==
  ASSUME NEW p, NEW q, PathSound(p), PathSound(q), p.top = q.bottom
  PROVE  PathSound(Joined(p, q))
BY DEF PathSound, Joined, PathSegment

\* What a path from a response reaches has its event under it.
LEMMA LeafSound ==
  ASSUME NEW p, PathSound(p), NEW r \in Responses, p.bottom = attestationLeaf(r)
  PROVE  /\ AttestedEvent(AttestedLeaf(p, r).merkleRoot, AttestedLeaf(p, r).event)
         /\ AttestedLeaf(p, r).merkleRoot = p.top
BY DEF PathSound, AttestedEvent, AttestedLeaf, Committed

\* A root that was signed, and reached.
LEMMA AttestSound ==
  ASSUME NEW l, AttestedEvent(l.merkleRoot, l.event), NEW f, FoldSigned(f),
         l.merkleRoot = f.merkleRoot
  PROVE  WasSigned(AttestedStateOf(l, f))
<1> DEFINE a == AttestedStateOf(l, f)
<1>1. /\ a.event = l.event /\ a.policy = f.policy /\ a.weight = f.weight
      /\ a.protocolId = f.protocolId /\ a.votingRoundId = f.votingRoundId
  BY DEF AttestedStateOf
<1>2. PICK S : SignersOfFold(f, S)
  BY DEF FoldSigned
<1>3. f.merkleRoot \in {m.merkleRoot : m \in Messages} /\ S \in SUBSET DOMAIN a.policy
  BY <1>1, <1>2 DEF FoldSigned, SignersOfFold
<1>4. SumOfWeights(a.policy, S) = a.weight
  BY <1>1, <1>2 DEF SignersOfFold
<1>5. ASSUME NEW i \in S
      PROVE  \E m \in Messages :
               /\ m.merkleRoot = f.merkleRoot /\ SaysSo(m, a)
               /\ a.policy[i].key \in SignedBy[m]
               /\ \E r \in Committed(m) : EventOf[r] = a.event
  <2>1. PICK m \in Messages : /\ m.merkleRoot = f.merkleRoot /\ SaysSo(m, f)
                              /\ f.policy[i].key \in SignedBy[m]
    BY <1>2 DEF SignersOfFold, SignedFor
  <2>2. l.merkleRoot \in NodesOf[m]
    BY <2>1, AttestationAssumption
  <2>3. \E r \in Committed(m) : EventOf[r] = l.event
    BY <2>2 DEF AttestedEvent
  <2> QED
    BY <1>1, <2>1, <2>3 DEF SaysSo
<1> HIDE DEF a
<1>6. WasSigned(a)
  BY <1>3, <1>4, <1>5 DEF WasSigned
<1> QED
  BY <1>6 DEF a

----------------------------------------------------------------------------
(* One lemma per program, and one per step of the worker.                   *)

LEMMA BindKeeps == AttestInv /\ bind => AttestInv'
  BY DEF AttestInv, bind, JobSound, JobShape, workVars

LEMMA SingleKeeps == AttestInv /\ single => AttestInv'
<1> SUFFICES ASSUME AttestInv, single PROVE AttestInv'
  OBVIOUS
<1>1. ASSUME NEW f \in foldProofs' PROVE FoldSigned(f)
  <2>1. CASE f \in foldProofs
    BY <2>1 DEF AttestInv
  <2>2. CASE f \notin foldProofs
    <3>1. PICK relay \in relayProofs : f \in {SingleSet(relay, x[1], x[2]) : x \in Signings(relay)}
      BY <1>1, <2>2 DEF single
    <3>2. PICK x \in Signings(relay) : f = SingleSet(relay, x[1], x[2])
      BY <3>1
    <3>3. PICK m \in Messages : relay = RelayCommitment(m)
      BY DEF AttestInv
    <3>4. x[1] \in PolicyTrees /\ SingleAccepts(relay, x[1], x[2])
      BY DEF Signings
    <3> QED
      BY <3>2, <3>3, <3>4, SingleIsSigned, AttestationAssumption
  <2> QED
    BY <2>1, <2>2
<1> QED
  BY <1>1 DEF AttestInv, single, JobSound, JobShape, workVars

LEMMA MergeKeeps == AttestInv /\ merge => AttestInv'
<1> SUFFICES ASSUME AttestInv, merge PROVE AttestInv'
  OBVIOUS
<1>1. ASSUME NEW f \in foldProofs' PROVE FoldSigned(f)
  <2>1. CASE f \in foldProofs
    BY <2>1 DEF AttestInv
  <2>2. CASE f \notin foldProofs
    <3>1. PICK x \in foldProofs \X foldProofs :
            MergeAccepts(x[1], x[2]) /\ f = MergedSet(x[1], x[2])
      BY <1>1, <2>2 DEF merge
    <3>2. FoldSigned(x[1]) /\ FoldSigned(x[2])
      BY DEF AttestInv
    <3> QED
      BY <3>1, <3>2, MergeIsSigned
  <2> QED
    BY <2>1, <2>2
<1> QED
  BY <1>1 DEF AttestInv, merge, JobSound, JobShape, workVars

LEMMA LevelKeeps == AttestInv /\ level => AttestInv'
<1> SUFFICES ASSUME AttestInv, level PROVE AttestInv'
  OBVIOUS
<1>1. \A p \in pathProofs' : PathSound(p)
  BY LevelSound DEF AttestInv, level
<1> QED
  BY <1>1 DEF AttestInv, level, JobSound, JobShape, workVars

LEMMA Levels4Keeps == AttestInv /\ levels4 => AttestInv'
<1> SUFFICES ASSUME AttestInv, levels4 PROVE AttestInv'
  OBVIOUS
<1>1. ASSUME NEW p \in pathProofs' PROVE PathSound(p)
  <2>1. CASE p \in pathProofs
    BY <2>1 DEF AttestInv
  <2>2. CASE p \notin pathProofs
    <3>1. PICK x \in Climbs :
            p = [bottom |-> x[1],
                 top |-> climb(climb(climb(climb(x[1], x[2][1]), x[2][2]), x[2][3]), x[2][4]),
                 height |-> 4]
      BY <1>1, <2>2 DEF levels4, FourLevels, PathSegment
    <3> DEFINE a == climb(x[1], x[2][1])
               b == climb(a, x[2][2])
               c == climb(b, x[2][3])
    <3>2. p.bottom = x[1] /\ p.top = climb(c, x[2][4])
      BY <3>1
    <3>3. ASSUME NEW m \in Messages, p.top \in NodesOf[m] PROVE x[1] \in NodesOf[m]
      <4>1. c \in NodesOf[m]
        <5> HIDE DEF c
        <5> QED
          BY <3>2, <3>3, ClimbSound
      <4>2. b \in NodesOf[m]
        <5> HIDE DEF b
        <5> QED
          BY <4>1, ClimbSound DEF c
      <4>3. a \in NodesOf[m]
        <5> HIDE DEF a
        <5> QED
          BY <4>2, ClimbSound DEF b
      <4> QED
        BY <4>3, ClimbSound DEF a
    <3> QED
      BY <3>2, <3>3 DEF PathSound
  <2> QED
    BY <2>1, <2>2
<1> QED
  BY <1>1 DEF AttestInv, levels4, JobSound, JobShape, workVars

LEMMA JoinKeeps == AttestInv /\ join => AttestInv'
<1> SUFFICES ASSUME AttestInv, join PROVE AttestInv'
  OBVIOUS
<1>1. \A p \in pathProofs' : PathSound(p)
  BY JoinedSound DEF AttestInv, join
<1> QED
  BY <1>1 DEF AttestInv, join, JobSound, JobShape, workVars

LEMMA ReadKeeps == AttestInv /\ read => AttestInv'
<1> SUFFICES ASSUME AttestInv, read PROVE AttestInv'
  OBVIOUS
<1>1. \A l \in leafProofs' : AttestedEvent(l.merkleRoot, l.event)
  BY LeafSound DEF AttestInv, read
<1> QED
  BY <1>1 DEF AttestInv, read, JobSound, JobShape, workVars

LEMMA AttestKeeps == AttestInv /\ attest => AttestInv'
<1> SUFFICES ASSUME AttestInv, attest PROVE AttestInv'
  OBVIOUS
<1>1. \A a \in attestations' \union built' : WasSigned(a)
  BY AttestSound DEF AttestInv, attest, workVars
<1> QED
  BY <1>1 DEF AttestInv, attest, JobSound, JobShape, workVars

\* The worker's steps change no proof but its own.
LEMMA WorkKeeps ==
  ASSUME AttestInv, UNCHANGED proverVars, JobSound', \A a \in built' : WasSigned(a)
  PROVE  AttestInv'
BY DEF AttestInv, proverVars

\* The worker is handed a tree of a policy of one of the calls, and that call.
Handed(call, tree) ==
  LET leaf == attestationLeaf(asked.served.response)
  IN  [served |-> asked.served, relay |-> RelayCommitment(call.message), tree |-> tree,
       indices |-> usable(call, tree), fold |-> {}, path |-> PathSegment(leaf, leaf, 0),
       siblings |-> asked.served.siblings]

IsHanded(call, tree) ==
  LET leaf == attestationLeaf(asked.served.response)
  IN  /\ JobShape' /\ job'.served = asked.served /\ job'.relay = RelayCommitment(call.message)
      /\ job'.tree = tree /\ job'.fold = {} /\ job'.path = PathSegment(leaf, leaf, 0)
      /\ job'.indices = usable(call, tree) /\ job'.siblings = asked.served.siblings

LEMMA HandsOver ==
  ASSUME NEW calls \in SUBSET RelayCalls, policyProofInputs(calls), job' # NoJob
  PROVE  \E call \in calls, policy \in NewestPolicies(calls) :
           \E keys : /\ harvestPolicyKeys(policy, calls) \subseteq keys
                     /\ IsHanded(call, policyTree(policy, keys))
<1>1. PICK policy \in NewestPolicies(calls) :
        LET tree == policyTree(policy, rememberValidatorKeys(harvestPolicyKeys(policy, calls)))
        IN  \E call \in MostSigned(calls, tree) : job' = Handed(call, tree)
  BY DEF policyProofInputs, Handed
<1> DEFINE keys == rememberValidatorKeys(harvestPolicyKeys(policy, calls))
           tree == policyTree(policy, keys)
<1>2. PICK call \in calls : job' = Handed(call, tree)
  BY <1>1 DEF MostSigned
<1>3. harvestPolicyKeys(policy, calls) \subseteq keys
  BY DEF rememberValidatorKeys
<1> HIDE DEF keys
<1>4. IsHanded(call, tree)
  BY <1>2 DEF Handed, IsHanded, JobShape
<1> QED
  BY <1>3, <1>4

LEMMA GatherKeeps ==
  ASSUME AttestInv, WantedInv, NEW calls \in SUBSET RelayCalls, policyProofInputs(calls)
  PROVE  AttestInv'
<1>1. asked.served \in Served
  BY DEF WantedInv, policyProofInputs
<1> DEFINE leaf == attestationLeaf(asked.served.response)
<1>2. JobSound'
  <2>1. CASE job' = NoJob
    BY <2>1 DEF JobSound
  <2>2. CASE job' # NoJob
    <3>1. PICK call \in calls, policy \in NewestPolicies(calls) :
            \E keys : IsHanded(call, policyTree(policy, keys))
      BY <2>2, HandsOver
    <3>2. PICK keys : IsHanded(call, policyTree(policy, keys))
      BY <3>1
    <3>3. call.message \in Messages /\ IsPolicy(policy)
      BY <3>1, AttestationAssumption DEF NewestPolicies
    <3>4. IsPolicy(policyTree(policy, keys))
      BY <3>3 DEF IsPolicy, policyTree
    <3>5. PathSound(PathSegment(leaf, leaf, 0)) /\ PathSegment(leaf, leaf, 0).bottom = leaf
      BY DEF PathSound, PathSegment
    <3> QED
      BY <1>1, <3>2, <3>3, <3>4, <3>5, AttestationAssumption DEF JobSound, IsHanded
  <2> QED
    BY <2>1, <2>2
<1> QED
  BY <1>2, WorkKeeps DEF policyProofInputs, AttestInv

LEMMA FoldNextKeeps == AttestInv /\ foldNext => AttestInv'
<1> SUFFICES ASSUME AttestInv, foldNext PROVE AttestInv'
  OBVIOUS
<1> DEFINE at == nextSignature(job.indices)
           next == SingleSet(job.relay, job.tree, at)
           folded == FoldedWith(job.fold, next)
<1>1. CASE job' = NoJob
  BY <1>1, WorkKeeps DEF foldNext, JobSound, AttestInv
<1>2. CASE job' # NoJob
  <2>1. /\ job' = [job EXCEPT !.indices = @ \ {at}, !.fold = folded]
        /\ SingleAccepts(job.relay, job.tree, at)
        /\ \A f \in job.fold : MergeAccepts(f, next)
        /\ job # NoJob
    BY <1>2 DEF foldNext, Refuse
  <2>2. JobSound /\ JobShape
    BY <2>1 DEF AttestInv, JobSound
  <2>3. FoldSigned(next)
    <3>1. PICK m \in Messages : job.relay = RelayCommitment(m)
      BY <2>1, <2>2 DEF JobSound
    <3>2. IsPolicy(job.tree)
      BY <2>1, <2>2 DEF JobSound
    <3> HIDE DEF at
    <3> QED
      BY <2>1, <3>1, <3>2, SingleIsSigned
  <2>4. \A f \in folded : FoldSigned(f)
    <3> HIDE DEF next
    <3>1. \A f \in job.fold : FoldSigned(MergedSet(f, next))
      BY <2>1, <2>2, <2>3, MergeIsSigned DEF JobSound
    <3> QED
      BY <2>3, <3>1 DEF FoldedWith
  <2> HIDE DEF folded
  <2>5. /\ job'.served = job.served /\ job'.relay = job.relay /\ job'.tree = job.tree
        /\ job'.fold = folded /\ job'.path = job.path /\ JobShape'
    BY <2>1, <2>2 DEF JobShape
  <2>6. JobSound'
    BY <2>1, <2>2, <2>4, <2>5 DEF JobSound
  <2> QED
    BY <2>6, WorkKeeps DEF foldNext, AttestInv
<1> QED
  BY <1>1, <1>2

LEMMA ClimbNextKeeps == AttestInv /\ climbNext => AttestInv'
<1> SUFFICES ASSUME AttestInv, climbNext PROVE AttestInv'
  OBVIOUS
<1> DEFINE up == Level(job.path.top, Head(job.siblings))
           path == Joined(job.path, up)
<1>1. JobSound /\ JobShape /\ job # NoJob
  BY DEF AttestInv, JobSound, climbNext
<1>2. PathSound(path) /\ path.bottom = job.path.bottom
  <2>1. PathSound(up) /\ job.path.top = up.bottom
    BY LevelSound DEF Level, PathSegment
  <2> HIDE DEF up
  <2> QED
    BY <1>1, <2>1, JoinedSound DEF JobSound, Joined, PathSegment
<1>3. job' = [job EXCEPT !.siblings = Tail(@), !.path = path]
  BY DEF climbNext
<1> HIDE DEF path
<1>4. /\ job'.served = job.served /\ job'.relay = job.relay /\ job'.tree = job.tree
      /\ job'.fold = job.fold /\ job'.path = path /\ JobShape'
  BY <1>1, <1>3 DEF JobShape
<1>5. JobSound'
  BY <1>1, <1>2, <1>4 DEF JobSound
<1> QED
  BY <1>5, WorkKeeps DEF climbNext, AttestInv

LEMMA ProveKeeps == AttestInv /\ proveAttestation => AttestInv'
<1> SUFFICES ASSUME AttestInv, proveAttestation PROVE AttestInv'
  OBVIOUS
<1>1. JobSound /\ job # NoJob
  BY DEF AttestInv, proveAttestation
<1> DEFINE leaf == AttestedLeaf(job.path, job.served.response)
<1>2. AttestedEvent(leaf.merkleRoot, leaf.event)
  BY <1>1, LeafSound DEF JobSound
<1>3. ASSUME NEW a \in built' PROVE WasSigned(a)
  <2>1. CASE a \in built
    BY <2>1 DEF AttestInv
  <2>2. CASE a \notin built
    <3>1. PICK f \in job.fold : f.merkleRoot = leaf.merkleRoot /\ a = AttestedStateOf(leaf, f)
      BY <1>3, <2>2 DEF proveAttestation
    <3>2. FoldSigned(f)
      BY <1>1 DEF JobSound
    <3> HIDE DEF leaf
    <3> QED
      BY <1>2, <3>1, <3>2, AttestSound
  <2> QED
    BY <2>1, <2>2
<1>4. JobSound'
  BY DEF proveAttestation, Refuse, JobSound
<1> QED
  BY <1>3, <1>4, WorkKeeps DEF proveAttestation

LEMMA EndsKeeps == AttestInv /\ workerEnds => AttestInv'
  BY WorkKeeps DEF workerEnds, JobSound, AttestInv

\* What leaves the worker's job alone keeps AttestInv.
LEMMA AskingKeeps ==
  ASSUME AttestInv, UNCHANGED <<proverVars, knownKeys, job, built, refused>>
  PROVE  AttestInv'
<1>1. JobSound'
  BY DEF AttestInv, JobSound, JobShape
<1> QED
  BY <1>1, WorkKeeps DEF AttestInv

LEMMA AttestNextKeeps == AttestInv /\ WantedInv /\ [AttestNext]_attestVars => AttestInv'
<1>1. AttestInv /\ UNCHANGED attestVars => AttestInv'
  BY DEF AttestInv, JobSound, JobShape, attestVars, proverVars, workVars
<1> QED
  BY <1>1, BindKeeps, SingleKeeps, MergeKeeps, LevelKeeps, Levels4Keeps, JoinKeeps, ReadKeeps,
     AttestKeeps, GatherKeeps, FoldNextKeeps, ClimbNextKeeps, ProveKeeps, EndsKeeps,
     AskingKeeps DEF AttestNext, AnyoneProves, RelayerProves, requestAttestationFor,
     fetchAttestation, publishGivesUp

\* One step per action of the relayer; nobody else's proofs matter.
LEMMA WantedKeeps == WantedInv /\ [AttestNext]_attestVars => WantedInv'
<1> SUFFICES ASSUME WantedInv, [AttestNext]_attestVars PROVE WantedInv'
  OBVIOUS
<1>1. CASE UNCHANGED workVars
  BY <1>1 DEF WantedInv, AskedShape, JobShape, workVars
<1>2. CASE \E head \in DOMAIN TransactionOf : requestAttestationFor(head)
  <2>1. asked' # NoJob => AskedShape' /\ asked'.head \in DOMAIN TransactionOf /\ asked'.served = NoJob
    BY <1>2 DEF requestAttestationFor, submitRequest, AskedShape
  <2> QED
    BY <1>2, <2>1 DEF WantedInv, JobShape, requestAttestationFor
<1>3. ASSUME NEW served \in Served, fetchAttestation(served) PROVE WantedInv'
  <2>1. CASE asked' = NoJob
    BY <1>3, <2>1 DEF WantedInv, JobShape, fetchAttestation
  <2>2. CASE asked' # NoJob
    <3>1. /\ asked' = [asked EXCEPT !.served = served] /\ AskedShape
          /\ asked.head \in DOMAIN TransactionOf /\ Wanted(served.response)
      BY <1>3, <2>2 DEF WantedInv, fetchAttestation, parseAttestedEvent, Wanted
    <3>2. AskedShape' /\ asked'.head = asked.head /\ asked'.served = served
      BY <3>1 DEF AskedShape
    <3> QED
      BY <1>3, <3>1, <3>2 DEF WantedInv, JobShape, fetchAttestation
  <2> QED
    BY <2>1, <2>2
<1>4. CASE publishGivesUp
  BY <1>4 DEF WantedInv, JobShape, publishGivesUp
<1>5. ASSUME NEW calls \in SUBSET RelayCalls, policyProofInputs(calls) PROVE WantedInv'
  <2>1. CASE job' = NoJob
    BY <1>5, <2>1 DEF WantedInv, policyProofInputs
  <2>2. CASE job' # NoJob
    <3>1. PICK call \in calls : \E tree : IsHanded(call, tree)
      BY <1>5, <2>2, HandsOver
    <3>2. /\ job'.served = asked.served /\ job'.relay = RelayCommitment(call.message)
          /\ job'.fold = {} /\ JobShape'
      BY <3>1 DEF IsHanded
    <3>3. call.message.protocolId = 200 /\ Wanted(asked.served.response)
      BY <1>5 DEF WantedInv, policyProofInputs, CallsOf
    <3> QED
      BY <1>5, <3>2, <3>3 DEF WantedInv, policyProofInputs, RelayCommitment
  <2> QED
    BY <2>1, <2>2
<1>6. CASE foldNext
  <2>1. CASE job' = NoJob
    BY <1>6, <2>1 DEF WantedInv, AskedShape, foldNext
  <2>2. CASE job' # NoJob
    <3> DEFINE at == nextSignature(job.indices)
               next == SingleSet(job.relay, job.tree, at)
               folded == FoldedWith(job.fold, next)
    <3>1. /\ job' = [job EXCEPT !.indices = @ \ {at}, !.fold = folded]
          /\ JobShape /\ job # NoJob
      BY <1>6, <2>2 DEF WantedInv, foldNext, Refuse
    <3>2. next.protocolId = 200
      BY <3>1 DEF WantedInv, SingleSet, SignatureSet
    <3> HIDE DEF next
    <3>3. \A f \in folded : f.protocolId = 200
      BY <3>1, <3>2 DEF WantedInv, FoldedWith, MergedSet, SignatureSet
    <3> HIDE DEF folded
    <3>4. job'.served = job.served /\ job'.relay = job.relay /\ job'.fold = folded /\ JobShape'
      BY <3>1 DEF JobShape
    <3> QED
      BY <1>6, <3>1, <3>3, <3>4 DEF WantedInv, AskedShape, foldNext
  <2> QED
    BY <2>1, <2>2
<1>7. CASE climbNext
  <2> DEFINE path == Joined(job.path, Level(job.path.top, Head(job.siblings)))
  <2>1. job' = [job EXCEPT !.siblings = Tail(@), !.path = path] /\ JobShape /\ job # NoJob
    BY <1>7 DEF WantedInv, climbNext
  <2> HIDE DEF path
  <2>2. job'.served = job.served /\ job'.relay = job.relay /\ job'.fold = job.fold /\ JobShape'
    BY <2>1 DEF JobShape
  <2> QED
    BY <1>7, <2>1, <2>2 DEF WantedInv, AskedShape, climbNext
<1>8. CASE proveAttestation
  <2> DEFINE leaf == AttestedLeaf(job.path, job.served.response)
  <2>1. job # NoJob /\ Wanted(job.served.response) /\ leaf.event = EventOf[job.served.response]
    BY <1>8 DEF WantedInv, proveAttestation, AttestedLeaf
  <2>2. ASSUME NEW a \in built', a \notin built PROVE OfATransfer(a)
    <3>1. PICK f \in job.fold : a = AttestedStateOf(leaf, f)
      BY <1>8, <2>2 DEF proveAttestation
    <3>2. f.protocolId = 200
      BY <2>1, <3>1 DEF WantedInv
    <3> HIDE DEF leaf
    <3>3. a.event = leaf.event /\ a.protocolId = 200
      BY <3>1, <3>2 DEF AttestedStateOf
    <3> QED
      BY <2>1, <3>3 DEF OfATransfer, Wanted
  <2>3. job' = NoJob /\ asked' = asked
    BY <1>8 DEF proveAttestation, Refuse
  <2>4. \A a \in built' : OfATransfer(a)
    BY <2>2 DEF WantedInv
  <2> QED
    BY <2>3, <2>4 DEF WantedInv, AskedShape
<1>9. CASE workerEnds
  BY <1>9 DEF WantedInv, AskedShape, workerEnds
<1>10. CASE AnyoneProves
  BY <1>1, <1>10 DEF AnyoneProves, bind, single, merge, level, levels4, join, read, attest
<1> QED
  BY <1>1, <1>2, <1>3, <1>4, <1>5, <1>6, <1>7, <1>8, <1>9, <1>10
     DEF AttestNext, RelayerProves, attestVars

\* What is attested was signed, by different voters of the policy that it
\* names, whose weights are its weight and who signed a root that its event is
\* under: of whatever is proved by anyone, and of what the relayer proves
\* (SigningPolicyFold.ts merge, FdcAttestation.ts attest).
THEOREM AttestedIsSigned == AttestSpec => []AttestedWasSigned
<1>1. AttestInit => AttestInv /\ WantedInv
  BY DEF AttestInit, AttestInv, JobSound, WantedInv
<1>2. AttestInv => AttestedWasSigned
  BY DEF AttestInv, AttestedWasSigned, WasSigned
<1> QED
  BY <1>1, <1>2, AttestNextKeeps, WantedKeeps, PTL DEF AttestSpec

BuiltOfTransfers == \A a \in built : OfATransfer(a)

\* Every attestation that the relayer proves is of a transfer on the chain that
\* made a head, signed for FDC: the part of WhatIsBuiltIsAccepted that the DA
\* layer could break (fdc.ts fetchAttestation, transfers.ts publish).
THEOREM BuiltIsOfATransfer == AttestSpec => []BuiltOfTransfers
<1>1. AttestInit => WantedInv
  BY DEF AttestInit, WantedInv
<1>2. WantedInv => BuiltOfTransfers
  BY DEF WantedInv, BuiltOfTransfers
<1> QED
  BY <1>1, <1>2, WantedKeeps, PTL DEF AttestSpec

----------------------------------------------------------------------------
(* What is gathered is accepted.                                           *)

IsClimb(h, node, s, n) ==
  h = [k \in 0 .. n |-> IF k = 0 THEN node ELSE climb(h[k - 1], s[k])]

\* A climb reaches any level.
LEMMA ClimbExists ==
  ASSUME NEW node, NEW s, NEW n \in Nat
  PROVE  \E h : IsClimb(h, node, s, n)
<1> DEFINE B == {m \in Nat : ~\E h : IsClimb(h, node, s, m)}
<1>1. SUFFICES ASSUME B # {} PROVE FALSE
  OBVIOUS
<1>2. PICK m \in B : \A l \in B : m <= l
  BY <1>1, LeastOf
<1>3. CASE m = 0
  <2>1. IsClimb([k \in 0 .. 0 |-> node], node, s, 0)
    BY DEF IsClimb
  <2> QED
    BY <1>2, <1>3, <2>1
<1>4. CASE m # 0
  <2>1. m - 1 \in Nat /\ m - 1 \notin B
    BY <1>2, <1>4
  <2>2. PICK h : IsClimb(h, node, s, m - 1)
    BY <2>1
  <2> DEFINE g == [k \in 0 .. m |-> IF k = m THEN climb(h[m - 1], s[m]) ELSE h[k]]
  <2>3. \A k \in 0 .. m - 1 : h[k] = IF k = 0 THEN node ELSE climb(h[k - 1], s[k])
    BY <2>2, Zenon DEF IsClimb
  <2>4. \A k \in 0 .. m : g[k] = IF k = 0 THEN node ELSE climb(g[k - 1], s[k])
    BY <1>4, <2>1, <2>3
  <2>5. g = [k \in 0 .. m |-> g[k]]
    OBVIOUS
  <2> HIDE DEF g
  <2>6. IsClimb(g, node, s, m)
    BY <2>4, <2>5 DEF IsClimb
  <2> QED
    BY <1>2, <2>6
<1> QED
  BY <1>3, <1>4

LEMMA ClimbIs ==
  ASSUME NEW node, NEW s, Len(s) \in Nat
  PROVE  \E h : /\ climbToRoot(node, s) = h[Len(s)]
                /\ h[0] = node
                /\ \A k \in 1 .. Len(s) : h[k] = climb(h[k - 1], s[k])
<1> DEFINE h == CHOOSE h : IsClimb(h, node, s, Len(s))
<1>1. IsClimb(h, node, s, Len(s))
  BY ClimbExists
<1>2. climbToRoot(node, s) = h[Len(s)]
  BY Zenon DEF climbToRoot, IsClimb
<1> HIDE DEF h
<1>3. \A k \in 0 .. Len(s) : h[k] = IF k = 0 THEN node ELSE climb(h[k - 1], s[k])
  BY <1>1, Zenon DEF IsClimb
<1> QED
  BY <1>2, <1>3

\* Nothing is climbed without a sibling.
LEMMA ClimbNone == ASSUME NEW node PROVE climbToRoot(node, << >>) = node
<1> DEFINE none == << >>
<1>1. Len(none) = 0 /\ Len(none) \in Nat
  OBVIOUS
<1> HIDE DEF none
<1>2. PICK h : climbToRoot(node, none) = h[Len(none)] /\ h[0] = node
  BY <1>1, ClimbIs
<1> QED
  BY <1>1, <1>2 DEF none

\* The first level can be climbed apart from the others.
LEMMA ClimbOne ==
  ASSUME NEW node, NEW S, NEW s \in Seq(S), s # << >>
  PROVE  climbToRoot(climb(node, Head(s)), Tail(s)) = climbToRoot(node, s)
<1> DEFINE t == Tail(s)
<1>1. /\ Len(s) \in Nat \ {0} /\ Len(t) = Len(s) - 1 /\ Head(s) = s[1]
      /\ \A k \in 1 .. Len(t) : t[k] = s[k + 1]
  OBVIOUS
<1>2. PICK h : /\ climbToRoot(node, s) = h[Len(s)] /\ h[0] = node
               /\ \A k \in 1 .. Len(s) : h[k] = climb(h[k - 1], s[k])
  BY <1>1, ClimbIs
<1> HIDE DEF t
<1>3. PICK g : /\ climbToRoot(climb(node, Head(s)), t) = g[Len(t)]
               /\ g[0] = climb(node, Head(s))
               /\ \A k \in 1 .. Len(t) : g[k] = climb(g[k - 1], t[k])
  BY <1>1, ClimbIs
<1> DEFINE B == {k \in 0 .. Len(t) : g[k] # h[k + 1]}
<1>4. B = {}
  <2>1. SUFFICES ASSUME B # {} PROVE FALSE
    OBVIOUS
  <2>2. PICK k \in B : \A l \in B : k <= l
    <3>1. B \subseteq Nat
      OBVIOUS
    <3> HIDE DEF B
    <3> QED
      BY <2>1, <3>1, LeastOf
  <2>3. k # 0
    BY <1>1, <1>2, <1>3, <2>2
  <2>4. g[k - 1] = h[k]
    BY <1>1, <2>2, <2>3
  <2>5. g[k] = climb(g[k - 1], t[k]) /\ h[k + 1] = climb(h[k], s[k + 1]) /\ t[k] = s[k + 1]
    BY <1>1, <1>2, <1>3, <2>2, <2>3
  <2> QED
    BY <2>2, <2>4, <2>5
<1> QED
  BY <1>1, <1>2, <1>3, <1>4 DEF t

\* The weight of one voter, and of the others.
LEMMA WeightWithout ==
  ASSUME NEW tree, IsPolicy(tree), NEW S, S \subseteq DOMAIN tree, IsFiniteSet(S), NEW i \in S
  PROVE  /\ SumOfWeights(tree, S) = tree[i].weight + SumOfWeights(tree, S \ {i})
         /\ SumOfWeights(tree, S \ {i}) \in Nat /\ tree[i].weight \in Nat
<1> DEFINE f == [j \in DOMAIN tree |-> tree[j].weight]
<1>1. f[i] = tree[i].weight /\ \A x \in S : f[x] \in Nat
  BY DEF IsPolicy
<1>2. IsFiniteSet(S \ {i})
  BY FS_RemoveElement
<1> HIDE DEF f
<1>3. SumFunctionOnSet(f, S) = f[i] + SumFunctionOnSet(f, S \ {i})
  BY <1>1, SumWithout
<1>4. SumFunctionOnSet(f, S \ {i}) \in Nat
  BY <1>1, <1>2, SumType
<1> QED
  BY <1>1, <1>3, <1>4 DEF f, SumOfWeights

LEMMA NextIsLeast ==
  ASSUME NEW S, S \subseteq Nat, S # {}
  PROVE  nextSignature(S) \in S /\ \A i \in S : nextSignature(S) <= i
<1>1. \E i \in S : \A j \in S : i <= j
  BY LeastOf
<1> QED
  BY <1>1 DEF nextSignature, Min

----------------------------------------------------------------------------
(* The worker's job.                                                       *)

\* What is folded and what is still to be folded have weight enough, and what
\* is to be folded comes after it.
FoldReady(f) ==
  /\ f.merkleRoot = job.relay.merkleRoot /\ f.protocolId = job.relay.protocolId
  /\ f.votingRoundId = job.relay.votingRoundId /\ f.policy = job.tree
  /\ f.weight \in Nat
  /\ f.weight + SumOfWeights(job.tree, job.indices) >= Threshold
  /\ \A i \in job.indices : i > f.maxIndex

SignaturesReady ==
  /\ IsPolicy(job.tree) /\ IsFiniteSet(job.indices)
  /\ \A i \in job.indices : SingleAccepts(job.relay, job.tree, i)
  /\ job.fold = {} => SumOfWeights(job.tree, job.indices) >= Threshold
  /\ \A f \in job.fold : FoldReady(f)

\* What is to be climbed ends at the root that was signed.
PathReady ==
  /\ job.siblings \in Seq(Range(job.served.siblings))
  /\ job.path.height \in Nat
  /\ job.path.height = 0 => job.siblings = job.served.siblings
  /\ climbToRoot(job.path.top, job.siblings) = job.relay.merkleRoot

GatheredInv ==
  /\ asked # NoJob /\ asked.served # NoJob =>
       \E root \in merkleRoots(asked.round) : verifyAttestation(asked.served, root)
  /\ job # NoJob => SignaturesReady /\ PathReady
  /\ \A served \in refused : served.siblings = << >>
  /\ \A a \in built : a.weight >= Threshold

\* What the worker is handed is one call's signatures, all of which it knows
\* the keys of, and a path that was found to reach that call's root.
LEMMA HandedIsReady ==
  ASSUME GatheredInv, WantedInv, NEW calls \in SUBSET RelayCalls, policyProofInputs(calls),
         job' # NoJob
  PROVE  SignaturesReady' /\ PathReady'
<1>1. PICK call \in calls, policy \in NewestPolicies(calls) :
        \E keys : /\ harvestPolicyKeys(policy, calls) \subseteq keys
                  /\ IsHanded(call, policyTree(policy, keys))
  BY HandsOver
<1>2. PICK keys : /\ harvestPolicyKeys(policy, calls) \subseteq keys
                  /\ IsHanded(call, policyTree(policy, keys))
  BY <1>1
<1> DEFINE tree == policyTree(policy, keys)
           leaf == attestationLeaf(asked.served.response)
<1>3. /\ job'.served = asked.served /\ job'.relay = RelayCommitment(call.message)
      /\ job'.tree = tree /\ job'.fold = {} /\ job'.path = PathSegment(leaf, leaf, 0)
      /\ job'.indices = usable(call, tree) /\ job'.siblings = asked.served.siblings
  BY <1>2 DEF IsHanded
<1>4. /\ calls \subseteq CallsOf(asked.round) /\ CallsOf(asked.round) \subseteq RelayCalls
      /\ asked # NoJob /\ asked.served # NoJob
  BY DEF policyProofInputs, CallsOf
<1>5. policy = PolicyOf[call.epoch] /\ IsPolicy(policy)
  <2>1. PICK c \in calls : policy = PolicyOf[c.epoch]
    BY <1>1 DEF NewestPolicies
  <2>2. c.epoch = call.epoch
    BY <1>4, RelayAssumption DEF CallsOf
  <2> QED
    BY <2>1, <2>2, <1>1, AttestationAssumption
<1>6. /\ IsFiniteSet(call.signatures) /\ call.signatures \subseteq DOMAIN policy
      /\ \A i \in call.signatures : policy[i].key \in SignedBy[call.message]
      /\ SumOfWeights(policy, call.signatures) >= Threshold
  BY <1>1, <1>5, RelayAssumption
<1>7. /\ IsPolicy(tree) /\ call.signatures \subseteq DOMAIN tree
      /\ \A i \in call.signatures :
           tree[i].index = i /\ tree[i].key = policy[i].key /\ tree[i].weight = policy[i].weight
  <2>1. ASSUME NEW i \in call.signatures PROVE policy[i].key \in keys
    <3>1. policy[i].key \in SignersOf(call)
      BY <1>5 DEF SignersOf
    <3>2. policy[i].key \in {policy[j].key : j \in DOMAIN policy}
      BY <1>6
    <3>3. policy[i].key \in harvestPolicyKeys(policy, calls)
      BY <1>1, <3>1, <3>2 DEF harvestPolicyKeys
    <3> QED
      BY <1>2, <3>3
  <2>2. DOMAIN tree = {x \in DOMAIN policy : policy[x].key \in keys}
    BY DEF policyTree
  <2>3. \A i \in DOMAIN tree :
          tree[i].index = i /\ tree[i].key = policy[i].key /\ tree[i].weight = policy[i].weight
    BY DEF policyTree
  <2> HIDE DEF tree
  <2> QED
    BY <1>5, <1>6, <2>1, <2>2, <2>3 DEF IsPolicy
<1> HIDE DEF tree
<1>8. usable(call, tree) = call.signatures
  BY <1>7 DEF usable
<1>9. SumOfWeights(tree, call.signatures) = SumOfWeights(policy, call.signatures)
  <2> DEFINE f == [i \in DOMAIN tree |-> tree[i].weight]
             e == [i \in DOMAIN policy |-> policy[i].weight]
  <2>1. \A i \in call.signatures : f[i] = e[i]
    BY <1>6, <1>7
  <2> HIDE DEF f, e
  <2>2. SumFunctionOnSet(f, call.signatures) = SumFunctionOnSet(e, call.signatures)
    BY <1>6, <2>1, SumsAgree
  <2> QED
    BY <2>2 DEF SumOfWeights, f, e
<1>10. SignaturesReady'
  <2>1. \A i \in call.signatures : SingleAccepts(RelayCommitment(call.message), tree, i)
    BY <1>6, <1>7 DEF SingleAccepts, RelayCommitment
  <2> QED
    BY <1>3, <1>6, <1>7, <1>8, <1>9, <2>1 DEF SignaturesReady
<1>11. PathReady'
  <2>1. climbToRoot(leaf, asked.served.siblings) = call.message.merkleRoot
    <3>1. PICK c \in CallsOf(asked.round) : verifyAttestation(asked.served, c.message.merkleRoot)
      BY <1>4 DEF GatheredInv, merkleRoots
    <3>2. c.message.merkleRoot = call.message.merkleRoot
      BY <1>4, RelayAssumption DEF CallsOf
    <3> QED
      BY <3>1, <3>2 DEF verifyAttestation
  <2>2. asked.served.siblings \in Seq(Range(asked.served.siblings))
    BY <1>4, AttestationAssumption DEF WantedInv
  <2> QED
    BY <1>3, <2>1, <2>2 DEF PathReady, PathSegment, RelayCommitment
<1> QED
  BY <1>10, <1>11

\* The next signature is accepted, and the fold stays ready for those left.
LEMMA FoldIsReady ==
  ASSUME JobShape, job # NoJob, SignaturesReady, PathReady, foldNext
  PROVE  /\ UNCHANGED <<asked, built, refused>>
         /\ SignaturesReady' /\ PathReady'
<1> DEFINE at == nextSignature(job.indices)
           next == SingleSet(job.relay, job.tree, at)
           folded == FoldedWith(job.fold, next)
           left == job.indices \ {at}
<1>1. job.indices \subseteq DOMAIN job.tree /\ job.indices \subseteq Nat
  BY DEF SignaturesReady, SingleAccepts, IsPolicy
<1>2. at \in job.indices /\ \A i \in job.indices : at <= i
  <2>1. job.indices # {}
    BY DEF foldNext
  <2> QED
    BY <1>1, <2>1, NextIsLeast
<1>3. SingleAccepts(job.relay, job.tree, at)
  BY <1>2 DEF SignaturesReady
<1> HIDE DEF at
<1>4. /\ next.merkleRoot = job.relay.merkleRoot /\ next.protocolId = job.relay.protocolId
      /\ next.votingRoundId = job.relay.votingRoundId /\ next.policy = job.tree
      /\ next.weight = job.tree[at].weight /\ next.minIndex = at /\ next.maxIndex = at
  BY DEF SingleSet, SignatureSet
<1>5. \A f \in job.fold : MergeAccepts(f, next)
  <2> HIDE DEF next
  <2> QED
    BY <1>2, <1>4 DEF SignaturesReady, FoldReady, MergeAccepts
<1>6. /\ job' = [job EXCEPT !.indices = @ \ {at}, !.fold = folded]
      /\ UNCHANGED <<asked, built, refused>>
  <2> HIDE DEF next
  <2>1. at = nextSignature(job.indices) /\ next = SingleSet(job.relay, job.tree, at)
    BY DEF at, next
  <2> QED
    BY <1>3, <1>5, <2>1 DEF foldNext
<1> HIDE DEF folded
<1>7. /\ job'.served = job.served /\ job'.relay = job.relay /\ job'.tree = job.tree
      /\ job'.indices = left /\ job'.fold = folded /\ job'.path = job.path
      /\ job'.siblings = job.siblings
  BY <1>6 DEF JobShape
<1>8. /\ SumOfWeights(job.tree, job.indices)
           = job.tree[at].weight + SumOfWeights(job.tree, left)
      /\ SumOfWeights(job.tree, left) \in Nat /\ job.tree[at].weight \in Nat
  BY <1>1, <1>2, WeightWithout DEF SignaturesReady
<1>9. IsFiniteSet(left) /\ at \notin left /\ left \subseteq job.indices
  BY FS_RemoveElement DEF SignaturesReady
<1>10. \A i \in left : i > at
  BY <1>1, <1>2, <1>9
<1> HIDE DEF left
<1>11. ASSUME NEW f \in folded
       PROVE  /\ f.merkleRoot = job.relay.merkleRoot /\ f.protocolId = job.relay.protocolId
              /\ f.votingRoundId = job.relay.votingRoundId /\ f.policy = job.tree
              /\ f.weight \in Nat /\ f.maxIndex = at
              /\ f.weight + SumOfWeights(job.tree, left) >= Threshold
  <2> HIDE DEF next
  <2>1. CASE job.fold = {}
    <3>1. f = next /\ SumOfWeights(job.tree, job.indices) >= Threshold
      BY <1>11, <2>1 DEF folded, FoldedWith, SignaturesReady
    <3> QED
      BY <1>4, <1>8, <3>1
  <2>2. CASE job.fold # {}
    <3>1. PICK g \in job.fold : f = MergedSet(g, next)
      BY <1>11, <2>2 DEF folded, FoldedWith
    <3>2. FoldReady(g)
      BY DEF SignaturesReady
    <3>3. /\ f.merkleRoot = g.merkleRoot /\ f.protocolId = g.protocolId
          /\ f.votingRoundId = g.votingRoundId /\ f.policy = g.policy
          /\ f.weight = g.weight + next.weight /\ f.maxIndex = next.maxIndex
      BY <3>1 DEF MergedSet, SignatureSet
    <3>4. g.weight + (next.weight + SumOfWeights(job.tree, left)) >= Threshold /\ g.weight \in Nat
      BY <1>4, <1>8, <3>2 DEF FoldReady
    <3> QED
      BY <1>4, <1>8, <3>2, <3>3, <3>4, AttestationAssumption DEF FoldReady
  <2> QED
    BY <2>1, <2>2
<1>12. folded # {}
  BY DEF folded, FoldedWith
<1>13. SignaturesReady'
  <2>1. \A f \in folded : FoldReady(f)'
    BY <1>7, <1>10, <1>11 DEF FoldReady
  <2>2. \A i \in left : SingleAccepts(job.relay, job.tree, i)
    BY <1>9 DEF SignaturesReady
  <2> QED
    BY <1>7, <1>9, <1>12, <2>1, <2>2 DEF SignaturesReady
<1>14. PathReady'
  BY <1>7 DEF PathReady
<1> QED
  BY <1>6, <1>13, <1>14

\* One more level is climbed, and the others still end at the root.
LEMMA ClimbIsReady ==
  ASSUME JobShape, SignaturesReady, PathReady, climbNext
  PROVE  SignaturesReady' /\ PathReady'
<1> DEFINE up == Level(job.path.top, Head(job.siblings))
           path == Joined(job.path, up)
<1>1. /\ up.top = climb(job.path.top, Head(job.siblings)) /\ up.height = 1
      /\ path.top = up.top /\ path.height = job.path.height + up.height
  BY DEF Level, Joined, PathSegment
<1>2. job' = [job EXCEPT !.siblings = Tail(@), !.path = path]
  BY DEF climbNext
<1> HIDE DEF path, up
<1>3. /\ job'.served = job.served /\ job'.relay = job.relay /\ job'.tree = job.tree
      /\ job'.indices = job.indices /\ job'.fold = job.fold /\ job'.path = path
      /\ job'.siblings = Tail(job.siblings)
  BY <1>2 DEF JobShape
<1>4. /\ job.siblings \in Seq(Range(job.served.siblings)) /\ job.siblings # << >>
      /\ climbToRoot(job.path.top, job.siblings) = job.relay.merkleRoot
      /\ job.path.height \in Nat
  BY DEF PathReady, climbNext
<1>5. climbToRoot(path.top, Tail(job.siblings)) = job.relay.merkleRoot
  BY <1>1, <1>4, ClimbOne
<1>6. Tail(job.siblings) \in Seq(Range(job.served.siblings))
  <2> DEFINE S == Range(job.served.siblings)
  <2>1. job.siblings \in Seq(S) /\ job.siblings # << >>
    BY <1>4
  <2> HIDE DEF S
  <2>2. Tail(job.siblings) \in Seq(S)
    BY <2>1
  <2> QED
    BY <2>2 DEF S
<1>7. path.height \in Nat /\ path.height # 0
  BY <1>1, <1>4
<1>8. SignaturesReady'
  BY <1>3 DEF SignaturesReady, FoldReady
<1>9. PathReady'
  BY <1>3, <1>5, <1>6, <1>7 DEF PathReady
<1> QED
  BY <1>8, <1>9

\* When nothing is left, the attestation is proved, with weight enough, unless
\* there was nothing to climb.
LEMMA ProvedIsReady ==
  ASSUME job # NoJob, SignaturesReady, PathReady, proveAttestation
  PROVE  /\ \A a \in built' \ built : a.weight >= Threshold
         /\ \A served \in refused' \ refused : served.siblings = << >>
<1> DEFINE leaf == AttestedLeaf(job.path, job.served.response)
<1>1. job.indices = {} /\ job.siblings = << >>
  BY DEF proveAttestation
<1>2. leaf.merkleRoot = job.relay.merkleRoot
  <2>1. climbToRoot(job.path.top, << >>) = job.relay.merkleRoot
    BY <1>1 DEF PathReady
  <2> QED
    BY <2>1, ClimbNone DEF AttestedLeaf
<1> HIDE DEF leaf
<1>3. SumOfWeights(job.tree, job.indices) = 0
  BY <1>1, SumOfNone DEF SumOfWeights
<1>4. job.fold # {}
  BY <1>3, RelayAssumption, AttestationAssumption DEF SignaturesReady
<1>5. \A f \in job.fold : f.weight >= Threshold /\ f.merkleRoot = leaf.merkleRoot
  BY <1>2, <1>3 DEF SignaturesReady, FoldReady
<1>6. ASSUME NEW a \in built' \ built PROVE a.weight >= Threshold
  <2>1. PICK f \in job.fold : a = AttestedStateOf(leaf, f)
    BY <1>6 DEF proveAttestation, leaf
  <2>2. a.weight = f.weight
    BY <2>1 DEF AttestedStateOf
  <2> QED
    BY <1>5, <2>2
<1>7. ASSUME NEW served \in refused' \ refused PROVE served.siblings = << >>
  <2>1. served = job.served
    BY <1>7 DEF proveAttestation, Refuse
  <2>2. ~(job.path.height > 0)
    BY <1>4, <1>5, <1>7 DEF proveAttestation, leaf
  <2>3. job.path.height = 0
    BY <2>2 DEF PathReady
  <2> QED
    BY <1>1, <2>1, <2>3 DEF PathReady
<1> QED
  BY <1>6, <1>7

\* One step per action of the relayer.
LEMMA GatheredKeeps == WantedInv /\ GatheredInv /\ [AttestNext]_attestVars => GatheredInv'
<1> SUFFICES ASSUME WantedInv, GatheredInv, [AttestNext]_attestVars PROVE GatheredInv'
  OBVIOUS
<1>1. CASE UNCHANGED workVars
  BY <1>1 DEF GatheredInv, SignaturesReady, FoldReady, PathReady, workVars
<1>2. CASE \E head \in DOMAIN TransactionOf : requestAttestationFor(head)
  <2>1. asked'.served = NoJob
    BY <1>2 DEF requestAttestationFor, submitRequest
  <2> QED
    BY <1>2, <2>1 DEF GatheredInv, requestAttestationFor
<1>3. ASSUME NEW served \in Served, fetchAttestation(served) PROVE GatheredInv'
  <2>1. UNCHANGED <<job, built, refused>>
    BY <1>3 DEF fetchAttestation
  <2>2. ASSUME asked' # NoJob
        PROVE  \E root \in merkleRoots(asked'.round) : verifyAttestation(asked'.served, root)
    <3>1. /\ asked' = [asked EXCEPT !.served = served] /\ AskedShape
          /\ \E root \in merkleRoots(asked.round) : verifyAttestation(served, root)
      BY <1>3, <2>2 DEF WantedInv, fetchAttestation
    <3>2. asked'.served = served /\ asked'.round = asked.round
      BY <3>1 DEF AskedShape
    <3> QED
      BY <3>1, <3>2
  <2> QED
    BY <2>1, <2>2 DEF GatheredInv, SignaturesReady, FoldReady, PathReady
<1>4. CASE publishGivesUp
  BY <1>4 DEF GatheredInv, SignaturesReady, FoldReady, PathReady, publishGivesUp
<1>5. ASSUME NEW calls \in SUBSET RelayCalls, policyProofInputs(calls) PROVE GatheredInv'
  <2>1. asked' = NoJob /\ UNCHANGED <<built, refused>>
    BY <1>5 DEF policyProofInputs
  <2>2. job' # NoJob => SignaturesReady' /\ PathReady'
    BY <1>5, HandedIsReady
  <2> QED
    BY <2>1, <2>2 DEF GatheredInv
<1>6. CASE foldNext
  <2>1. JobShape /\ job # NoJob /\ SignaturesReady /\ PathReady
    BY <1>6 DEF WantedInv, GatheredInv, foldNext
  <2> QED
    BY <1>6, <2>1, FoldIsReady DEF GatheredInv
<1>7. CASE climbNext
  <2>1. JobShape /\ job # NoJob /\ SignaturesReady /\ PathReady
    BY <1>7 DEF WantedInv, GatheredInv, climbNext
  <2>2. UNCHANGED <<asked, built, refused>>
    BY <1>7 DEF climbNext
  <2> QED
    BY <1>7, <2>1, <2>2, ClimbIsReady DEF GatheredInv
<1>8. CASE proveAttestation
  <2>1. job # NoJob /\ SignaturesReady /\ PathReady
    BY <1>8 DEF GatheredInv, proveAttestation
  <2>2. job' = NoJob /\ asked' = asked
    BY <1>8 DEF proveAttestation, Refuse
  <2> QED
    BY <1>8, <2>1, <2>2, ProvedIsReady DEF GatheredInv
<1>9. CASE workerEnds
  BY <1>9 DEF GatheredInv, workerEnds
<1>10. CASE AnyoneProves
  BY <1>1, <1>10 DEF AnyoneProves, bind, single, merge, level, levels4, join, read, attest
<1> QED
  BY <1>1, <1>2, <1>3, <1>4, <1>5, <1>6, <1>7, <1>8, <1>9, <1>10
     DEF AttestNext, RelayerProves, attestVars

\* What the relayer gathers, it proves, with the weight that Mina asks for, and
\* of a transfer; only a response that is its own root is refused (publisher.ts
\* policyProofInputs, worker.ts proveSigningPolicy and buildAttestation).
THEOREM GatheredIsAccepted == AttestSpec => []WhatIsBuiltIsAccepted
<1>1. AttestInit => WantedInv /\ GatheredInv
  BY DEF AttestInit, WantedInv, GatheredInv
<1>2. WantedInv /\ GatheredInv => WhatIsBuiltIsAccepted
  BY DEF WantedInv, GatheredInv, WhatIsBuiltIsAccepted
<1> QED
  BY <1>1, <1>2, WantedKeeps, GatheredKeeps, PTL DEF AttestSpec
=============================================================================
