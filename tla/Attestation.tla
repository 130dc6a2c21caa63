---------------------------- MODULE Attestation ----------------------------
(***************************************************************************)
(* How Mina comes to accept a head of Flare's chain with no key to vouch   *)
(* for it: the programs of RelayMessage.ts, SigningPolicyFold.ts,          *)
(* MerkleInclusion.ts and FdcAttestation.ts, and the relayer that gathers  *)
(* what they are fed (fdc.ts, publisher.ts) and runs them (worker.ts).     *)
(*                                                                         *)
(* A proof exists once a program has accepted what it was given, and       *)
(* anyone may give it anything, so each action adds all that a program can *)
(* prove from the proofs there are.  A digest is what was hashed, a        *)
(* response or a pair of digests, which is sorted before it is hashed and  *)
(* has no first.  A pair is 64 bytes and a response RESPONSE_BYTES, so     *)
(* neither is ever the other.                                              *)
(***************************************************************************)
EXTENDS Integers, Sequences, FiniteSets, FiniteSetsExt, SequencesExt

CONSTANTS
  Responses, EventOf,   \* of each response: emitter, topic0 and action state
  ChainAddress, TransferTopic0,
  TransactionOf,        \* of each head in the ledger
  LogsOf,               \* the events of each transaction, in order
  Validators,
  Messages, SignedBy,   \* rounds' messages, and who signed each
  NodesOf,              \* the digests of the tree under the root of each
  PolicyTrees,          \* any tree of index, key and weight that is named
  Climbs,               \* nodes and siblings that paths are proved from
  PolicyOf, Threshold,  \* Flare's policy of an epoch: a voter for each index
  RelayCalls,           \* the transactions of Relay, with epoch and signatures
  Served,               \* what the DA layer serves: request, response, siblings
  NoJob

attestationLeaf(response) == [response |-> response]
climb(node, sibling) == [pair |-> {node, sibling}]

\* The responses under the root of a message.
Committed(m) == {r \in Responses : attestationLeaf(r) \in NodesOf[m]}

\* A weight, and a key, for some indices.
IsPolicy(tree) ==
  DOMAIN tree \subseteq Nat /\ \A i \in DOMAIN tree : tree[i].weight \in Nat

ASSUME AttestationAssumption ==
  /\ SignedBy \in [Messages -> SUBSET Validators]
  /\ \A m \in Messages :
       /\ m.merkleRoot \in NodesOf[m]
       /\ \A n \in NodesOf[m] : DOMAIN n = {"pair"} => n.pair \subseteq NodesOf[m]
  /\ \A tree \in PolicyTrees : IsPolicy(tree)
  /\ \A c \in RelayCalls : c.message \in Messages /\ IsPolicy(PolicyOf[c.epoch])
  /\ \A served \in Served :
       served.response \in Responses /\ served.siblings \in Seq(Range(served.siblings))
  /\ Threshold \in Nat
  /\ \A head \in DOMAIN TransactionOf : TransactionOf[head] \in DOMAIN LogsOf

VARIABLES
  relayProofs, foldProofs, pathProofs, leafProofs,
  attestations,   \* proofs of FdcAttestation
  knownKeys,      \* validator_keys
  asked,          \* the attestation that the publisher waits for, if it does
  job,            \* what the worker is proving an attestation from, if it is
  built,          \* the attestations that it proved
  refused         \* what was gathered, and a program did not accept

proverVars == <<relayProofs, foldProofs, pathProofs, leafProofs, attestations>>
workVars == <<knownKeys, asked, job, built, refused>>
attestVars == <<proverVars, workVars>>

AttestInit ==
  /\ relayProofs = {} /\ foldProofs = {} /\ pathProofs = {} /\ leafProofs = {}
  /\ attestations = {}
  /\ knownKeys = {} /\ asked = NoJob /\ job = NoJob /\ built = {} /\ refused = {}

----------------------------------------------------------------------------
(* The public outputs of the programs.                                     *)

\* RelayMessage.bind: the digest of a message, and what the message says.
RelayCommitment(m) ==
  [digest |-> m, protocolId |-> m.protocolId, votingRoundId |-> m.votingRoundId,
   merkleRoot |-> m.merkleRoot]

\* SignatureSet: some voters of a policy signed a round's message.
SignatureSet(round, policy, count, weight, minIndex, maxIndex) ==
  [merkleRoot |-> round.merkleRoot, protocolId |-> round.protocolId,
   votingRoundId |-> round.votingRoundId, policy |-> policy,
   count |-> count, weight |-> weight, minIndex |-> minIndex, maxIndex |-> maxIndex]

\* SigningPolicyFold.single: the voter at a position of the tree signed.
SingleAccepts(relay, tree, at) ==
  /\ at \in DOMAIN tree
  /\ tree[at].key \in SignedBy[relay.digest]
  /\ tree[at].index = at

SingleSet(relay, tree, at) == SignatureSet(relay, tree, 1, tree[at].weight, at, at)

\* Altered MergeAccepts: ranges may touch.
MergeTouching(a, b) ==
  /\ a.merkleRoot = b.merkleRoot /\ a.protocolId = b.protocolId
  /\ a.votingRoundId = b.votingRoundId /\ a.policy = b.policy
  /\ b.minIndex >= a.maxIndex

\* SigningPolicyFold.merge: one round, one policy, and strictly ascending.
MergeAccepts(a, b) ==
  /\ a.merkleRoot = b.merkleRoot /\ a.protocolId = b.protocolId
  /\ a.votingRoundId = b.votingRoundId /\ a.policy = b.policy
  /\ b.minIndex > a.maxIndex

MergedSet(a, b) ==
  SignatureSet(a, a.policy, a.count + b.count, a.weight + b.weight, a.minIndex, b.maxIndex)

\* MerkleInclusion, a part of a path and its level, levels4 and merge.
PathSegment(bottom, top, levels) == [bottom |-> bottom, top |-> top, height |-> levels]
Level(node, sibling) == PathSegment(node, climb(node, sibling), 1)
FourLevels(node, s) ==
  PathSegment(node, climb(climb(climb(climb(node, s[1]), s[2]), s[3]), s[4]), 4)
Joined(a, b) == PathSegment(a.bottom, b.top, a.height + b.height)

\* FdcLeaf.read: the response whose digest a path starts from.
AttestedLeaf(path, response) == [merkleRoot |-> path.top, event |-> EventOf[response]]

\* FdcAttestation.attest.
AttestedStateOf(leaf, fold) ==
  [event |-> leaf.event, policy |-> fold.policy, weight |-> fold.weight,
   protocolId |-> fold.protocolId, votingRoundId |-> fold.votingRoundId]

----------------------------------------------------------------------------
(* Anyone proves anything.                                                 *)

bind ==
  /\ relayProofs' = {RelayCommitment(m) : m \in Messages}
  /\ UNCHANGED <<foldProofs, pathProofs, leafProofs, attestations>>
  /\ UNCHANGED workVars

Signings(relay) ==
  {x \in UNION {{tree} \X DOMAIN tree : tree \in PolicyTrees} : SingleAccepts(relay, x[1], x[2])}

single ==
  /\ foldProofs' = foldProofs \union
       UNION {{SingleSet(relay, x[1], x[2]) : x \in Signings(relay)} : relay \in relayProofs}
  /\ UNCHANGED <<relayProofs, pathProofs, leafProofs, attestations>>
  /\ UNCHANGED workVars

merge ==
  /\ foldProofs' = foldProofs \union
       {MergedSet(x[1], x[2]) : x \in {y \in foldProofs \X foldProofs : MergeAccepts(y[1], y[2])}}
  /\ UNCHANGED <<relayProofs, pathProofs, leafProofs, attestations>>
  /\ UNCHANGED workVars

level ==
  /\ pathProofs' = pathProofs \union
       {Level(x[1], x[2][1]) : x \in {y \in Climbs : Len(y[2]) = 1}}
  /\ UNCHANGED <<relayProofs, foldProofs, leafProofs, attestations>>
  /\ UNCHANGED workVars

levels4 ==
  /\ pathProofs' = pathProofs \union
       {FourLevels(x[1], x[2]) : x \in {y \in Climbs : Len(y[2]) = 4}}
  /\ UNCHANGED <<relayProofs, foldProofs, leafProofs, attestations>>
  /\ UNCHANGED workVars

\* Two segments that meet.
join ==
  /\ pathProofs' = pathProofs \union
       {Joined(x[1], x[2]) : x \in {y \in pathProofs \X pathProofs : y[1].top = y[2].bottom}}
  /\ UNCHANGED <<relayProofs, foldProofs, leafProofs, attestations>>
  /\ UNCHANGED workVars

read ==
  /\ leafProofs' = leafProofs \union
       {AttestedLeaf(x[1], x[2]) :
          x \in {y \in pathProofs \X Responses : y[1].bottom = attestationLeaf(y[2])}}
  /\ UNCHANGED <<relayProofs, foldProofs, pathProofs, attestations>>
  /\ UNCHANGED workVars

\* Altered attest: the root that was reached is not compared.
AttestAnyRoot ==
  /\ attestations' = attestations \union
       {AttestedStateOf(x[1], x[2]) : x \in leafProofs \X foldProofs}
  /\ UNCHANGED <<relayProofs, foldProofs, pathProofs, leafProofs>>
  /\ UNCHANGED workVars

attest ==
  /\ attestations' = attestations \union
       {AttestedStateOf(x[1], x[2]) :
          x \in {y \in leafProofs \X foldProofs : y[1].merkleRoot = y[2].merkleRoot}}
  /\ UNCHANGED <<relayProofs, foldProofs, pathProofs, leafProofs>>
  /\ UNCHANGED workVars

----------------------------------------------------------------------------
(* The relayer.                                                            *)

SumOfWeights(tree, indices) == SumFunctionOnSet([i \in DOMAIN tree |-> tree[i].weight], indices)

\* What Relay accepts, and only that is in its log: signatures of voters of the
\* policy that the call carries, with weight enough, and one root and one policy
\* for a protocol's round (flareRelay.test.ts:74-116; worker.ts:473-474).
ASSUME RelayAssumption ==
  /\ Threshold > 0
  /\ \A c \in RelayCalls :
       /\ IsFiniteSet(c.signatures) /\ c.signatures \subseteq DOMAIN PolicyOf[c.epoch]
       /\ \A i \in c.signatures : PolicyOf[c.epoch][i].key \in SignedBy[c.message]
       /\ SumOfWeights(PolicyOf[c.epoch], c.signatures) >= Threshold
  /\ \A c, d \in RelayCalls :
       /\ c.message.protocolId = d.message.protocolId
       /\ c.message.votingRoundId = d.message.votingRoundId
       => c.message.merkleRoot = d.message.merkleRoot /\ c.epoch = d.epoch

\* What the publisher asks to have attested, and the one that it accepts.
expected(event) == event.emitter = ChainAddress /\ event.topic0 = TransferTopic0

TransferLogs(transaction) ==
  {i \in DOMAIN LogsOf[transaction] : expected(LogsOf[transaction][i])}

\* The transaction that produced a head, and the first transfer in it.
transferTxFor(head) == TransactionOf[head]
findEventLogIndex(transaction) == Min(TransferLogs(transaction))

prepareRequest(transaction, log) == [transaction |-> transaction, log |-> log]

climbToRoot(node, siblings) ==
  LET reached[k \in 0 .. Len(siblings)] ==
        IF k = 0 THEN node ELSE climb(reached[k - 1], siblings[k])
  IN  reached[Len(siblings)]
verifyAttestation(served, merkleRoot) ==
  climbToRoot(attestationLeaf(served.response), served.siblings) = merkleRoot

\* Altered parseAttestedEvent: of any contract.
ParseAnyEmitter(response) == EventOf[response].topic0 = TransferTopic0

\* The response has the event that was asked for.
parseAttestedEvent(response) == expected(EventOf[response])

\* policyProofInputs: the calls that relayed one round of FDC.
CallsOf(round) ==
  {c \in RelayCalls : c.message.protocolId = 200 /\ c.message.votingRoundId = round}

SignersOf(c) == {PolicyOf[c.epoch][i].key : i \in c.signatures}

\* A signature shows its key, and the key of a voter is kept.
harvestPolicyKeys(policy, calls) ==
  (UNION {SignersOf(c) : c \in calls}) \intersect {policy[i].key : i \in DOMAIN policy}
rememberValidatorKeys(fresh) == knownKeys \union fresh

NewestPolicies(calls) ==
  {PolicyOf[c.epoch] : c \in {x \in calls : \A y \in calls : y.epoch <= x.epoch}}

\* buildPolicyTree: the voters of a policy whose keys are known.
policyTree(policy, keys) ==
  [i \in {x \in DOMAIN policy : policy[x].key \in keys} |->
     [index |-> i, key |-> policy[i].key, weight |-> policy[i].weight]]

\* proveSigningPolicy: the calls with most signatures of known keys.
usable(call, tree) == call.signatures \intersect DOMAIN tree
MostSigned(calls, tree) ==
  {c \in calls : \A d \in calls :
     Cardinality(usable(d, tree)) <= Cardinality(usable(c, tree))}

\* Altered nextSignature: sorted as the calls are, from the greatest down.
LastSignature(indices) == Max(indices)

\* The signatures are sorted by index.
nextSignature(indices) == Min(indices)

\* Relay.merkleRoots, once a round was relayed.
merkleRoots(round) == {c.message.merkleRoot : c \in CallsOf(round)}

\* The request goes to a voting round, which is known when it is mined.
submitRequest(head, request, round) ==
  asked' = [head |-> head, request |-> request, round |-> round, served |-> NoJob]

\* publish and attestationFor, up to the wait: a head that the ledger has.
requestAttestationFor(head) ==
  LET transaction == transferTxFor(head)
  IN  /\ asked = NoJob /\ job = NoJob
      /\ TransferLogs(transaction) # {}
      /\ \E round \in {m.votingRoundId : m \in Messages} :
           submitRequest(head, prepareRequest(transaction, findEventLogIndex(transaction)), round)
      /\ UNCHANGED <<proverVars, knownKeys, job, built, refused>>

\* What is served does not verify, or has another head: the tick ends there.
fetchAttestation(served) ==
  /\ asked # NoJob /\ asked.served = NoJob
  /\ served.request = asked.request
  /\ asked' = IF /\ \E root \in merkleRoots(asked.round) : verifyAttestation(served, root)
                 /\ parseAttestedEvent(served.response)
                 /\ EventOf[served.response].actionState = asked.head
              THEN [asked EXCEPT !.served = served] ELSE NoJob
  /\ UNCHANGED <<proverVars, knownKeys, job, built, refused>>

\* A tick ends before it has what to prove from: the round did not finalise
\* before the deadline, its calls are older than the lookback, or the relayer
\* restarts.
publishGivesUp ==
  /\ asked # NoJob /\ asked' = NoJob
  /\ UNCHANGED <<proverVars, knownKeys, job, built, refused>>

\* The calls of the round in the lookback, and what the worker is handed.  fold
\* is {} before the first signature; path is the leaf, with nothing climbed.
policyProofInputs(calls) ==
  LET served == asked.served
      leaf == attestationLeaf(served.response)
  IN  /\ asked # NoJob /\ served # NoJob /\ job = NoJob
      /\ calls # {} /\ calls \subseteq CallsOf(asked.round)
      /\ asked' = NoJob
      /\ \E policy \in NewestPolicies(calls) :
           LET keys == rememberValidatorKeys(harvestPolicyKeys(policy, calls))
               tree == policyTree(policy, keys)
           IN  /\ knownKeys' = keys
               /\ IF SumOfWeights(tree, DOMAIN tree) < Threshold
                  THEN job' = NoJob
                  ELSE \E call \in MostSigned(calls, tree) :
                         job' = [served |-> served, relay |-> RelayCommitment(call.message),
                                 tree |-> tree, indices |-> usable(call, tree), fold |-> {},
                                 path |-> PathSegment(leaf, leaf, 0),
                                 siblings |-> served.siblings]
      /\ UNCHANGED <<proverVars, built, refused>>

FoldedWith(fold, next) ==
  IF fold = {} THEN {next} ELSE {MergedSet(f, next) : f \in fold}

Refuse == job' = NoJob /\ refused' = refused \union {job.served}

\* proveSigningPolicy: the next signature, merged from the left.
foldNext ==
  LET at == nextSignature(job.indices)
      next == SingleSet(job.relay, job.tree, at)
  IN  /\ job # NoJob /\ job.indices # {}
      /\ IF /\ SingleAccepts(job.relay, job.tree, at)
            /\ \A f \in job.fold : MergeAccepts(f, next)
         THEN /\ job' = [job EXCEPT !.indices = @ \ {at}, !.fold = FoldedWith(@, next)]
              /\ UNCHANGED refused
         ELSE Refuse
      /\ UNCHANGED <<proverVars, knownKeys, asked, built>>

\* buildAttestation: the next level, merged from the left.
climbNext ==
  /\ job # NoJob /\ job.indices = {} /\ job.siblings # << >>
  /\ job' = [job EXCEPT !.siblings = Tail(@),
                        !.path = Joined(@, Level(@.top, Head(job.siblings)))]
  /\ UNCHANGED <<proverVars, knownKeys, asked, built, refused>>

\* buildAttestation, its end.  A path has a first level.
proveAttestation ==
  LET leaf == AttestedLeaf(job.path, job.served.response)
      proved == {AttestedStateOf(leaf, f) : f \in {g \in job.fold :
                   job.path.height > 0 /\ g.merkleRoot = leaf.merkleRoot}}
  IN  /\ job # NoJob /\ job.indices = {} /\ job.siblings = << >>
      /\ built' = built \union proved
      /\ IF proved = {} THEN Refuse ELSE job' = NoJob /\ UNCHANGED refused
      /\ UNCHANGED <<proverVars, knownKeys, asked>>

\* The worker ends, with what it was proving.
workerEnds ==
  /\ job # NoJob /\ job' = NoJob
  /\ UNCHANGED <<proverVars, knownKeys, asked, built, refused>>

----------------------------------------------------------------------------

AnyoneProves == bind \/ single \/ merge \/ level \/ levels4 \/ join \/ read \/ attest

RelayerProves ==
  \/ \E head \in DOMAIN TransactionOf : requestAttestationFor(head)
  \/ \E served \in Served : fetchAttestation(served)
  \/ publishGivesUp
  \/ \E calls \in SUBSET RelayCalls : policyProofInputs(calls)
  \/ foldNext \/ climbNext \/ proveAttestation \/ workerEnds

AttestNext == AnyoneProves \/ RelayerProves

AttestSpec == AttestInit /\ [][AttestNext]_attestVars

----------------------------------------------------------------------------
(* Properties.                                                             *)

SaysSo(m, a) == m.protocolId = a.protocolId /\ m.votingRoundId = a.votingRoundId

\* Whatever is attested was signed: its weight is that of different voters of
\* the policy it names, each of whom signed that round with a root that its
\* event is under (FdcAttestation.ts: a state the validators have effectively
\* signed; SigningPolicyFold.ts merge: disjoint).
AttestedWasSigned ==
  \A a \in attestations \union built :
    \E root \in {m.merkleRoot : m \in Messages}, signers \in SUBSET DOMAIN a.policy :
      /\ SumOfWeights(a.policy, signers) = a.weight
      /\ \A i \in signers : \E m \in Messages :
           /\ m.merkleRoot = root /\ SaysSo(m, a)
           /\ a.policy[i].key \in SignedBy[m]
           /\ \E r \in Committed(m) : EventOf[r] = a.event

\* A transfer on the chain that made a head, which FDC attests.
OfATransfer(a) ==
  a.protocolId = 200 /\ expected(a.event) /\ a.event.actionState \in DOMAIN TransactionOf

\* What the relayer gathers, it proves, and the proof is of a transfer on the
\* chain that made a head, signed for FDC with the weight that Mina asks for
\* (publisher.ts policyProofInputs: refusing beats publishing something weaker;
\* worker.ts proveSigningPolicy, which picks by number; fdc.ts fetchAttestation:
\* finding out first that the DA layer served something inconsistent).
\* Only the response of a round of one is refused: it is its own root, and
\* buildAttestation starts from a first level.
WhatIsBuiltIsAccepted ==
  /\ \A served \in refused : served.siblings = << >>
  /\ \A a \in built : a.weight >= Threshold /\ OfATransfer(a)
=============================================================================
