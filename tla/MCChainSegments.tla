-------------------------- MODULE MCChainSegments --------------------------
(* Small instances of the two kinds of recursive programs on Mina, in one  *)
(* run since they share nothing: ChainSegments with two tokens and one     *)
(* start head, and Attestation with three voters, of whom the heaviest     *)
(* also signed a root that nobody else did.  Nor do the two halves of      *)
(* Attestation, so a behaviour takes the steps of one of the three.        *)
EXTENDS ChainSegments, Attestation

CONSTANTS fmina, fxrp, k1, k2, r1, r2, r3, forged, v1, v2, v3,
  chain, port, t1, t3

MCStartHeads == {EmptyHead}

\* A record of each token, and a second one of the first token that pays
\* another amount to another account.
MCLinkRecords ==
  {[index |-> 0, token |-> fmina, recipient |-> k1, amount |-> 1],
   [index |-> 1, token |-> fmina, recipient |-> k2, amount |-> 2],
   [index |-> 1, token |-> fxrp,  recipient |-> k1, amount |-> 1]}

----------------------------------------------------------------------------
\* Three heads: one transaction made the first two, with an event of another
\* contract before them.  forged is another contract's event with a head's
\* action state.
MCEvent(emitter, state) == [emitter |-> emitter, topic0 |-> "Transfer", actionState |-> state]
MCTransactionOf == 1 :> t1 @@ 2 :> t1 @@ 3 :> t3
MCLogsOf ==
  t1 :> <<MCEvent(port, 1), MCEvent(chain, 1), MCEvent(chain, 2)>>
    @@ t3 :> <<MCEvent(chain, 3)>>
MCEventOf ==
  r1 :> MCEvent(chain, 1) @@ r2 :> MCEvent(chain, 2) @@ r3 :> MCEvent(chain, 3)
    @@ forged :> MCEvent(port, 3)

\* An odd tree of three responses: r3 is carried up a level.  r3 is also
\* the only response of another round.
MCLeaf(r) == attestationLeaf(r)
MCPair == climb(MCLeaf(r1), MCLeaf(r2))
MCRoot == climb(MCPair, MCLeaf(r3))
MCForgedRoot == climb(MCLeaf(forged), MCLeaf(r3))

MCMessage(protocol, round, root) ==
  [protocolId |-> protocol, votingRoundId |-> round, merkleRoot |-> root]

MCRound == MCMessage(200, 7, MCRoot)
MCForgedRound == MCMessage(200, 7, MCForgedRoot)
MCOtherProtocol == MCMessage(100, 7, MCRoot)
MCLaterRound == MCMessage(200, 8, MCForgedRoot)
MCLoneRound == MCMessage(200, 9, MCLeaf(r3))

MCMessages == {MCRound, MCForgedRound, MCOtherProtocol, MCLaterRound, MCLoneRound}

\* v1 alone signs what nobody else does; {v1, v2}, {v2, v3} and {v1, v3}
\* reach the threshold, no single voter does.
MCSignedBy ==
  MCRound :> {v1, v2, v3} @@ MCForgedRound :> {v1}
    @@ MCOtherProtocol :> {v2, v3} @@ MCLaterRound :> {v1, v3}
    @@ MCLoneRound :> {v1, v2}
MCNodes == {MCRoot, MCPair, MCLeaf(r1), MCLeaf(r2), MCLeaf(r3)}
MCForgedNodes == {MCForgedRoot, MCLeaf(forged), MCLeaf(r3)}
MCNodesOf ==
  MCRound :> MCNodes @@ MCForgedRound :> MCForgedNodes @@ MCOtherProtocol :> MCNodes
    @@ MCLaterRound :> MCForgedNodes @@ MCLoneRound :> {MCLeaf(r3)}

MCEntry(i, v, w) == [index |-> i, key |-> v, weight |-> w]
MCPolicy == 0 :> MCEntry(0, v1, 3) @@ 1 :> MCEntry(1, v2, 2) @@ 2 :> MCEntry(2, v3, 2)
\* The next epoch's policy lists its voters in another order.
MCNextPolicy == 0 :> MCEntry(0, v3, 2) @@ 1 :> MCEntry(1, v1, 3) @@ 2 :> MCEntry(2, v2, 2)
\* One voter in every leaf, and a leaf with the index of another.
MCOwnTree == 0 :> MCEntry(0, v1, 3) @@ 1 :> MCEntry(1, v1, 3) @@ 2 :> MCEntry(1, v1, 3)

MCPolicyTrees == {MCPolicy, MCOwnTree}
MCPolicyOf == 1 :> MCPolicy @@ 2 :> MCNextPolicy

\* Every level of the trees, and four levels that climb past a root.
MCClimbs ==
  {<<MCLeaf(r1), <<MCLeaf(r2)>>>>, <<MCLeaf(r2), <<MCLeaf(r1)>>>>,
   <<MCPair, <<MCLeaf(r3)>>>>, <<MCLeaf(r3), <<MCPair>>>>,
   <<MCLeaf(forged), <<MCLeaf(r3)>>>>, <<MCLeaf(r3), <<MCLeaf(forged)>>>>,
   <<MCLeaf(r1), <<MCLeaf(r2), MCLeaf(r3), MCPair, MCRoot>>>>}

\* Two transactions relayed round 7, one with more signatures than the other;
\* another protocol's; the next epoch's.
MCRelayCalls ==
  {[message |-> MCRound, epoch |-> 1, signatures |-> {0, 1}],
   [message |-> MCRound, epoch |-> 1, signatures |-> {0, 1, 2}],
   [message |-> MCOtherProtocol, epoch |-> 1, signatures |-> {1, 2}],
   [message |-> MCLaterRound, epoch |-> 2, signatures |-> {0, 1}],
   [message |-> MCLoneRound, epoch |-> 2, signatures |-> {1, 2}]}

\* What the DA layer answers to a request, in any round that it is asked for.
MCRequest1 == prepareRequest(t1, 2)
MCRequest3 == prepareRequest(t3, 1)
MCServed ==
  {[request |-> MCRequest1, response |-> r1, siblings |-> <<MCLeaf(r2), MCLeaf(r3)>>],
   [request |-> MCRequest3, response |-> r3, siblings |-> <<MCPair>>],
   [request |-> MCRequest3, response |-> r3, siblings |-> <<MCLeaf(forged)>>],
   [request |-> MCRequest3, response |-> forged, siblings |-> <<MCLeaf(r3)>>],
   [request |-> MCRequest3, response |-> r3, siblings |-> << >>]}

----------------------------------------------------------------------------
MCInit == Init /\ AttestInit

SegmentsStep == AttestInit /\ Next /\ UNCHANGED attestVars
AnyoneStep == Init /\ knownKeys = {} /\ AnyoneProves /\ UNCHANGED proofs
RelayerStep == Init /\ relayProofs \union pathProofs = {} /\ RelayerProves /\ UNCHANGED proofs

MCNext == SegmentsStep \/ AnyoneStep \/ RelayerStep

MCSpec == MCInit /\ [][MCNext]_<<proofs, attestVars>>
============================================================================
