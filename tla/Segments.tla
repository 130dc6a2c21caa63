------------------------------ MODULE Segments ------------------------------
(***************************************************************************)
(* What a proof of the recursive program of TransferChain.ts says in its   *)
(* public output, and what its consumers (releaseWithdrawal in             *)
(* MinaPortBridge.ts, authorizeMint in AssetPort.ts) take it to mean.      *)
(***************************************************************************)
EXTENDS TransferChain, FiniteSets

CONSTANT NoKey   \* PublicKey.empty()

ASSUME NoKeyAssumption == NoKey \notin MinaKeys

ChainSegment ==
  [from : Heads, to : Heads, token : Tokens, found : BOOLEAN,
   firstRecipient : MinaKeys \union {NoKey}, firstAmount : Nat,
   stateAfterFirst : Heads]

\* A head extends another when its chain starts with the other's records.
Extends(to, from) ==
  /\ Len(from) <= Len(to)
  /\ \A k \in 1 .. Len(from) : to[k] = from[k]

\* Position i holds the first record of the token after the head from.
FirstOfToken(seg, i) ==
  /\ i \in (Len(seg.from) + 1) .. Len(seg.to)
  /\ seg.to[i].token = seg.token
  /\ \A j \in (Len(seg.from) + 1) .. (i - 1) : seg.to[j].token # seg.token

\* What a segment promises its consumer.
Faithful(seg) ==
  /\ Extends(seg.to, seg.from)
  /\ seg.found =>
       \E i \in 1 .. Len(seg.to) :
         /\ FirstOfToken(seg, i)
         /\ seg.firstRecipient = seg.to[i].recipient
         /\ seg.firstAmount = seg.to[i].amount
         /\ seg.stateAfterFirst = SubSeq(seg.to, 1, i)
  /\ ~seg.found =>
       \A j \in (Len(seg.from) + 1) .. Len(seg.to) :
         seg.to[j].token # seg.token

\* The faithful segments that find something (ChainSegmentsProofs shows that
\* every proof is faithful, whatever heads and records it was built from).
FoundSegment(from, to, token, i) ==
  [from |-> from, to |-> to, token |-> token, found |-> TRUE,
   firstRecipient |-> to[i].recipient, firstAmount |-> to[i].amount,
   stateAfterFirst |-> SubSeq(to, 1, i)]

\* The one a consumer of the token at one head can be handed, if there is any.
SegmentsFrom(from, to, token) ==
  IF ~Extends(to, from) THEN {}
  ELSE {s \in {FoundSegment(from, to, token, i) : i \in DOMAIN to} :
          \E i \in DOMAIN to : /\ s.stateAfterFirst = SubSeq(to, 1, i)
                               /\ FirstOfToken(s, i)}
============================================================================
