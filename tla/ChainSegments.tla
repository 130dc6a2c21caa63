--------------------------- MODULE ChainSegments ---------------------------
(***************************************************************************)
(* The recursive program of TransferChain.ts: proofs about a stretch of    *)
(* the shared chain, examined for one token.  A segment says where the     *)
(* stretch starts and ends, whether it holds a transfer of the token, and  *)
(* if so which is the first one and the head just after it.                *)
(*                                                                         *)
(* A proof exists exactly when one of the program's three methods produced *)
(* it, so the state is the set of segments proved so far, and each method  *)
(* is an action that adds one.  Nothing restricts who proves what: links   *)
(* start from any head and carry any record, merges may split a range      *)
(* anywhere.                                                               *)
(***************************************************************************)
EXTENDS Segments

CONSTANTS
  StartHeads,  \* heads a segment may be started from
  LinkRecords, \* records a link may be proved for
  MaxProofs    \* bound on the number of proofs

ASSUME SegmentAssumption ==
  /\ StartHeads \subseteq Heads
  /\ LinkRecords \subseteq TransferRecord
  /\ MaxProofs \in Nat

VARIABLE proofs

(***************************************************************************)
(* The public outputs of the three methods.                                *)
(***************************************************************************)
emptySegment(state, token) ==
  [from |-> state, to |-> state, token |-> token, found |-> FALSE,
   firstRecipient |-> NoKey, firstAmount |-> 0,
   stateAfterFirst |-> EmptyHead]

\* Altered linkSegment: a foreign record leaks into a segment that found nothing.
LeakyLink(state, token, record) ==
  LET to   == applyTransfer(state, record)
      mine == record.token = token
  IN  [from |-> state, to |-> to, token |-> token, found |-> mine,
       firstRecipient |-> record.recipient, firstAmount |-> record.amount,
       stateAfterFirst |-> IF mine THEN to ELSE EmptyHead]

linkSegment(state, token, record) ==
  LET to   == applyTransfer(state, record)
      mine == record.token = token
  IN  [from |-> state, to |-> to, token |-> token, found |-> mine,
       firstRecipient  |-> IF mine THEN record.recipient ELSE NoKey,
       firstAmount     |-> IF mine THEN record.amount ELSE 0,
       stateAfterFirst |-> IF mine THEN to ELSE EmptyHead]

CanMerge(a, b) == /\ a.to = b.from
                  /\ a.token = b.token

\* Altered mergeSegments: the upper side wins.
MergeUpper(a, b) ==
  [(IF b.found THEN b ELSE a) EXCEPT !.from = a.from, !.to = b.to]

mergeSegments(a, b) ==
  [from |-> a.from, to |-> b.to, token |-> a.token,
   found           |-> a.found \/ b.found,
   firstRecipient  |-> IF a.found THEN a.firstRecipient ELSE b.firstRecipient,
   firstAmount     |-> IF a.found THEN a.firstAmount ELSE b.firstAmount,
   stateAfterFirst |-> IF a.found THEN a.stateAfterFirst ELSE b.stateAfterFirst]

(***************************************************************************)
(* The state machine: the proofs somebody has produced.                    *)
(***************************************************************************)
Init == proofs = {}

Empty(state, token) == proofs' = proofs \union {emptySegment(state, token)}

Link(state, token, record) ==
  proofs' = proofs \union {linkSegment(state, token, record)}

Merge(lower, upper) ==
  /\ CanMerge(lower, upper)
  /\ proofs' = proofs \union {mergeSegments(lower, upper)}

\* Heads a link may start from: the given ones and those already reached.
KnownHeads == StartHeads \union {p.to : p \in proofs}

Next ==
  /\ Cardinality(proofs) < MaxProofs
  /\ \/ \E s \in KnownHeads, t \in Tokens : Empty(s, t)
     \/ \E s \in KnownHeads, t \in Tokens, r \in LinkRecords : Link(s, t, r)
     \/ \E a, b \in proofs : Merge(a, b)

Spec == Init /\ [][Next]_proofs

(***************************************************************************)
(* Properties.                                                             *)
(***************************************************************************)

\* Every proof is a well-formed public output of the program.
TypeOK == proofs \subseteq ChainSegment

\* However a range was split and merged, a proved segment names exactly the
\* first record of its token between its two heads, and a segment that found
\* nothing spans no record of the token: nothing of a consumer's own can be
\* stepped over (TransferChain.ts, "The problem one chain creates").
ProofsAreFaithful == \A seg \in proofs : Faithful(seg)

\* Two proofs of the same stretch for the same token have the same public
\* output, whatever their proof trees: the zeroed tail of a segment that found
\* nothing makes merges deterministic.
ProofsAreDeterministic ==
  \A p, q \in proofs :
    (p.from = q.from /\ p.to = q.to /\ p.token = q.token) => p = q
============================================================================
