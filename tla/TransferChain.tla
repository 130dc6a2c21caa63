--------------------------- MODULE TransferChain ---------------------------
(***************************************************************************)
(* The Flare contract TransferChain.sol: the single Poseidon chain that    *)
(* every Flare -> Mina transfer, of whatever asset, is folded into.        *)
(*                                                                         *)
(* Poseidon is taken to be collision free, so the head of a chain is       *)
(* modelled by what it commits to: the sequence of the records folded into *)
(* it.  The empty chain (field element 0 on both sides) is the empty       *)
(* sequence, and two heads are equal exactly when the same records were    *)
(* folded in the same order.                                               *)
(*                                                                         *)
(* The contract is a value here, a record of its three storage variables,  *)
(* because a bridge can be pointed at another deployment of it: the        *)
(* modules that own a chain (FlareBridge, ReturnPath) hold one such record *)
(* per deployment.                                                         *)
(***************************************************************************)
EXTENDS Naturals, Sequences

CONSTANTS
  Tokens,      \* Flare token addresses
  Appenders,   \* contracts that may be allowed to append
  MinaKeys,    \* Mina accounts: well-formed recipients
  MaxUint64    \* type(uint64).max

ASSUME MaxUint64Assumption == MaxUint64 \in Nat

\* What append folds.  The sender is emitted in the event and not folded.
TransferRecord ==
  [index : Nat, token : Tokens, recipient : MinaKeys, amount : Nat]

Heads == Seq(TransferRecord)

EmptyHead == << >>

\* One link: the Poseidon hash of the previous head and one record.
applyTransfer(state, record) == Append(state, record)

ChainState ==
  [head : Heads, nextIndex : Nat, mayAppend : SUBSET (Appenders \X Tokens)]

NewChain == [head |-> EmptyHead, nextIndex |-> 0, mayAppend |-> {}]

(***************************************************************************)
(* setAppender, called by the owner of the chain.                          *)
(***************************************************************************)
SetAppender(chain, appender, token, allowed) ==
  [chain EXCEPT !.mayAppend =
     IF allowed THEN @ \union {<<appender, token>>}
                ELSE @ \ {<<appender, token>>}]

(***************************************************************************)
(* append: the two reverts, and the state it leaves.                       *)
(***************************************************************************)
CanAppend(chain, appender, token, amount) ==
  /\ <<appender, token>> \in chain.mayAppend
  /\ amount <= MaxUint64

Appended(chain, token, recipient, amount) ==
  [chain EXCEPT
     !.nextIndex = @ + 1,
     !.head = applyTransfer(@, [index |-> chain.nextIndex, token |-> token,
                                recipient |-> recipient, amount |-> amount])]
============================================================================
