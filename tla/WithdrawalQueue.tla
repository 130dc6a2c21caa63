--------------------------- MODULE WithdrawalQueue ---------------------------
(***************************************************************************)
(* What the return path promises, with no chain, attestation or proof in   *)
(* sight: a queue of requests, paid strictly in the order they were made,  *)
(* each once and in full, out of a fund that pays nothing else.            *)
(***************************************************************************)
EXTENDS Naturals, Sequences

CONSTANTS
  Recipients, Amounts,
  MaxOwed   \* bound on the requests that are followed

VARIABLES owed, paid, fund

Request == [recipient : Recipients, amount : Amounts]

Init == owed = << >> /\ paid = << >> /\ fund = 0

Deposit(amount) == /\ fund' = fund + amount
                   /\ UNCHANGED <<owed, paid>>

Ask(request) == /\ owed' = Append(owed, request)
                /\ UNCHANGED <<paid, fund>>

Pay == /\ Len(paid) < Len(owed)
       /\ LET request == owed[Len(paid) + 1]
          IN  /\ request.amount <= fund
              /\ paid' = Append(paid, request)
              /\ fund' = fund - request.amount
       /\ UNCHANGED owed

Next == \/ \E amount \in Amounts : Deposit(amount)
        \/ \E request \in Request : Ask(request)
        \/ Pay

vars == <<owed, paid, fund>>

(* Withdrawals are paid in burn order, each once, in full and only from     *)
(* what was deposited: every step of the return path is a step of this      *)
(* queue or changes nothing of it (TransferChain.sol 93-122,                *)
(* MinaPortBridge.ts 229-352).                                              *)
Safety == Init /\ [][Next]_vars

(* Every withdrawal is eventually paid.                                     *)
EveryRequestIsPaid ==
  \A n \in 1 .. MaxOwed : (Len(owed) >= n) ~> (Len(paid) >= n)
============================================================================
