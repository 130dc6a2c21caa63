---------------------------- MODULE MinaAccounts ----------------------------
(***************************************************************************)
(* Accounts on Flare that Mina keys own: MinaAuthRegistry.sol, which       *)
(* checks an authorisation and consumes its nonce, and MinaAccount.sol,    *)
(* which makes the calls it authorises.  One registry serves every         *)
(* account, and counts nonces per key.                                     *)
(*                                                                         *)
(* Anyone submits anything that was ever signed, in any order.  A contract *)
(* that an account calls may call accounts back before it returns, so what *)
(* runs is a stack of executions.  A call that fails undoes its execution  *)
(* and everything made inside it, the nonces included; the contract that   *)
(* called back survives the failure of what it called.                     *)
(***************************************************************************)
EXTENDS Integers, Sequences

CONSTANTS
  Keys, Accounts, KeyOf,    \* KeyOf: MINA_KEY of each account
  Calls, Hooks,             \* Hooks: calls whose target calls back
  Signatures,               \* everything that is ever signed
  ChainId,
  MaxTime,
  MaxDepth                  \* bound on executions inside executions

ACCOUNT_CALL == "ACCOUNT_CALL"
ACCOUNT_BATCH == "ACCOUNT_BATCH"

\* What a key signs: encodeAuthorization, with the calls in the place of the
\* hash that commits to them and to their order.
Signature ==
  [key : Keys, purpose : {ACCOUNT_CALL, ACCOUNT_BATCH}, chainId : STRING,
   target : Accounts, calls : Seq(Calls), nonce : Nat, expiry : Nat]

ASSUME MinaAccountsAssumption ==
  /\ Signatures \subseteq Signature
  /\ KeyOf \in [Accounts -> Keys] /\ Hooks \subseteq Calls
  /\ MaxTime \in Nat /\ MaxDepth \in Nat

VARIABLES
  nextNonce,   \* the registry's
  deployed,    \* accounts whose contract exists
  time,
  stack,       \* the executions in progress, the innermost last
  made         \* history: how many calls were made for each signature

vars == <<nextNonce, deployed, time, stack, made>>

Top == stack[Len(stack)]

\* An execution: the call it is at, whether that call has called out and not
\* returned, and what is restored if it fails.
Execution(s) ==
  [signature |-> s, at |-> 1, calling |-> FALSE, nonces |-> nextNonce, before |-> made]

Executions ==
  [signature : Signatures, at : Nat, calling : BOOLEAN,
   nonces : [Keys -> Nat], before : [Signatures -> Nat]]

TypeOK ==
  /\ nextNonce \in [Keys -> Nat]
  /\ deployed \in SUBSET Accounts
  /\ time \in 0 .. MaxTime
  /\ stack \in Seq(Executions)
  /\ made \in [Signatures -> Nat]

Init ==
  /\ nextNonce = [k \in Keys |-> 0]
  /\ deployed = {} /\ time = 0
  /\ stack = << >>
  /\ made = [s \in Signatures |-> 0]

----------------------------------------------------------------------------

\* A transaction begins at the bottom, and a contract that was called goes on.
Entered == stack = << >> \/ (stack # << >> /\ Top.calling)

Wait ==
  /\ stack = << >> /\ time < MaxTime
  /\ time' = time + 1
  /\ UNCHANGED <<nextNonce, deployed, stack, made>>

\* MinaAccountFactory: anyone deploys the account of a key.
deploy(account) ==
  /\ stack = << >> /\ account \notin deployed
  /\ deployed' = deployed \union {account}
  /\ UNCHANGED <<nextNonce, time, stack, made>>

\* Altered Consumable: a nonce that was passed is accepted.
ConsumablePassed(s, caller, purpose) ==
  /\ s.chainId = ChainId /\ s.target = caller /\ s.expiry >= time
  /\ s.nonce <= nextNonce[s.key]
  /\ s.purpose = purpose

\* consume: the checks, of which the last is the signature's over the purpose
\* the caller names.
Consumable(s, caller, purpose) ==
  /\ s.chainId = ChainId /\ s.target = caller /\ s.expiry >= time
  /\ s.nonce = nextNonce[s.key]
  /\ s.purpose = purpose

\* Altered consume: the nonce is left for later.
ConsumeNothing(s) == UNCHANGED nextNonce

consume(s) == nextNonce' = [nextNonce EXCEPT ![s.key] = @ + 1]

\* What execute and executeBatch share.
Run(account, s, purpose) ==
  /\ Entered /\ Len(stack) < MaxDepth
  /\ account \in deployed
  /\ s.key = KeyOf[account]
  /\ Consumable(s, account, purpose)
  /\ consume(s)
  /\ stack' = Append(stack, Execution(s))
  /\ UNCHANGED <<deployed, time, made>>

execute(account, s) == Len(s.calls) = 1 /\ Run(account, s, ACCOUNT_CALL)

executeBatch(account, s) == s.calls # << >> /\ Run(account, s, ACCOUNT_BATCH)

Moved(e) == [e EXCEPT !.at = e.at + 1]

\* The execution makes its next call, which a hook does not return from yet.
CallOut ==
  /\ stack # << >> /\ ~Top.calling /\ Top.at <= Len(Top.signature.calls)
  /\ made' = [made EXCEPT ![Top.signature] = @ + 1]
  /\ stack' = [stack EXCEPT ![Len(stack)] =
       IF Top.signature.calls[Top.at] \in Hooks THEN [Top EXCEPT !.calling = TRUE]
       ELSE Moved(Top)]
  /\ UNCHANGED <<nextNonce, deployed, time>>

CallReturns ==
  /\ stack # << >> /\ Top.calling
  /\ stack' = [stack EXCEPT ![Len(stack)] = Moved([Top EXCEPT !.calling = FALSE])]
  /\ UNCHANGED <<nextNonce, deployed, time, made>>

Drop1 == stack' = SubSeq(stack, 1, Len(stack) - 1)

\* Altered CallFails: the calls that were made stay made.
FailWithoutUndo ==
  /\ stack # << >> /\ Top.at <= Len(Top.signature.calls)
  /\ Drop1
  /\ nextNonce' = Top.nonces
  /\ UNCHANGED <<deployed, time, made>>

\* CallFailed and CallFailedAt.
CallFails ==
  /\ stack # << >> /\ Top.at <= Len(Top.signature.calls)
  /\ Drop1
  /\ nextNonce' = Top.nonces /\ made' = Top.before
  /\ UNCHANGED <<deployed, time>>

Finish ==
  /\ stack # << >> /\ ~Top.calling /\ Top.at > Len(Top.signature.calls)
  /\ Drop1
  /\ UNCHANGED <<nextNonce, deployed, time, made>>

Next ==
  \/ Wait
  \/ \E account \in Accounts : deploy(account)
  \/ \E account \in Accounts, s \in Signatures :
       execute(account, s) \/ executeBatch(account, s)
  \/ CallOut \/ CallReturns \/ CallFails \/ Finish

Spec == Init /\ [][Next]_vars

----------------------------------------------------------------------------
(* Properties.                                                             *)

\* The inductive invariant: what holds of the nonces n and the calls made m
\* with the first k executions of st in progress, now and of what each
\* execution would restore.
CallsOf(e) == e.at - 1 + (IF e.calling THEN 1 ELSE 0)
RunningIn(st, k, s) == \E i \in 1 .. k : st[i].signature = s
Begun(m, st, k, s) == m[s] # 0 \/ RunningIn(st, k, s)

NoncesPassed(n, m) == \A s \in Signatures : m[s] # 0 => s.nonce < n[s.key]

InProgress(e, n, m) ==
  /\ e.signature.nonce < n[e.signature.key]
  /\ m[e.signature] = CallsOf(e)
  /\ e.at \in 1 .. Len(e.signature.calls) + 1
  /\ e.calling => e.at <= Len(e.signature.calls)

AllDistinct(st, k) == \A i, j \in 1 .. k : i # j => st[i].signature # st[j].signature

Complete(m, st, k) ==
  \A s \in Signatures : ~RunningIn(st, k, s) => m[s] \in {0, Len(s.calls)}

Replaced(m, st, k) ==
  \A s, t \in Signatures :
    s # t /\ s.key = t.key /\ s.nonce = t.nonce =>
      ~Begun(m, st, k, s) \/ ~Begun(m, st, k, t)

Consistent(n, m, st, k) ==
  /\ NoncesPassed(n, m) /\ AllDistinct(st, k)
  /\ \A i \in 1 .. k : InProgress(st[i], n, m)
  /\ Complete(m, st, k) /\ Replaced(m, st, k)

ConsistentNow == Consistent(nextNonce, made, stack, Len(stack))
ConsistentOnceUndone ==
  \A i \in 1 .. Len(stack) : Consistent(stack[i].nonces, stack[i].before, stack, i - 1)

IInv == TypeOK /\ ConsistentNow /\ ConsistentOnceUndone

Running(s) == \E i \in DOMAIN stack : stack[i].signature = s

\* What was signed is carried out once and in full or not at all, whoever
\* submits it, however often, and whatever the calls call back (MinaAccount
\* execute: a reentrant call cannot replay the same authorization;
\* executeBatch: a failure anywhere reverts the whole batch).
OnceInFullOrNotAtAll ==
  \A s \in Signatures : ~Running(s) => made[s] \in {0, Len(s.calls)}

\* Of two things a key signed with one nonce, one at most is carried out: a
\* replacement is how a signature is revoked (MinaAuthRegistry nextNonce).
OnePerNonce ==
  \A s, t \in Signatures :
    s # t /\ s.key = t.key /\ s.nonce = t.nonce => made[s] = 0 \/ made[t] = 0
=============================================================================
