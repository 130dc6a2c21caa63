--------------------------- MODULE AccountsProofs ---------------------------
(***************************************************************************)
(* Whatever is signed, submitted and called back, an authorisation is      *)
(* carried out once and in full or not at all; and what a page is told     *)
(* came true.                                                              *)
(*                                                                         *)
(* What fails restores what held when it began, so the invariant is one    *)
(* statement, made of the present and of what every execution in progress  *)
(* would restore.  A step changes the present, and keeps or pops what is   *)
(* restored.                                                               *)
(*                                                                         *)
(* Pages and relayer only use accounts as anyone may, so what is proved of *)
(* MinaAccounts holds among them; and what a page is told came true stays  *)
(* true, since a signature that was carried out is never carried out again *)
(* and no execution in progress would undo it.                             *)
(***************************************************************************)
EXTENDS AccountPages, TLAPS, SequenceTheorems

\* Consistent looks at the first k executions only.
LEMMA SamePrefix ==
  ASSUME NEW n, NEW m, NEW st, NEW st2, NEW k \in Nat,
         \A i \in 1 .. k : st[i] = st2[i],
         Consistent(n, m, st, k)
  PROVE  Consistent(n, m, st2, k)
<1>1. \A s : RunningIn(st2, k, s) <=> RunningIn(st, k, s)
  BY DEF RunningIn
<1>2. \A s : Begun(m, st2, k, s) <=> Begun(m, st, k, s)
  BY <1>1 DEF Begun
<1> QED
  BY <1>1, <1>2 DEF Consistent, AllDistinct, Complete, Replaced

\* An execution in progress has the type of one.
LEMMA ExecutionTyped ==
  ASSUME TypeOK, NEW i \in 1 .. Len(stack)
  PROVE  /\ stack[i] \in Executions
         /\ stack[i].signature \in Signatures /\ stack[i].at \in Nat
         /\ stack[i].calling \in BOOLEAN
         /\ stack[i].nonces \in [Keys -> Nat] /\ stack[i].before \in [Signatures -> Nat]
<1>1. stack[i] \in Executions
  BY DEF TypeOK
<1> QED
  BY <1>1 DEF Executions

\* The executions below the innermost restore what they restored.
LEMMA PrefixUndone ==
  ASSUME TypeOK, ConsistentOnceUndone, NEW k \in Nat, k <= Len(stack),
         \A i \in 1 .. k : stack'[i].nonces = stack[i].nonces
                        /\ stack'[i].before = stack[i].before,
         \A i \in 1 .. k - 1 : stack'[i] = stack[i]
  PROVE  \A i \in 1 .. k : Consistent(stack'[i].nonces, stack'[i].before, stack', i - 1)
<1> TAKE i \in 1 .. k
<1>1. Consistent(stack[i].nonces, stack[i].before, stack, i - 1)
  BY DEF ConsistentOnceUndone, TypeOK
<1>2. i - 1 \in Nat /\ \A j \in 1 .. i - 1 : stack[j] = stack'[j]
  OBVIOUS
<1>3. Consistent(stack[i].nonces, stack[i].before, stack', i - 1)
  BY <1>1, <1>2, SamePrefix
<1> QED
  BY <1>3

THEOREM InitIInv == Init => IInv
BY MinaAccountsAssumption DEF Init, IInv, TypeOK, ConsistentNow, ConsistentOnceUndone, Consistent,
   NoncesPassed, AllDistinct, Complete, Replaced, RunningIn, Begun, Signature

----------------------------------------------------------------------------

\* Going on to the next call changes nothing else of an execution.
LEMMA MovedTyped ==
  ASSUME NEW e \in Executions
  PROVE  /\ Moved(e) \in Executions /\ Moved(e).at = e.at + 1
         /\ Moved(e).signature = e.signature /\ Moved(e).calling = e.calling
         /\ Moved(e).nonces = e.nonces /\ Moved(e).before = e.before
BY DEF Executions, Moved

LEMMA RunIInv ==
  ASSUME IInv, NEW account \in Accounts, NEW s \in Signatures, NEW purpose,
         Run(account, s, purpose)
  PROVE  IInv'
<1> DEFINE k == Len(stack)
<1>0. \A t \in Signatures : t.key \in Keys /\ t.nonce \in Nat /\ Len(t.calls) \in Nat
  BY MinaAccountsAssumption DEF Signature
<1>a. /\ TypeOK /\ ConsistentOnceUndone
      /\ NoncesPassed(nextNonce, made) /\ AllDistinct(stack, k)
      /\ \A i \in 1 .. k : InProgress(stack[i], nextNonce, made)
      /\ Complete(made, stack, k) /\ Replaced(made, stack, k)
  BY DEF IInv, ConsistentNow, Consistent
<1>1. /\ k \in Nat /\ Len(stack') = k + 1
      /\ \A i \in 1 .. k : stack'[i] = stack[i]
      /\ stack'[k + 1] = Execution(s)
      /\ nextNonce' = [nextNonce EXCEPT ![s.key] = @ + 1]
      /\ UNCHANGED <<deployed, time, made>>
      /\ s.nonce = nextNonce[s.key]
  BY <1>a DEF Run, consume, Consumable, TypeOK
<1>2. TypeOK'
  <2>1. Execution(s) \in Executions
    BY <1>a DEF Execution, Executions, TypeOK
  <2>2. nextNonce' \in [Keys -> Nat]
    BY <1>0, <1>1, <1>a DEF TypeOK
  <2> QED
    BY <1>1, <1>a, <2>1, <2>2 DEF Run, TypeOK
<1>3. \A i \in 1 .. k : stack[i].signature \in Signatures
  BY <1>a, ExecutionTyped
<1>4. \A i \in 1 .. k : stack[i].signature.nonce < nextNonce[stack[i].signature.key]
  BY <1>a DEF InProgress
<1>5. \A t \in Signatures : t.key = s.key /\ t.nonce = s.nonce => ~Begun(made, stack, k, t)
  <2> SUFFICES ASSUME NEW t \in Signatures, t.key = s.key, t.nonce = s.nonce
               PROVE  ~Begun(made, stack, k, t)
    OBVIOUS
  <2>1. ~(t.nonce < nextNonce[t.key])
    BY <1>0, <1>1, <1>a DEF TypeOK
  <2>2. made[t] = 0
    BY <2>1, <1>a DEF NoncesPassed
  <2>3. ~RunningIn(stack, k, t)
    BY <2>1, <1>4 DEF RunningIn
  <2> QED
    BY <2>2, <2>3 DEF Begun
<1>6. made[s] = 0 /\ ~RunningIn(stack, k, s)
  BY <1>5 DEF Begun
<1>7. \A x \in Keys : /\ nextNonce[x] \in Nat /\ nextNonce'[x] \in Nat
                      /\ nextNonce[x] <= nextNonce'[x]
  BY <1>0, <1>1, <1>a DEF TypeOK
<1>8. \A t : RunningIn(stack', k + 1, t) <=> (RunningIn(stack, k, t) \/ t = s)
  <2>1. stack'[k + 1].signature = s
    BY <1>1 DEF Execution
  <2>2. \A i \in 1 .. k + 1 : i = k + 1 \/ i \in 1 .. k
    BY <1>1
  <2>3. k + 1 \in 1 .. k + 1 /\ \A i \in 1 .. k : i \in 1 .. k + 1
    BY <1>1
  <2> QED
    BY <1>1, <2>1, <2>2, <2>3 DEF RunningIn
<1>9. Consistent(nextNonce', made', stack', k + 1)
  <2>1. NoncesPassed(nextNonce', made')
    <3> SUFFICES ASSUME NEW t \in Signatures, made[t] # 0 PROVE t.nonce < nextNonce'[t.key]
      BY <1>1 DEF NoncesPassed
    <3>1. t.nonce < nextNonce[t.key]
      BY <1>a DEF NoncesPassed
    <3> QED
      BY <3>1, <1>0, <1>7
  <2>2. InProgress(Execution(s), nextNonce', made')
    <3>1. s.nonce < nextNonce'[s.key]
      BY <1>0, <1>1, <1>a DEF TypeOK
    <3>2. made'[s] = 0
      BY <1>1, <1>6
    <3> QED
      BY <3>1, <3>2, <1>0 DEF InProgress, Execution, CallsOf
  <2>3. ASSUME NEW i \in 1 .. k PROVE InProgress(stack[i], nextNonce', made')
    <3>1. InProgress(stack[i], nextNonce, made) /\ stack[i].signature \in Signatures
      BY <1>a, <1>3
    <3>2. stack[i].signature.nonce < nextNonce'[stack[i].signature.key]
      BY <1>0, <1>3, <1>4, <1>7
    <3> QED
      BY <3>1, <3>2, <1>1 DEF InProgress
  <2>4. \A i \in 1 .. k + 1 : InProgress(stack'[i], nextNonce', made')
    <3> TAKE i \in 1 .. k + 1
    <3>1. i = k + 1 \/ i \in 1 .. k
      BY <1>1
    <3> QED
      BY <3>1, <1>1, <2>2, <2>3
  <2>5. AllDistinct(stack', k + 1)
    <3> SUFFICES ASSUME NEW i \in 1 .. k + 1, NEW j \in 1 .. k + 1, i # j
                 PROVE  stack'[i].signature # stack'[j].signature
      BY DEF AllDistinct
    <3>1. \A h \in 1 .. k : stack'[h].signature # s
      BY <1>1, <1>6 DEF RunningIn
    <3>2. stack'[k + 1].signature = s
      BY <1>1 DEF Execution
    <3>3. i \in 1 .. k /\ j \in 1 .. k => stack[i].signature # stack[j].signature
      BY <1>a DEF AllDistinct
    <3>4. (i = k + 1 \/ i \in 1 .. k) /\ (j = k + 1 \/ j \in 1 .. k)
      BY <1>1
    <3> QED
      BY <3>1, <3>2, <3>3, <3>4, <1>1
  <2>6. Complete(made', stack', k + 1)
    BY <1>1, <1>8, <1>a DEF Complete
  <2>7. Replaced(made', stack', k + 1)
    <3>1. \A t \in Signatures :
            Begun(made', stack', k + 1, t) <=> (Begun(made, stack, k, t) \/ t = s)
      BY <1>1, <1>8 DEF Begun
    <3> QED
      BY <3>1, <1>5, <1>a DEF Replaced
  <2> QED
    BY <2>1, <2>4, <2>5, <2>6, <2>7 DEF Consistent
<1>10. ConsistentOnceUndone'
  <2>1. Consistent(nextNonce, made, stack', k)
    BY <1>1, SamePrefix DEF IInv, ConsistentNow
  <2>2. Consistent(stack'[k + 1].nonces, stack'[k + 1].before, stack', k)
    BY <1>1, <2>1 DEF Execution
  <2>3. \A i \in 1 .. k : Consistent(stack'[i].nonces, stack'[i].before, stack', i - 1)
    <3>1. /\ k <= Len(stack)
          /\ \A i \in 1 .. k : stack'[i].nonces = stack[i].nonces
                           /\ stack'[i].before = stack[i].before
          /\ \A i \in 1 .. k - 1 : stack'[i] = stack[i]
      BY <1>1
    <3> HIDE DEF k
    <3> QED
      BY <3>1, <1>1, <1>a, PrefixUndone
  <2>4. \A i \in 1 .. k + 1 : i = k + 1 \/ i \in 1 .. k
    BY <1>1
  <2>5. (k + 1) - 1 = k
    BY <1>1
  <2> QED
    BY <1>1, <2>2, <2>3, <2>4, <2>5 DEF ConsistentOnceUndone
<1> QED
  BY <1>1, <1>2, <1>9, <1>10 DEF IInv, ConsistentNow

\* A step of the innermost execution: it makes a call, or a call returns.
LEMMA InnermostIInv ==
  ASSUME IInv, CallOut \/ CallReturns
  PROVE  IInv'
<1> DEFINE k == Len(stack)
           s == stack[k].signature
<1>0. \A t \in Signatures : t.key \in Keys /\ t.nonce \in Nat /\ Len(t.calls) \in Nat
  BY MinaAccountsAssumption DEF Signature
<1>a. /\ TypeOK /\ ConsistentOnceUndone
      /\ NoncesPassed(nextNonce, made) /\ AllDistinct(stack, k)
      /\ \A i \in 1 .. k : InProgress(stack[i], nextNonce, made)
      /\ Complete(made, stack, k) /\ Replaced(made, stack, k)
  BY DEF IInv, ConsistentNow, Consistent
<1>1. /\ k \in Nat /\ k > 0 /\ k \in 1 .. k /\ k \in DOMAIN stack
      /\ s \in Signatures /\ Len(s.calls) \in Nat
      /\ stack[k].at \in Nat /\ stack[k].calling \in BOOLEAN
  <2>1. stack # << >> /\ stack \in Seq(Executions)
    BY <1>a DEF CallOut, CallReturns, TypeOK
  <2>2. k \in Nat /\ k > 0 /\ k \in 1 .. k /\ k \in DOMAIN stack
    BY <2>1
  <2> QED
    BY <2>2, <1>0, <1>a, ExecutionTyped
<1>2. InProgress(stack[k], nextNonce, made)
  BY <1>1, <1>a
<1>3. PICK e \in Executions :
        /\ stack' = [stack EXCEPT ![k] = e]
        /\ e.signature = s /\ e.nonces = stack[k].nonces /\ e.before = stack[k].before
        /\ e.at \in 1 .. Len(s.calls) + 1
        /\ e.calling => e.at <= Len(s.calls)
        /\ made' = [made EXCEPT ![s] = CallsOf(e)]
  <2>1. stack[k] \in Executions
    BY <1>1, <1>a, ExecutionTyped
  <2>2. made[s] = CallsOf(stack[k]) /\ stack[k].at \in 1 .. Len(s.calls) + 1
    BY <1>2 DEF InProgress
  <2>3. CASE CallOut
    <3>1. /\ stack[k].calling = FALSE /\ stack[k].at <= Len(s.calls)
          /\ made' = [made EXCEPT ![s] = made[s] + 1]
          /\ \/ stack' = [stack EXCEPT ![k] = [stack[k] EXCEPT !.calling = TRUE]]
             \/ stack' = [stack EXCEPT ![k] = [stack[k] EXCEPT !.at = stack[k].at + 1]]
      BY <2>3, <1>1 DEF CallOut, Top, Moved
    <3>2. made[s] = stack[k].at - 1
      BY <2>2, <3>1 DEF CallsOf
    <3>3. CASE stack' = [stack EXCEPT ![k] = [stack[k] EXCEPT !.calling = TRUE]]
      <4> DEFINE e == [stack[k] EXCEPT !.calling = TRUE]
      <4>1. /\ e \in Executions /\ e.signature = s /\ e.at = stack[k].at
            /\ e.calling = TRUE /\ e.nonces = stack[k].nonces /\ e.before = stack[k].before
        BY <2>1 DEF Executions
      <4>2. stack' = [stack EXCEPT ![k] = e]
        BY <3>3
      <4> HIDE DEF e
      <4>3. CallsOf(e) = made[s] + 1
        BY <4>1, <3>2, <1>1 DEF CallsOf
      <4> QED
        BY <4>1, <4>2, <4>3, <2>2, <3>1
    <3>4. CASE stack' = [stack EXCEPT ![k] = [stack[k] EXCEPT !.at = stack[k].at + 1]]
      <4> DEFINE e == Moved(stack[k])
      <4>1. /\ e \in Executions /\ e.signature = s /\ e.at = stack[k].at + 1
            /\ e.calling = FALSE /\ e.nonces = stack[k].nonces /\ e.before = stack[k].before
        BY <2>1, <3>1, MovedTyped
      <4>2. stack' = [stack EXCEPT ![k] = e]
        BY <3>4 DEF Moved
      <4> HIDE DEF e
      <4>3. CallsOf(e) = made[s] + 1
        BY <4>1, <3>2, <1>1 DEF CallsOf
      <4>4. e.at \in 1 .. Len(s.calls) + 1
        BY <4>1, <2>2, <3>1, <1>1
      <4> QED
        BY <4>1, <4>2, <4>3, <4>4, <3>1
    <3>5. \/ stack' = [stack EXCEPT ![k] = [stack[k] EXCEPT !.calling = TRUE]]
          \/ stack' = [stack EXCEPT ![k] = [stack[k] EXCEPT !.at = stack[k].at + 1]]
      BY <3>1
    <3> QED
      BY ONLY <3>3, <3>4, <3>5
  <2>4. CASE CallReturns
    <3> DEFINE f == [stack[k] EXCEPT !.calling = FALSE]
               e == Moved(f)
    <3>1. stack[k].calling = TRUE /\ made' = made /\ stack' = [stack EXCEPT ![k] = e]
      BY <2>4, <1>1 DEF CallReturns, Top
    <3>2. stack[k].at <= Len(s.calls)
      BY <3>1, <1>2 DEF InProgress
    <3>3. /\ e \in Executions /\ e.signature = s /\ e.at = stack[k].at + 1
          /\ e.calling = FALSE /\ e.nonces = stack[k].nonces /\ e.before = stack[k].before
      <4>1. /\ f \in Executions /\ f.signature = s /\ f.at = stack[k].at
            /\ f.calling = FALSE /\ f.nonces = stack[k].nonces /\ f.before = stack[k].before
        BY <1>1, <2>1 DEF Executions
      <4> HIDE DEF f
      <4> QED
        BY <4>1, MovedTyped
    <3> HIDE DEF e
    <3>4. CallsOf(e) = made[s]
      BY <1>1, <2>2, <3>1, <3>3 DEF CallsOf
    <3>5. made' = [made EXCEPT ![s] = CallsOf(e)]
      BY <3>1, <3>4, <1>a DEF TypeOK
    <3>6. e.at \in 1 .. Len(s.calls) + 1
      BY <3>3, <2>2, <3>2, <1>1
    <3> QED
      BY <3>1, <3>3, <3>5, <3>6
  <2> QED
    BY <2>3, <2>4
<1>4. /\ stack' \in Seq(Executions)
      /\ Len(stack') = k /\ stack'[k] = e
      /\ \A i \in 1 .. k : i # k => stack'[i] = stack[i]
  BY <1>1, <1>3, <1>a DEF TypeOK
<1>5. /\ CallsOf(e) \in Nat
      /\ made' \in [Signatures -> Nat] /\ made'[s] = CallsOf(e)
      /\ \A t \in Signatures : t # s => made'[t] = made[t]
  <2>1. CallsOf(e) \in Nat
    BY <1>1, <1>3 DEF CallsOf, Executions
  <2> QED
    BY <2>1, <1>1, <1>3, <1>a DEF TypeOK
<1>6. UNCHANGED <<nextNonce, deployed, time>>
  BY DEF CallOut, CallReturns
<1>7. TypeOK'
  BY <1>4, <1>5, <1>6, <1>a DEF TypeOK
<1>8. \A i \in 1 .. k : stack'[i].signature = stack[i].signature
  BY <1>3, <1>4
<1>9. \A t : RunningIn(stack', k, t) <=> RunningIn(stack, k, t)
  BY <1>8 DEF RunningIn
<1>10. RunningIn(stack, k, s)
  BY <1>1 DEF RunningIn
<1>11. Consistent(nextNonce', made', stack', k)
  <2>1. NoncesPassed(nextNonce', made')
    <3>1. s.nonce < nextNonce[s.key]
      BY <1>2 DEF InProgress
    <3> QED
      BY <3>1, <1>5, <1>6, <1>a DEF NoncesPassed
  <2>2. InProgress(e, nextNonce', made')
    BY <1>2, <1>3, <1>5, <1>6 DEF InProgress
  <2>3. ASSUME NEW i \in 1 .. k, i # k PROVE InProgress(stack[i], nextNonce', made')
    <3>1. stack[i].signature \in Signatures /\ stack[i].signature # s
      BY <2>3, <1>1, <1>a, ExecutionTyped DEF AllDistinct
    <3>2. InProgress(stack[i], nextNonce, made)
      BY <1>a
    <3> QED
      BY <3>1, <3>2, <1>5, <1>6 DEF InProgress
  <2>4. \A i \in 1 .. k : InProgress(stack'[i], nextNonce', made')
    BY <2>2, <2>3, <1>4
  <2>5. AllDistinct(stack', k)
    BY <1>8, <1>a DEF AllDistinct
  <2>6. Complete(made', stack', k)
    BY <1>5, <1>9, <1>10, <1>a DEF Complete
  <2>7. Replaced(made', stack', k)
    <3>1. \A t \in Signatures : Begun(made', stack', k, t) => Begun(made, stack, k, t)
      BY <1>5, <1>9, <1>10 DEF Begun
    <3> QED
      BY <3>1, <1>a DEF Replaced
  <2> QED
    BY <2>1, <2>4, <2>5, <2>6, <2>7 DEF Consistent
<1>12. \A i \in 1 .. k : stack'[i].nonces = stack[i].nonces /\ stack'[i].before = stack[i].before
  BY <1>3, <1>4
<1>13. \A i \in 1 .. k - 1 : stack'[i] = stack[i]
  BY <1>1, <1>4
<1>14. ConsistentOnceUndone'
  <2>1. k <= Len(stack)
    BY <1>1
  <2> HIDE DEF k
  <2>2. \A i \in 1 .. k : Consistent(stack'[i].nonces, stack'[i].before, stack', i - 1)
    BY <1>1, <2>1, <1>12, <1>13, <1>a, PrefixUndone
  <2> QED
    BY <2>2, <1>4 DEF ConsistentOnceUndone
<1> QED
  BY <1>4, <1>7, <1>11, <1>14 DEF IInv, ConsistentNow

LEMMA PoppedIsTyped ==
  ASSUME TypeOK, stack # << >>, Drop1
  PROVE  /\ Len(stack) \in Nat /\ Len(stack) > 0
         /\ Len(stack') = Len(stack) - 1
         /\ \A i \in 1 .. Len(stack) - 1 : stack'[i] = stack[i]
         /\ stack' \in Seq(Executions)
         /\ stack[Len(stack)] \in Executions
         /\ Len(stack) \in 1 .. Len(stack)
<1>1. stack \in Seq(Executions) /\ stack # << >>
  BY DEF TypeOK
<1>2. /\ Len(stack) \in Nat /\ Len(stack) > 0 /\ Len(stack) \in 1 .. Len(stack)
      /\ stack[Len(stack)] \in Executions
  BY <1>1
<1>3. \A i \in 1 .. Len(stack) - 1 : i \in 1 .. Len(stack) /\ stack[i] \in Executions
  BY <1>1, <1>2
<1>4. stack' = [i \in 1 .. Len(stack) - 1 |-> stack[i]]
  BY <1>1, <1>2 DEF Drop1
<1> QED
  BY <1>2, <1>3, <1>4

\* Popping leaves what the executions below would restore.
LEMMA PopUndone ==
  ASSUME TypeOK, ConsistentOnceUndone, stack # << >>, Drop1
  PROVE  ConsistentOnceUndone'
<1> DEFINE k == Len(stack) - 1
<1>1. /\ k \in Nat /\ k <= Len(stack) /\ Len(stack') = k
      /\ \A i \in 1 .. k : stack'[i] = stack[i]
  BY PoppedIsTyped
<1>2. \A i \in 1 .. k - 1 : stack'[i] = stack[i]
  BY <1>1
<1> HIDE DEF k
<1>3. \A i \in 1 .. k : Consistent(stack'[i].nonces, stack'[i].before, stack', i - 1)
  BY <1>1, <1>2, PrefixUndone
<1> QED
  BY <1>1, <1>3 DEF ConsistentOnceUndone

LEMMA CallFailsIInv == ASSUME IInv, CallFails PROVE IInv'
<1> DEFINE k == Len(stack)
<1>1. /\ k \in Nat /\ k > 0 /\ Len(stack') = k - 1 /\ k - 1 \in Nat
      /\ \A i \in 1 .. k - 1 : stack'[i] = stack[i]
  BY PoppedIsTyped DEF CallFails, IInv
<1>2. nextNonce' = stack[k].nonces /\ made' = stack[k].before
  BY DEF CallFails, Top
<1>3. TypeOK'
  <2>1. nextNonce' \in [Keys -> Nat] /\ made' \in [Signatures -> Nat]
    BY <1>2, PoppedIsTyped, ExecutionTyped DEF CallFails, IInv
  <2> QED
    BY <2>1, PoppedIsTyped DEF CallFails, IInv, TypeOK
<1>4. Consistent(nextNonce', made', stack, k - 1)
  BY <1>1, <1>2 DEF IInv, ConsistentOnceUndone
<1>5. Consistent(nextNonce', made', stack', k - 1)
  BY <1>1, <1>4, SamePrefix
<1>6. ConsistentOnceUndone'
  BY PopUndone DEF CallFails, IInv
<1> QED
  BY <1>1, <1>3, <1>5, <1>6 DEF IInv, ConsistentNow

LEMMA FinishIInv == ASSUME IInv, Finish PROVE IInv'
<1> DEFINE k == Len(stack)
           s == stack[k].signature
<1>a. /\ TypeOK /\ ConsistentOnceUndone
      /\ NoncesPassed(nextNonce, made) /\ AllDistinct(stack, k)
      /\ \A i \in 1 .. k : InProgress(stack[i], nextNonce, made)
      /\ Complete(made, stack, k) /\ Replaced(made, stack, k)
  BY DEF IInv, ConsistentNow, Consistent
<1>1. /\ k \in Nat /\ k > 0 /\ Len(stack') = k - 1 /\ k - 1 \in Nat
      /\ \A i \in 1 .. k - 1 : stack'[i] = stack[i]
      /\ UNCHANGED <<nextNonce, deployed, time, made>>
  BY PoppedIsTyped, <1>a DEF Finish
<1>2. s \in Signatures /\ Len(s.calls) \in Nat
  BY PoppedIsTyped, ExecutionTyped, <1>a, MinaAccountsAssumption DEF Finish, Signature
<1>3. made[s] = Len(s.calls)
  <2>1. InProgress(stack[k], nextNonce, made)
    BY <1>1, <1>a
  <2>2. ~stack[k].calling /\ stack[k].at > Len(s.calls)
    BY DEF Finish, Top
  <2>3. stack[k].at = Len(s.calls) + 1
    BY <2>1, <2>2, <1>2 DEF InProgress
  <2> QED
    BY <2>1, <2>2, <2>3, <1>2 DEF InProgress, CallsOf
<1>4. TypeOK'
  BY <1>1, <1>a, PoppedIsTyped DEF Finish, TypeOK
<1>5. \A t : RunningIn(stack, k, t) <=> (RunningIn(stack', k - 1, t) \/ t = s)
  <2>1. \A i \in 1 .. k : i = k \/ i \in 1 .. k - 1
    BY <1>1
  <2>2. k \in 1 .. k /\ \A i \in 1 .. k - 1 : i \in 1 .. k
    BY <1>1
  <2> QED
    BY <1>1, <2>1, <2>2 DEF RunningIn
<1>6. Consistent(nextNonce', made', stack', k - 1)
  <2>1. \A i \in 1 .. k - 1 : i \in 1 .. k
    BY <1>1
  <2>2. NoncesPassed(nextNonce', made')
    BY <1>1, <1>a
  <2>3. AllDistinct(stack', k - 1)
    BY <1>1, <1>a, <2>1 DEF AllDistinct
  <2>4. \A i \in 1 .. k - 1 : InProgress(stack'[i], nextNonce', made')
    BY <1>1, <1>a, <2>1
  <2>5. Complete(made', stack', k - 1)
    BY <1>1, <1>3, <1>5, <1>a DEF Complete
  <2>6. Replaced(made', stack', k - 1)
    <3>1. \A t \in Signatures : Begun(made', stack', k - 1, t) => Begun(made, stack, k, t)
      BY <1>1, <1>5 DEF Begun
    <3> QED
      BY <3>1, <1>a DEF Replaced
  <2> QED
    BY <2>2, <2>3, <2>4, <2>5, <2>6 DEF Consistent
<1>7. ConsistentOnceUndone'
  BY <1>a, PopUndone DEF Finish
<1> QED
  BY <1>1, <1>4, <1>6, <1>7 DEF IInv, ConsistentNow

\* Steps that leave the executions, the nonces and the calls alone.
LEMMA ElsewhereIInv ==
  ASSUME IInv, UNCHANGED <<nextNonce, stack, made>>,
         deployed' \in SUBSET Accounts, time' \in 0 .. MaxTime
  PROVE  IInv'
BY DEF IInv, TypeOK, ConsistentNow, ConsistentOnceUndone

THEOREM NextIInv == IInv /\ [Next]_vars => IInv'
<1> SUFFICES ASSUME IInv, [Next]_vars PROVE IInv'
  OBVIOUS
<1>1. CASE Wait
  BY <1>1, ElsewhereIInv, MinaAccountsAssumption DEF Wait, IInv, TypeOK
<1>2. ASSUME NEW account \in Accounts, deploy(account) PROVE IInv'
  BY <1>2, ElsewhereIInv DEF deploy, IInv, TypeOK
<1>3. ASSUME NEW account \in Accounts, NEW s \in Signatures, execute(account, s) PROVE IInv'
  BY <1>3, RunIInv DEF execute
<1>4. ASSUME NEW account \in Accounts, NEW s \in Signatures, executeBatch(account, s)
      PROVE  IInv'
  BY <1>4, RunIInv DEF executeBatch
<1>5. CASE CallOut \/ CallReturns
  BY <1>5, InnermostIInv
<1>6. CASE CallFails
  BY <1>6, CallFailsIInv
<1>7. CASE Finish
  BY <1>7, FinishIInv
<1>8. CASE UNCHANGED vars
  BY <1>8, ElsewhereIInv DEF vars, IInv, TypeOK
<1> QED
  BY <1>1, <1>2, <1>3, <1>4, <1>5, <1>6, <1>7, <1>8 DEF Next

----------------------------------------------------------------------------

\* Now, and at whatever point the executions in progress would be undone to,
\* the nonces have passed everything carried out and the calls made are those
\* of the executions begun (MinaAuthRegistry consume, MinaAccount execute,
\* executeBatch).
THEOREM ConsistentThroughout == Spec => []IInv
BY InitIInv, NextIInv, PTL DEF Spec

\* Every variable stays in its type (MinaAuthRegistry, MinaAccount).
THEOREM AccountsTypeOK == Spec => []TypeOK
<1>1. IInv => TypeOK
  BY DEF IInv
<1> QED
  BY InitIInv, NextIInv, <1>1, PTL DEF Spec

\* What was signed is carried out once and in full or not at all.
THEOREM CarriedOutOnce == Spec => []OnceInFullOrNotAtAll
<1>1. IInv => OnceInFullOrNotAtAll
  <2> SUFFICES ASSUME IInv, NEW s \in Signatures, ~Running(s)
               PROVE  made[s] \in {0, Len(s.calls)}
    BY DEF OnceInFullOrNotAtAll
  <2>1. DOMAIN stack = 1 .. Len(stack)
    BY DEF IInv, TypeOK
  <2>2. ~RunningIn(stack, Len(stack), s)
    BY <2>1 DEF Running, RunningIn
  <2> QED
    BY <2>2 DEF IInv, ConsistentNow, Consistent, Complete
<1> QED
  BY InitIInv, NextIInv, <1>1, PTL DEF Spec

\* Of two things signed with one nonce, one at most is carried out.
THEOREM CarriedOutOnePerNonce == Spec => []OnePerNonce
<1>1. IInv => OnePerNonce
  BY DEF IInv, ConsistentNow, Consistent, Replaced, Begun, OnePerNonce
<1> QED
  BY InitIInv, NextIInv, <1>1, PTL DEF Spec

----------------------------------------------------------------------------
(* The pages and the relayer.                                              *)

\* Carried out in full, by an execution that is over and by no call of one
\* that is in progress.
Settled(s) ==
  /\ made[s] = Len(s.calls) /\ s.calls # << >>
  /\ ~RunningIn(stack, Len(stack), s)
  /\ \A i \in 1 .. Len(stack) : stack[i].before[s] = Len(s.calls)

AskedIsPossible ==
  \A p \in Pages : pages[p].at \in {"signing", "submitting", "mining", "done"} =>
    SignatureOf(p) \in Signatures

\* The page whose answer is awaited is the one whose transaction Flare is at.
MiningIsCurrent ==
  /\ sender # NoPage => stack # << >>
  /\ \A p \in Pages : pages[p].at = "mining" =>
       /\ p = sender /\ stack[1].signature = SignatureOf(p)
       /\ pages[p].batch # << >>

DoneIsSettled == \A p \in Pages : pages[p].at = "done" => Settled(SignatureOf(p))

PInv == IInv /\ PagesTypeOK /\ AskedIsPossible /\ MiningIsCurrent /\ DoneIsSettled

----------------------------------------------------------------------------
(* What one step of Flare does to a settled signature, and to the bottom.  *)

\* A call that is made or returns leaves its execution what it was begun for.
LEMMA InnermostStays ==
  ASSUME TypeOK, CallOut \/ CallReturns
  PROVE  /\ stack # << >> /\ Len(stack') = Len(stack)
         /\ \A i \in 1 .. Len(stack) : /\ stack'[i].signature = stack[i].signature
                                       /\ stack'[i].before = stack[i].before
         /\ \A s \in Signatures : s # stack[Len(stack)].signature => made'[s] = made[s]
<1> DEFINE k == Len(stack)
<1>1. /\ stack # << >> /\ k \in Nat /\ k \in 1 .. k
      /\ stack \in Seq(Executions) /\ stack[k] \in Executions
      /\ made \in [Signatures -> Nat]
  BY DEF CallOut, CallReturns, TypeOK
<1>2. PICK e : /\ stack' = [stack EXCEPT ![k] = e]
               /\ e.signature = stack[k].signature /\ e.before = stack[k].before
  <2>1. CASE stack' = [stack EXCEPT ![k] = Moved(stack[k])]
    BY <2>1, <1>1, MovedTyped
  <2>2. CASE stack' = [stack EXCEPT ![k] = [stack[k] EXCEPT !.calling = TRUE]]
    <3> DEFINE e == [stack[k] EXCEPT !.calling = TRUE]
    <3>1. e.signature = stack[k].signature /\ e.before = stack[k].before
      BY <1>1 DEF Executions
    <3>2. stack' = [stack EXCEPT ![k] = e]
      BY <2>2
    <3> HIDE DEF e
    <3> QED
      BY <3>1, <3>2
  <2>3. CASE stack' = [stack EXCEPT ![k] = Moved([stack[k] EXCEPT !.calling = FALSE])]
    <3> DEFINE e == [stack[k] EXCEPT !.calling = FALSE]
    <3>1. e \in Executions /\ e.signature = stack[k].signature /\ e.before = stack[k].before
      BY <1>1 DEF Executions
    <3>2. stack' = [stack EXCEPT ![k] = Moved(e)]
      BY <2>3
    <3> HIDE DEF e
    <3>3. Moved(e).signature = stack[k].signature /\ Moved(e).before = stack[k].before
      BY <3>1, MovedTyped
    <3> QED
      BY <3>2, <3>3
  <2> QED
    BY <2>1, <2>2, <2>3 DEF CallOut, CallReturns, Top
<1>3. /\ Len(stack') = k
      /\ \A i \in 1 .. k : i # k => stack'[i] = stack[i]
      /\ stack'[k] = e
  BY <1>1, <1>2
<1>4. \A s \in Signatures : s # stack[k].signature => made'[s] = made[s]
  BY <1>1 DEF CallOut, CallReturns, Top
<1> QED
  BY <1>1, <1>2, <1>3, <1>4

LEMMA SettledStays ==
  ASSUME IInv, Next, NEW s \in Signatures, Settled(s)
  PROVE  Settled(s)'
<1> DEFINE k == Len(stack)
<1>1. /\ TypeOK /\ NoncesPassed(nextNonce, made) /\ k \in Nat
      /\ Len(s.calls) # 0 /\ made[s] = Len(s.calls)
      /\ \A i \in 1 .. k : stack[i].signature # s /\ stack[i].before[s] = Len(s.calls)
  <2>1. s.calls \in Seq(Calls)
    BY MinaAccountsAssumption DEF Signature
  <2> QED
    BY <2>1 DEF IInv, ConsistentNow, Consistent, Settled, RunningIn, TypeOK
<1>2. SUFFICES /\ made'[s] = made[s]
               /\ \A i \in 1 .. Len(stack') :
                    stack'[i].signature # s /\ stack'[i].before[s] = Len(s.calls)
  BY <1>1 DEF Settled, RunningIn
<1>3. ASSUME NEW account \in Accounts, NEW t \in Signatures, NEW purpose, Run(account, t, purpose)
      PROVE  /\ made'[s] = made[s]
             /\ \A i \in 1 .. Len(stack') :
                  stack'[i].signature # s /\ stack'[i].before[s] = Len(s.calls)
  <2>1. s.nonce < nextNonce[s.key] /\ t.nonce = nextNonce[t.key]
    BY <1>1, <1>3 DEF NoncesPassed, Run, Consumable
  <2>2. s # t
    BY <2>1, MinaAccountsAssumption DEF Signature, TypeOK
  <2>3. /\ Execution(t).signature = t /\ Execution(t).before = made
        /\ stack' = Append(stack, Execution(t)) /\ made' = made
    BY <1>3 DEF Run, Execution
  <2>4. /\ Len(stack') = k + 1 /\ stack'[k + 1] = Execution(t)
        /\ \A i \in 1 .. k : stack'[i] = stack[i]
    BY <2>3, <1>1 DEF TypeOK
  <2>5. ASSUME NEW i \in 1 .. Len(stack')
        PROVE  stack'[i].signature # s /\ stack'[i].before[s] = Len(s.calls)
    <3>1. i \in 1 .. k \/ i = k + 1
      BY <2>4, <1>1
    <3> QED
      BY <2>2, <2>3, <2>4, <3>1, <1>1
  <2> QED
    BY <2>3, <2>5
<1>4. ASSUME CallOut \/ CallReturns
      PROVE  /\ made'[s] = made[s]
             /\ \A i \in 1 .. Len(stack') :
                  stack'[i].signature # s /\ stack'[i].before[s] = Len(s.calls)
  BY <1>1, <1>4, InnermostStays
<1>5. ASSUME CallFails \/ Finish
      PROVE  /\ made'[s] = made[s]
             /\ \A i \in 1 .. Len(stack') :
                  stack'[i].signature # s /\ stack'[i].before[s] = Len(s.calls)
  <2>1. stack # << >> /\ Drop1 /\ (made' = made \/ made' = stack[k].before)
    BY <1>5 DEF CallFails, Finish, Top
  <2>2. /\ Len(stack') = k - 1 /\ k \in 1 .. k
        /\ \A i \in 1 .. k - 1 : stack'[i] = stack[i]
    BY <2>1, <1>1, PoppedIsTyped
  <2> QED
    BY <2>1, <2>2, <1>1
<1>6. CASE UNCHANGED <<stack, made>>
  BY <1>6, <1>1
<1> QED
  BY <1>3, <1>4, <1>5, <1>6 DEF Next, execute, executeBatch, Wait, deploy

\* The transaction Flare is at keeps its signature.
LEMMA BottomStays ==
  ASSUME TypeOK, Next, stack # << >>, stack' # << >>
  PROVE  stack'[1].signature = stack[1].signature
<1>1. Len(stack) \in Nat /\ Len(stack) > 0
  BY DEF TypeOK
<1>2. ASSUME NEW account \in Accounts, NEW t \in Signatures, NEW purpose, Run(account, t, purpose)
      PROVE  stack'[1] = stack[1]
  BY <1>1, <1>2 DEF Run, TypeOK
<1>3. CASE CallOut \/ CallReturns
  BY <1>1, <1>3, InnermostStays
<1>4. CASE CallFails \/ Finish
  <2>1. /\ Len(stack') = Len(stack) - 1
        /\ \A i \in 1 .. Len(stack) - 1 : stack'[i] = stack[i]
        /\ stack' \in Seq(Executions)
    BY <1>4, PoppedIsTyped DEF CallFails, Finish
  <2>2. Len(stack') # 0
    BY <2>1
  <2> QED
    BY <2>1, <2>2, <1>1
<1>5. CASE UNCHANGED stack
  BY <1>5
<1> QED
  BY <1>2, <1>3, <1>4, <1>5 DEF Next, execute, executeBatch, Wait, deploy

\* The step that ends the transaction Flare is at, and one that does not.
LEMMA Popped ==
  ASSUME TypeOK, CallFails \/ Finish
  PROVE  /\ Len(stack) = 1 => stack' = << >>
         /\ Len(stack) # 1 => stack' # << >>
<1>1. /\ Len(stack') = Len(stack) - 1 /\ Len(stack) \in Nat /\ Len(stack) > 0
      /\ stack' \in Seq(Executions)
  BY PoppedIsTyped DEF CallFails, Finish
<1> QED
  BY <1>1, EmptySeq

LEMMA NoPop ==
  ASSUME TypeOK,
         \/ \E account \in Accounts, t \in Signatures : execute(account, t) \/ executeBatch(account, t)
         \/ CallOut \/ CallReturns
  PROVE  stack' # << >>
<1>1. ASSUME NEW account \in Accounts, NEW t \in Signatures, NEW purpose, Run(account, t, purpose)
      PROVE  stack' # << >>
  BY <1>1 DEF Run, TypeOK
<1>2. CASE CallOut \/ CallReturns
  BY <1>2, InnermostStays DEF TypeOK
<1> QED
  BY <1>1, <1>2 DEF execute, executeBatch

\* A transaction that ends well carried its signature out.
LEMMA FinishedIsMade ==
  ASSUME IInv, Finish, Len(stack) = 1, NEW s, s = stack[1].signature, s.calls # << >>
  PROVE  Settled(s)'
<1>1. /\ s \in Signatures /\ stack[1].at \in Nat /\ Len(s.calls) \in Nat
      /\ made \in [Signatures -> Nat]
  <2>1. 1 \in 1 .. Len(stack)
    OBVIOUS
  <2>2. s \in Signatures /\ stack[1].at \in Nat
    BY <2>1, ExecutionTyped DEF IInv
  <2> QED
    BY <2>2, MinaAccountsAssumption DEF Signature, IInv, TypeOK
<1>2. InProgress(stack[1], nextNonce, made)
  BY DEF IInv, ConsistentNow, Consistent
<1>3. made[s] = Len(s.calls)
  BY <1>1, <1>2 DEF InProgress, CallsOf, Finish, Top
<1>4. stack' = << >> /\ made' = made
  BY Popped DEF IInv, Finish
<1>5. Len(stack') = 0 /\ s.calls # << >>
  BY <1>4
<1>6. made'[s] = Len(s.calls) /\ \A i \in 1 .. Len(stack') : FALSE
  BY <1>3, <1>4, <1>5
<1> QED
  BY <1>5, <1>6 DEF Settled, RunningIn

----------------------------------------------------------------------------
(* What a page does to the pages.                                          *)

LEMMA AtMoves ==
  ASSUME NEW p \in Pages, NEW from,
         NEW to \in {"idle", "signing", "submitting", "mining", "done", "failed"},
         pages \in [Pages -> Page], At(p, from, to)
  PROVE  /\ pages' \in [Pages -> Page]
         /\ pages[p].at = from /\ pages'[p].at = to
         /\ \A q \in Pages : /\ pages'[q].batch = pages[q].batch
                             /\ SignatureOf(q)' = SignatureOf(q)
                             /\ q # p => pages'[q].at = pages[q].at
<1> DEFINE page == [pages[p] EXCEPT !.at = to]
<1>1. /\ page \in Page /\ page.at = to
      /\ page.batch = pages[p].batch /\ page.nonce = pages[p].nonce
  BY DEF Page
<1>2. pages' = [pages EXCEPT ![p] = page] /\ pages[p].at = from
  BY DEF At
<1> HIDE DEF page
<1>3. /\ pages' \in [Pages -> Page] /\ pages'[p] = page
      /\ \A q \in Pages : q # p => pages'[q] = pages[q]
  BY <1>1, <1>2
<1>4. \A q \in Pages : pages'[q].batch = pages[q].batch /\ pages'[q].nonce = pages[q].nonce
  BY <1>1, <1>3
<1>5. \A q \in Pages : SignatureOf(q)' = SignatureOf(q)
  BY <1>4, Zenon DEF SignatureOf, authorizationFields, KeyOfPage
<1> QED
  BY <1>1, <1>2, <1>3, <1>4, <1>5

LEMMA SignatureTyped ==
  ASSUME NEW p \in Pages, NEW page, authorizationFields(p, page) \in Signatures
  PROVE  page.batch \in Seq(Calls) /\ page.nonce \in Nat
<1>1. authorizationFields(p, page) \in Signature
  BY MinaAccountsAssumption
<1> QED
  BY <1>1 DEF authorizationFields, Signature

LEMMA SignatureCalls == \A p : SignatureOf(p).calls = pages[p].batch
BY DEF SignatureOf, authorizationFields

----------------------------------------------------------------------------
(* The invariant.                                                          *)

LEMMA PagesInitPInv == PagesInit => PInv
<1> SUFFICES ASSUME PagesInit PROVE PInv
  OBVIOUS
<1>1. IInv
  BY InitIInv DEF PagesInit
<1>2. \A p \in Pages : pages[p] = [at |-> "idle", batch |-> << >>, nonce |-> 0]
  BY DEF PagesInit
<1>3. << >> \in Seq(Calls)
  BY EmptySeq
<1>4. PagesTypeOK
  BY <1>3, AccountPagesAssumption DEF PagesInit, PagesTypeOK, Page
<1>5. \A p \in Pages : pages[p].at = "idle"
  BY <1>2
<1> QED
  BY <1>1, <1>4, <1>5 DEF PInv, PagesInit, AskedIsPossible, MiningIsCurrent, DoneIsSettled

\* A step of Flare that no page is told of.
LEMMA FlareMoves ==
  ASSUME PInv, Next, UNCHANGED pageVars, sender # NoPage => stack' # << >>
  PROVE  PInv'
<1>1. IInv'
  BY NextIInv DEF PInv
<1>2. \A p \in Pages : SignatureOf(p)' = SignatureOf(p)
  BY DEF pageVars, SignatureOf, authorizationFields, KeyOfPage
<1>3. PagesTypeOK' /\ AskedIsPossible'
  BY <1>2 DEF PInv, PagesTypeOK, AskedIsPossible, pageVars
<1>4. MiningIsCurrent'
  <2>1. sender # NoPage => stack'[1].signature = stack[1].signature
    BY BottomStays DEF PInv, IInv, MiningIsCurrent
  <2>2. \A p \in Pages : pages[p].at = "mining" => p = sender /\ sender # NoPage
    BY AccountPagesAssumption DEF PInv, MiningIsCurrent
  <2> QED
    BY <1>2, <2>1, <2>2 DEF PInv, MiningIsCurrent, pageVars
<1>5. DoneIsSettled'
  <2> SUFFICES ASSUME NEW p \in Pages, pages'[p].at = "done"
               PROVE  Settled(SignatureOf(p))'
    BY DEF DoneIsSettled
  <2>1. PICK s \in Signatures : s = SignatureOf(p) /\ Settled(s)
    BY DEF PInv, AskedIsPossible, DoneIsSettled, pageVars
  <2>2. Settled(s)' /\ s = SignatureOf(p)'
    BY <1>2, <2>1, SettledStays DEF PInv
  <2> QED
    BY <2>2
<1> QED
  BY <1>1, <1>3, <1>4, <1>5 DEF PInv

\* A page reads a nonce and prepares a batch.
LEMMA ReadsNonce ==
  ASSUME PInv, NEW p \in Pages, NEW batches, nextNonceFor(p, batches)
  PROVE  PInv'
<1>1. PICK page : /\ page = [at |-> "signing", batch |-> page.batch, nonce |-> page.nonce]
                  /\ authorizationFields(p, page) \in Signatures
                  /\ pages' = [pages EXCEPT ![p] = page]
  BY DEF nextNonceFor
<1>2. page \in Page /\ page.at = "signing"
  BY <1>1, SignatureTyped DEF Page
<1>3. pages \in [Pages -> Page]
  BY DEF PInv, PagesTypeOK
<1>4. /\ pages' \in [Pages -> Page] /\ pages'[p] = page
      /\ \A q \in Pages : q # p => pages'[q] = pages[q]
  BY <1>1, <1>2, <1>3
<1>5. /\ SignatureOf(p)' = authorizationFields(p, page)
      /\ \A q \in Pages : q # p => SignatureOf(q)' = SignatureOf(q)
  BY <1>4, Zenon DEF SignatureOf, authorizationFields, KeyOfPage
<1>6. UNCHANGED <<vars, signed, sender>>
  BY DEF nextNonceFor
<1>7. IInv' /\ PagesTypeOK' /\ AskedIsPossible'
  <2>1. IInv'
    BY <1>6, NextIInv DEF PInv
  <2> QED
    BY <2>1, <1>1, <1>4, <1>5, <1>6 DEF PInv, PagesTypeOK, AskedIsPossible
<1>8. MiningIsCurrent'
  BY <1>2, <1>4, <1>5, <1>6 DEF PInv, MiningIsCurrent, vars
<1>9. DoneIsSettled'
  <2> SUFFICES ASSUME NEW q \in Pages, pages'[q].at = "done"
               PROVE  Settled(SignatureOf(q))'
    BY DEF DoneIsSettled
  <2>1. q # p /\ pages[q].at = "done" /\ SignatureOf(q)' = SignatureOf(q)
    BY <1>2, <1>4, <1>5
  <2>2. PICK s : s = SignatureOf(q) /\ Settled(s)
    BY <2>1 DEF PInv, DoneIsSettled
  <2>3. Settled(s)'
    BY <2>2, <1>6 DEF Settled, RunningIn, vars
  <2> QED
    BY <2>1, <2>2, <2>3
<1> QED
  BY <1>7, <1>8, <1>9 DEF PInv

\* A page moves on, to anything but the end of its batch, and Flare does not.
LEMMA PageMoves ==
  ASSUME PInv, NEW p \in Pages, NEW from \in {"signing", "submitting", "mining"},
         NEW to \in {"submitting", "failed"}, At(p, from, to),
         UNCHANGED <<vars, sender>>, signed' \subseteq Signatures
  PROVE  PInv'
<1>1. pages \in [Pages -> Page]
  BY DEF PInv, PagesTypeOK
<1>2. /\ pages' \in [Pages -> Page] /\ pages[p].at = from /\ pages'[p].at = to
      /\ \A q \in Pages : /\ pages'[q].batch = pages[q].batch
                          /\ SignatureOf(q)' = SignatureOf(q)
                          /\ q # p => pages'[q].at = pages[q].at
  BY <1>1, AtMoves
<1>3. IInv' /\ PagesTypeOK'
  BY <1>2, NextIInv DEF PInv, PagesTypeOK
<1>4. AskedIsPossible'
  BY <1>2 DEF PInv, AskedIsPossible
<1>5. MiningIsCurrent'
  BY <1>2 DEF PInv, MiningIsCurrent, vars
<1>6. DoneIsSettled'
  <2> SUFFICES ASSUME NEW q \in Pages, pages'[q].at = "done"
               PROVE  Settled(SignatureOf(q))'
    BY DEF DoneIsSettled
  <2>1. pages[q].at = "done" /\ SignatureOf(q)' = SignatureOf(q)
    BY <1>2
  <2>2. PICK s : s = SignatureOf(q) /\ Settled(s)
    BY <2>1 DEF PInv, DoneIsSettled
  <2>3. Settled(s)'
    BY <2>2 DEF Settled, RunningIn, vars
  <2> QED
    BY <2>1, <2>2, <2>3
<1> QED
  BY <1>3, <1>4, <1>5, <1>6 DEF PInv

\* The relayer's transaction is at its turn, and is carried out.
LEMMA RelayerBegins ==
  ASSUME PInv, NEW p \in Pages, stack = << >>,
         executeBatch(SessionOf[p], SignatureOf(p)), At(p, "submitting", "mining"),
         sender' = p, UNCHANGED signed
  PROVE  Next /\ PInv'
<1> DEFINE s == SignatureOf(p)
<1>1. pages \in [Pages -> Page]
  BY DEF PInv, PagesTypeOK
<1>2. /\ pages' \in [Pages -> Page] /\ pages[p].at = "submitting" /\ pages'[p].at = "mining"
      /\ \A q \in Pages : /\ pages'[q].batch = pages[q].batch
                          /\ SignatureOf(q)' = SignatureOf(q)
                          /\ q # p => pages'[q].at = pages[q].at
  BY <1>1, AtMoves
<1>3. s \in Signatures /\ SessionOf[p] \in Accounts /\ s.calls = pages[p].batch
  BY <1>2, AccountPagesAssumption, SignatureCalls DEF PInv, AskedIsPossible
<1>4. Next
  BY <1>3 DEF Next
<1>5. IInv' /\ PagesTypeOK' /\ AskedIsPossible'
  <2>1. IInv'
    BY <1>4, NextIInv DEF PInv
  <2> QED
    BY <2>1, <1>2, <1>3 DEF PInv, PagesTypeOK, AskedIsPossible
<1>6. MiningIsCurrent'
  <2>1. \A q \in Pages : pages[q].at # "mining"
    BY AccountPagesAssumption DEF PInv, MiningIsCurrent
  <2>2. stack' = Append(<< >>, Execution(s)) /\ Execution(s).signature = s /\ s.calls # << >>
    BY DEF executeBatch, Run, Execution
  <2>3. stack' = <<Execution(s)>>
    BY <2>2
  <2>4. stack' # << >> /\ stack'[1].signature = s
    BY <2>2, <2>3
  <2> QED
    BY <1>2, <1>3, <2>1, <2>2, <2>4 DEF MiningIsCurrent
<1>7. DoneIsSettled'
  <2> SUFFICES ASSUME NEW q \in Pages, pages'[q].at = "done"
               PROVE  Settled(SignatureOf(q))'
    BY DEF DoneIsSettled
  <2>1. pages[q].at = "done" /\ SignatureOf(q)' = SignatureOf(q)
    BY <1>2
  <2>2. PICK t \in Signatures : t = SignatureOf(q) /\ Settled(t)
    BY <2>1 DEF PInv, AskedIsPossible, DoneIsSettled
  <2>3. Settled(t)'
    BY <2>2, <1>4, SettledStays DEF PInv
  <2> QED
    BY <2>1, <2>2, <2>3
<1> QED
  BY <1>4, <1>5, <1>6, <1>7 DEF PInv

\* The transaction ends, and the page whose it was is told how, or is not
\* there to be told.
LEMMA TransactionEnds ==
  ASSUME PInv, NEW outcome \in {"done", "failed"},
         \/ Finish /\ outcome = "done"
         \/ CallFails /\ outcome = "failed",
         Len(stack) = 1, sender # NoPage,
         sender' = NoPage, UNCHANGED signed,
         IF pages[sender].at = "mining" THEN Told(sender, outcome) ELSE UNCHANGED pages
  PROVE  PInv'
<1>1. sender \in Pages /\ pages \in [Pages -> Page]
  BY DEF PInv, PagesTypeOK
<1>2. /\ pages' \in [Pages -> Page]
      /\ pages[sender].at = "mining" => pages'[sender].at = outcome
      /\ pages[sender].at # "mining" => pages'[sender].at = pages[sender].at
      /\ \A q \in Pages : /\ pages'[q].batch = pages[q].batch
                          /\ SignatureOf(q)' = SignatureOf(q)
                          /\ q # sender => pages'[q].at = pages[q].at
  <2>1. CASE pages[sender].at = "mining"
    BY <2>1, <1>1, AtMoves DEF Told
  <2>2. CASE pages[sender].at # "mining"
    BY <2>2, <1>1, Zenon DEF SignatureOf, authorizationFields, KeyOfPage
  <2> QED
    BY <2>1, <2>2
<1>3. Next
  BY DEF Next
<1>4. IInv' /\ PagesTypeOK' /\ AskedIsPossible'
  <2>1. IInv'
    BY <1>3, NextIInv DEF PInv
  <2> QED
    BY <2>1, <1>2 DEF PInv, PagesTypeOK, AskedIsPossible
<1>5. MiningIsCurrent'
  <2>1. \A q \in Pages : pages[q].at = "mining" => q = sender
    BY DEF PInv, MiningIsCurrent
  <2> QED
    BY <1>2, <2>1 DEF MiningIsCurrent
<1>6. DoneIsSettled'
  <2> SUFFICES ASSUME NEW q \in Pages, pages'[q].at = "done"
               PROVE  Settled(SignatureOf(q))'
    BY DEF DoneIsSettled
  <2>1. CASE pages[q].at = "done"
    <3>1. PICK t \in Signatures : t = SignatureOf(q) /\ Settled(t)
      BY <2>1 DEF PInv, AskedIsPossible, DoneIsSettled
    <3>2. Settled(t)'
      BY <3>1, <1>3, SettledStays DEF PInv
    <3> QED
      BY <1>2, <3>1, <3>2
  <2>2. CASE pages[q].at # "done"
    <3>1. q = sender /\ pages[q].at = "mining" /\ outcome = "done"
      BY <1>2, <2>2
    <3>2. PICK t : t = SignatureOf(q)
      OBVIOUS
    <3>3. t = stack[1].signature /\ t.calls # << >>
      BY <3>1, <3>2, SignatureCalls DEF PInv, MiningIsCurrent
    <3>4. Settled(t)'
      BY <3>1, <3>3, FinishedIsMade DEF PInv
    <3> QED
      BY <1>2, <3>2, <3>4
  <2> QED
    BY <2>1, <2>2
<1> QED
  BY <1>4, <1>5, <1>6 DEF PInv

LEMMA PagesStep == PInv /\ [PagesNext]_allVars => [Next]_vars /\ PInv'
<1> SUFFICES ASSUME PInv, [PagesNext]_allVars PROVE [Next]_vars /\ PInv'
  OBVIOUS
<1>t. TypeOK /\ signed \subseteq Signatures
  BY DEF PInv, IInv, PagesTypeOK
<1>1. ASSUME NEW p \in Pages, NEW batches, nextNonceFor(p, batches)
      PROVE  [Next]_vars /\ PInv'
  BY <1>1, ReadsNonce DEF nextNonceFor
<1>2. ASSUME NEW p \in Pages, signAuthorization(p)
      PROVE  [Next]_vars /\ PInv'
  <2>1. CASE At(p, "signing", "submitting") /\ signed' = signed \union {SignatureOf(p)}
    <3>1. SignatureOf(p) \in Signatures
      BY <2>1 DEF At, PInv, AskedIsPossible
    <3> QED
      BY <1>2, <1>t, <2>1, <3>1, PageMoves DEF signAuthorization
  <2>2. CASE At(p, "signing", "failed") /\ UNCHANGED signed
    BY <1>2, <1>t, <2>2, PageMoves DEF signAuthorization
  <2> QED
    BY <1>2, <2>1, <2>2 DEF signAuthorization
<1>3. ASSUME NEW p \in Pages, submitBatch(p)
      PROVE  [Next]_vars /\ PInv'
  BY <1>3, <1>t, RelayerBegins, PageMoves DEF submitBatch
<1>4. ASSUME NEW p \in Pages, AnswerLost(p)
      PROVE  [Next]_vars /\ PInv'
  BY <1>4, <1>t, PageMoves DEF AnswerLost
<1>5. sender # NoPage => stack # << >>
  BY DEF PInv, MiningIsCurrent
<1>6. ASSUME NEW account \in Accounts, deployAccount(account)
      PROVE  [Next]_vars /\ PInv'
  <2>1. Next /\ stack = << >> /\ UNCHANGED pageVars
    BY <1>6 DEF deployAccount, deploy, Next
  <2> QED
    BY <2>1, <1>5, FlareMoves
<1>7. CASE Submitted
  <2>1. PICK account \in Accounts, t \in Signatures : execute(account, t) \/ executeBatch(account, t)
    BY <1>7, <1>t DEF Submitted
  <2>2. Next /\ UNCHANGED pageVars
    BY <1>7, <2>1 DEF Submitted, Next
  <2> QED
    BY <1>t, <2>1, <2>2, NoPop, FlareMoves
<1>8. CASE (Wait \/ CallOut \/ CallReturns) /\ UNCHANGED pageVars
  <2>1. Next /\ UNCHANGED pageVars
    BY <1>8 DEF Next
  <2>2. CASE Wait
    BY <2>1, <2>2, <1>5, FlareMoves DEF Wait
  <2>3. CASE CallOut \/ CallReturns
    BY <1>t, <2>1, <2>3, NoPop, FlareMoves
  <2> QED
    BY <1>8, <2>2, <2>3
<1>9. ASSUME NEW outcome \in {"done", "failed"}, Ended(outcome),
             \/ Finish /\ outcome = "done"
             \/ CallFails /\ outcome = "failed"
      PROVE  [Next]_vars /\ PInv'
  <2>1. Next
    BY <1>9 DEF Next
  <2>2. CASE Len(stack) = 1 /\ sender # NoPage
    BY <1>9, <2>1, <2>2, TransactionEnds DEF Ended
  <2>3. CASE ~(Len(stack) = 1 /\ sender # NoPage)
    BY <1>9, <1>t, <2>1, <2>3, Popped, FlareMoves DEF Ended
  <2> QED
    BY <2>2, <2>3
<1>10. CASE UNCHANGED allVars
  <2>1. IInv' /\ UNCHANGED vars /\ UNCHANGED pageVars
    BY <1>10, NextIInv DEF PInv, allVars
  <2>2. \A p \in Pages : SignatureOf(p)' = SignatureOf(p)
    BY <2>1 DEF pageVars, SignatureOf, authorizationFields, KeyOfPage
  <2>3. \A t : Settled(t)' <=> Settled(t)
    BY <2>1 DEF vars, Settled, RunningIn
  <2>4. PagesTypeOK' /\ AskedIsPossible' /\ MiningIsCurrent'
    BY <2>1, <2>2 DEF PInv, PagesTypeOK, AskedIsPossible, MiningIsCurrent, vars, pageVars
  <2>5. ASSUME NEW p \in Pages, pages'[p].at = "done" PROVE Settled(SignatureOf(p))'
    <3>1. PICK t : t = SignatureOf(p) /\ Settled(t)
      BY <2>1, <2>5 DEF PInv, DoneIsSettled, pageVars
    <3> QED
      BY <3>1, <2>2, <2>3
  <2> QED
    BY <2>1, <2>4, <2>5 DEF PInv, DoneIsSettled
<1> QED
  BY <1>1, <1>2, <1>3, <1>4, <1>6, <1>7, <1>8, <1>9, <1>10
     DEF PagesNext, burn, unwrapNative, doSwap

----------------------------------------------------------------------------

\* Whatever pages and the relayer do is what MinaAccounts lets anyone do, so
\* its guarantees (AccountsTypeOK, CarriedOutOnce, CarriedOutOnePerNonce) hold
\* among them.
THEOREM PagesAreAnyone == PagesSpec => Spec
<1>1. PagesInit => Init
  BY DEF PagesInit
<1> QED
  BY <1>1, PagesInitPInv, PagesStep, PTL DEF PagesSpec, Spec

\* A page that is told its batch went through is right for as long as it says
\* so.
THEOREM ToldTheTruth == PagesSpec => []ToldDoneIsDone
<1>1. PInv => ToldDoneIsDone
  BY SignatureCalls DEF PInv, DoneIsSettled, Settled, ToldDoneIsDone
<1> QED
  BY <1>1, PagesInitPInv, PagesStep, PTL DEF PagesSpec
===========================================================================
