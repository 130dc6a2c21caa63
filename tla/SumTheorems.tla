---------------------------- MODULE SumTheorems ----------------------------
(***************************************************************************)
(* Facts about SumFunctionOnSet, the sum of the values of a function at    *)
(* the members of a finite set.  The library defines it by a fold over     *)
(* CHOOSE, so that the fold exists, that it does not depend on the order,  *)
(* and everything else is proved here, by taking a smallest set at which a *)
(* claim fails.                                                            *)
(***************************************************************************)
EXTENDS Functions, FiniteSetTheorems, WellFoundedInduction, TLAPS

\* A set of naturals that has a member has a least one.
LEMMA LeastOf ==
  ASSUME NEW N, N \subseteq Nat, N # {}
  PROVE  \E n \in N : \A m \in N : n <= m
<1> DEFINE R == {ss \in Nat \X Nat : ss[1] < ss[2]}
<1>1. IsWellFoundedOn(R, Nat)
  BY NatLessThanWellFounded, Zenon DEF OpToRel
<1>2. PICK n \in N : \A m \in N : ~(<<m, n>> \in R)
  <2> HIDE DEF R
  <2> QED
    BY <1>1, WFMin
<1>3. ASSUME NEW m \in N
      PROVE  n <= m
  <2>1. m \in Nat /\ n \in Nat
    OBVIOUS
  <2>2. m < n => <<m, n>> \in R
    BY <2>1
  <2>3. ~(m < n)
    BY <1>2, <2>2
  <2> HIDE DEF R
  <2> QED
    BY <2>1, <2>3
<1> QED
  BY <1>3

\* Of subsets of a finite set, some one has none of the others inside it.
LEMMA SmallestSubset ==
  ASSUME NEW S, IsFiniteSet(S), NEW B, B \subseteq SUBSET S, B # {}
  PROVE  \E s \in B : \A t \in B : t \subseteq s => t = s
<1> DEFINE N == {Cardinality(s) : s \in B}
<1>1. \A s \in B : IsFiniteSet(s) /\ Cardinality(s) \in Nat
  BY FS_Subset, FS_CardinalityType
<1>2. N \subseteq Nat /\ N # {}
  BY <1>1
<1>3. PICK n \in N : \A m \in N : n <= m
  <2> HIDE DEF N
  <2> QED
    BY <1>2, LeastOf
<1>4. PICK s \in B : n = Cardinality(s)
  BY <1>3
<1>5. ASSUME NEW t \in B, t \subseteq s
      PROVE  t = s
  <2>1. Cardinality(t) <= Cardinality(s) /\ (Cardinality(s) = Cardinality(t) => s = t)
    BY <1>1, <1>5, FS_Subset
  <2>2. Cardinality(s) <= Cardinality(t)
    BY <1>3, <1>4
  <2> QED
    BY <1>1, <2>1, <2>2
<1> QED
  BY <1>5

----------------------------------------------------------------------------
(* The fold.                                                               *)

Some(s) == CHOOSE x \in s : TRUE

IsFold(g, f, S) ==
  g = [s \in SUBSET S |-> IF s = {} THEN 0 ELSE f[Some(s)] + g[s \ {Some(s)}]]

\* Two folds agree where their functions do.
LEMMA FoldsAgree ==
  ASSUME NEW S, IsFiniteSet(S), NEW T, NEW f, NEW e, NEW g, NEW h,
         IsFold(g, f, S), IsFold(h, e, T), S \subseteq T,
         \A x \in S : f[x] = e[x]
  PROVE  g[S] = h[S]
<1> DEFINE B == {s \in SUBSET S : g[s] # h[s]}
<1>1. SUFFICES ASSUME B # {} PROVE FALSE
  OBVIOUS
<1>2. PICK s \in B : \A t \in B : t \subseteq s => t = s
  <2> HIDE DEF B
  <2>1. B \subseteq SUBSET S
    BY DEF B
  <2> QED
    BY <1>1, <2>1, SmallestSubset
<1>3. s \in SUBSET S /\ s \in SUBSET T
  OBVIOUS
<1>4. /\ g[s] = IF s = {} THEN 0 ELSE f[Some(s)] + g[s \ {Some(s)}]
      /\ h[s] = IF s = {} THEN 0 ELSE e[Some(s)] + h[s \ {Some(s)}]
  BY <1>3, Zenon DEF IsFold
<1>5. s # {}
  BY <1>2, <1>4
<1>6. Some(s) \in s
  BY <1>5 DEF Some
<1>7. s \ {Some(s)} \in SUBSET S /\ s \ {Some(s)} \notin B
  BY <1>2, <1>6
<1>8. g[s \ {Some(s)}] = h[s \ {Some(s)}] /\ f[Some(s)] = e[Some(s)]
  BY <1>3, <1>6, <1>7
<1>9. g[s] = h[s]
  BY <1>4, <1>5, <1>8
<1> QED
  BY <1>2, <1>9

\* A fold over the subsets of a finite set exists.
LEMMA FoldExists ==
  ASSUME NEW S, IsFiniteSet(S), NEW f
  PROVE  \E g : IsFold(g, f, S)
<1> DEFINE B == {s \in SUBSET S : ~\E g : IsFold(g, f, s)}
<1>1. SUFFICES ASSUME B # {} PROVE FALSE
  OBVIOUS
<1>2. PICK s \in B : \A t \in B : t \subseteq s => t = s
  <2> HIDE DEF B
  <2>1. B \subseteq SUBSET S
    BY DEF B
  <2> QED
    BY <1>1, <2>1, SmallestSubset
<1>3. IsFiniteSet(s) /\ ~\E g : IsFold(g, f, s)
  BY <1>2, FS_Subset
\* Every proper subset has a fold, so the value at t can be read off the one
\* that t without its pick has.
<1> DEFINE foldOf(t) == CHOOSE g : IsFold(g, f, t)
           g_ == [t \in SUBSET s |->
                    IF t = {} THEN 0
                    ELSE f[Some(t)] + foldOf(t \ {Some(t)})[t \ {Some(t)}]]
<1>4. ASSUME NEW t \in SUBSET s, t # s
      PROVE  IsFold(foldOf(t), f, t) /\ IsFiniteSet(t)
  <2>1. t \notin B /\ t \in SUBSET S
    BY <1>2, <1>4
  <2>2. \E g : IsFold(g, f, t)
    BY <2>1
  <2>3. IsFiniteSet(t)
    BY <2>1, FS_Subset
  <2> QED
    BY <2>2, <2>3
<1>5. ASSUME NEW t \in SUBSET s, t # s
      PROVE  g_[t] = foldOf(t)[t]
  <2>1. foldOf(t)[t] = IF t = {} THEN 0 ELSE f[Some(t)] + foldOf(t)[t \ {Some(t)}]
    <3>1. IsFold(foldOf(t), f, t)
      BY <1>4, <1>5
    <3> HIDE DEF foldOf
    <3> QED
      BY <3>1, Zenon DEF IsFold
  <2>2. CASE t = {}
    <3> HIDE DEF foldOf
    <3> QED
      BY <2>1, <2>2
  <2>3. CASE t # {}
    <3> DEFINE u == t \ {Some(t)}
    <3>1. Some(t) \in t
      BY <2>3 DEF Some
    <3>2. u \in SUBSET s /\ u # s /\ u \subseteq t
      BY <1>5, <3>1
    <3>3. /\ IsFold(foldOf(t), f, t) /\ IsFold(foldOf(u), f, u)
          /\ IsFiniteSet(u)
      <4> HIDE DEF u, foldOf
      <4> QED
        BY <1>4, <1>5, <3>2
    <3>4. foldOf(u)[u] = foldOf(t)[u]
      <4> HIDE DEF u, foldOf
      <4> QED
        BY <3>2, <3>3, FoldsAgree
    <3> HIDE DEF foldOf
    <3> QED
      BY <2>1, <2>3, <3>4
  <2> QED
    BY <2>2, <2>3
<1>6. ASSUME NEW t \in SUBSET s, t # {}
      PROVE  g_[t] = f[Some(t)] + g_[t \ {Some(t)}]
  <2>1. Some(t) \in t
    BY <1>6 DEF Some
  <2>2. t \ {Some(t)} \in SUBSET s /\ t \ {Some(t)} # s
    BY <2>1
  <2>3. g_[t \ {Some(t)}] = foldOf(t \ {Some(t)})[t \ {Some(t)}]
    <3> HIDE DEF g_, foldOf
    <3> QED
      BY <1>5, <2>2
  <2>4. g_[t] = f[Some(t)] + foldOf(t \ {Some(t)})[t \ {Some(t)}]
    <3> HIDE DEF foldOf
    <3> QED
      BY <1>6
  <2> QED
    BY <2>3, <2>4
<1>7. {} \in SUBSET s => g_[{}] = 0
  OBVIOUS
<1>8. IsFold(g_, f, s)
  <2>1. g_ = [t \in SUBSET s |-> g_[t]]
    OBVIOUS
  <2> HIDE DEF g_
  <2>2. \A t \in SUBSET s :
          g_[t] = IF t = {} THEN 0 ELSE f[Some(t)] + g_[t \ {Some(t)}]
    BY <1>6, <1>7
  <2> QED
    BY <2>1, <2>2 DEF IsFold
<1> QED
  BY <1>3, <1>8

\* What the library's sum is: the value of a fold at the whole set.
LEMMA SumIsFold ==
  ASSUME NEW S, IsFiniteSet(S), NEW f
  PROVE  \E g : IsFold(g, f, S) /\ SumFunctionOnSet(f, S) = g[S]
<1> DEFINE g == CHOOSE g : IsFold(g, f, S)
<1>1. IsFold(g, f, S)
  BY FoldExists
<1>2. SumFunctionOnSet(f, S) = g[S]
  BY Zenon DEF SumFunctionOnSet, FoldFunctionOnSet, MapThenFoldSet, IsFold, Some
<1> QED
  BY <1>1, <1>2

----------------------------------------------------------------------------
(* Sums.                                                                   *)

THEOREM SumOfNone == ASSUME NEW f PROVE SumFunctionOnSet(f, {}) = 0
<1>1. PICK g : IsFold(g, f, {}) /\ SumFunctionOnSet(f, {}) = g[{}]
  BY SumIsFold, FS_EmptySet
<1> QED
  BY <1>1 DEF IsFold

\* Sums of functions that agree on the set are equal.
THEOREM SumsAgree ==
  ASSUME NEW S, IsFiniteSet(S), NEW f, NEW e, \A x \in S : f[x] = e[x]
  PROVE  SumFunctionOnSet(f, S) = SumFunctionOnSet(e, S)
<1>1. PICK g : IsFold(g, f, S) /\ SumFunctionOnSet(f, S) = g[S]
  BY SumIsFold
<1>2. PICK h : IsFold(h, e, S) /\ SumFunctionOnSet(e, S) = h[S]
  BY SumIsFold
<1> QED
  BY <1>1, <1>2, FoldsAgree

LEMMA SumOfSome ==
  ASSUME NEW S, IsFiniteSet(S), S # {}, NEW f
  PROVE  SumFunctionOnSet(f, S) = f[Some(S)] + SumFunctionOnSet(f, S \ {Some(S)})
<1> DEFINE T == S \ {Some(S)}
<1>1. PICK g : IsFold(g, f, S) /\ SumFunctionOnSet(f, S) = g[S]
  BY SumIsFold
<1>2. Some(S) \in S
  BY DEF Some
<1>3. IsFiniteSet(T) /\ T \subseteq S
  BY FS_RemoveElement
<1>4. PICK h : IsFold(h, f, T) /\ SumFunctionOnSet(f, T) = h[T]
  BY <1>3, SumIsFold
<1>5. h[T] = g[T]
  <2> HIDE DEF T
  <2> QED
    BY <1>1, <1>3, <1>4, FoldsAgree
<1>6. g[S] = f[Some(S)] + g[T]
  BY <1>1, Zenon DEF IsFold
<1> QED
  BY <1>1, <1>4, <1>5, <1>6

\* A sum of naturals is a natural.
THEOREM SumType ==
  ASSUME NEW S, IsFiniteSet(S), NEW f, \A x \in S : f[x] \in Nat
  PROVE  SumFunctionOnSet(f, S) \in Nat
<1> DEFINE B == {s \in SUBSET S : SumFunctionOnSet(f, s) \notin Nat}
<1>1. SUFFICES ASSUME B # {} PROVE FALSE
  BY DEF B
<1>2. PICK s \in B : \A t \in B : t \subseteq s => t = s
  <2> HIDE DEF B
  <2>1. B \subseteq SUBSET S
    BY DEF B
  <2> QED
    BY <1>1, <2>1, SmallestSubset
<1>3. s \in SUBSET S /\ IsFiniteSet(s)
  BY FS_Subset
<1>4. s # {}
  <2>1. SumFunctionOnSet(f, {}) = 0 /\ SumFunctionOnSet(f, s) \notin Nat
    BY <1>2, SumOfNone
  <2> HIDE DEF B
  <2> QED
    BY <2>1
<1>5. Some(s) \in s
  BY <1>4 DEF Some
<1>6. SumFunctionOnSet(f, s \ {Some(s)}) \in Nat
  BY <1>2, <1>5
<1>7. SumFunctionOnSet(f, s) = f[Some(s)] + SumFunctionOnSet(f, s \ {Some(s)})
  BY <1>3, <1>4, SumOfSome
<1> QED
  BY <1>2, <1>5, <1>6, <1>7

THEOREM SumOfZeros ==
  ASSUME NEW S, IsFiniteSet(S), NEW f, \A x \in S : f[x] = 0
  PROVE  SumFunctionOnSet(f, S) = 0
<1> DEFINE B == {s \in SUBSET S : SumFunctionOnSet(f, s) # 0}
<1>1. SUFFICES ASSUME B # {} PROVE FALSE
  BY DEF B
<1>2. PICK s \in B : \A t \in B : t \subseteq s => t = s
  <2> HIDE DEF B
  <2>1. B \subseteq SUBSET S
    BY DEF B
  <2> QED
    BY <1>1, <2>1, SmallestSubset
<1>3. s \in SUBSET S /\ IsFiniteSet(s) /\ SumFunctionOnSet(f, s) # 0
  BY FS_Subset
<1>4. s # {}
  BY <1>3, SumOfNone
<1>5. Some(s) \in s
  BY <1>4 DEF Some
<1>6. SumFunctionOnSet(f, s \ {Some(s)}) = 0
  BY <1>2, <1>5
<1>7. SumFunctionOnSet(f, s) = f[Some(s)] + SumFunctionOnSet(f, s \ {Some(s)})
  BY <1>3, <1>4, SumOfSome
<1> QED
  BY <1>3, <1>5, <1>6, <1>7

\* A sum is the value at any one member, and the sum over the others.
THEOREM SumWithout ==
  ASSUME NEW S, IsFiniteSet(S), NEW f, \A x \in S : f[x] \in Nat
  PROVE  \A y \in S :
           SumFunctionOnSet(f, S) = f[y] + SumFunctionOnSet(f, S \ {y})
<1> DEFINE Total(s) == SumFunctionOnSet(f, s)
           B == {s \in SUBSET S : \E y \in s : Total(s) # f[y] + Total(s \ {y})}
<1>1. SUFFICES ASSUME B # {} PROVE FALSE
  OBVIOUS
<1>2. PICK s \in B : \A t \in B : t \subseteq s => t = s
  <2> HIDE DEF B
  <2>1. B \subseteq SUBSET S
    BY DEF B
  <2> QED
    BY <1>1, <2>1, SmallestSubset
<1>3. PICK y \in s : Total(s) # f[y] + Total(s \ {y})
  BY <1>2
<1>4. s \in SUBSET S /\ IsFiniteSet(s)
  BY <1>2, FS_Subset
<1> DEFINE x == Some(s)
<1>5. x \in s /\ Total(s) = f[x] + Total(s \ {x})
  BY <1>3, <1>4, SumOfSome DEF Some
<1> HIDE DEF x
<1>6. x # y
  BY <1>3, <1>5
\* Without x or without y the set is smaller, and the other can be taken out.
<1>7. /\ Total(s \ {x}) = f[y] + Total((s \ {x}) \ {y})
      /\ Total(s \ {y}) = f[x] + Total((s \ {y}) \ {x})
  <2>1. /\ s \ {x} \in SUBSET S /\ y \in s \ {x} /\ s \ {x} \notin B
        /\ s \ {y} \in SUBSET S /\ x \in s \ {y} /\ s \ {y} \notin B
    <3> HIDE DEF B
    <3> QED
      BY <1>2, <1>3, <1>4, <1>5, <1>6
  <2> HIDE DEF Total
  <2> QED
    BY <2>1
<1>8. (s \ {x}) \ {y} = (s \ {y}) \ {x}
  OBVIOUS
<1>9. Total((s \ {x}) \ {y}) \in Nat
  BY <1>4, FS_RemoveElement, SumType
<1>10. f[x] \in Nat /\ f[y] \in Nat
  BY <1>3, <1>4, <1>5
<1>11. Total(s \ {x}) = f[y] + Total((s \ {x}) \ {y})
  BY <1>7
<1>12. Total(s \ {y}) = f[x] + Total((s \ {x}) \ {y})
  BY <1>7, <1>8
<1>13. Total(s) = f[x] + Total(s \ {x})
  BY <1>5
<1>14. Total(s) # f[y] + Total(s \ {y})
  BY <1>3
<1> HIDE DEF Total, B
<1> QED
  BY <1>9, <1>10, <1>11, <1>12, <1>13, <1>14

\* One more member adds its value.
THEOREM SumWith ==
  ASSUME NEW S, IsFiniteSet(S), NEW y, y \notin S,
         NEW f, \A x \in S \union {y} : f[x] \in Nat
  PROVE  SumFunctionOnSet(f, S \union {y}) = SumFunctionOnSet(f, S) + f[y]
<1>1. IsFiniteSet(S \union {y}) /\ (S \union {y}) \ {y} = S
  BY FS_AddElement
<1>2. SumFunctionOnSet(f, S) \in Nat /\ f[y] \in Nat
  BY SumType
<1>3. SumFunctionOnSet(f, S \union {y}) = f[y] + SumFunctionOnSet(f, S)
  BY <1>1, SumWithout
<1> QED
  BY <1>2, <1>3

\* A function that differs from another at one member only has a sum that
\* differs by as much.
THEOREM SumChanged ==
  ASSUME NEW S, IsFiniteSet(S), NEW y \in S, NEW f, NEW e,
         \A x \in S : f[x] \in Nat /\ e[x] \in Nat,
         \A x \in S \ {y} : f[x] = e[x]
  PROVE  SumFunctionOnSet(f, S) + e[y] = SumFunctionOnSet(e, S) + f[y]
<1>1. IsFiniteSet(S \ {y})
  BY FS_RemoveElement
<1>2. SumFunctionOnSet(f, S \ {y}) = SumFunctionOnSet(e, S \ {y})
  BY <1>1, SumsAgree
<1>3. /\ SumFunctionOnSet(f, S) = f[y] + SumFunctionOnSet(f, S \ {y})
      /\ SumFunctionOnSet(e, S) = e[y] + SumFunctionOnSet(e, S \ {y})
  BY SumWithout
<1>4. SumFunctionOnSet(f, S \ {y}) \in Nat
  BY <1>1, SumType
<1> QED
  BY <1>2, <1>3, <1>4

\* Two sets with no common member are summed one after the other.
THEOREM SumOfUnion ==
  ASSUME NEW S, IsFiniteSet(S), NEW T, IsFiniteSet(T), S \intersect T = {},
         NEW f, \A x \in S \union T : f[x] \in Nat
  PROVE  SumFunctionOnSet(f, S \union T)
           = SumFunctionOnSet(f, S) + SumFunctionOnSet(f, T)
<1> DEFINE Total(s) == SumFunctionOnSet(f, s)
           B == {s \in SUBSET T : Total(S \union s) # Total(S) + Total(s)}
<1>1. SUFFICES ASSUME B # {} PROVE FALSE
  OBVIOUS
<1>2. PICK s \in B : \A t \in B : t \subseteq s => t = s
  <2> HIDE DEF B
  <2>1. B \subseteq SUBSET T
    BY DEF B
  <2> QED
    BY <1>1, <2>1, SmallestSubset
<1>3. s \in SUBSET T /\ IsFiniteSet(s) /\ Total(S \union s) # Total(S) + Total(s)
  BY <1>2, FS_Subset
<1>4. Total(S) \in Nat
  BY SumType
<1>5. s # {}
  <2>1. S \union {} = S /\ Total({}) = 0
    BY SumOfNone
  <2> HIDE DEF Total
  <2> QED
    BY <1>3, <1>4, <2>1
<1>6. PICK y : y \in s
  BY <1>5
<1>7. Total(S \union (s \ {y})) = Total(S) + Total(s \ {y})
  <2>1. s \ {y} \in SUBSET T /\ s \ {y} \notin B
    <3> HIDE DEF B
    <3> QED
      BY <1>2, <1>3, <1>6
  <2> HIDE DEF Total
  <2> QED
    BY <2>1
<1>8. IsFiniteSet(s \ {y}) /\ IsFiniteSet(S \union (s \ {y}))
  BY <1>3, FS_RemoveElement, FS_Union
<1>9. Total(s) = Total(s \ {y}) + f[y]
  <2>1. s = (s \ {y}) \union {y} /\ y \notin s \ {y}
    BY <1>6
  <2>2. \A x \in (s \ {y}) \union {y} : f[x] \in Nat
    BY <1>3, <1>6
  <2>3. Total((s \ {y}) \union {y}) = Total(s \ {y}) + f[y]
    BY <1>8, <2>1, <2>2, SumWith
  <2> QED
    BY <2>1, <2>3
<1>10. Total(S \union s) = Total(S \union (s \ {y})) + f[y]
  <2>1. S \union s = (S \union (s \ {y})) \union {y} /\ y \notin S \union (s \ {y})
    BY <1>3, <1>6
  <2>2. \A x \in (S \union (s \ {y})) \union {y} : f[x] \in Nat
    BY <1>3, <1>6
  <2>3. Total((S \union (s \ {y})) \union {y}) = Total(S \union (s \ {y})) + f[y]
    BY <1>8, <2>1, <2>2, SumWith
  <2> QED
    BY <2>1, <2>3
<1>11. Total(s \ {y}) \in Nat /\ f[y] \in Nat
  BY <1>3, <1>6, <1>8, SumType
<1> HIDE DEF Total, B
<1> QED
  BY <1>3, <1>4, <1>7, <1>9, <1>10, <1>11

\* A part of a set has no larger a sum.
THEOREM SumOfPart ==
  ASSUME NEW S, IsFiniteSet(S), NEW T \in SUBSET S,
         NEW f, \A x \in S : f[x] \in Nat
  PROVE  SumFunctionOnSet(f, T) <= SumFunctionOnSet(f, S)
<1>1. /\ IsFiniteSet(T) /\ IsFiniteSet(S \ T)
      /\ S = T \union (S \ T) /\ T \intersect (S \ T) = {}
  BY FS_Subset
<1>2. SumFunctionOnSet(f, T) \in Nat /\ SumFunctionOnSet(f, S \ T) \in Nat
  BY <1>1, SumType
<1>3. SumFunctionOnSet(f, T \union (S \ T))
        = SumFunctionOnSet(f, T) + SumFunctionOnSet(f, S \ T)
  BY <1>1, SumOfUnion
<1>4. SumFunctionOnSet(f, S) = SumFunctionOnSet(f, T) + SumFunctionOnSet(f, S \ T)
  BY <1>1, <1>3
<1> QED
  BY <1>2, <1>4

\* A sum can be taken over the images of an injection instead.
THEOREM SumOfImage ==
  ASSUME NEW S, IsFiniteSet(S), NEW g,
         \A x, y \in S : g[x] = g[y] => x = y,
         NEW f, NEW e, \A x \in S : f[x] \in Nat /\ f[x] = e[g[x]]
  PROVE  SumFunctionOnSet(f, S) = SumFunctionOnSet(e, {g[x] : x \in S})
<1> DEFINE Im(s) == {g[x] : x \in s}
           B == {s \in SUBSET S : SumFunctionOnSet(f, s) # SumFunctionOnSet(e, Im(s))}
<1>1. SUFFICES ASSUME B # {} PROVE FALSE
  BY DEF B
<1>2. PICK s \in B : \A t \in B : t \subseteq s => t = s
  <2> HIDE DEF B
  <2>1. B \subseteq SUBSET S
    BY DEF B
  <2> QED
    BY <1>1, <2>1, SmallestSubset
<1>3. /\ s \in SUBSET S /\ IsFiniteSet(s)
      /\ SumFunctionOnSet(f, s) # SumFunctionOnSet(e, Im(s))
  BY FS_Subset
<1>4. s # {}
  <2>1. Im({}) = {}
    OBVIOUS
  <2>2. SumFunctionOnSet(f, {}) = SumFunctionOnSet(e, Im({}))
    BY <2>1, SumOfNone
  <2> HIDE DEF B, Im
  <2> QED
    BY <1>3, <2>2
<1>5. PICK y : y \in s
  BY <1>4
<1> DEFINE t == s \ {y}
<1>6. SumFunctionOnSet(f, t) = SumFunctionOnSet(e, Im(t))
  <2>1. t \in SUBSET S /\ t \notin B
    <3> HIDE DEF B
    <3> QED
      BY <1>2, <1>3, <1>5
  <2> HIDE DEF t, Im
  <2> QED
    BY <2>1
<1>7. IsFiniteSet(t) /\ y \notin t /\ s = t \union {y}
  BY <1>3, <1>5, FS_RemoveElement
<1>8. IsFiniteSet(Im(t))
  <2> DEFINE h == [x \in t |-> g[x]]
  <2>1. h \in Surjection(t, Im(t))
    BY DEF Surjection
  <2> HIDE DEF h, t, Im
  <2> QED
    BY <1>7, <2>1, FS_Surjection
<1>9. g[y] \notin Im(t) /\ Im(s) = Im(t) \union {g[y]}
  BY <1>3, <1>5
<1>10. \A z \in Im(t) \union {g[y]} : e[z] \in Nat
  BY <1>3, <1>5
<1>11. SumFunctionOnSet(f, s) = SumFunctionOnSet(f, t) + f[y]
  <2>1. \A x \in t \union {y} : f[x] \in Nat
    BY <1>3, <1>5
  <2> HIDE DEF t
  <2>2. SumFunctionOnSet(f, t \union {y}) = SumFunctionOnSet(f, t) + f[y]
    BY <1>7, <2>1, SumWith, ZenonT(30)
  <2> QED
    BY <1>7, <2>2
<1>12. SumFunctionOnSet(e, Im(s)) = SumFunctionOnSet(e, Im(t)) + e[g[y]]
  <2> HIDE DEF Im, t
  <2>1. SumFunctionOnSet(e, Im(t) \union {g[y]}) = SumFunctionOnSet(e, Im(t)) + e[g[y]]
    BY <1>8, <1>9, <1>10, SumWith
  <2> QED
    BY <1>9, <2>1
<1>13. f[y] = e[g[y]]
  BY <1>3, <1>5
<1> HIDE DEF B, Im, t
<1> QED
  BY <1>3, <1>6, <1>11, <1>12, <1>13
=============================================================================
