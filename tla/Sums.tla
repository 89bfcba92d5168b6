-------------------------------- MODULE Sums --------------------------------
(***************************************************************************)
(* Sums over finite sets, as the community modules fold them: the facts    *)
(* that the totals of a census and the amounts of coins are reasoned with. *)
(* Every induction here is the choice of a least counterexample, which     *)
(* exists because a finite set has no infinite descent of subsets.         *)
(***************************************************************************)
EXTENDS FiniteSetTheorems, FiniteSetsExt, TLAPS

LEMMA LeastNatural ==
  ASSUME NEW T, T \subseteq Nat, T # {}
  PROVE  \E n \in T : \A m \in T : n <= m
<1> DEFINE R == OpToRel(<, Nat)
<1>1. IsWellFoundedOn(R, Nat)
  BY NatLessThanWellFounded
<1>2. PICK n \in T : \A m \in T : ~ (<<m, n>> \in R)
  <2> HIDE DEF R
  <2> QED
    BY <1>1, WFMin
<1>3. \A m, k \in Nat : m < k => <<m, k>> \in R
  BY DEF OpToRel
<1>4. ASSUME NEW m \in T
      PROVE  n <= m
  <2> HIDE DEF R
  <2>1. m \in Nat /\ n \in Nat
    OBVIOUS
  <2>2. ~(m < n)
    BY <1>2, <1>3, <2>1
  <2> QED
    BY <2>1, <2>2
<1> QED
  BY <1>4

LEMMA LeastSubset ==
  ASSUME NEW S, IsFiniteSet(S), NEW T, T \subseteq SUBSET S, T # {}
  PROVE  \E s \in T : \A t \in T : t \subseteq s => t = s
<1> DEFINE R == StrictSubsetOrdering(S)
<1>1. IsWellFoundedOn(R, SUBSET S)
  BY FS_StrictSubsetOrderingWellFounded, FS_FiniteSubsetsOfFinite
<1>2. PICK s \in T : \A t \in T : ~ (<<t, s>> \in R)
  <2> HIDE DEF R
  <2> QED
    BY <1>1, WFMin
<1>3. \A s1, t1 \in SUBSET S : s1 \subseteq t1 /\ s1 # t1 => <<s1, t1>> \in R
  BY DEF StrictSubsetOrdering
<1> QED
  BY <1>2, <1>3

(***************************************************************************)
(* The fold itself: a sum takes one element off the set, whichever the     *)
(* fold chooses, and goes on with the rest.                                *)
(***************************************************************************)
Sum(f, S) == SumFunctionOnSet(f, S)

Picked(s) == CHOOSE x \in s : TRUE
Rest(s) == s \ {Picked(s)}
Added(f, g, s) == IF s = {} THEN 0 ELSE f[Picked(s)] + g[Rest(s)]
SumsUp(f, g, S) == g = [s \in SUBSET S |-> Added(f, g, s)]

LEMMA SumIsChosen ==
  ASSUME NEW f, NEW S
  PROVE  Sum(f, S) = (CHOOSE g : SumsUp(f, g, S))[S]
BY Zenon DEF Sum, SumFunctionOnSet, FoldFunctionOnSet, MapThenFoldSet,
             SumsUp, Added, Picked, Rest

LEMMA RestIsLess == \A s : s # {} => Picked(s) \in s /\ Rest(s) \subseteq s /\ Rest(s) # s
BY DEF Picked, Rest

LEMMA SumsUnique ==
  ASSUME NEW S, IsFiniteSet(S), NEW U \in SUBSET S, NEW f,
         NEW g, SumsUp(f, g, S), NEW h, SumsUp(f, h, U)
  PROVE  \A s \in SUBSET U : g[s] = h[s]
<1> DEFINE T == {s \in SUBSET U : g[s] # h[s]}
<1>1. SUFFICES ASSUME T # {} PROVE FALSE
  OBVIOUS
<1>2. PICK s \in T : \A t \in T : t \subseteq s => t = s
  <2>1. T \subseteq SUBSET S
    OBVIOUS
  <2> HIDE DEF T
  <2> QED
    BY <1>1, <2>1, LeastSubset
<1>3. g[s] = Added(f, g, s) /\ h[s] = Added(f, h, s)
  BY <1>2 DEF SumsUp
<1>4. s = {} \/ g[Rest(s)] = h[Rest(s)]
  BY <1>2, RestIsLess
<1> QED
  BY <1>2, <1>3, <1>4 DEF Added

LEMMA SumsExist ==
  ASSUME NEW S, IsFiniteSet(S), NEW f
  PROVE  \E g : SumsUp(f, g, S)
<1> DEFINE T == {s \in SUBSET S : ~ \E g : SumsUp(f, g, s)}
<1>1. SUFFICES ASSUME T # {} PROVE FALSE
  <2>1. S \notin T
    BY <1>1
  <2> QED
    BY <2>1
<1>2. PICK s \in T : \A t \in T : t \subseteq s => t = s
  <2>1. T \subseteq SUBSET S
    OBVIOUS
  <2> HIDE DEF T
  <2> QED
    BY <1>1, <2>1, LeastSubset
<1> DEFINE G(t) == CHOOSE g : SumsUp(f, g, t)
           g == [t \in SUBSET s |-> Added(f, G(Rest(t)), t)]
<1>3. \A t \in SUBSET s : t # s => SumsUp(f, G(t), t)
  BY <1>2
<1>4. ASSUME NEW t \in SUBSET s
      PROVE  g[t] = Added(f, g, t)
  <2>1. CASE t = {}
    BY <2>1 DEF Added
  <2>2. CASE t # {}
    <3> DEFINE r == Rest(t)
    <3>1. r \in SUBSET s /\ r # s /\ Picked(t) \in t /\ r \subseteq t
      BY <2>2, RestIsLess
    <3>2. G(r)[r] = Added(f, G(r), r)
      <4>1. SumsUp(f, G(r), r)
        BY <1>3, <3>1
      <4> HIDE DEF G, r
      <4> QED
        BY <4>1 DEF SumsUp
    <3>3. g[r] = Added(f, G(Rest(r)), r)
      BY <3>1
    <3>4. r # {} => G(r)[Rest(r)] = G(Rest(r))[Rest(r)]
      <4>1. SUFFICES ASSUME r # {} PROVE G(r)[Rest(r)] = G(Rest(r))[Rest(r)]
        OBVIOUS
      <4>2. Rest(r) \in SUBSET r /\ Rest(r) \in SUBSET s /\ Rest(r) # s
        BY <3>1, <4>1, RestIsLess
      <4>3. SumsUp(f, G(r), r) /\ SumsUp(f, G(Rest(r)), Rest(r))
        BY <1>3, <3>1, <4>2
      <4>4. IsFiniteSet(r)
        BY <1>2, <3>1, FS_Subset
      <4> HIDE DEF r, G
      <4> QED
        BY <4>2, <4>3, <4>4, SumsUnique
    <3>5. g[r] = G(r)[r]
      BY <3>2, <3>3, <3>4 DEF Added
    <3> QED
      BY <2>2, <3>5 DEF Added
  <2> QED
    BY <2>1, <2>2
<1>5. SumsUp(f, g, s)
  BY <1>4 DEF SumsUp
<1> QED
  BY <1>2, <1>5

\* A sum over a set that is not empty, as the fold takes it apart.
LEMMA SumUnfolds ==
  ASSUME NEW S, IsFiniteSet(S), NEW f
  PROVE  Sum(f, S) = IF S = {} THEN 0 ELSE f[Picked(S)] + Sum(f, Rest(S))
<1> DEFINE G(t) == CHOOSE g : SumsUp(f, g, t)
<1>1. SumsUp(f, G(S), S)
  BY SumsExist
<1>2. Sum(f, S) = Added(f, G(S), S)
  BY <1>1, SumIsChosen DEF SumsUp
<1>3. S # {} => G(S)[Rest(S)] = Sum(f, Rest(S))
  <2>1. SUFFICES ASSUME S # {} PROVE G(S)[Rest(S)] = Sum(f, Rest(S))
    OBVIOUS
  <2>2. Rest(S) \in SUBSET S /\ IsFiniteSet(Rest(S))
    BY <2>1, RestIsLess, FS_Subset
  <2>3. SumsUp(f, G(Rest(S)), Rest(S))
    BY <2>2, SumsExist
  <2>4. Sum(f, Rest(S)) = G(Rest(S))[Rest(S)]
    BY SumIsChosen
  <2> HIDE DEF G
  <2> QED
    BY <1>1, <2>2, <2>3, <2>4, SumsUnique
<1> QED
  BY <1>2, <1>3 DEF Added

(***************************************************************************)
(* Sums of integers.                                                       *)
(***************************************************************************)
Ints(f, S) == \A x \in S : f[x] \in Int

\* The order of the fold does not matter: any element may come first.
LEMMA SumTakes ==
  ASSUME NEW S, IsFiniteSet(S), NEW f, Ints(f, S)
  PROVE  /\ Sum(f, S) \in Int
         /\ \A x \in S : Sum(f, S) = f[x] + Sum(f, S \ {x})
<1> DEFINE OK(s) == /\ Sum(f, s) \in Int
                    /\ \A x \in s : Sum(f, s) = f[x] + Sum(f, s \ {x})
           T == {s \in SUBSET S : ~ OK(s)}
<1>1. SUFFICES ASSUME T # {} PROVE FALSE
  BY <1>1
<1>2. PICK s \in T : \A t \in T : t \subseteq s => t = s
  <2>1. T \subseteq SUBSET S
    OBVIOUS
  <2> HIDE DEF T
  <2> QED
    BY <1>1, <2>1, LeastSubset
<1>3. \A t \in SUBSET s : t # s => OK(t)
  BY <1>2
<1> HIDE DEF OK
<1>4. ASSUME NEW t \in SUBSET s
      PROVE  Sum(f, t) = IF t = {} THEN 0 ELSE f[Picked(t)] + Sum(f, Rest(t))
  BY <1>2, FS_Subset, SumUnfolds
<1>5. CASE s = {}
  BY <1>2, <1>4, <1>5 DEF OK
<1>6. CASE s # {}
  <2> DEFINE p == Picked(s)
  <2>1. p \in s /\ Rest(s) = s \ {p} /\ Rest(s) \in SUBSET s /\ Rest(s) # s
    BY <1>6, RestIsLess DEF Rest
  <2>2. Sum(f, s) = f[p] + Sum(f, s \ {p})
    BY <1>4, <1>6, <2>1
  <2>3. \A x \in s : f[x] \in Int
    BY <1>2 DEF Ints
  <2>4. \A x \in s : OK(s \ {x})
    BY <1>3
  <2>5. Sum(f, s) \in Int
    BY <2>1, <2>2, <2>3, <2>4 DEF OK
  <2>6. ASSUME NEW x \in s, x # p
        PROVE  Sum(f, s) = f[x] + Sum(f, s \ {x})
    <3>1. (s \ {p}) \ {x} = (s \ {x}) \ {p}
      OBVIOUS
    <3>2. Sum(f, s \ {p}) = f[x] + Sum(f, (s \ {p}) \ {x})
      BY <2>1, <2>4, <2>6 DEF OK
    <3>3. Sum(f, s \ {x}) = f[p] + Sum(f, (s \ {p}) \ {x})
      BY <2>1, <2>4, <2>6, <3>1 DEF OK
    <3>4. Sum(f, (s \ {p}) \ {x}) \in Int
      <4>1. (s \ {p}) \ {x} # s /\ (s \ {p}) \ {x} \in SUBSET s
        BY <2>1
      <4> QED
        BY <1>3, <4>1 DEF OK
    <3> QED
      BY <2>1, <2>2, <2>3, <3>2, <3>3, <3>4
  <2>7. OK(s)
    BY <2>2, <2>5, <2>6 DEF OK
  <2> QED
    BY <1>2, <2>7
<1> QED
  BY <1>5, <1>6

LEMMA SumOfNone == \A f : Sum(f, {}) = 0
BY FS_EmptySet, SumUnfolds

LEMMA SumOfOne ==
  ASSUME NEW x, NEW f, f[x] \in Int
  PROVE  Sum(f, {x}) = f[x]
<1>1. IsFiniteSet({x}) /\ Ints(f, {x}) /\ {x} \ {x} = {}
  BY FS_Singleton DEF Ints
<1>2. Sum(f, {x}) = f[x] + Sum(f, {})
  BY <1>1, SumTakes
<1> QED
  BY <1>2, SumOfNone

\* Only the values on the set count.
LEMMA SumAgrees ==
  ASSUME NEW S, IsFiniteSet(S), NEW f, NEW g, \A x \in S : f[x] = g[x]
  PROVE  Sum(f, S) = Sum(g, S)
<1> DEFINE T == {s \in SUBSET S : Sum(f, s) # Sum(g, s)}
<1>1. SUFFICES ASSUME T # {} PROVE FALSE
  OBVIOUS
<1>2. PICK s \in T : \A t \in T : t \subseteq s => t = s
  <2>1. T \subseteq SUBSET S
    OBVIOUS
  <2> HIDE DEF T
  <2> QED
    BY <1>1, <2>1, LeastSubset
<1>3. IsFiniteSet(s) /\ s # {}
  BY <1>2, FS_Subset, SumOfNone
<1>4. Rest(s) \in SUBSET s /\ Rest(s) # s /\ Picked(s) \in s
  BY <1>3, RestIsLess
<1>5. Sum(f, Rest(s)) = Sum(g, Rest(s))
  BY <1>2, <1>4
<1> QED
  BY <1>2, <1>3, <1>4, <1>5, SumUnfolds

LEMMA SumJoins ==
  ASSUME NEW S, IsFiniteSet(S), NEW U, IsFiniteSet(U), S \cap U = {},
         NEW f, Ints(f, S \union U)
  PROVE  Sum(f, S \union U) = Sum(f, S) + Sum(f, U)
<1> DEFINE T == {s \in SUBSET S : Sum(f, s \union U) # Sum(f, s) + Sum(f, U)}
<1>1. SUFFICES ASSUME T # {} PROVE FALSE
  OBVIOUS
<1>2. PICK s \in T : \A t \in T : t \subseteq s => t = s
  <2>1. T \subseteq SUBSET S
    OBVIOUS
  <2> HIDE DEF T
  <2> QED
    BY <1>1, <2>1, LeastSubset
<1>3. /\ IsFiniteSet(s) /\ Ints(f, s) /\ Ints(f, U)
      /\ IsFiniteSet(s \union U) /\ Ints(f, s \union U)
  BY <1>2, FS_Subset, FS_Union DEF Ints
<1>4. Sum(f, U) \in Int
  BY <1>3, SumTakes
<1>5. CASE s = {}
  BY <1>2, <1>4, <1>5, SumOfNone, {} \union U = U
<1>6. CASE s # {}
  <2>1. PICK x \in s : TRUE
    BY <1>6
  <2>2. (s \union U) \ {x} = (s \ {x}) \union U
    BY <1>2
  <2>3. Sum(f, (s \ {x}) \union U) = Sum(f, s \ {x}) + Sum(f, U)
    BY <1>2
  <2>4. Sum(f, s) = f[x] + Sum(f, s \ {x})
    BY <1>3, SumTakes
  <2>5. Sum(f, s \union U) = f[x] + Sum(f, (s \ {x}) \union U)
    BY <1>3, <2>2, SumTakes
  <2>6. f[x] \in Int /\ Sum(f, s \ {x}) \in Int
    <3>1. IsFiniteSet(s \ {x}) /\ Ints(f, s \ {x})
      BY <1>3, FS_RemoveElement DEF Ints
    <3> QED
      BY <1>3, <3>1, SumTakes DEF Ints
  <2>7. Sum(f, s \union U) = Sum(f, s) + Sum(f, U)
    BY <1>4, <2>3, <2>4, <2>5, <2>6
  <2> QED
    BY <1>2, <2>7
<1> QED
  BY <1>5, <1>6

LEMMA SumOfZeros ==
  ASSUME NEW S, IsFiniteSet(S), NEW f, \A x \in S : f[x] = 0
  PROVE  Sum(f, S) = 0
<1> DEFINE T == {s \in SUBSET S : Sum(f, s) # 0}
<1>1. SUFFICES ASSUME T # {} PROVE FALSE
  OBVIOUS
<1>2. PICK s \in T : \A t \in T : t \subseteq s => t = s
  <2>1. T \subseteq SUBSET S
    OBVIOUS
  <2> HIDE DEF T
  <2> QED
    BY <1>1, <2>1, LeastSubset
<1>3. IsFiniteSet(s) /\ s # {}
  BY <1>2, FS_Subset, SumOfNone
<1>4. Rest(s) \in SUBSET s /\ Rest(s) # s /\ Picked(s) \in s
  BY <1>3, RestIsLess
<1>5. Sum(f, Rest(s)) = 0
  BY <1>2, <1>4
<1>6. Sum(f, s) = f[Picked(s)] + 0
  BY <1>3, <1>5, SumUnfolds
<1> QED
  BY <1>2, <1>4, <1>6

\* A sum of which one term changes.
LEMMA SumChanges ==
  ASSUME NEW S, IsFiniteSet(S), NEW x \in S, NEW f, Ints(f, S), NEW g, g[x] \in Int,
         \A y \in S \ {x} : g[y] = f[y]
  PROVE  Sum(g, S) = Sum(f, S) - f[x] + g[x]
<1>1. IsFiniteSet(S \ {x}) /\ Ints(f, S \ {x}) /\ Ints(g, S)
  BY FS_RemoveElement DEF Ints
<1>2. Sum(g, S \ {x}) = Sum(f, S \ {x})
  BY <1>1, SumAgrees
<1>3. Sum(f, S) = f[x] + Sum(f, S \ {x}) /\ Sum(g, S) = g[x] + Sum(g, S \ {x})
  BY <1>1, SumTakes
<1>4. f[x] \in Int /\ Sum(f, S \ {x}) \in Int
  BY <1>1, SumTakes DEF Ints
<1> QED
  BY <1>2, <1>3, <1>4

\* A sum over a set that is sorted into classes is the sum of their sums.
ClassOf(k, r, S) == {x \in S : k[x] = r}
ClassSums(f, k, R, S) == [r \in R |-> Sum(f, ClassOf(k, r, S))]

LEMMA SumByClass ==
  ASSUME NEW S, IsFiniteSet(S), NEW R, IsFiniteSet(R), NEW f, Ints(f, S),
         NEW k, \A x \in S : k[x] \in R
  PROVE  Sum(f, S) = Sum(ClassSums(f, k, R, S), R)
<1> DEFINE T == {s \in SUBSET S : Sum(f, s) # Sum(ClassSums(f, k, R, s), R)}
<1>1. SUFFICES ASSUME T # {} PROVE FALSE
  OBVIOUS
<1>2. PICK s \in T : \A t \in T : t \subseteq s => t = s
  <2>1. T \subseteq SUBSET S
    OBVIOUS
  <2> HIDE DEF T
  <2> QED
    BY <1>1, <2>1, LeastSubset
<1>3. IsFiniteSet(s) /\ Ints(f, s)
  BY <1>2, FS_Subset DEF Ints
<1>4. ASSUME NEW r \in R, NEW t \in SUBSET s
      PROVE  /\ IsFiniteSet(ClassOf(k, r, t)) /\ Ints(f, ClassOf(k, r, t))
             /\ ClassSums(f, k, R, t)[r] = Sum(f, ClassOf(k, r, t))
             /\ ClassSums(f, k, R, t)[r] \in Int
  <2>1. ClassOf(k, r, t) \in SUBSET s
    BY DEF ClassOf
  <2>2. IsFiniteSet(ClassOf(k, r, t)) /\ Ints(f, ClassOf(k, r, t))
    BY <1>3, <2>1, FS_Subset DEF Ints
  <2> QED
    BY <2>2, SumTakes DEF ClassSums
<1>5. CASE s = {}
  <2>1. \A r \in R : ClassSums(f, k, R, s)[r] = 0
    <3>1. \A r \in R : ClassOf(k, r, s) = {}
      BY <1>5 DEF ClassOf
    <3> QED
      BY <1>4, <3>1, SumOfNone
  <2> QED
    BY <1>2, <1>5, <2>1, SumOfNone, SumOfZeros
<1>6. CASE s # {}
  <2>1. PICK x \in s : TRUE
    BY <1>6
  <2> DEFINE t == s \ {x}
             q == k[x]
             F == ClassSums(f, k, R, s)
             G == ClassSums(f, k, R, t)
  <2>2. t \in SUBSET s /\ q \in R
    BY <1>2
  <2>3. Sum(f, t) = Sum(G, R)
    BY <1>2, <2>2
  <2>4. Sum(f, s) = f[x] + Sum(f, t) /\ f[x] \in Int
    BY <1>3, SumTakes DEF Ints
  <2>5. \A r \in R \ {q} : F[r] = G[r]
    <3>1. \A r \in R \ {q} : ClassOf(k, r, s) = ClassOf(k, r, t)
      BY DEF ClassOf
    <3> QED
      BY <1>4, <2>2, <3>1
  <2>6. F[q] = f[x] + G[q]
    <3>1. x \in ClassOf(k, q, s) /\ ClassOf(k, q, t) = ClassOf(k, q, s) \ {x}
      BY DEF ClassOf
    <3>2. Sum(f, ClassOf(k, q, s)) = f[x] + Sum(f, ClassOf(k, q, s) \ {x})
      BY <1>4, <2>2, <3>1, SumTakes
    <3> QED
      BY <1>4, <2>2, <3>1, <3>2
  <2>7. Ints(G, R) /\ F[q] \in Int
    BY <1>4, <2>2 DEF Ints
  <2>8. Sum(F, R) = Sum(G, R) - G[q] + F[q]
    <3> HIDE DEF F, G
    <3> QED
      BY <2>2, <2>5, <2>7, SumChanges
  <2>9. Sum(G, R) \in Int /\ G[q] \in Int
    BY <2>2, <2>7, SumTakes DEF Ints
  <2>10. Sum(f, s) = Sum(F, R)
    <3> HIDE DEF F, G
    <3> QED
      BY <2>3, <2>4, <2>6, <2>8, <2>9
  <2> QED
    BY <1>2, <2>10
<1> QED
  BY <1>5, <1>6

LEMMA SumOfNaturals ==
  ASSUME NEW S, IsFiniteSet(S), NEW f, \A x \in S : f[x] \in Nat
  PROVE  Sum(f, S) \in Nat
<1> DEFINE T == {s \in SUBSET S : Sum(f, s) \notin Nat}
<1>1. SUFFICES ASSUME T # {} PROVE FALSE
  BY <1>1
<1>2. PICK s \in T : \A t \in T : t \subseteq s => t = s
  <2>1. T \subseteq SUBSET S
    OBVIOUS
  <2> HIDE DEF T
  <2> QED
    BY <1>1, <2>1, LeastSubset
<1>3. IsFiniteSet(s) /\ s # {}
  <2>1. Sum(f, {}) \in Nat
    BY SumOfNone
  <2> QED
    BY <1>2, <2>1, FS_Subset
<1>4. Rest(s) \in SUBSET s /\ Rest(s) # s /\ Picked(s) \in s
  BY <1>3, RestIsLess
<1>5. Sum(f, Rest(s)) \in Nat
  BY <1>2, <1>4
<1>6. Sum(f, s) = f[Picked(s)] + Sum(f, Rest(s))
  BY <1>3, SumUnfolds
<1> QED
  BY <1>2, <1>4, <1>5, <1>6

(***************************************************************************)
(* Finite sets.                                                            *)
(***************************************************************************)
LEMMA FiniteImage ==
  ASSUME NEW S, IsFiniteSet(S), NEW f
  PROVE  IsFiniteSet({f[x] : x \in S})
<1> DEFINE T == {f[x] : x \in S}
           g == [x \in S |-> f[x]]
<1>1. g \in Surjection(S, T)
  BY DEF Surjection
<1> HIDE DEF g, T
<1>2. IsFiniteSet(T)
  BY <1>1, FS_Surjection
<1> QED
  BY <1>2 DEF T

\* The least element of a set of naturals.
LEMMA MinIsLeast ==
  ASSUME NEW T, T \subseteq Nat, T # {}
  PROVE  Min(T) \in T /\ \A n \in T : Min(T) <= n
BY LeastNatural DEF Min
=============================================================================
