----------------------------- MODULE SumTheorems -----------------------------
(* Sums over finite sets: what the sums that the models take by                *)
(* SumFunctionOnSet are, whatever order the elements are chosen in.            *)
EXTENDS Integers, FiniteSets, Functions, FiniteSetTheorems, WellFoundedInduction, TLAPS

\* Induction over the subsets of a finite set.
LEMMA SubsetInduction ==
  ASSUME NEW S, IsFiniteSet(S), NEW G,
         \A T \in SUBSET S : (\A x \in T : T \ {x} \in G) => T \in G
  PROVE  SUBSET S \subseteq G
<1> DEFINE B == (SUBSET S) \ G
<1>1. SUFFICES ASSUME B # {} PROVE FALSE
  OBVIOUS
<1>2. IsWellFoundedOn(StrictSubsetOrdering(S), FiniteSubsetsOf(S))
  BY FS_StrictSubsetOrderingWellFounded
<1>3. B \subseteq FiniteSubsetsOf(S)
  BY FS_Subset DEF FiniteSubsetsOf
<1>4. PICK T \in B : \A U \in B : ~(<<U, T>> \in StrictSubsetOrdering(S))
  <2> HIDE DEF B
  <2>1. QED
    BY <1>1, <1>2, <1>3, WFMin, Zenon
<1>5. ASSUME NEW x \in T PROVE T \ {x} \in G
  <2>1. <<T \ {x}, T>> \in StrictSubsetOrdering(S)
    BY DEF StrictSubsetOrdering
  <2>2. T \ {x} \notin B
    BY <1>4, <2>1
  <2>3. QED
    BY <2>2
<1>6. QED
  BY <1>5

\* The element that a sum over T takes first.
First(T) == CHOOSE x \in T : TRUE

\* h is the sum of f over each subset of S, First by First.
Sums(h, f, S) ==
  h = [T \in SUBSET S |-> IF T = {} THEN 0 ELSE f[First(T)] + h[T \ {First(T)}]]

LEMMA FirstIn == ASSUME NEW T, T # {} PROVE First(T) \in T
BY DEF First

LEMMA SumDef ==
  ASSUME NEW f, NEW S
  PROVE  SumFunctionOnSet(f, S) = (CHOOSE h : Sums(h, f, S))[S]
BY DEF SumFunctionOnSet, FoldFunctionOnSet, MapThenFoldSet, Sums, First

\* There is at most one such h, whatever set it is taken for.
LEMMA SumsAgree ==
  ASSUME NEW f, NEW S, NEW R, IsFiniteSet(R), R \subseteq S, NEW g, NEW h,
         Sums(g, f, S), Sums(h, f, R)
  PROVE  \A T \in SUBSET R : g[T] = h[T]
<1> DEFINE G == {T \in SUBSET R : g[T] = h[T]}
<1>1. ASSUME NEW T \in SUBSET R, \A x \in T : T \ {x} \in G PROVE T \in G
  <2>1. /\ g[T] = IF T = {} THEN 0 ELSE f[First(T)] + g[T \ {First(T)}]
        /\ h[T] = IF T = {} THEN 0 ELSE f[First(T)] + h[T \ {First(T)}]
    BY DEF Sums
  <2>2. T # {} => g[T \ {First(T)}] = h[T \ {First(T)}]
    BY <1>1, FirstIn
  <2>3. QED
    BY <2>1, <2>2
<1> HIDE DEF G
<1>2. SUBSET R \subseteq G
  BY <1>1, SubsetInduction
<1>3. QED
  BY <1>2 DEF G

\* The sums of a set restrict to those of its subsets.
LEMMA SumsRestrict ==
  ASSUME NEW f, NEW S, NEW R, R \subseteq S, NEW h, Sums(h, f, S)
  PROVE  Sums([T \in SUBSET R |-> h[T]], f, R)
<1> DEFINE g == [T \in SUBSET R |-> h[T]]
<1>1. ASSUME NEW T \in SUBSET R
      PROVE  g[T] = IF T = {} THEN 0 ELSE f[First(T)] + g[T \ {First(T)}]
  <2>1. h[T] = IF T = {} THEN 0 ELSE f[First(T)] + h[T \ {First(T)}]
    BY DEF Sums
  <2>2. T \ {First(T)} \in SUBSET R
    OBVIOUS
  <2>3. QED
    BY <2>1, <2>2
<1>2. QED
  BY <1>1 DEF Sums

\* There is one.
LEMMA SumsExist ==
  ASSUME NEW f, NEW S, IsFiniteSet(S) PROVE \E h : Sums(h, f, S)
<1> DEFINE G == {T \in SUBSET S : \E h : Sums(h, f, T)}
<1>1. ASSUME NEW T \in SUBSET S, \A x \in T : T \ {x} \in G PROVE T \in G
  <2> DEFINE F == [U \in SUBSET T |-> (CHOOSE h : Sums(h, f, U))[U]]
             h == [U \in SUBSET T |-> IF U = {} THEN 0
                                      ELSE f[First(U)] + F[U \ {First(U)}]]
  <2>1. ASSUME NEW U \in SUBSET T, U # T PROVE \E e : Sums(e, f, U)
    <3>1. PICK x \in T : x \notin U
      BY <2>1
    <3>2. PICK e : Sums(e, f, T \ {x})
      BY <1>1, <3>1
    <3>3. U \subseteq T \ {x}
      BY <3>1
    <3>4. Sums([V \in SUBSET U |-> e[V]], f, U)
      BY <3>2, <3>3, SumsRestrict
    <3>5. QED
      BY <3>4
  <2>2. ASSUME NEW U \in SUBSET T, U # T PROVE h[U] = F[U]
    <3>1. PICK e : e = CHOOSE w : Sums(w, f, U)
      OBVIOUS
    <3>2. Sums(e, f, U) /\ F[U] = e[U]
      BY <2>1, <2>2, <3>1
    <3>3. e[U] = IF U = {} THEN 0 ELSE f[First(U)] + e[U \ {First(U)}]
      BY <3>2 DEF Sums
    <3>4. U # {} => e[U \ {First(U)}] = F[U \ {First(U)}]
      <4>1. SUFFICES ASSUME U # {} PROVE e[U \ {First(U)}] = F[U \ {First(U)}]
        OBVIOUS
      <4> DEFINE V == U \ {First(U)}
      <4>2. V \in SUBSET T /\ V # T /\ V \subseteq U /\ IsFiniteSet(V)
        BY <4>1, FirstIn, FS_Subset
      <4>3. PICK d : d = CHOOSE w : Sums(w, f, V)
        OBVIOUS
      <4>4. Sums(d, f, V) /\ F[V] = d[V]
        BY <2>1, <4>2, <4>3
      <4>5. e[V] = d[V]
        <5> HIDE DEF V, F, G, h
        <5>1. QED
          BY <3>2, <4>2, <4>4, SumsAgree
      <4>6. QED
        BY <4>4, <4>5
    <3>5. QED
      BY <3>2, <3>3, <3>4
  <2>3. ASSUME NEW U \in SUBSET T
        PROVE  h[U] = IF U = {} THEN 0 ELSE f[First(U)] + h[U \ {First(U)}]
    <3>1. U # {} => U \ {First(U)} \in SUBSET T /\ U \ {First(U)} # T
      BY FirstIn
    <3>2. U # {} => h[U \ {First(U)}] = F[U \ {First(U)}]
      BY <2>2, <3>1
    <3>3. QED
      BY <3>2
  <2>4. Sums(h, f, T)
    <3>1. h = [U \in SUBSET T |-> h[U]]
      OBVIOUS
    <3> HIDE DEF h
    <3>2. QED
      BY <2>3, <3>1 DEF Sums
  <2>5. QED
    BY <2>4
<1> HIDE DEF G
<1>2. SUBSET S \subseteq G
  BY <1>1, SubsetInduction
<1>3. QED
  BY <1>2 DEF G

\* A sum, First by First.
LEMMA SumFirst ==
  ASSUME NEW f, NEW S, IsFiniteSet(S)
  PROVE  SumFunctionOnSet(f, S) =
           IF S = {} THEN 0 ELSE f[First(S)] + SumFunctionOnSet(f, S \ {First(S)})
<1>1. PICK h : h = CHOOSE w : Sums(w, f, S)
  OBVIOUS
<1>2. Sums(h, f, S) /\ SumFunctionOnSet(f, S) = h[S]
  BY <1>1, SumsExist, SumDef
<1>3. h[S] = IF S = {} THEN 0 ELSE f[First(S)] + h[S \ {First(S)}]
  BY <1>2 DEF Sums
<1>4. SumFunctionOnSet(f, S \ {First(S)}) = h[S \ {First(S)}]
  <2> DEFINE V == S \ {First(S)}
  <2>1. V \subseteq S /\ IsFiniteSet(V)
    BY FS_Subset
  <2>2. PICK d : d = CHOOSE w : Sums(w, f, V)
    OBVIOUS
  <2>3. Sums(d, f, V) /\ SumFunctionOnSet(f, V) = d[V]
    BY <2>1, <2>2, SumsExist, SumDef
  <2>4. h[V] = d[V]
    BY <1>2, <2>1, <2>3, SumsAgree
  <2>5. QED
    BY <2>3, <2>4
<1>5. QED
  BY <1>2, <1>3, <1>4

\* The sum of nothing.
LEMMA SumEmpty == ASSUME NEW f PROVE SumFunctionOnSet(f, {}) = 0
BY SumFirst, FS_EmptySet

\* The sum of integers is one.
LEMMA SumType ==
  ASSUME NEW f, NEW S, IsFiniteSet(S), \A x \in S : f[x] \in Int
  PROVE  SumFunctionOnSet(f, S) \in Int
<1> DEFINE G == {T \in SUBSET S : SumFunctionOnSet(f, T) \in Int}
<1>1. ASSUME NEW T \in SUBSET S, \A x \in T : T \ {x} \in G PROVE T \in G
  <2>1. IsFiniteSet(T)
    BY FS_Subset
  <2>2. CASE T = {}
    BY <2>2, SumEmpty
  <2>3. CASE T # {}
    <3>1. SumFunctionOnSet(f, T) = f[First(T)] + SumFunctionOnSet(f, T \ {First(T)})
      BY <2>1, <2>3, SumFirst
    <3>2. First(T) \in T
      BY <2>3, FirstIn
    <3>3. QED
      BY <1>1, <3>1, <3>2
  <2>4. QED
    BY <2>2, <2>3
<1> HIDE DEF G
<1>2. SUBSET S \subseteq G
  BY <1>1, SubsetInduction
<1>3. QED
  BY <1>2 DEF G

\* A sum, any element first.
LEMMA SumSplit ==
  ASSUME NEW f, NEW S, IsFiniteSet(S), \A x \in S : f[x] \in Int
  PROVE  \A x \in S : SumFunctionOnSet(f, S) = f[x] + SumFunctionOnSet(f, S \ {x})
<1> DEFINE G == {T \in SUBSET S :
                   \A x \in T : SumFunctionOnSet(f, T) = f[x] + SumFunctionOnSet(f, T \ {x})}
<1>1. ASSUME NEW T \in SUBSET S, \A x \in T : T \ {x} \in G PROVE T \in G
  <2>1. SUFFICES ASSUME NEW x \in T
                 PROVE  SumFunctionOnSet(f, T) = f[x] + SumFunctionOnSet(f, T \ {x})
    OBVIOUS
  <2>2. PICK c : c = First(T)
    OBVIOUS
  <2>3. c \in T /\ SumFunctionOnSet(f, T) = f[c] + SumFunctionOnSet(f, T \ {c})
    BY <2>2, FirstIn, SumFirst, FS_Subset
  <2>4. CASE x = c
    BY <2>3, <2>4
  <2>5. CASE x # c
    <3> DEFINE U == (T \ {c}) \ {x}
    <3>1. (T \ {x}) \ {c} = U
      OBVIOUS
    <3>2. SumFunctionOnSet(f, T \ {c}) = f[x] + SumFunctionOnSet(f, U)
      BY <1>1, <2>3, <2>5
    <3>3. SumFunctionOnSet(f, T \ {x}) = f[c] + SumFunctionOnSet(f, U)
      BY <1>1, <2>3, <2>5, <3>1
    <3>4. f[x] \in Int /\ f[c] \in Int
      BY <2>3
    <3>5. SumFunctionOnSet(f, U) \in Int
      <4>1. IsFiniteSet(U) /\ \A y \in U : f[y] \in Int
        BY FS_Subset
      <4>2. QED
        BY <4>1, SumType
    <3> HIDE DEF U
    <3>6. QED
      BY <2>3, <3>2, <3>3, <3>4, <3>5
  <2>6. QED
    BY <2>4, <2>5
<1> HIDE DEF G
<1>2. SUBSET S \subseteq G
  BY <1>1, SubsetInduction
<1>3. S \in G
  BY <1>2
<1>4. QED
  BY <1>3 DEF G

\* A sum depends on what is summed only.
LEMMA SumSame ==
  ASSUME NEW f, NEW g, NEW S, IsFiniteSet(S), \A x \in S : f[x] = g[x]
  PROVE  SumFunctionOnSet(f, S) = SumFunctionOnSet(g, S)
<1> DEFINE G == {T \in SUBSET S : SumFunctionOnSet(f, T) = SumFunctionOnSet(g, T)}
<1>1. ASSUME NEW T \in SUBSET S, \A x \in T : T \ {x} \in G PROVE T \in G
  <2>1. IsFiniteSet(T)
    BY FS_Subset
  <2>2. CASE T = {}
    BY <2>2, SumEmpty
  <2>3. CASE T # {}
    <3>1. /\ SumFunctionOnSet(f, T) = f[First(T)] + SumFunctionOnSet(f, T \ {First(T)})
          /\ SumFunctionOnSet(g, T) = g[First(T)] + SumFunctionOnSet(g, T \ {First(T)})
      BY <2>1, <2>3, SumFirst
    <3>2. First(T) \in T
      BY <2>3, FirstIn
    <3>3. QED
      BY <1>1, <3>1, <3>2
  <2>4. QED
    BY <2>2, <2>3
<1> HIDE DEF G
<1>2. SUBSET S \subseteq G
  BY <1>1, SubsetInduction
<1>3. QED
  BY <1>2 DEF G

\* One term changes.
LEMMA SumChange ==
  ASSUME NEW f, NEW g, NEW S, IsFiniteSet(S), \A x \in S : f[x] \in Int /\ g[x] \in Int,
         NEW x \in S, \A y \in S : y # x => f[y] = g[y]
  PROVE  SumFunctionOnSet(g, S) = SumFunctionOnSet(f, S) - f[x] + g[x]
<1>1. /\ SumFunctionOnSet(f, S) = f[x] + SumFunctionOnSet(f, S \ {x})
      /\ SumFunctionOnSet(g, S) = g[x] + SumFunctionOnSet(g, S \ {x})
  BY SumSplit
<1>2. IsFiniteSet(S \ {x})
  BY FS_Subset
<1>3. SumFunctionOnSet(f, S \ {x}) = SumFunctionOnSet(g, S \ {x})
  <2>1. \A y \in S \ {x} : f[y] = g[y]
    OBVIOUS
  <2>2. QED
    BY <1>2, <2>1, SumSame
<1>4. SumFunctionOnSet(f, S \ {x}) \in Int
  BY <1>2, SumType
<1>5. QED
  BY <1>1, <1>3, <1>4

\* A sum of natural numbers is one, and that of a part is no larger.
LEMMA SumNat ==
  ASSUME NEW f, NEW S, IsFiniteSet(S), \A x \in S : f[x] \in Nat
  PROVE  SumFunctionOnSet(f, S) \in Nat
<1> DEFINE G == {T \in SUBSET S : SumFunctionOnSet(f, T) \in Nat}
<1>1. ASSUME NEW T \in SUBSET S, \A x \in T : T \ {x} \in G PROVE T \in G
  <2>1. IsFiniteSet(T)
    BY FS_Subset
  <2>2. CASE T = {}
    BY <2>2, SumEmpty
  <2>3. CASE T # {}
    <3>1. SumFunctionOnSet(f, T) = f[First(T)] + SumFunctionOnSet(f, T \ {First(T)})
      BY <2>1, <2>3, SumFirst
    <3>2. First(T) \in T
      BY <2>3, FirstIn
    <3>3. QED
      BY <1>1, <3>1, <3>2
  <2>4. QED
    BY <2>2, <2>3
<1> HIDE DEF G
<1>2. SUBSET S \subseteq G
  BY <1>1, SubsetInduction
<1>3. QED
  BY <1>2 DEF G

\* A sum of numbers of which none exceeds m.
LEMMA SumBound ==
  ASSUME NEW f, NEW S, IsFiniteSet(S), NEW m \in Nat, \A x \in S : f[x] \in 0..m
  PROVE  SumFunctionOnSet(f, S) <= m * Cardinality(S)
<1> DEFINE G == {T \in SUBSET S : SumFunctionOnSet(f, T) <= m * Cardinality(T)}
<1>1. ASSUME NEW T \in SUBSET S, \A x \in T : T \ {x} \in G PROVE T \in G
  <2>1. IsFiniteSet(T)
    BY FS_Subset
  <2>2. CASE T = {}
    BY <2>2, SumEmpty, FS_EmptySet
  <2>3. CASE T # {}
    <3> DEFINE x == First(T)
               U == T \ {x}
    <3>1. SumFunctionOnSet(f, T) = f[x] + SumFunctionOnSet(f, U)
      BY <2>1, <2>3, SumFirst
    <3>2. x \in T
      BY <2>3, FirstIn
    <3>3. IsFiniteSet(U) /\ Cardinality(U) = Cardinality(T) - 1
      BY <2>1, <3>2, FS_RemoveElement
    <3>4. SumFunctionOnSet(f, U) <= m * Cardinality(U) /\ f[x] \in 0..m
      BY <1>1, <3>2
    <3>5. SumFunctionOnSet(f, U) \in Int /\ Cardinality(U) \in Nat
      <4>1. \A y \in U : f[y] \in Int
        OBVIOUS
      <4>2. QED
        BY <3>3, <4>1, SumType, FS_CardinalityType
    <3>6. PICK n \in Nat : n = Cardinality(U)
      BY <3>5
    <3>7. Cardinality(T) = n + 1
      BY <2>1, <3>3, <3>6, FS_CardinalityType
    <3>8. m * (n + 1) = m * n + m /\ m * n \in Nat
      OBVIOUS
    <3> HIDE DEF x, U
    <3>9. SumFunctionOnSet(f, T) <= m * Cardinality(T)
      BY <3>1, <3>4, <3>5, <3>6, <3>7, <3>8
    <3>10. QED
      BY <3>9
  <2>4. QED
    BY <2>2, <2>3
<1> HIDE DEF G
<1>2. SUBSET S \subseteq G
  BY <1>1, SubsetInduction
<1>3. QED
  BY <1>2 DEF G

\* What is 0 adds nothing.
LEMMA SumZeros ==
  ASSUME NEW f, NEW S, IsFiniteSet(S), \A x \in S : f[x] \in Int,
         NEW R \in SUBSET S, \A x \in S \ R : f[x] = 0
  PROVE  SumFunctionOnSet(f, S) = SumFunctionOnSet(f, R)
<1> DEFINE G == {T \in SUBSET S : SumFunctionOnSet(f, T) = SumFunctionOnSet(f, T \cap R)}
<1>1. ASSUME NEW T \in SUBSET S, \A x \in T : T \ {x} \in G PROVE T \in G
  <2>1. IsFiniteSet(T) /\ IsFiniteSet(T \cap R) /\ \A x \in T : f[x] \in Int
    BY FS_Subset
  <2>2. CASE T \subseteq R
    <3>1. T \cap R = T
      BY <2>2
    <3>2. QED
      BY <3>1
  <2>3. CASE ~(T \subseteq R)
    <3>1. PICK x \in T : x \notin R
      BY <2>3
    <3>2. SumFunctionOnSet(f, T) = f[x] + SumFunctionOnSet(f, T \ {x}) /\ f[x] = 0
      BY <2>1, <3>1, SumSplit
    <3>3. SumFunctionOnSet(f, T \ {x}) = SumFunctionOnSet(f, (T \ {x}) \cap R)
      BY <1>1, <3>1
    <3>4. (T \ {x}) \cap R = T \cap R
      BY <3>1
    <3>5. IsFiniteSet(T \ {x}) /\ \A y \in T \ {x} : f[y] \in Int
      BY <2>1, FS_Subset
    <3>6. SumFunctionOnSet(f, T \ {x}) \in Int
      BY <3>5, SumType
    <3>7. SumFunctionOnSet(f, T) = SumFunctionOnSet(f, T \cap R)
      <4>1. PICK s \in Int : s = SumFunctionOnSet(f, T \ {x})
        BY <3>6
      <4>2. s = SumFunctionOnSet(f, T \cap R)
        BY <3>3, <3>4, <4>1, Zenon
      <4>3. SumFunctionOnSet(f, T) = 0 + s
        BY <3>2, <4>1, Zenon
      <4>4. QED
        BY <4>2, <4>3
    <3>8. QED
      BY <3>7
  <2>4. QED
    BY <2>2, <2>3
<1> HIDE DEF G
<1>2. SUBSET S \subseteq G
  BY <1>1, SubsetInduction
<1>3. S \in G /\ S \cap R = R
  BY <1>2
<1>4. QED
  BY <1>3 DEF G

\* Of finitely many integers, one is the largest.
LEMMA LargestExists ==
  ASSUME NEW f, NEW S, IsFiniteSet(S), S # {}, \A x \in S : f[x] \in Int
  PROVE  \E x \in S : \A y \in S : f[y] <= f[x]
<1> DEFINE G == {T \in SUBSET S : T = {} \/ \E x \in T : \A y \in T : f[y] <= f[x]}
<1>1. ASSUME NEW T \in SUBSET S, \A x \in T : T \ {x} \in G PROVE T \in G
  <2>1. CASE T = {}
    BY <2>1
  <2>2. CASE T # {}
    <3>1. PICK z \in T : TRUE
      BY <2>2
    <3>2. CASE T \ {z} = {}
      <4>1. \A y \in T : y = z /\ f[y] \in Int
        BY <3>2
      <4>2. QED
        BY <4>1
    <3>3. CASE T \ {z} # {}
      <4>1. PICK x \in T \ {z} : \A y \in T \ {z} : f[y] <= f[x]
        BY <1>1, <3>3
      <4>2. \A y \in T : f[y] \in Int
        OBVIOUS
      <4>3. CASE f[z] <= f[x]
        BY <4>1, <4>3
      <4>4. CASE f[x] < f[z]
        BY <4>1, <4>2, <4>4
      <4>5. QED
        BY <4>1, <4>2, <4>3, <4>4
    <3>4. QED
      BY <3>2, <3>3
  <2>3. QED
    BY <2>1, <2>2
<1> HIDE DEF G
<1>2. SUBSET S \subseteq G
  BY <1>1, SubsetInduction
<1>3. QED
  BY <1>2 DEF G
=============================================================================
