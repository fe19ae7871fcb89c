---------------------------- MODULE SumTheorems ----------------------------
(***************************************************************************)
(* Facts about SumFunctionOnSet(f, S), the sum of f[x] for x in the finite *)
(* set S: how a balance over a set of ledger rows changes when a row is    *)
(* added.  The library defines the sum by a recursive function that takes  *)
(* an arbitrary element at each step; what is proved here is that the      *)
(* element taken does not matter.                                          *)
(***************************************************************************)
EXTENDS Integers, FiniteSets, Functions, FiniteSetTheorems, WellFoundedInduction, TLAPS

Pick(s) == CHOOSE x \in s : TRUE

\* What the summing function does with one subset.
SumStep(f, iter, s) ==
  IF s = {} THEN 0 ELSE f[Pick(s)] + iter[s \ {Pick(s)}]

\* iter sums f over the members of D, a set of sets closed under removal.
Sums(f, iter, D) == iter = [s \in D |-> SumStep(f, iter, s)]

\* The terms on S are integers; two families of terms agree on S.
IntOn(f, S)    == \A x \in S : f[x] \in Int
Agree(f, g, S) == \A x \in S : f[x] = g[x]

\* Any element of s may be taken first.
AnyOrder(f, iter, s) ==
  /\ iter[s] \in Int
  /\ \A x \in s : iter[s] = f[x] + iter[s \ {x}]

Small(S, n) == {s \in SUBSET S : Cardinality(s) <= n}

(***************************************************************************)
(* Induction over the naturals and over the subsets of a finite set, with  *)
(* the induction hypothesis given as a set.                                *)
(***************************************************************************)
\* A set of naturals that holds 0 and the successor of each member is Nat.
LEMMA NatSetInduction ==
  ASSUME NEW P, 0 \in P, \A n \in Nat : n \in P => n + 1 \in P
  PROVE  Nat \subseteq P
<1>1. SUFFICES ASSUME Nat \ P # {} PROVE FALSE
  OBVIOUS
<1>2. PICK m \in Nat \ P : \A k \in Nat \ P : ~ (<<k, m>> \in OpToRel(<, Nat))
  BY <1>1, WFMin, NatLessThanWellFounded
<1>3. m # 0 /\ m - 1 \in Nat /\ m - 1 < m
  OBVIOUS
<1>4. <<m - 1, m>> \in OpToRel(<, Nat)
  BY <1>3 DEF OpToRel
<1>5. m - 1 \in P
  BY <1>2, <1>3, <1>4
<1>6. (m - 1) + 1 \in P
  BY <1>3, <1>5
<1>7. (m - 1) + 1 = m
  OBVIOUS
<1> QED BY <1>6, <1>7

\* A family that holds every subset of the finite set S whose strict
\* subsets it holds, holds them all.
LEMMA SubsetInduction ==
  ASSUME NEW S, IsFiniteSet(S), NEW P,
         \A s \in SUBSET S :
            (\A t \in SUBSET s : t # s => t \in P) => s \in P
  PROVE  SUBSET S \subseteq P
<1> DEFINE bad == (SUBSET S) \ P
<1>1. SUFFICES ASSUME bad # {} PROVE FALSE
  OBVIOUS
<1>2. PICK m \in bad : \A k \in bad : ~ (<<k, m>> \in StrictSubsetOrdering(S))
  <2>1. bad \subseteq FiniteSubsetsOf(S)
    BY FS_FiniteSubsetsOfFinite
  <2> HIDE DEF bad
  <2> QED BY <1>1, <2>1, WFMin, FS_StrictSubsetOrderingWellFounded
<1>3. \A t \in SUBSET m : t # m => t \in P
  BY <1>2 DEF StrictSubsetOrdering
<1> QED BY <1>3

(***************************************************************************)
(* The summing function exists, so the library's CHOOSE finds one.         *)
(***************************************************************************)
\* The element taken from a nonempty set is one of its elements.
LEMMA PickIn ==
  ASSUME NEW s, s # {}
  PROVE  Pick(s) \in s
BY DEF Pick

\* Removing an element from a set with at most n + 1 leaves at most n.
LEMMA SmallStep ==
  ASSUME NEW S, IsFiniteSet(S), NEW n \in Nat, NEW s \in Small(S, n + 1), s # {}
  PROVE  s \ {Pick(s)} \in Small(S, n)
<1>1. s \in SUBSET S /\ IsFiniteSet(s) /\ Cardinality(s) <= n + 1
  BY FS_Subset DEF Small
<1>2. Cardinality(s) \in Nat /\ Cardinality(s \ {Pick(s)}) = Cardinality(s) - 1
  BY <1>1, PickIn, FS_RemoveElement, FS_CardinalityType
<1> QED BY <1>1, <1>2 DEF Small

\* For every n there is a function that sums f over sets of up to n elements.
LEMMA SumsSmall ==
  ASSUME NEW S, IsFiniteSet(S), NEW f
  PROVE  \A n \in Nat : \E h : Sums(f, h, Small(S, n))
<1> DEFINE P == {n \in Nat : \E h : Sums(f, h, Small(S, n))}
<1>1. 0 \in P
  <2>1. Small(S, 0) = {{}}
    BY FS_EmptySet, FS_Subset, FS_CardinalityType DEF Small
  <2>2. Sums(f, [s \in {{}} |-> 0], {{}})
    BY DEF Sums, SumStep
  <2> QED BY <2>1, <2>2
<1>2. ASSUME NEW n \in Nat, n \in P PROVE n + 1 \in P
  <2>1. PICK h : Sums(f, h, Small(S, n))
    BY <1>2
  <2> DEFINE g == [s \in Small(S, n + 1) |-> SumStep(f, h, s)]
  <2>2. \A s \in Small(S, n) : s \in Small(S, n + 1) /\ g[s] = h[s]
    <3>1. TAKE s \in Small(S, n)
    <3>2. s \in Small(S, n + 1)
      BY FS_Subset, FS_CardinalityType DEF Small
    <3>3. h[s] = SumStep(f, h, s)
      BY <2>1, Zenon DEF Sums
    <3> QED BY <3>2, <3>3
  <2>3. \A s \in Small(S, n + 1) : SumStep(f, h, s) = SumStep(f, g, s)
    <3>1. TAKE s \in Small(S, n + 1)
    <3>2. CASE s = {}
      BY <3>2 DEF SumStep
    <3>3. CASE s # {}
      <4>1. g[s \ {Pick(s)}] = h[s \ {Pick(s)}]
        BY <3>3, <2>2, SmallStep
      <4> HIDE DEF g
      <4> QED BY <3>3, <4>1 DEF SumStep
    <3> QED BY <3>2, <3>3
  <2>4. Sums(f, g, Small(S, n + 1))
    BY <2>3, Zenon DEF Sums
  <2> QED BY <2>4
<1> HIDE DEF P
<1>3. Nat \subseteq P
  BY <1>1, <1>2, NatSetInduction
<1> QED BY <1>3 DEF P

\* The library's sum is the value at S of a function that sums f.
LEMMA SumIter ==
  ASSUME NEW S, IsFiniteSet(S), NEW f
  PROVE  \E iter : /\ Sums(f, iter, SUBSET S)
                   /\ SumFunctionOnSet(f, S) = iter[S]
<1>1. \A s \in SUBSET S : Cardinality(s) <= Cardinality(S)
  BY FS_Subset
<1>2. Cardinality(S) \in Nat /\ Small(S, Cardinality(S)) = SUBSET S
  BY <1>1, FS_CardinalityType DEF Small
<1>3. \E h : Sums(f, h, SUBSET S)
  <2>1. \E h : Sums(f, h, Small(S, Cardinality(S)))
    BY <1>2, SumsSmall
  <2> QED BY <1>2, <2>1, Zenon
<1>4. SumFunctionOnSet(f, S) = (CHOOSE iter : Sums(f, iter, SUBSET S))[S]
  BY DEF SumFunctionOnSet, FoldFunctionOnSet, MapThenFoldSet, Sums, SumStep, Pick
<1> QED BY <1>3, <1>4

(***************************************************************************)
(* The order in which the elements are taken does not matter.              *)
(***************************************************************************)
\* Any element may be taken first.
LEMMA SumsAnyOrder ==
  ASSUME NEW S, IsFiniteSet(S), NEW f, IntOn(f, S),
         NEW iter, Sums(f, iter, SUBSET S)
  PROVE  AnyOrder(f, iter, S)
<1> USE DEF IntOn
<1> DEFINE P == {s \in SUBSET S : AnyOrder(f, iter, s)}
<1>1. \A s \in SUBSET S : iter[s] = SumStep(f, iter, s)
  BY Zenon DEF Sums
<1>2. ASSUME NEW s \in SUBSET S, \A t \in SUBSET s : t # s => t \in P
      PROVE  s \in P
  <2>1. CASE s = {}
    <3>1. iter[s] = 0
      BY <1>1, <2>1 DEF SumStep
    <3> QED BY <2>1, <3>1 DEF AnyOrder
  <2>2. CASE s # {}
    <3>1. PICK p \in s : iter[s] = f[p] + iter[s \ {p}]
      BY <1>1, <2>2, PickIn DEF SumStep
    <3>2. \A x \in s : AnyOrder(f, iter, s \ {x}) /\ f[x] \in Int
      BY <1>2
    <3>3. iter[s] \in Int
      BY <3>1, <3>2 DEF AnyOrder
    <3>4. ASSUME NEW x \in s, x # p PROVE iter[s] = f[x] + iter[s \ {x}]
      <4>1. iter[s \ {p}] = f[x] + iter[(s \ {p}) \ {x}]
        BY <3>2, <3>4 DEF AnyOrder
      <4>2. iter[s \ {x}] = f[p] + iter[(s \ {x}) \ {p}]
        BY <3>2, <3>4 DEF AnyOrder
      <4>3. (s \ {p}) \ {x} = (s \ {x}) \ {p}
        OBVIOUS
      <4>4. iter[(s \ {x}) \ {p}] \in Int
        <5>1. (s \ {x}) \ {p} \in SUBSET s /\ (s \ {x}) \ {p} # s
          OBVIOUS
        <5> QED BY <5>1, <1>2 DEF AnyOrder
      <4>5. f[x] \in Int /\ f[p] \in Int
        OBVIOUS
      <4>6. PICK r \in Int : iter[s \ {p}] = f[x] + r /\ iter[s \ {x}] = f[p] + r
        BY <4>1, <4>2, <4>3, <4>4, Zenon
      <4>7. \A a, b, c \in Int : a + (b + c) = b + (a + c)
        OBVIOUS
      <4>8. iter[s] = f[p] + (f[x] + r)
        BY <3>1, <4>6, Zenon
      <4>9. f[p] + (f[x] + r) = f[x] + (f[p] + r)
        BY <4>5, <4>7
      <4> HIDE DEF P
      <4> QED BY <4>6, <4>8, <4>9, Zenon
    <3> QED BY <3>1, <3>3, <3>4 DEF AnyOrder
  <2> QED BY <2>1, <2>2
<1> HIDE DEF P
<1>3. SUBSET S \subseteq P
  BY <1>2, SubsetInduction
<1> QED BY <1>3 DEF P

\* Two summing functions agree on the sets on which their terms agree.
LEMMA SumsAgree ==
  ASSUME NEW S, IsFiniteSet(S), NEW f, NEW h, Sums(f, h, SUBSET S),
         NEW T, S \subseteq T, NEW g, NEW k, Sums(g, k, SUBSET T),
         Agree(f, g, S)
  PROVE  h[S] = k[S]
<1> USE DEF Agree
<1> DEFINE P == {s \in SUBSET S : h[s] = k[s]}
<1>1. \A s \in SUBSET S : h[s] = SumStep(f, h, s)
  BY Zenon DEF Sums
<1>2. \A s \in SUBSET T : k[s] = SumStep(g, k, s)
  BY Zenon DEF Sums
<1>3. ASSUME NEW s \in SUBSET S, \A t \in SUBSET s : t # s => t \in P
      PROVE  s \in P
  <2>1. h[s] = SumStep(f, h, s) /\ k[s] = SumStep(g, k, s)
    BY <1>1, <1>2
  <2>2. CASE s = {}
    BY <2>1, <2>2 DEF SumStep
  <2>3. CASE s # {}
    <3>1. h[s \ {Pick(s)}] = k[s \ {Pick(s)}]
      BY <1>3, <2>3, PickIn
    <3>2. f[Pick(s)] = g[Pick(s)]
      BY <2>3, PickIn
    <3> QED BY <2>1, <2>3, <3>1, <3>2 DEF SumStep
  <2> QED BY <2>2, <2>3
<1> HIDE DEF P
<1>4. SUBSET S \subseteq P
  BY <1>3, SubsetInduction
<1> QED BY <1>4 DEF P

(***************************************************************************)
(* The theorems other modules cite.                                        *)
(***************************************************************************)
\* The sum over no elements is 0.
LEMMA SumEmpty ==
  ASSUME NEW f
  PROVE  SumFunctionOnSet(f, {}) = 0
<1>1. PICK iter : Sums(f, iter, SUBSET {}) /\ SumFunctionOnSet(f, {}) = iter[{}]
  BY SumIter, FS_EmptySet
<1>2. iter[{}] = SumStep(f, iter, {})
  BY <1>1, Zenon DEF Sums
<1> QED BY <1>1, <1>2 DEF SumStep

\* The sum of terms that agree is the same.
LEMMA SumCong ==
  ASSUME NEW S, IsFiniteSet(S), NEW f, NEW g, Agree(f, g, S)
  PROVE  SumFunctionOnSet(f, S) = SumFunctionOnSet(g, S)
<1>1. PICK h : Sums(f, h, SUBSET S) /\ SumFunctionOnSet(f, S) = h[S]
  BY SumIter
<1>2. PICK k : Sums(g, k, SUBSET S) /\ SumFunctionOnSet(g, S) = k[S]
  BY SumIter
<1>3. h[S] = k[S]
  <2>1. S \subseteq S
    OBVIOUS
  <2>2. Sums(f, h, SUBSET S)
    BY <1>1
  <2>3. Sums(g, k, SUBSET S)
    BY <1>2
  <2> QED BY <2>1, <2>2, <2>3, SumsAgree, Zenon
<1> QED BY <1>1, <1>2, <1>3

\* The sum of integers is an integer, and any element may be taken first.
LEMMA SumRemove ==
  ASSUME NEW S, IsFiniteSet(S), NEW f, IntOn(f, S)
  PROVE  /\ SumFunctionOnSet(f, S) \in Int
         /\ \A x \in S : SumFunctionOnSet(f, S) = f[x] + SumFunctionOnSet(f, S \ {x})
<1>1. PICK h : Sums(f, h, SUBSET S) /\ SumFunctionOnSet(f, S) = h[S]
  BY SumIter
<1>2. h[S] \in Int /\ \A x \in S : h[S] = f[x] + h[S \ {x}]
  <2>1. AnyOrder(f, h, S)
    BY <1>1, SumsAnyOrder, Zenon
  <2> QED BY <2>1 DEF AnyOrder
<1>3. ASSUME NEW x \in S
      PROVE  SumFunctionOnSet(f, S \ {x}) = h[S \ {x}]
  <2>1. IsFiniteSet(S \ {x})
    BY FS_RemoveElement
  <2>2. PICK k : /\ Sums(f, k, SUBSET (S \ {x}))
                 /\ SumFunctionOnSet(f, S \ {x}) = k[S \ {x}]
    BY <2>1, SumIter
  <2>3. \A s \in SUBSET S : h[s] = SumStep(f, h, s)
    BY <1>1, Zenon DEF Sums
  <2> DEFINE hx == [s \in SUBSET (S \ {x}) |-> h[s]]
  <2>4. \A s \in SUBSET (S \ {x}) : hx[s] = SumStep(f, hx, s)
    <3>1. TAKE s \in SUBSET (S \ {x})
    <3>2. hx[s] = SumStep(f, h, s)
      BY <2>3
    <3>3. CASE s = {}
      BY <3>2, <3>3 DEF SumStep
    <3>4. CASE s # {}
      <4>1. hx[s \ {Pick(s)}] = h[s \ {Pick(s)}]
        OBVIOUS
      <4> HIDE DEF hx
      <4> QED BY <3>2, <3>4, <4>1 DEF SumStep
    <3> QED BY <3>3, <3>4
  <2>5. Sums(f, hx, SUBSET (S \ {x}))
    <3>1. hx = [s \in SUBSET (S \ {x}) |-> hx[s]]
      OBVIOUS
    <3> HIDE DEF hx
    <3> QED BY <2>4, <3>1 DEF Sums
  <2>6. hx[S \ {x}] = k[S \ {x}]
    <3> HIDE DEF hx
    <3>1. S \ {x} \subseteq S \ {x} /\ Agree(f, f, S \ {x})
      BY DEF Agree
    <3> QED BY <2>1, <2>2, <2>5, <3>1, SumsAgree, Zenon
  <2> QED BY <2>2, <2>6
<1> QED BY <1>1, <1>2, <1>3

\* Adding an element adds its term.
LEMMA SumAdd ==
  ASSUME NEW S, IsFiniteSet(S), NEW x, x \notin S, NEW f,
         IntOn(f, S \cup {x})
  PROVE  SumFunctionOnSet(f, S \cup {x}) = f[x] + SumFunctionOnSet(f, S)
<1>1. IsFiniteSet(S \cup {x}) /\ (S \cup {x}) \ {x} = S
  BY FS_AddElement
<1> QED BY <1>1, SumRemove

\* A sum of n terms, none above m, is at most n times m.
LEMMA SumAtMost ==
  ASSUME NEW S, IsFiniteSet(S), NEW m \in Nat,
         NEW f, IntOn(f, S), \A x \in S : f[x] <= m
  PROVE  SumFunctionOnSet(f, S) <= m * Cardinality(S)
<1> DEFINE P == {s \in SUBSET S : SumFunctionOnSet(f, s) <= m * Cardinality(s)}
<1>1. ASSUME NEW s \in SUBSET S, \A t \in SUBSET s : t # s => t \in P
      PROVE  s \in P
  <2>1. IsFiniteSet(s) /\ Cardinality(s) \in Nat
    BY FS_Subset, FS_CardinalityType
  <2>2. CASE s = {}
    BY <2>2, SumEmpty, FS_EmptySet
  <2>3. CASE s # {}
    <3>1. PICK x : x \in s
      BY <2>3
    <3> DEFINE r == SumFunctionOnSet(f, s \ {x})
               n == Cardinality(s) - 1
    <3>2. r \in Int /\ SumFunctionOnSet(f, s) = f[x] + r
      <4>1. IntOn(f, s) /\ IntOn(f, s \ {x}) /\ IsFiniteSet(s \ {x})
        BY <2>1, FS_RemoveElement DEF IntOn
      <4> QED BY <2>1, <3>1, <4>1, SumRemove
    <3>3. Cardinality(s \ {x}) = n /\ n \in Nat
      <4>1. IsFiniteSet(s \ {x}) /\ Cardinality(s \ {x}) = Cardinality(s) - 1
        BY <2>1, <3>1, FS_RemoveElement, Zenon
      <4>2. Cardinality(s \ {x}) \in Nat
        BY <4>1, FS_CardinalityType, Zenon
      <4> QED BY <4>1, <4>2
    <3>4. r <= m * n
      BY <1>1, <3>1, <3>3
    <3>5. f[x] \in Int /\ f[x] <= m /\ Cardinality(s) = n + 1
      BY <2>1, <3>1 DEF IntOn
    <3>6. m * n \in Int /\ m * (n + 1) = m * n + m
      BY <3>3
    <3> HIDE DEF r, n
    <3>7. f[x] + r <= m * (n + 1)
      BY <3>2, <3>4, <3>5, <3>6
    <3> QED BY <3>2, <3>5, <3>7
  <2> QED BY <2>2, <2>3
<1> HIDE DEF P
<1>2. SUBSET S \subseteq P
  BY <1>1, SubsetInduction
<1> QED BY <1>2 DEF P

\* A sum of naturals does not grow when terms are dropped.
LEMMA SumMonotone ==
  ASSUME NEW T, IsFiniteSet(T), NEW f, \A x \in T : f[x] \in Nat,
         NEW S, S \subseteq T
  PROVE  SumFunctionOnSet(f, S) <= SumFunctionOnSet(f, T)
<1> DEFINE Le(s, t) == SumFunctionOnSet(f, s) <= SumFunctionOnSet(f, t)
           P == {t \in SUBSET T : \A s \in SUBSET t : Le(s, t)}
<1>1. ASSUME NEW t \in SUBSET T, \A u \in SUBSET t : u # t => u \in P
      PROVE  t \in P
  <2>1. IsFiniteSet(t) /\ IntOn(f, t)
    BY FS_Subset DEF IntOn
  <2>2. SumFunctionOnSet(f, t) \in Int
    BY <2>1, SumRemove
  <2>3. ASSUME NEW s \in SUBSET t, s # t
        PROVE  Le(s, t)
    <3>1. PICK x : x \in t /\ x \notin s
      BY <2>3
    <3>2. t \ {x} \in P /\ s \in SUBSET (t \ {x})
      BY <1>1, <3>1
    <3>3. Le(s, t \ {x})
      BY <3>2
    <3>4. SumFunctionOnSet(f, t) = f[x] + SumFunctionOnSet(f, t \ {x}) /\ f[x] \in Nat
      BY <2>1, <3>1, SumRemove
    <3>5. SumFunctionOnSet(f, s) \in Int /\ SumFunctionOnSet(f, t \ {x}) \in Int
      <4>1. ASSUME NEW u \in SUBSET t PROVE SumFunctionOnSet(f, u) \in Int
        <5>1. IsFiniteSet(u) /\ IntOn(f, u)
          BY <2>1, FS_Subset DEF IntOn
        <5> QED BY <5>1, SumRemove
      <4> QED BY <4>1, <2>3
    <3> QED BY <2>2, <3>3, <3>4, <3>5
  <2>4. Le(t, t)
    BY <2>2
  <2> QED BY <2>3, <2>4
<1> HIDE DEF P
<1>2. SUBSET T \subseteq P
  BY <1>1, SubsetInduction
<1> QED BY <1>2 DEF P
=============================================================================
