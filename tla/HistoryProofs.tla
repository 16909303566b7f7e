----------------------------- MODULE HistoryProofs -----------------------------
(***************************************************************************)
(* What the worker makes of deltas, for any instances, bounds and number of *)
(* runners.  First the cache alone: it keeps its books and its limits.      *)
(* Then the worker around it: unless a dispatch was overtaken, whoever      *)
(* answers for an instance has executed its committed history.              *)
(***************************************************************************)
EXTENDS StatefulHistory, FiniteSetTheorems, SequenceTheorems, TLAPS

-----------------------------------------------------------------------------
(* Sums.                                                                    *)
(* The bytes of a set of entries are a fold, computed one element after the *)
(* other in an order nobody names.  What follows first shows that there is  *)
(* a function that adds the elements up in whatever order, and that the fold *)
(* is that function: induction over finite sets, written with the set of    *)
(* those the claim holds of.                                                *)

\* Where there are finite sets of a kind there is one that stops being one when it loses any
\* element.
LEMMA SmallestSubset ==
  ASSUME NEW D, IsFiniteSet(D), NEW C \in SUBSET SUBSET D, C # {}
  PROVE  \E m \in C : \A x \in m : m \ {x} \notin C
<1>1. C \subseteq FiniteSubsetsOf(D)
  BY FS_FiniteSubsetsOfFinite
<1>2. PICK m \in C : \A y \in C : ~ (<<y, m>> \in StrictSubsetOrdering(D))
  BY <1>1, FS_StrictSubsetOrderingWellFounded, WFMin
<1>3. ASSUME NEW x \in m, m \ {x} \in C  PROVE FALSE
  <2>1. m \ {x} \in SUBSET D /\ m \ {x} # m /\ m \in SUBSET D
    OBVIOUS
  <2> QED BY <1>2, <1>3, <2>1 DEF StrictSubsetOrdering
<1> QED BY <1>2, <1>3

\* A set of sets that has the empty one and grows by single elements has every finite one.
LEMMA SubsetInduction ==
  ASSUME NEW D, IsFiniteSet(D), NEW T, {} \in T,
         \A s \in T : \A x \in D : s \subseteq D => s \union {x} \in T
  PROVE  D \in T
<1>1. SUFFICES ASSUME D \notin T  PROVE FALSE
  OBVIOUS
<1> DEFINE C == (SUBSET D) \ T
<1>2. C \in SUBSET SUBSET D /\ C # {}
  BY <1>1
<1>3. PICK m \in C : \A x \in m : m \ {x} \notin C
  BY <1>2, SmallestSubset
<1>4. PICK x \in D : x \in m
  BY <1>3
<1>5. (m \ {x}) \union {x} = m /\ m \ {x} \subseteq D /\ m \ {x} \in T
  BY <1>3, <1>4
<1> QED BY <1>3, <1>4, <1>5

\* The bytes of e's elements of S, as BytesOf computes them, and the equation of its recursion.
Total(e, S) == FoldFunctionOnSet(LAMBDA entry, sum : entry.bytes + sum, 0, e, S)
Picks(s) == CHOOSE x \in s : TRUE
AddsUp(e, S, g) ==
  g = [s \in SUBSET S |-> IF s = {} THEN 0 ELSE e[Picks(s)].bytes + g[s \ {Picks(s)}]]

\* g has the bytes of every subset of S, in whatever order they are added.
IsSum(e, S, g) ==
  /\ g \in [SUBSET S -> Nat] /\ g[{}] = 0
  /\ \A s \in SUBSET S : \A x \in s : g[s] = e[x].bytes + g[s \ {x}]

Weighs(e, S) == \A x \in S : e[x].bytes \in Nat

LEMMA TotalIsRecursive ==
  ASSUME NEW e, NEW S
  PROVE  Total(e, S) = (CHOOSE g : AddsUp(e, S, g))[S]
BY DEF Total, AddsUp, Picks, FoldFunctionOnSet, MapThenFoldSet

LEMMA SumExists ==
  ASSUME NEW D, IsFiniteSet(D), NEW e, Weighs(e, D)
  PROVE  \E g : IsSum(e, D, g)
<1> DEFINE T == {s \in SUBSET D : \E g : IsSum(e, s, g)}
<1>1. {} \in T
  <2>1. IsSum(e, {}, [s \in {{}} |-> 0])
    BY DEF IsSum
  <2> QED BY <2>1
<1>2. ASSUME NEW s \in T, NEW x \in D  PROVE s \union {x} \in T
  <2>1. CASE x \in s
    <3>1. s \union {x} = s
      BY <2>1
    <3> QED BY <3>1
  <2>2. CASE x \notin s
    <3>1. PICK g : IsSum(e, s, g)
      BY <1>2
    <3> DEFINE S == s \union {x}
               w == e[x].bytes
               h == [t \in SUBSET S |-> IF x \in t THEN w + g[t \ {x}] ELSE g[t]]
    <3>2. w \in Nat /\ \A t \in SUBSET S : t \ {x} \in SUBSET s /\ (x \notin t => t \in SUBSET s)
      BY DEF Weighs
    <3>3. h \in [SUBSET S -> Nat] /\ h[{}] = 0
      BY <3>1, <3>2 DEF IsSum
    <3>4. ASSUME NEW t \in SUBSET S, NEW y \in t  PROVE h[t] = e[y].bytes + h[t \ {y}]
      <4>0. t \ {y} \in SUBSET S /\ t \ {x} \in SUBSET s
        BY <3>2
      <4>1. CASE x \notin t
        <5>1. h[t] = g[t] /\ h[t \ {y}] = g[t \ {y}] /\ t \in SUBSET s
          BY <3>2, <4>0, <4>1
        <5> QED BY <3>1, <5>1 DEF IsSum
      <4>2. CASE y = x
        <5>1. h[t] = w + g[t \ {x}] /\ h[t \ {x}] = g[t \ {x}]
          BY <4>0, <4>2
        <5> QED BY <4>2, <5>1
      <4>3. CASE x \in t /\ y # x
        <5>1. /\ h[t] = w + g[t \ {x}] /\ h[t \ {y}] = w + g[(t \ {y}) \ {x}]
              /\ (t \ {y}) \ {x} = (t \ {x}) \ {y} /\ y \in t \ {x}
          BY <4>0, <4>3
        <5>2. g[t \ {x}] = e[y].bytes + g[(t \ {x}) \ {y}]
          BY <3>1, <4>0, <5>1 DEF IsSum
        <5>3. (t \ {x}) \ {y} \in SUBSET s /\ y \in D
          BY <4>0
        <5>4. g[(t \ {x}) \ {y}] \in Nat /\ e[y].bytes \in Nat
          BY <3>1, <5>3 DEF IsSum, Weighs
        <5>5. h[t] = w + (e[y].bytes + g[(t \ {x}) \ {y}])
          BY <5>1, <5>2
        <5>6. h[t \ {y}] = w + g[(t \ {x}) \ {y}]
          BY <5>1
        <5> HIDE DEF h, w
        <5> QED BY <3>2, <5>4, <5>5, <5>6
      <4> QED BY <4>1, <4>2, <4>3
    <3> HIDE DEF h
    <3>5. IsSum(e, S, h)
      BY <3>3, <3>4 DEF IsSum
    <3> QED BY <3>5
  <2> QED BY <2>1, <2>2
<1> HIDE DEF T
<1>3. D \in T
  BY <1>1, <1>2, SubsetInduction
<1> QED BY <1>3 DEF T

\* A sum solves the recursion of the fold, and any two solutions agree.
LEMMA TotalIsSum ==
  ASSUME NEW D, IsFiniteSet(D), NEW e, NEW g, IsSum(e, D, g), NEW S \in SUBSET D
  PROVE  Total(e, S) = g[S]
<1> DEFINE h == [s \in SUBSET S |-> g[s]]
<1>1. AddsUp(e, S, h)
  <2>1. ASSUME NEW s \in SUBSET S
        PROVE  h[s] = IF s = {} THEN 0 ELSE e[Picks(s)].bytes + h[s \ {Picks(s)}]
    <3>1. CASE s = {}
      BY <3>1 DEF IsSum
    <3>2. CASE s # {}
      <4>1. Picks(s) \in s
        BY <3>2 DEF Picks
      <4>2. s \in SUBSET D /\ s \ {Picks(s)} \in SUBSET S
        OBVIOUS
      <4>3. g[s] = e[Picks(s)].bytes + g[s \ {Picks(s)}]
        BY <4>1, <4>2 DEF IsSum
      <4> QED BY <3>2, <4>2, <4>3
    <3> QED BY <3>1, <3>2
  <2> QED BY <2>1 DEF AddsUp
<1> DEFINE f == CHOOSE k : AddsUp(e, S, k)
<1>2. AddsUp(e, S, f)
  BY <1>1
<1> HIDE DEF f
<1> DEFINE C == {s \in SUBSET S : f[s] # g[s]}
<1>3. ASSUME C # {}  PROVE FALSE
  <2>1. IsFiniteSet(S)
    BY FS_Subset
  <2>2. PICK m \in C : \A x \in m : m \ {x} \notin C
    BY <1>3, <2>1, SmallestSubset
  <2>3. f[m] = IF m = {} THEN 0 ELSE e[Picks(m)].bytes + f[m \ {Picks(m)}]
    BY <1>2 DEF AddsUp
  <2>4. g[m] = IF m = {} THEN 0 ELSE e[Picks(m)].bytes + g[m \ {Picks(m)}]
    BY <1>1 DEF AddsUp
  <2>5. CASE m = {}
    BY <2>2, <2>3, <2>4, <2>5
  <2>6. CASE m # {}
    <3>1. Picks(m) \in m
      BY <2>6 DEF Picks
    <3>2. f[m \ {Picks(m)}] = g[m \ {Picks(m)}]
      BY <2>2, <3>1
    <3> QED BY <2>2, <2>3, <2>4, <3>2
  <2> QED BY <2>5, <2>6
<1>4. f[S] = g[S]
  BY <1>3
<1> QED BY <1>4, TotalIsRecursive DEF f

\* What the proofs below use of totals: nothing weighs nothing, an element weighs what it
\* weighs, and totals of sets that do not overlap add up.
LEMMA Totals ==
  ASSUME NEW D, IsFiniteSet(D), NEW e, Weighs(e, D)
  PROVE  /\ Total(e, {}) = 0
         /\ \A S \in SUBSET D : Total(e, S) \in Nat
         /\ \A S \in SUBSET D : \A x \in S : Total(e, S) = e[x].bytes + Total(e, S \ {x})
<1>1. PICK g : IsSum(e, D, g)
  BY SumExists
<1>2. \A S \in SUBSET D : Total(e, S) = g[S]
  BY <1>1, TotalIsSum
<1> QED BY <1>1, <1>2 DEF IsSum

LEMMA TotalOfUnion ==
  ASSUME NEW D, IsFiniteSet(D), NEW e, Weighs(e, D),
         NEW X \in SUBSET D, NEW Y \in SUBSET D, X \intersect Y = {}
  PROVE  Total(e, X \union Y) = Total(e, X) + Total(e, Y)
<1> DEFINE T == {s \in SUBSET Y : Total(e, X \union s) = Total(e, X) + Total(e, s)}
<1>1. {} \in T
  <2>1. X \union {} = X /\ Total(e, {}) = 0 /\ Total(e, X) \in Nat
    BY Totals
  <2> QED BY <2>1
<1>2. ASSUME NEW s \in T, NEW x \in Y  PROVE s \union {x} \in T
  <2>1. CASE x \in s
    <3>1. s \union {x} = s
      BY <2>1
    <3> QED BY <3>1
  <2>2. CASE x \notin s
    <3> DEFINE U == X \union (s \union {x})
               V == s \union {x}
    <3>1. U \in SUBSET D /\ V \in SUBSET D /\ x \in U /\ x \in V /\ x \in D /\ s \in SUBSET D
      OBVIOUS
    <3>2. U \ {x} = X \union s /\ V \ {x} = s
      BY <2>2
    <3>3. Total(e, U) = e[x].bytes + Total(e, X \union s)
      BY <3>1, <3>2, Totals
    <3>4. Total(e, V) = e[x].bytes + Total(e, s)
      BY <3>1, <3>2, Totals
    <3>5. Total(e, X) \in Nat /\ Total(e, s) \in Nat /\ e[x].bytes \in Nat
      BY <3>1, Totals DEF Weighs
    <3>6. Total(e, X \union s) = Total(e, X) + Total(e, s)
      OBVIOUS
    <3> HIDE DEF U, V
    <3>7. Total(e, U) = Total(e, X) + Total(e, V)
      BY <3>3, <3>4, <3>5, <3>6
    <3> QED BY <3>7 DEF U, V
  <2> QED BY <2>1, <2>2
<1>3. IsFiniteSet(Y)
  BY FS_Subset
<1> HIDE DEF T
<1>4. Y \in T
  BY <1>1, <1>2, <1>3, SubsetInduction
<1> QED BY <1>4 DEF T

LEMMA TotalOfEqual ==
  ASSUME NEW S, IsFiniteSet(S), NEW e, NEW f, Weighs(e, S),
         \A x \in S : f[x].bytes = e[x].bytes
  PROVE  Total(f, S) = Total(e, S)
<1>1. PICK g : IsSum(e, S, g)
  BY SumExists
<1>2. IsSum(f, S, g)
  BY <1>1 DEF IsSum
<1> QED BY <1>1, <1>2, TotalIsSum

-----------------------------------------------------------------------------
(* Orders of use *)

\* s names the elements of S, once each.
Orders(s, S) ==
  /\ s \in Seq(S) /\ \A x \in S : \E k \in DOMAIN s : s[k] = x
  /\ \A j, k \in DOMAIN s : s[j] = s[k] => j = k

LEMMA OrderCounts ==
  ASSUME NEW S, NEW s, Orders(s, S)
  PROVE  ToSet(s) = S /\ IsFiniteSet(S) /\ Len(s) \in Nat /\ Cardinality(S) = Len(s)
<1>1. Len(s) \in Nat /\ s \in [1 .. Len(s) -> S] /\ DOMAIN s = 1 .. Len(s)
  BY LenProperties DEF Orders
<1>2. ToSet(s) = S
  BY <1>1 DEF ToSet, Orders
<1>3. s \in Bijection(1 .. Len(s), S)
  BY <1>1 DEF Orders, Bijection, Injection, Surjection, IsInjective
<1>4. ExistsBijection(1 .. Len(s), S)
  BY <1>3 DEF ExistsBijection
<1> QED BY <1>1, <1>2, <1>4, FS_NatBijection, FS_CountingElements

\* What is left of an order behind its first n.
LEMMA OrderOfRest ==
  ASSUME NEW S, NEW s, Orders(s, S), NEW n \in 0 .. Len(s)
  PROVE  /\ Orders(SubSeq(s, n + 1, Len(s)), S \ {s[k] : k \in 1 .. n})
         /\ Len(SubSeq(s, n + 1, Len(s))) = Len(s) - n
         /\ \A k \in 1 .. n : s[k] \in S
<1> DEFINE rest == SubSeq(s, n + 1, Len(s))
           R == S \ {s[k] : k \in 1 .. n}
           L == Len(s)
<1>1. L \in Nat /\ DOMAIN s = 1 .. L /\ \A k \in 1 .. L : s[k] \in S
  BY LenProperties, ElementOfSeq DEF Orders
<1>2. \A j, k \in 1 .. L : s[j] = s[k] => j = k
  BY <1>1 DEF Orders
<1>3. \A k \in n + 1 .. L : s[k] \in R
  BY <1>1, <1>2
<1>4. /\ rest \in Seq(R) /\ Len(rest) = (IF n + 1 <= L THEN L - (n + 1) + 1 ELSE 0)
      /\ \A k \in 1 .. L - (n + 1) + 1 : rest[k] = s[(n + 1) + k - 1]
  <2>1. n + 1 \in Int /\ L \in Int
    BY <1>1
  <2> QED BY <1>3, <2>1, SubSeqProperties
<1> HIDE DEF rest
<1>5. Len(rest) = L - n /\ L - (n + 1) + 1 = L - n
  <2>1. L \in Nat /\ n \in Nat /\ n <= L
    BY <1>1
  <2>2. L - (n + 1) + 1 = L - n /\ (~ (n + 1 <= L) => L - n = 0)
    BY <2>1
  <2>3. Len(rest) = (IF n + 1 <= L THEN L - (n + 1) + 1 ELSE 0)
    BY <1>4
  <2> QED BY <2>2, <2>3
<1>6. \A k \in 1 .. L - n : rest[k] = s[n + k]
  <2>1. \A k \in 1 .. L - n : (n + 1) + k - 1 = n + k
    BY <1>1
  <2> QED BY <1>4, <1>5, <2>1
<1>7. DOMAIN rest = 1 .. L - n
  BY <1>4, <1>5, LenProperties
<1>8. ASSUME NEW x \in R  PROVE \E k \in DOMAIN rest : rest[k] = x
  <2>1. PICK k \in 1 .. L : s[k] = x
    BY <1>1 DEF Orders
  <2>2. k \notin 1 .. n
    BY <2>1
  <2>3. k - n \in 1 .. L - n /\ n + (k - n) = k
    BY <1>1, <2>2
  <2> QED BY <1>6, <1>7, <2>1, <2>3
<1>9. ASSUME NEW j \in DOMAIN rest, NEW k \in DOMAIN rest, rest[j] = rest[k]  PROVE j = k
  <2>1. n + j \in 1 .. L /\ n + k \in 1 .. L /\ s[n + j] = s[n + k]
    BY <1>1, <1>6, <1>7, <1>9
  <2>2. n + j = n + k
    BY <1>2, <2>1
  <2> QED BY <1>1, <1>7, <2>2
<1>10. Orders(rest, R)
  BY <1>4, <1>8, <1>9 DEF Orders
<1>11. \A k \in 1 .. n : s[k] \in S
  BY <1>1
<1> QED BY <1>5, <1>10, <1>11 DEF rest

\* An order without one element, wherever it was.
LEMMA OrderWithout ==
  ASSUME NEW S, NEW s, Orders(s, S), NEW x
  PROVE  Orders(RemoveFirst(s, x), S \ {x})
<1> DEFINE L == Len(s)
<1>1. L \in Nat /\ DOMAIN s = 1 .. L /\ s \in Seq(S) /\ \A k \in 1 .. L : s[k] \in S
  BY LenProperties, ElementOfSeq DEF Orders
<1>2. CASE x \notin S
  <2>1. ~ \E k \in 1 .. L : s[k] = x
    BY <1>1, <1>2
  <2>2. RemoveFirst(s, x) = s /\ S \ {x} = S
    BY <1>2, <2>1 DEF RemoveFirst
  <2> QED BY <2>2
<1>3. CASE x \in S
  <2>1. PICK n \in 1 .. L : s[n] = x
    BY <1>1, <1>3 DEF Orders
  <2>2. \A j, k \in 1 .. L : s[j] = s[k] => j = k
    BY <1>1 DEF Orders
  <2>3. SelectInSeq(s, LAMBDA v : v = x) = n
    <3>1. {k \in 1 .. L : s[k] = x} = {n}
      BY <2>1, <2>2
    <3>2. Min({n}) = n
      BY <2>1 DEF Min
    <3> QED BY <3>1, <3>2 DEF SelectInSeq
  <2> DEFINE front == SubSeq(s, 1, n - 1)
             back == SubSeq(s, n + 1, L)
             R == S \ {x}
             rest == front \o back
  <2>4. RemoveFirst(s, x) = rest
    BY <2>1, <2>3 DEF RemoveFirst, RemoveAt
  <2>5. \A k \in 1 .. L : k # n => s[k] \in R
    BY <1>1, <2>1, <2>2
  <2>6. /\ front \in Seq(R) /\ Len(front) = n - 1
        /\ \A k \in 1 .. n - 1 : front[k] = s[k]
    <3>1. 1 \in Int /\ n - 1 \in Int /\ \A k \in 1 .. n - 1 : s[k] \in R
      BY <1>1, <2>1, <2>5
    <3>2. /\ front \in Seq(R) /\ Len(front) = (IF 1 <= n - 1 THEN (n - 1) - 1 + 1 ELSE 0)
          /\ \A k \in 1 .. (n - 1) - 1 + 1 : front[k] = s[1 + k - 1]
      BY <3>1, SubSeqProperties
    <3>3. (n - 1) - 1 + 1 = n - 1 /\ \A k \in 1 .. n - 1 : 1 + k - 1 = k
      BY <1>1, <2>1
    <3> QED BY <1>1, <2>1, <3>2, <3>3
  <2>7. /\ back \in Seq(R) /\ Len(back) = L - n
        /\ \A k \in 1 .. L - n : back[k] = s[n + k]
    <3>1. n + 1 \in Int /\ L \in Int /\ \A k \in n + 1 .. L : s[k] \in R
      BY <1>1, <2>1, <2>5
    <3>2. /\ back \in Seq(R) /\ Len(back) = (IF n + 1 <= L THEN L - (n + 1) + 1 ELSE 0)
          /\ \A k \in 1 .. L - (n + 1) + 1 : back[k] = s[(n + 1) + k - 1]
      BY <3>1, SubSeqProperties
    <3>3. /\ L - (n + 1) + 1 = L - n /\ (~ (n + 1 <= L) => L - n = 0)
          /\ \A k \in 1 .. L - n : (n + 1) + k - 1 = n + k
      <4>1. L \in Nat /\ n \in Nat /\ n <= L
        BY <1>1, <2>1
      <4> QED BY <4>1
    <3> HIDE DEF back
    <3>4. Len(back) = L - n
      BY <3>2, <3>3
    <3>5. \A k \in 1 .. L - n : back[k] = s[n + k]
      BY <3>2, <3>3
    <3> QED BY <3>2, <3>4, <3>5
  <2> HIDE DEF front, back
  <2>8. /\ rest \in Seq(R) /\ Len(rest) = L - 1
        /\ \A k \in 1 .. L - 1 : rest[k] = s[IF k < n THEN k ELSE k + 1]
    <3>0. /\ rest \in Seq(R) /\ Len(rest) = Len(front) + Len(back)
          /\ \A k \in 1 .. Len(front) + Len(back) :
               rest[k] = IF k <= Len(front) THEN front[k] ELSE back[k - Len(front)]
      BY <2>6, <2>7, ConcatProperties
    <3> HIDE DEF rest
    <3>1. /\ rest \in Seq(R) /\ Len(rest) = (n - 1) + (L - n)
          /\ \A k \in 1 .. (n - 1) + (L - n) :
               rest[k] = IF k <= n - 1 THEN front[k] ELSE back[k - (n - 1)]
      BY <2>6, <2>7, <3>0
    <3>2. (n - 1) + (L - n) = L - 1
      BY <1>1, <2>1
    <3>3. ASSUME NEW k \in 1 .. L - 1  PROVE rest[k] = s[IF k < n THEN k ELSE k + 1]
      <4>1. CASE k < n
        <5>1. k \in 1 .. n - 1 /\ k <= n - 1
          BY <1>1, <2>1, <4>1
        <5> QED BY <2>6, <3>1, <3>2, <4>1, <5>1
      <4>2. CASE ~ (k < n)
        <5>1. ~ (k <= n - 1) /\ k - (n - 1) \in 1 .. L - n /\ n + (k - (n - 1)) = k + 1
          BY <1>1, <2>1, <4>2
        <5> QED BY <2>7, <3>1, <3>2, <4>2, <5>1
      <4> QED BY <4>1, <4>2
    <3> QED BY <3>1, <3>2, <3>3
  <2>9. DOMAIN rest = 1 .. L - 1
    BY <2>8, LenProperties
  <2> HIDE DEF rest
  <2>10. ASSUME NEW y \in R  PROVE \E k \in DOMAIN rest : rest[k] = y
    <3>1. PICK k \in 1 .. L : s[k] = y /\ k # n
      BY <1>1, <2>1 DEF Orders
    <3>2. CASE k < n
      <4>1. k \in 1 .. L - 1
        BY <1>1, <2>1, <3>2
      <4> QED BY <2>8, <2>9, <3>1, <3>2, <4>1
    <3>3. CASE ~ (k < n)
      <4>1. k - 1 \in 1 .. L - 1 /\ ~ (k - 1 < n) /\ (k - 1) + 1 = k
        BY <1>1, <2>1, <3>1, <3>3
      <4>2. rest[k - 1] = s[(k - 1) + 1]
        BY <2>8, <4>1
      <4> QED BY <2>9, <3>1, <4>1, <4>2
    <3> QED BY <3>2, <3>3
  <2>11. ASSUME NEW j \in DOMAIN rest, NEW k \in DOMAIN rest, rest[j] = rest[k]  PROVE j = k
    <3> DEFINE at(i) == IF i < n THEN i ELSE i + 1
    <3>1. at(j) \in 1 .. L /\ at(k) \in 1 .. L /\ s[at(j)] = s[at(k)]
      <4>1. at(j) \in 1 .. L /\ at(k) \in 1 .. L
        BY <1>1, <2>1, <2>9
      <4> QED BY <2>8, <2>9, <2>11, <4>1
    <3>2. at(j) = at(k)
      BY <2>2, <3>1
    <3> QED BY <1>1, <2>1, <2>9, <3>2
  <2>12. Orders(rest, R)
    BY <2>8, <2>10, <2>11 DEF Orders
  <2> QED BY <2>4, <2>12
<1> QED BY <1>2, <1>3

\* The element used last comes last.
LEMMA OrderTouched ==
  ASSUME NEW S, NEW s, Orders(s, S), NEW x
  PROVE  LET order == Append(RemoveFirst(s, x), x)
         IN Orders(order, S \union {x}) /\ Len(order) \in Nat \ {0} /\ order[Len(order)] = x
<1> DEFINE r == RemoveFirst(s, x)
           n == Len(r)
           order == Append(r, x)
           D == S \union {x}
<1>0. Orders(r, S \ {x})
  BY OrderWithout
<1> HIDE DEF r
<1>1. /\ r \in Seq(S \ {x}) /\ n \in Nat /\ DOMAIN r = 1 .. n
      /\ \A k \in 1 .. n : r[k] \in S \ {x}
      /\ \A y \in S \ {x} : \E k \in 1 .. n : r[k] = y
      /\ \A j, k \in 1 .. n : r[j] = r[k] => j = k
  <2>1. r \in Seq(S \ {x}) /\ n \in Nat /\ DOMAIN r = 1 .. n
    BY <1>0, LenProperties DEF Orders
  <2> QED BY <1>0, <2>1, ElementOfSeq DEF Orders
<1>2. r \in Seq(D)
  BY <1>1, SeqMonotonic
<1>3. /\ order \in Seq(D) /\ Len(order) = n + 1 /\ order[n + 1] = x
      /\ \A k \in 1 .. n : order[k] = r[k]
  BY <1>1, <1>2, AppendProperties
<1>4. DOMAIN order = 1 .. n + 1
  BY <1>3, LenProperties
<1> HIDE DEF order
<1>5. ASSUME NEW y \in D  PROVE \E k \in DOMAIN order : order[k] = y
  BY <1>1, <1>3, <1>4
<1>6. ASSUME NEW j \in DOMAIN order, NEW k \in DOMAIN order, order[j] = order[k]  PROVE j = k
  BY <1>1, <1>3, <1>4, <1>6
<1>7. Orders(order, D)
  BY <1>3, <1>5, <1>6 DEF Orders
<1> QED BY <1>1, <1>3, <1>7 DEF order, r

-----------------------------------------------------------------------------
(* The operations *)

CacheInv ==
  /\ DOMAIN entries \subseteq Instances /\ Weighs(entries, DOMAIN entries)
  /\ Orders(lastAccess, DOMAIN entries)
  /\ totalBytes = Total(entries, DOMAIN entries)
  /\ CacheWithinBounds

LEMMA BooksAreKept ==
  ASSUME CacheInv
  PROVE  CacheConsistent
<1>1. Instances \intersect DOMAIN entries = DOMAIN entries
  BY DEF CacheInv
<1>2. BytesOf(Instances) = Total(entries, DOMAIN entries)
  BY <1>1 DEF BytesOf, Total
<1>3. ToSet(lastAccess) = DOMAIN entries /\ Len(lastAccess) = Cardinality(DOMAIN entries)
  BY OrderCounts DEF CacheInv
<1> QED BY <1>2, <1>3 DEF CacheInv, CacheConsistent

LEMMA InitCache ==
  ASSUME CacheInit
  PROVE  CacheInv
<1>1. DOMAIN entries = {} /\ totalBytes = 0 /\ lastAccess = <<>>
  BY DEF CacheInit, NoEntries
<1>2. Orders(lastAccess, {})
  BY <1>1, EmptySeq DEF Orders
<1>3. IsFiniteSet({}) /\ Cardinality({}) = 0
  BY FS_EmptySet
<1>4. Total(entries, {}) = 0
  BY <1>3, Totals DEF Weighs
<1>5. CacheWithinBounds
  BY <1>1, <1>3, CacheAssumption DEF CacheWithinBounds
<1> QED BY <1>1, <1>2, <1>4, <1>5 DEF CacheInv, Weighs

\* Entries go, with their bytes and their place in the order.
LEMMA DropKeeps ==
  ASSUME CacheInv, NEW X, NEW remaining, Drop(X, remaining),
         Orders(remaining, DOMAIN entries \ X)
  PROVE  CacheInv'
<1> DEFINE D == DOMAIN entries
           R == D \ X
           G == X \intersect D
<1>1. IsFiniteSet(D) /\ Weighs(entries, D) /\ totalBytes = Total(entries, D)
  BY OrderCounts DEF CacheInv
<1>2. /\ DOMAIN entries' = R /\ \A i \in R : entries'[i] = entries[i]
      /\ lastAccess' = remaining /\ totalBytes' = totalBytes - Total(entries, G)
  BY DEF Drop, Without, Restrict, BytesOf, Total
<1>3. R \in SUBSET D /\ G \in SUBSET D /\ R \intersect G = {} /\ R \union G = D
  OBVIOUS
<1>4. /\ Total(entries, R) \in Nat /\ Total(entries, G) \in Nat
      /\ Total(entries, D) = Total(entries, R) + Total(entries, G)
  BY <1>1, <1>3, Totals, TotalOfUnion
<1>5. IsFiniteSet(R) /\ Weighs(entries, R) /\ Weighs(entries', R)
  BY <1>1, <1>2, <1>3, FS_Subset DEF Weighs
<1>6. Total(entries', R) = Total(entries, R)
  BY <1>2, <1>5, TotalOfEqual
<1>7. totalBytes' = Total(entries', R) /\ totalBytes' <= totalBytes /\ totalBytes' \in Nat
      /\ totalBytes \in Nat
  BY <1>1, <1>2, <1>4, <1>6
<1>8. /\ Cardinality(R) <= Cardinality(D) /\ Cardinality(R) \in Nat
      /\ Cardinality(D) \in Nat
  BY <1>1, <1>3, <1>5, FS_Subset, FS_CardinalityType
<1>9. CacheWithinBounds'
  BY <1>2, <1>7, <1>8, CacheAssumption DEF CacheWithinBounds, CacheInv
<1>10. Weighs(entries', R) /\ Orders(lastAccess', R)
  BY <1>2, <1>5
<1> QED BY <1>2, <1>7, <1>9, <1>10 DEF CacheInv, Weighs, Orders

\* Among the numbers up to N with some property, if there are any, one is the first.
LEMMA FirstOfInterval ==
  ASSUME NEW N \in Nat, NEW E \in SUBSET (0 .. N), E # {}
  PROVE  \E n \in E : \A m \in 0 .. n - 1 : m \notin E
<1>1. PICK n \in E : \A m \in E : ~ (<<m, n>> \in OpToRel(<, Nat))
  <2>1. E \subseteq Nat
    OBVIOUS
  <2> QED BY <2>1, NatLessThanWellFounded, WFMin
<1>2. \A m \in E : m \in Nat /\ n \in Nat /\ ~ (m < n)
  <2>1. E \subseteq Nat
    OBVIOUS
  <2> QED BY <1>1, <2>1, Zenon DEF OpToRel
<1> QED BY <1>2

\* The new entry comes in with its bytes and the one it replaces goes with its own; what is
\* evicted is the first of the order, never the new entry, and no more than must be.
LEMMA PutKeeps ==
  ASSUME CacheInv, NEW instance \in Instances, NEW events, Len(events) \in Nat,
         PutHistory(instance, events)
  PROVE  CacheInv'
<1> DEFINE D == DOMAIN entries
           P == D \union {instance}
           order == Touched(instance)
           L == Len(order)
           bytes == IF MaxBytes > 0 THEN Len(events) ELSE 0
           new == Put(entries, instance, [events |-> events, bytes |-> bytes])
           total == totalBytes - BytesOf({instance}) + bytes
           oldest(n) == {order[k] : k \in 1 .. n}
           enough(n) == \/ n = L - 1
                        \/ Fits(L - n, total - BytesOf(oldest(n)))
           evicted == CHOOSE n \in 0 .. L - 1 : enough(n) /\ \A m \in 0 .. n - 1 : ~enough(m)
           gone == oldest(evicted)
           R == P \ gone
<1>1. /\ entries' = Without(new, gone) /\ totalBytes' = total - BytesOf(gone)
      /\ lastAccess' = SubSeq(order, evicted + 1, L)
  BY DEF PutHistory
<1>2. Orders(order, P) /\ L \in Nat \ {0} /\ order[L] = instance
  BY OrderTouched DEF Touched, CacheInv
<1> HIDE DEF order
<1>3. evicted \in 0 .. L - 1 /\ enough(evicted)
  <2> DEFINE E == {n \in 0 .. L - 1 : enough(n)}
  <2>1. E \in SUBSET (0 .. L - 1) /\ L - 1 \in E /\ L - 1 \in Nat
    BY <1>2
  <2> HIDE DEF E
  <2>2. \E n \in E : \A m \in 0 .. n - 1 : m \notin E
    BY <2>1, FirstOfInterval
  <2>3. \E n \in 0 .. L - 1 : enough(n) /\ \A m \in 0 .. n - 1 : ~enough(m)
    <3>1. PICK n \in E : \A m \in 0 .. n - 1 : m \notin E
      BY <2>2
    <3>2. n \in 0 .. L - 1 /\ \A m \in 0 .. n - 1 : m \in 0 .. L - 1
      BY <1>2, <3>1 DEF E
    <3> HIDE DEF enough
    <3> QED BY <3>1, <3>2 DEF E
  <2> HIDE DEF enough
  <2> QED BY <2>3
<1>4. gone \subseteq D /\ instance \notin gone
  <2>1. DOMAIN order = 1 .. L /\ \A k \in 1 .. L : order[k] \in P
    BY <1>2, LenProperties, ElementOfSeq DEF Orders
  <2>2. \A k \in 1 .. evicted : k \in 1 .. L /\ k # L
    BY <1>2, <1>3
  <2> HIDE DEF evicted
  <2>3. ASSUME NEW k \in 1 .. evicted, order[k] = instance  PROVE FALSE
    <3>0. k \in 1 .. L /\ k # L /\ L \in 1 .. L
      BY <1>2, <2>2
    <3>1. k \in DOMAIN order /\ L \in DOMAIN order /\ k # L
      BY <2>1, <3>0
    <3> QED BY <1>2, <2>3, <3>1 DEF Orders
  <2> QED BY <2>1, <2>2, <2>3
<1>5. /\ Orders(lastAccess', R) /\ Len(lastAccess') = L - evicted
  <2>1. evicted \in 0 .. L
    BY <1>2, <1>3
  <2> HIDE DEF evicted
  <2> QED BY <1>1, <1>2, <2>1, OrderOfRest
<1>6. IsFiniteSet(D) /\ IsFiniteSet(P) /\ IsFiniteSet(R) /\ Cardinality(R) = L - evicted
  <2>1. IsFiniteSet(D) /\ IsFiniteSet(P)
    BY <1>2, OrderCounts DEF CacheInv
  <2> HIDE DEF evicted
  <2> QED BY <1>5, <2>1, OrderCounts
<1> HIDE DEF evicted
<1>7. /\ DOMAIN new = P /\ new[instance].bytes = bytes /\ bytes \in Nat
      /\ \A i \in D : i # instance => new[i] = entries[i]
  BY CacheAssumption DEF Put
<1>8. /\ DOMAIN entries' = R /\ \A i \in R : entries'[i] = new[i]
  BY <1>1, <1>7 DEF Without, Restrict
<1> HIDE DEF new, bytes
<1>9. Weighs(entries, D) /\ Weighs(new, P) /\ totalBytes = Total(entries, D)
  BY <1>7 DEF CacheInv, Weighs
<1>10. total = Total(new, P)
  <2> DEFINE Q == D \ {instance}
             G == {instance} \intersect D
  <2>1. Q \in SUBSET D /\ G \in SUBSET D /\ Q \intersect G = {} /\ Q \union G = D /\ P \ {instance} = Q
    OBVIOUS
  <2>2. /\ Total(entries, Q) \in Nat /\ Total(entries, G) \in Nat
        /\ Total(entries, D) = Total(entries, Q) + Total(entries, G)
    <3>1. Total(entries, Q \union G) = Total(entries, Q) + Total(entries, G)
      BY <1>6, <1>9, <2>1, TotalOfUnion
    <3> QED BY <1>6, <1>9, <2>1, <3>1, Totals
  <2>3. BytesOf({instance}) = Total(entries, G)
    BY DEF BytesOf, Total
  <2>4. Total(new, Q) = Total(entries, Q)
    <3>1. IsFiniteSet(Q) /\ Weighs(entries, Q) /\ \A x \in Q : new[x].bytes = entries[x].bytes
      BY <1>6, <1>7, <1>9, <2>1, FS_Subset DEF Weighs
    <3> QED BY <3>1, TotalOfEqual
  <2>5. Total(new, P) = bytes + Total(new, Q)
    BY <1>6, <1>7, <1>9, <2>1, Totals
  <2> QED BY <1>7, <1>9, <2>2, <2>3, <2>4, <2>5
<1>11. BytesOf(gone) = Total(new, gone)
  <2>1. gone \intersect D = gone
    BY <1>4
  <2>2. BytesOf(gone) = Total(entries, gone)
    BY <2>1 DEF BytesOf, Total
  <2>3. /\ IsFiniteSet(gone) /\ Weighs(entries, gone)
        /\ \A x \in gone : new[x].bytes = entries[x].bytes
    BY <1>4, <1>6, <1>7, <1>9, FS_Subset DEF Weighs
  <2> HIDE DEF gone
  <2> QED BY <2>2, <2>3, TotalOfEqual
<1>12. totalBytes' = Total(entries', R) /\ totalBytes' \in Nat
  <2>1. R \in SUBSET P /\ gone \in SUBSET P /\ R \intersect gone = {} /\ R \union gone = P
    BY <1>4
  <2>2. /\ Total(new, R) \in Nat /\ Total(new, gone) \in Nat
        /\ Total(new, P) = Total(new, R) + Total(new, gone)
    <3> HIDE DEF gone, R, P
    <3>1. Total(new, R \union gone) = Total(new, R) + Total(new, gone)
      BY <1>6, <1>9, <2>1, TotalOfUnion
    <3> QED BY <1>6, <1>9, <2>1, <3>1, Totals
  <2>3. Total(entries', R) = Total(new, R)
    <3>1. Weighs(new, R) /\ \A x \in R : entries'[x].bytes = new[x].bytes
      BY <1>8, <1>9 DEF Weighs
    <3> QED BY <1>6, <3>1, TotalOfEqual
  <2> HIDE DEF total
  <2> QED BY <1>1, <1>10, <1>11, <2>2, <2>3
<1>13. CacheWithinBounds'
  <2>1. totalBytes' = total - BytesOf(gone)
    BY <1>1
  <2>2. CASE evicted = L - 1
    <3>1. Cardinality(R) = 1
      BY <1>2, <1>6, <2>2
    <3> QED BY <1>8, <3>1, CacheAssumption DEF CacheWithinBounds
  <2>3. CASE Fits(L - evicted, total - BytesOf(oldest(evicted)))
    <3>1. Fits(Cardinality(R), totalBytes')
      BY <1>6, <2>1, <2>3
    <3> QED BY <1>8, <3>1 DEF CacheWithinBounds, Fits
  <2> QED BY <1>3, <2>2, <2>3
<1>14. Weighs(entries', R) /\ R \subseteq Instances
  BY <1>8, <1>9 DEF Weighs, CacheInv
<1> QED BY <1>5, <1>8, <1>12, <1>13, <1>14 DEF CacheInv

-----------------------------------------------------------------------------
(* The cache by itself *)

\* Every operation preserves the books and the bounds; those that leave the entries alone do.
LEMMA CacheKept ==
  ASSUME CacheInv, UNCHANGED <<entries, totalBytes, lastAccess>>
  PROVE  CacheInv'
BY DEF CacheInv, CacheWithinBounds, Weighs, Orders

LEMMA GetKeeps ==
  ASSUME CacheInv, NEW instance \in Instances, Get(instance)
  PROVE  CacheInv'
<1>1. CASE instance \in DOMAIN entries
  <2>1. DOMAIN entries \union {instance} = DOMAIN entries
    BY <1>1
  <2>2. Orders(Touched(instance), DOMAIN entries)
    BY <2>1, OrderTouched DEF CacheInv, Touched
  <2>3. entries' = entries /\ totalBytes' = totalBytes /\ lastAccess' = Touched(instance)
    BY <1>1 DEF Get
  <2>4. Orders(lastAccess', DOMAIN entries')
    BY <2>2, <2>3
  <2> QED BY <2>3, <2>4 DEF CacheInv, CacheWithinBounds, Weighs
<1>2. CASE instance \notin DOMAIN entries
  BY <1>2, CacheKept DEF Get
<1> QED BY <1>1, <1>2

LEMMA RemoveKeeps ==
  ASSUME CacheInv, NEW instance \in Instances, RemoveHistory(instance)
  PROVE  CacheInv'
<1>1. Orders(RemoveFirst(lastAccess, instance), DOMAIN entries \ {instance})
  BY OrderWithout DEF CacheInv
<1> QED BY <1>1, DropKeeps DEF RemoveHistory

LEMMA SweepKeeps ==
  ASSUME CacheInv, SweepExpired
  PROVE  CacheInv'
<1>1. PICK n \in 1 .. Len(lastAccess) :
        Drop({lastAccess[k] : k \in 1 .. n}, SubSeq(lastAccess, n + 1, Len(lastAccess)))
  BY DEF SweepExpired
<1>2. n \in 0 .. Len(lastAccess)
  BY OrderCounts DEF CacheInv
<1>3. Orders(SubSeq(lastAccess, n + 1, Len(lastAccess)),
             DOMAIN entries \ {lastAccess[k] : k \in 1 .. n})
  BY <1>2, OrderOfRest DEF CacheInv
<1> QED BY <1>1, <1>3, DropKeeps

LEMMA ResetKeeps ==
  ASSUME CacheInv, Reset
  PROVE  CacheInv'
<1>1. DOMAIN entries' = {} /\ totalBytes' = 0 /\ lastAccess' = <<>>
  BY DEF Reset, NoEntries
<1>2. Orders(lastAccess', {})
  BY <1>1, EmptySeq DEF Orders
<1>3. IsFiniteSet({}) /\ Cardinality({}) = 0
  BY FS_EmptySet
<1>4. Total(entries', {}) = 0
  BY <1>3, Totals DEF Weighs
<1>5. CacheWithinBounds'
  BY <1>1, <1>3, CacheAssumption DEF CacheWithinBounds
<1> QED BY <1>1, <1>2, <1>4, <1>5 DEF CacheInv, Weighs

LEMMA CacheStep ==
  ASSUME CacheInv, [CacheNext]_cacheVars
  PROVE  CacheInv'
<1>1. ASSUME NEW i \in Instances, Get(i)  PROVE CacheInv'
  BY <1>1, GetKeeps
<1>2. ASSUME NEW i \in Instances, RemoveHistory(i)  PROVE CacheInv'
  BY <1>2, RemoveKeeps
<1>3. ASSUME NEW i \in Instances, NEW n \in 0 .. MaxEvents, PutHistory(i, [k \in 1 .. n |-> k])
      PROVE  CacheInv'
  <2>1. n \in Nat
    BY CacheAssumption
  <2>2. Len([k \in 1 .. n |-> k]) \in Nat
    BY <2>1
  <2> QED BY <1>3, <2>2, PutKeeps
<1>4. CASE SweepExpired
  BY <1>4, SweepKeeps
<1>5. CASE Reset
  BY <1>5, ResetKeeps
<1>6. CASE UNCHANGED <<entries, totalBytes, lastAccess>>
  BY <1>6, CacheKept
<1> QED BY <1>1, <1>2, <1>3, <1>4, <1>5, <1>6
        DEF CacheNext, ForgetDispatch, NoteDispatch, cacheVars

\* The books, the bounds and the types they need, after any operations in any order.
THEOREM CacheInvariant == CacheSpec => []CacheInv
<1>1. CacheInit => CacheInv
  BY InitCache
<1>2. CacheInv /\ [CacheNext]_cacheVars => CacheInv'
  BY CacheStep
<1> QED BY <1>1, <1>2, PTL DEF CacheSpec

\* The running total is what the entries take and the order of use names them once each, after
\* any calls of WorkflowHistoryCache in any order.
THEOREM TotalsAreRight == CacheSpec => []CacheConsistent
<1>1. CacheInv => CacheConsistent
  BY BooksAreKept
<1> QED BY <1>1, CacheInvariant, PTL

\* evictToFit keeps the cache within its bounds, or with one entry that is too large by itself.
THEOREM CacheIsBounded == CacheSpec => []CacheWithinBounds
<1>1. CacheInv => CacheWithinBounds
  BY DEF CacheInv
<1> QED BY <1>1, CacheInvariant, PTL

-----------------------------------------------------------------------------
(* The worker *)

Events == Seq(Nat)
Items == [instance : Instances, token : Nat \ {0}, eventCount : Nat, pastEvents : Events]
Runners ==
  [instance : Instances, token : Nat \ {0}, connection : Nat, eventCount : Nat,
   history : Events, end : {"no", "completed", "continuedAsNew"},
   at : {"resolve", "fetch", "execute", "update", "forget", "answer"}, passes : BOOLEAN]

\* The types the other parts need.
HistoryTypeOK ==
  /\ DOMAIN entries \subseteq Instances
  /\ \A i \in DOMAIN entries : entries[i].events \in Events
  /\ DOMAIN latestTokens \subseteq Instances
  /\ committed \in [Instances -> Events] /\ generation \in [Instances -> Nat]
  /\ pending \in [Instances -> Nat] /\ watermark \in [Instances -> Nat] /\ tokens \in Nat
  /\ newest \in [Instances -> Nat] /\ connection \in Nat /\ overtaken \in BOOLEAN
  /\ stream \in Seq(Items) /\ runners \subseteq Runners

\* Tokens grow along the stream, beyond those received; what the sidecar waits for is the last
\* one given out for its instance, and what the markers hold is the last one received.
TokensInv ==
  /\ \A i \in Instances : newest[i] <= tokens /\ pending[i] <= tokens
  /\ \A k \in DOMAIN stream :
       newest[stream[k].instance] < stream[k].token /\ stream[k].token <= tokens
  /\ \A j, k \in DOMAIN stream : j < k => stream[j].token < stream[k].token
  /\ \A r \in runners : r.token <= newest[r.instance]
  /\ \A r, s \in runners : r.instance = s.instance /\ r.token = s.token => r = s
  /\ \A i \in Instances : pending[i] # 0 =>
       /\ newest[i] <= pending[i]
       /\ \A k \in DOMAIN stream : stream[k].instance = i => stream[k].token <= pending[i]
  /\ \A i \in DOMAIN latestTokens : latestTokens[i] = newest[i]
  /\ \A r \in runners : r.at \in {"update", "forget"} => r.passes

\* The events are what the committed history has behind its first n.
Delta(i, n, events) ==
  n <= Len(committed[i]) /\ events = SubSeq(committed[i], n + 1, Len(committed[i]))

Newest(r) == r.token = newest[r.instance]

\* What is on its way, or with the newest runner, still fits the committed history: nobody can
\* have committed a turn since it was dispatched.
DeltasInv ==
  /\ \A k \in DOMAIN stream :
       Delta(stream[k].instance, stream[k].eventCount, stream[k].pastEvents)
  /\ \A r \in runners :
       Newest(r) /\ r.at = "resolve" => Delta(r.instance, r.eventCount, r.history)

\* Entries are prefixes of the committed histories, and the newest runner has executed just
\* that; when it ends a generation, the entry goes before the answer.
PrefixInv ==
  /\ \A i \in DOMAIN entries :
       /\ Len(entries[i].events) <= Len(committed[i])
       /\ entries[i].events = SubSeq(committed[i], 1, Len(entries[i].events))
  /\ \A r \in runners : Newest(r) =>
       /\ r.at \notin {"resolve", "fetch"} => r.history = committed[r.instance]
       /\ r.at = "forget" \/ (r.at = "answer" /\ r.end # "no") => r.instance \notin DOMAIN entries

HistoryInv == HistoryTypeOK /\ TokensInv /\ DeltasInv /\ (~overtaken => PrefixInv)

-----------------------------------------------------------------------------
\* What is on the stream.
LEMMA OnTheStream ==
  ASSUME HistoryTypeOK
  PROVE  /\ Len(stream) \in Nat /\ DOMAIN stream = 1 .. Len(stream)
         /\ \A k \in DOMAIN stream : stream[k] \in Items
<1>1. stream \in Seq(Items)
  BY DEF HistoryTypeOK
<1>2. Len(stream) \in Nat /\ DOMAIN stream = 1 .. Len(stream)
  BY <1>1, LenProperties
<1> QED BY <1>1, <1>2, ElementOfSeq

\* The sidecar waits for the newest runner or for none of an instance: a runner it waits for
\* is the newest, and no work item of its instance is on its way.
LEMMA AwaitedIsNewest ==
  ASSUME HistoryTypeOK, TokensInv, NEW r \in runners, pending[r.instance] = r.token
  PROVE  Newest(r) /\ \A k \in DOMAIN stream : stream[k].instance # r.instance
<1>1. r.token \in Nat \ {0} /\ r.instance \in Instances
  BY DEF HistoryTypeOK, Runners
<1>2. r.token <= newest[r.instance] /\ newest[r.instance] <= pending[r.instance]
  BY <1>1 DEF TokensInv
<1>3. newest[r.instance] \in Nat
  BY <1>1 DEF HistoryTypeOK
<1>4. Newest(r)
  BY <1>1, <1>2, <1>3 DEF Newest
<1>5. ASSUME NEW k \in DOMAIN stream, stream[k].instance = r.instance  PROVE FALSE
  <2>1. stream[k].token \in Nat
    BY OnTheStream DEF Items
  <2>2. newest[r.instance] < stream[k].token /\ stream[k].token <= pending[r.instance]
    BY <1>1, <1>5 DEF TokensInv
  <2> QED BY <1>1, <1>3, <1>4, <2>1, <2>2 DEF Newest
<1> QED BY <1>4, <1>5

\* A cached prefix and the delta behind it make the committed history.
LEMMA PrefixAndDelta ==
  ASSUME NEW h \in Events, NEW n \in 0 .. Len(h)
  PROVE  SubSeq(h, 1, n) \o SubSeq(h, n + 1, Len(h)) = h
<1>1. Len(h) \in Nat
  BY DEF Events
<1>2. /\ 1 \in 1 .. Len(h) + 1 /\ n \in 1 - 1 .. Len(h) /\ Len(h) \in n .. Len(h)
  BY <1>1
<1>3. SubSeq(h, 1, n) \o SubSeq(h, n + 1, Len(h)) = SubSeq(h, 1, Len(h))
  BY <1>2, ConcatAdjacentSubSeq DEF Events
<1> QED BY <1>3, SubSeqFull DEF Events

LEMMA PrefixOfAppend ==
  ASSUME NEW h \in Events, NEW e \in Nat, NEW n \in 0 .. Len(h)
  PROVE  SubSeq(Append(h, e), 1, n) = SubSeq(h, 1, n) /\ n <= Len(Append(h, e))
<1>1. /\ Len(h) \in Nat /\ Append(h, e) \in Events /\ Len(Append(h, e)) = Len(h) + 1
      /\ \A i \in 1 .. Len(h) : Append(h, e)[i] = h[i] /\ h[i] \in Nat
  BY AppendProperties, LenProperties, ElementOfSeq DEF Events
<1>2. /\ SubSeq(h, 1, n) \in Events /\ Len(SubSeq(h, 1, n)) = n
      /\ \A i \in 1 .. n : SubSeq(h, 1, n)[i] = h[i]
  BY <1>1, SubSeqProperties DEF Events
<1>3. /\ SubSeq(Append(h, e), 1, n) \in Events /\ Len(SubSeq(Append(h, e), 1, n)) = n
      /\ \A i \in 1 .. n : SubSeq(Append(h, e), 1, n)[i] = Append(h, e)[i]
  BY <1>1, SubSeqProperties DEF Events
<1>4. SubSeq(Append(h, e), 1, n) = SubSeq(h, 1, n)
  BY <1>1, <1>2, <1>3, SeqEqual DEF Events
<1> QED BY <1>1, <1>4

-----------------------------------------------------------------------------
(* The runners *)

\* A runner gets on: tokens are where they were, and deltas fit if it is past resolving.
LEMMA RunnerGetsOn ==
  ASSUME HistoryInv, NEW r \in runners, NEW next \in Runners, Becomes(r, next),
         next.instance = r.instance, next.token = r.token, next.at # "resolve",
         next.at \in {"update", "forget"} => next.passes,
         UNCHANGED <<sidecarVars, streamVars, newest>>,
         \A i \in DOMAIN latestTokens' : i \in DOMAIN latestTokens
                                         /\ latestTokens'[i] = latestTokens[i]
  PROVE  /\ runners' \subseteq Runners /\ TokensInv' /\ DeltasInv'
         /\ \A s \in runners' : s = next \/ (s \in runners /\ (s.instance = r.instance =>
                                                              s.token # r.token))
<1> USE DEF HistoryInv
<1>1. runners' = (runners \ {r}) \union {next} /\ runners' \subseteq Runners
  BY DEF Becomes, HistoryTypeOK
<1>2. /\ newest' = newest /\ pending' = pending /\ tokens' = tokens /\ stream' = stream
      /\ committed' = committed
  BY DEF sidecarVars, streamVars
<1>3. \A s \in runners' : s = next \/ (s \in runners /\ (s.instance = r.instance =>
                                                         s.token # r.token))
  BY <1>1 DEF TokensInv
<1>4. TokensInv'
  <2>1. \A s \in runners' : s.token <= newest'[s.instance]
    BY <1>1, <1>2 DEF TokensInv
  <2>2. \A s, t \in runners' : s.instance = t.instance /\ s.token = t.token => s = t
    BY <1>1, <1>3 DEF TokensInv
  <2>3. \A i \in DOMAIN latestTokens' : latestTokens'[i] = newest'[i]
    BY <1>2 DEF TokensInv
  <2>4. \A s \in runners' : s.at \in {"update", "forget"} => s.passes
    BY <1>1 DEF TokensInv
  <2> QED BY <1>2, <2>1, <2>2, <2>3, <2>4 DEF TokensInv
<1>5. DeltasInv'
  BY <1>1, <1>2 DEF DeltasInv, Delta, Newest
<1> QED BY <1>1, <1>3, <1>4, <1>5

\* A runner is through: what is known of the others stays.
LEMMA RunnerLeaves ==
  ASSUME HistoryInv, NEW r \in runners, runners' = runners \ {r},
         UNCHANGED <<sidecarVars, streamVars, cacheVars, newest, overtaken>>
  PROVE  HistoryInv'
<1> USE DEF HistoryInv, sidecarVars, streamVars, cacheVars
<1>1. HistoryTypeOK'
  BY DEF HistoryTypeOK
<1>2. TokensInv'
  BY DEF TokensInv
<1>3. DeltasInv'
  BY DEF DeltasInv, Delta, Newest
<1>4. ~overtaken => PrefixInv'
  BY DEF PrefixInv, Newest
<1> QED BY <1>1, <1>2, <1>3, <1>4

LEMMA ResolvePastEventsKeeps ==
  ASSUME HistoryInv, NEW r \in runners, ResolvePastEvents(r)
  PROVE  HistoryInv'
<1> USE DEF HistoryInv
<1>0. r \in Runners /\ HistoryTypeOK
  BY DEF HistoryTypeOK
<1>1. /\ entries' = entries /\ latestTokens' = latestTokens /\ r.at = "resolve"
      /\ UNCHANGED <<sidecarVars, streamVars, newest, overtaken>>
  BY DEF ResolvePastEvents, Get, cacheVars
<1>2. \E next \in Runners :
        /\ Becomes(r, next) /\ next.instance = r.instance /\ next.token = r.token
        /\ next.end = r.end /\ next.at \in {"execute", "fetch"}
        /\ next.at = "execute" =>
             \/ r.eventCount = 0 /\ next.history = r.history
             \/ Hit(r) /\ next.history = entries[r.instance].events \o r.history
  <2>1. CASE r.eventCount = 0 /\ Becomes(r, [r EXCEPT !.at = "execute"])
    BY <1>0, <2>1 DEF Runners
  <2>2. CASE Hit(r) /\ Becomes(r, [r EXCEPT !.at = "execute",
                                           !.history = entries[r.instance].events \o @])
    <3>1. entries[r.instance].events \o r.history \in Events
      BY <1>0, <2>2, ConcatProperties DEF Hit, Events, Runners, HistoryTypeOK
    <3> DEFINE next == [r EXCEPT !.at = "execute",
                                 !.history = entries[r.instance].events \o r.history]
    <3>2. next \in Runners
      BY <1>0, <3>1 DEF Runners
    <3>3. /\ next.instance = r.instance /\ next.token = r.token /\ next.end = r.end
          /\ next.at = "execute" /\ next.history = entries[r.instance].events \o r.history
      BY <1>0 DEF Runners
    <3>4. Becomes(r, next)
      BY <2>2
    <3> HIDE DEF next
    <3> QED BY <2>2, <3>2, <3>3, <3>4
  <2>3. CASE Becomes(r, [r EXCEPT !.at = "fetch"])
    BY <1>0, <2>3 DEF Runners
  <2> QED BY <2>1, <2>2, <2>3 DEF ResolvePastEvents
<1>3. PICK next \in Runners :
        /\ Becomes(r, next) /\ next.instance = r.instance /\ next.token = r.token
        /\ next.end = r.end /\ next.at \in {"execute", "fetch"}
        /\ next.at = "execute" =>
             \/ r.eventCount = 0 /\ next.history = r.history
             \/ Hit(r) /\ next.history = entries[r.instance].events \o r.history
  BY <1>2
<1>4. /\ runners' \subseteq Runners /\ TokensInv' /\ DeltasInv'
      /\ \A s \in runners' : s = next \/ s \in runners
  BY <1>1, <1>3, RunnerGetsOn
<1>5. HistoryTypeOK'
  BY <1>0, <1>1, <1>4 DEF HistoryTypeOK, sidecarVars, streamVars
<1>6. ASSUME ~overtaken', Newest(next), next.at = "execute"
      PROVE  next.history = committed[r.instance]
  <2>1. ~overtaken /\ PrefixInv
    BY <1>1, <1>6
  <2>2. Delta(r.instance, r.eventCount, r.history)
    BY <1>1, <1>3, <1>6 DEF DeltasInv, Newest
  <2>3. /\ committed[r.instance] \in Events /\ r.eventCount \in Nat
        /\ Len(committed[r.instance]) \in Nat
    BY <1>0, LenProperties DEF HistoryTypeOK, Runners, Events
  <2>4. CASE r.eventCount = 0 /\ next.history = r.history
    <3>1. r.history = SubSeq(committed[r.instance], 1, Len(committed[r.instance]))
      BY <2>2, <2>4 DEF Delta
    <3> QED BY <2>3, <2>4, <3>1, SubSeqFull DEF Events
  <2>5. CASE Hit(r) /\ next.history = entries[r.instance].events \o r.history
    <3>1. entries[r.instance].events = SubSeq(committed[r.instance], 1, r.eventCount)
      BY <2>1, <2>5 DEF Hit, PrefixInv
    <3>2. r.eventCount \in 0 .. Len(committed[r.instance])
      BY <2>2, <2>3 DEF Delta
    <3> QED BY <2>2, <2>3, <2>5, <3>1, <3>2, PrefixAndDelta DEF Delta
  <2> QED BY <1>3, <1>6, <2>4, <2>5
<1>7. ~overtaken' => PrefixInv'
  BY <1>1, <1>3, <1>4, <1>6 DEF PrefixInv, Newest, sidecarVars
<1> QED BY <1>4, <1>5, <1>7

LEMMA GetInstanceHistoryKeeps ==
  ASSUME HistoryInv, NEW r \in runners, GetInstanceHistory(r)
  PROVE  HistoryInv'
<1> USE DEF HistoryInv
<1> DEFINE next == [r EXCEPT !.at = "execute", !.history = committed[r.instance]]
<1>0. r \in Runners /\ HistoryTypeOK
  BY DEF HistoryTypeOK
<1>1. next \in Runners
  BY <1>0 DEF Runners, HistoryTypeOK
<1>2. /\ next.instance = r.instance /\ next.token = r.token /\ next.end = r.end
      /\ next.at = "execute" /\ next.history = committed[r.instance]
  BY <1>0 DEF Runners
<1>3. Becomes(r, next) /\ UNCHANGED <<cacheVars, sidecarVars, streamVars, newest, overtaken>>
  BY DEF GetInstanceHistory
<1> HIDE DEF next
<1>4. /\ runners' \subseteq Runners /\ TokensInv' /\ DeltasInv'
      /\ \A s \in runners' : s = next \/ s \in runners
  BY <1>1, <1>2, <1>3, RunnerGetsOn DEF cacheVars
<1>5. HistoryTypeOK'
  BY <1>0, <1>3, <1>4 DEF HistoryTypeOK, cacheVars, sidecarVars, streamVars
<1>6. ~overtaken' => PrefixInv'
  BY <1>2, <1>3, <1>4 DEF PrefixInv, Newest, cacheVars, sidecarVars
<1> QED BY <1>4, <1>5, <1>6

\* Only the marker of a newest dispatch, or none, lets a runner write.
LEMMA ExecuteKeeps ==
  ASSUME HistoryInv, NEW r \in runners, Execute(r)
  PROVE  HistoryInv'
<1> USE DEF HistoryInv
<1>0. r \in Runners /\ HistoryTypeOK
  BY DEF HistoryTypeOK
<1>1. PICK end \in {"no", "completed", "continuedAsNew"} :
        Becomes(r, [r EXCEPT
               !.end = end,
               !.at = IF IsLatestDispatch(r.instance, r.token) THEN "update" ELSE "answer",
               !.passes = \/ newest[r.instance] = r.token
                          \/ r.instance \notin DOMAIN latestTokens])
  BY DEF Execute
<1> DEFINE passes == newest[r.instance] = r.token \/ r.instance \notin DOMAIN latestTokens
           at == IF IsLatestDispatch(r.instance, r.token) THEN "update" ELSE "answer"
           next == [r EXCEPT !.end = end, !.at = at, !.passes = passes]
<1>2. next \in Runners
  BY <1>0 DEF Runners
<1>3. /\ next.instance = r.instance /\ next.token = r.token /\ next.history = r.history
      /\ next.at = at /\ next.passes = passes
  BY <1>0 DEF Runners
<1>4. /\ Becomes(r, next) /\ r.at = "execute"
      /\ UNCHANGED <<cacheVars, sidecarVars, streamVars, newest, overtaken>>
  BY <1>1 DEF Execute
<1> HIDE DEF next
<1>5. IsLatestDispatch(r.instance, r.token) => passes
  BY DEF IsLatestDispatch, TokensInv
<1>6. Newest(r) => IsLatestDispatch(r.instance, r.token)
  BY DEF IsLatestDispatch, TokensInv, Newest
<1>7. next.at \in {"update", "answer"} /\ (next.at = "update" => next.passes)
  BY <1>3, <1>5
<1>8. Newest(r) => next.at = "update"
  BY <1>3, <1>6
<1> HIDE DEF at, passes
<1>9. /\ runners' \subseteq Runners /\ TokensInv' /\ DeltasInv'
      /\ \A s \in runners' : s = next \/ s \in runners
  BY <1>2, <1>3, <1>4, <1>7, RunnerGetsOn DEF cacheVars
<1>10. HistoryTypeOK'
  BY <1>0, <1>4, <1>9 DEF HistoryTypeOK, cacheVars, sidecarVars, streamVars
<1>11. ~overtaken' => PrefixInv'
  BY <1>3, <1>4, <1>7, <1>8, <1>9 DEF PrefixInv, Newest, cacheVars, sidecarVars
<1> QED BY <1>9, <1>10, <1>11

\* Whatever is evicted, entries of a put are those there were and the new one.
LEMMA PutHistoryAdds ==
  ASSUME NEW instance, NEW events, PutHistory(instance, events)
  PROVE  /\ latestTokens' = latestTokens
         /\ \A i \in DOMAIN entries' :
              \/ i = instance /\ entries'[i].events = events
              \/ i \in DOMAIN entries /\ entries'[i] = entries[i]
BY DEF PutHistory, Without, Restrict, Put

LEMMA DropOnlyDrops ==
  ASSUME NEW instances, NEW remaining, Drop(instances, remaining)
  PROVE  /\ latestTokens' = latestTokens /\ DOMAIN entries' = DOMAIN entries \ instances
         /\ \A i \in DOMAIN entries' : entries'[i] = entries[i]
BY DEF Drop, Without, Restrict

\* The newest writes what it has executed, or takes the entry away; whoever is not the newest
\* is overtaken.
LEMMA UpdateHistoryCacheKeeps ==
  ASSUME HistoryInv, NEW r \in runners, UpdateHistoryCache(r)
  PROVE  HistoryInv'
<1> USE DEF HistoryInv
<1>0. r \in Runners /\ HistoryTypeOK
  BY DEF HistoryTypeOK
<1>1. /\ r.at = "update" /\ r.passes
      /\ overtaken' = (overtaken \/ ~Newest(r))
      /\ UNCHANGED <<sidecarVars, streamVars, newest>>
  BY <1>0 DEF UpdateHistoryCache, Overtakes, TokensInv, Newest
<1>2. /\ \/ r.end = "no" /\ PutHistory(r.instance, r.history)
         \/ r.end # "no" /\ RemoveHistory(r.instance)
      /\ latestTokens' = latestTokens
      /\ \A i \in DOMAIN entries' :
           \/ r.end = "no" /\ i = r.instance /\ entries'[i].events = r.history
           \/ i \in DOMAIN entries /\ entries'[i] = entries[i]
      /\ r.end # "no" => r.instance \notin DOMAIN entries'
  <2>1. CASE r.end = "no" /\ PutHistory(r.instance, r.history)
    BY <2>1, PutHistoryAdds
  <2>2. CASE r.end # "no" /\ RemoveHistory(r.instance)
    BY <2>2, DropOnlyDrops DEF RemoveHistory
  <2> QED BY <2>1, <2>2 DEF UpdateHistoryCache
<1>3. PICK next \in Runners :
        /\ Becomes(r, next) /\ next.instance = r.instance /\ next.token = r.token
        /\ next.end = r.end /\ next.history = r.history /\ next.passes
        /\ next.at = (IF r.end = "no" THEN "answer" ELSE "forget")
  BY <1>0, <1>1 DEF UpdateHistoryCache, Runners
<1>4. /\ runners' \subseteq Runners /\ TokensInv' /\ DeltasInv'
      /\ \A s \in runners' : s = next \/ (s \in runners /\ (s.instance = r.instance =>
                                                           s.token # r.token))
  BY <1>1, <1>2, <1>3, RunnerGetsOn
<1>5. HistoryTypeOK'
  <2>1. \A i \in DOMAIN entries' : i \in Instances /\ entries'[i].events \in Events
    BY <1>0, <1>2 DEF HistoryTypeOK, Runners
  <2> QED BY <1>0, <1>1, <1>2, <1>4, <2>1 DEF HistoryTypeOK, sidecarVars, streamVars
<1>6. ASSUME ~overtaken'  PROVE PrefixInv'
  <2>1. PrefixInv /\ Newest(r) /\ committed' = committed /\ newest' = newest
    BY <1>1, <1>6 DEF sidecarVars
  <2>2. r.history = committed[r.instance] /\ r.history \in Events
    BY <1>0, <1>1, <2>1 DEF PrefixInv, Runners
  <2>3. r.history = SubSeq(r.history, 1, Len(r.history)) /\ Len(r.history) \in Nat
    BY <2>2, SubSeqFull, LenProperties DEF Events
  <2>4. \A i \in DOMAIN entries' :
          /\ Len(entries'[i].events) <= Len(committed'[i])
          /\ entries'[i].events = SubSeq(committed'[i], 1, Len(entries'[i].events))
    BY <1>2, <2>1, <2>2, <2>3 DEF PrefixInv
  <2>5. ASSUME NEW s \in runners', s = next
        PROVE  /\ s.history = committed'[s.instance]
               /\ s.at = "forget" \/ (s.at = "answer" /\ s.end # "no") =>
                    s.instance \notin DOMAIN entries'
    BY <1>2, <1>3, <2>1, <2>2, <2>5
  <2>6. ASSUME NEW s \in runners', s \in runners, Newest(s)', s # next
        PROVE  /\ s.at \notin {"resolve", "fetch"} => s.history = committed'[s.instance]
               /\ s.at = "forget" \/ (s.at = "answer" /\ s.end # "no") =>
                    s.instance \notin DOMAIN entries'
    <3>1. Newest(s) /\ s.instance # r.instance
      BY <1>4, <2>1, <2>6 DEF Newest
    <3> QED BY <1>2, <2>1, <2>6, <3>1 DEF PrefixInv
  <2> QED BY <1>4, <2>4, <2>5, <2>6 DEF PrefixInv
<1> QED BY <1>4, <1>5, <1>6

LEMMA ForgetKeeps ==
  ASSUME HistoryInv, NEW r \in runners, Forget(r)
  PROVE  HistoryInv'
<1> USE DEF HistoryInv
<1>0. r \in Runners /\ HistoryTypeOK
  BY DEF HistoryTypeOK
<1>1. /\ r.at = "forget" /\ r.passes
      /\ overtaken' = (overtaken \/ ~Newest(r)) /\ entries' = entries
      /\ \A i \in DOMAIN latestTokens' : i \in DOMAIN latestTokens
                                         /\ latestTokens'[i] = latestTokens[i]
      /\ UNCHANGED <<sidecarVars, streamVars, newest>>
  BY <1>0 DEF Forget, ForgetDispatch, Without, Restrict, Overtakes, TokensInv, Newest
<1>2. PICK next \in Runners :
        /\ Becomes(r, next) /\ next.instance = r.instance /\ next.token = r.token
        /\ next.end = r.end /\ next.history = r.history /\ next.at = "answer"
  BY <1>0 DEF Forget, Runners
<1>3. /\ runners' \subseteq Runners /\ TokensInv' /\ DeltasInv'
      /\ \A s \in runners' : s = next \/ s \in runners
  BY <1>1, <1>2, RunnerGetsOn
<1>4. HistoryTypeOK'
  BY <1>0, <1>1, <1>3 DEF HistoryTypeOK, sidecarVars, streamVars
<1>5. ~overtaken' => PrefixInv'
  BY <1>1, <1>2, <1>3 DEF PrefixInv, Newest, sidecarVars
<1> QED BY <1>3, <1>4, <1>5

\* A stream that is gone takes its work items and what is waited for with it.
LEMMA BreakKeeps ==
  ASSUME HistoryInv, Break, runners' \subseteq runners,
         UNCHANGED <<cacheVars, newest, overtaken>>
  PROVE  HistoryInv'
<1> USE DEF HistoryInv, cacheVars
<1>1. /\ stream' = <<>> /\ pending' = [i \in Instances |-> 0]
      /\ watermark' = [i \in Instances |-> 0]
      /\ UNCHANGED <<committed, generation, tokens, connection>>
  BY DEF Break
<1>2. HistoryTypeOK'
  BY <1>1 DEF HistoryTypeOK
<1>3. TokensInv'
  <2>1. DOMAIN stream' = {}
    BY <1>1
  <2> QED BY <1>1, <2>1 DEF TokensInv, HistoryTypeOK
<1>4. DeltasInv'
  <2>1. DOMAIN stream' = {}
    BY <1>1
  <2> QED BY <1>1, <2>1 DEF DeltasInv, Delta, Newest
<1>5. ~overtaken => PrefixInv'
  BY <1>1 DEF PrefixInv, Newest
<1> QED BY <1>2, <1>3, <1>4, <1>5

LEMMA FetchFailsKeeps ==
  ASSUME HistoryInv, NEW r \in runners, FetchFails(r)
  PROVE  HistoryInv'
<1>1. runners' = runners \ {r} /\ UNCHANGED <<cacheVars, newest, overtaken>>
  BY DEF FetchFails
<1>2. CASE Break
  BY <1>1, <1>2, BreakKeeps
<1>3. CASE UNCHANGED <<sidecarVars, streamVars>>
  BY <1>1, <1>3, RunnerLeaves
<1> QED BY <1>2, <1>3 DEF FetchFails

\* The answer that counts is the newest runner's: nothing of its instance is under way, and an
\* entry stays a prefix, or is gone when the generation ends.
LEMMA CompleteOrchestratorTaskKeeps ==
  ASSUME HistoryInv, NEW r \in runners, CompleteOrchestratorTask(r)
  PROVE  HistoryInv'
<1> USE DEF HistoryInv
<1>0. r \in Runners /\ HistoryTypeOK /\ r.instance \in Instances
  BY DEF HistoryTypeOK, Runners
<1>1. /\ r.at = "answer" /\ runners' = runners \ {r}
      /\ UNCHANGED <<cacheVars, streamVars, newest, overtaken>>
  BY DEF CompleteOrchestratorTask
<1>2. CASE UNCHANGED sidecarVars
  BY <1>1, <1>2, RunnerLeaves
<1>3. CASE pending[r.instance] = r.token /\ Accept(r.instance, r.end)
  <2>1. Newest(r) /\ \A k \in DOMAIN stream : stream[k].instance # r.instance
    BY <1>0, <1>3, AwaitedIsNewest
  <2>2. /\ pending' = [pending EXCEPT ![r.instance] = 0] /\ tokens' = tokens
        /\ watermark' \in [Instances -> Nat] /\ generation' \in [Instances -> Nat]
        /\ committed' \in [Instances -> Events]
        /\ \A i \in Instances : i # r.instance => committed'[i] = committed[i]
        /\ \/ r.end = "no" /\ committed'[r.instance] =
                              Append(committed[r.instance], generation[r.instance])
           \/ r.end # "no" /\ committed'[r.instance] \in {<<>>, committed[r.instance]}
    <3>1. committed[r.instance] \in Events /\ generation[r.instance] \in Nat
      BY <1>0 DEF HistoryTypeOK
    <3>2. Append(committed[r.instance], generation[r.instance]) \in Events /\ <<>> \in Events
      BY <3>1, AppendProperties, EmptySeq DEF Events
    <3>3. r.end \in {"no", "completed", "continuedAsNew"}
      BY <1>0 DEF Runners
    <3>4. CASE r.end = "no"
      BY <1>0, <1>3, <3>2, <3>4 DEF Accept, HistoryTypeOK
    <3>5. CASE r.end = "completed"
      BY <1>0, <1>3, <3>5 DEF Accept, HistoryTypeOK
    <3>6. CASE r.end = "continuedAsNew"
      <4>1. /\ committed' = [committed EXCEPT ![r.instance] = <<>>] /\ tokens' = tokens
            /\ generation' = [generation EXCEPT ![r.instance] = @ + 1]
            /\ watermark' = [watermark EXCEPT ![r.instance] = 0]
            /\ pending' = [pending EXCEPT ![r.instance] = 0]
        BY <1>3, <3>6 DEF Accept
      <4>2. generation' \in [Instances -> Nat] /\ watermark' \in [Instances -> Nat]
        BY <1>0, <3>1, <4>1 DEF HistoryTypeOK
      <4>3. committed' \in [Instances -> Events] /\ committed'[r.instance] = <<>>
        BY <1>0, <3>2, <4>1 DEF HistoryTypeOK
      <4>4. \A i \in Instances : i # r.instance => committed'[i] = committed[i]
        BY <1>0, <4>1 DEF HistoryTypeOK
      <4> QED BY <3>6, <4>1, <4>2, <4>3, <4>4
    <3> QED BY <3>3, <3>4, <3>5, <3>6
  <2>3. HistoryTypeOK'
    BY <1>0, <1>1, <2>2 DEF HistoryTypeOK, cacheVars, streamVars
  <2>4. TokensInv'
    <3>1. UNCHANGED <<tokens, newest, stream, latestTokens>> /\ runners' \subseteq runners
      BY <1>1, <2>2 DEF cacheVars, streamVars
    <3>2. /\ \A i \in Instances : i # r.instance => pending'[i] = pending[i]
          /\ pending'[r.instance] = 0 /\ tokens \in Nat
      BY <1>0, <2>2 DEF HistoryTypeOK
    <3>3. \A i \in Instances : newest'[i] <= tokens' /\ pending'[i] <= tokens'
      BY <3>1, <3>2 DEF TokensInv
    <3>4. \A i \in Instances : pending'[i] # 0 =>
            /\ newest'[i] <= pending'[i]
            /\ \A k \in DOMAIN stream' : stream'[k].instance = i => stream'[k].token <= pending'[i]
      BY <3>1, <3>2 DEF TokensInv
    <3> QED BY <3>1, <3>3, <3>4 DEF TokensInv
  <2>5. \A s \in runners' : Newest(s)' => s.instance # r.instance
    BY <1>1, <2>1 DEF TokensInv, Newest
  <2>6. DeltasInv'
    <3>1. \A k \in DOMAIN stream : stream[k].instance \in Instances
      BY <1>0, OnTheStream DEF Items
    <3>2. \A s \in runners' : s \in runners /\ s.instance \in Instances
      BY <1>0, <1>1 DEF HistoryTypeOK, Runners
    <3>3. \A k \in DOMAIN stream' : Delta(stream[k].instance, stream[k].eventCount, stream[k].pastEvents)'
      BY <1>1, <2>1, <2>2, <3>1 DEF DeltasInv, Delta, streamVars
    <3>4. \A s \in runners' :
            Newest(s)' /\ s.at = "resolve" => Delta(s.instance, s.eventCount, s.history)'
      <4>1. \A s \in runners' : Newest(s)' => Newest(s)
        BY <1>1 DEF Newest
      <4> QED BY <2>2, <2>5, <3>2, <4>1 DEF DeltasInv, Delta
    <3> QED BY <3>3, <3>4 DEF DeltasInv
  <2>7. ASSUME ~overtaken'  PROVE PrefixInv'
    <3>1. PrefixInv /\ entries' = entries /\ newest' = newest
      BY <1>1, <2>7 DEF cacheVars
    <3>2. ASSUME NEW i \in DOMAIN entries
          PROVE  /\ Len(entries[i].events) <= Len(committed'[i])
                 /\ entries[i].events = SubSeq(committed'[i], 1, Len(entries[i].events))
      <4>1. CASE i # r.instance
        BY <1>0, <2>2, <3>1, <4>1 DEF PrefixInv, HistoryTypeOK
      <4>2. CASE i = r.instance
        <5>1. r.end = "no"
          BY <1>1, <2>1, <3>1, <4>2 DEF PrefixInv
        <5> DEFINE h == committed[i]
                     e == generation[i]
                     n == Len(entries[i].events)
        <5>3. h \in Events /\ e \in Nat /\ n \in Nat /\ n <= Len(h) /\ Len(h) \in Nat
          BY <1>0, <3>1, LenProperties DEF PrefixInv, HistoryTypeOK, Events
        <5>4. committed'[i] = Append(h, e)
          BY <2>2, <4>2, <5>1
        <5>5. SubSeq(Append(h, e), 1, n) = SubSeq(h, 1, n) /\ n <= Len(Append(h, e))
          BY <5>3, PrefixOfAppend
        <5> QED BY <3>1, <5>4, <5>5 DEF PrefixInv
      <4> QED BY <4>1, <4>2
    <3>3. ASSUME NEW s \in runners', Newest(s)'
          PROVE  /\ s.at \notin {"resolve", "fetch"} => s.history = committed'[s.instance]
                 /\ s.at = "forget" \/ (s.at = "answer" /\ s.end # "no") =>
                      s.instance \notin DOMAIN entries
      <4>1. s \in runners /\ Newest(s) /\ s.instance \in Instances
        BY <1>0, <1>1, <3>1, <3>3 DEF Newest, HistoryTypeOK, Runners
      <4> QED BY <2>2, <2>5, <3>1, <3>3, <4>1 DEF PrefixInv
    <3> QED BY <3>1, <3>2, <3>3 DEF PrefixInv
  <2> QED BY <2>3, <2>4, <2>6, <2>7
<1> QED BY <1>2, <1>3 DEF CompleteOrchestratorTask

-----------------------------------------------------------------------------
(* The sidecar and the stream *)

\* What the sidecar dispatches has a new token and fits what is committed.
LEMMA DispatchKeeps ==
  ASSUME HistoryInv, NEW i \in Instances, Dispatch(i)
  PROVE  HistoryInv'
<1> USE DEF HistoryInv
<1> DEFINE held == IF watermark[i] <= Len(committed[i]) THEN watermark[i] ELSE 0
           h == committed[i]
           item == [instance |-> i, token |-> tokens + 1, eventCount |-> held,
                    pastEvents |-> SubSeq(h, held + 1, Len(h))]
           n == Len(stream)
<1>0. /\ HistoryTypeOK /\ h \in Events /\ Len(h) \in Nat /\ tokens \in Nat
      /\ watermark[i] \in Nat /\ newest[i] \in Nat /\ held \in Nat /\ held <= Len(h)
  BY LenProperties DEF HistoryTypeOK, Events
<1>1. /\ stream' = Append(stream, item) /\ tokens' = tokens + 1
      /\ pending' = [pending EXCEPT ![i] = tokens + 1]
      /\ watermark' = [watermark EXCEPT ![i] = Len(h)]
      /\ UNCHANGED <<cacheVars, committed, generation, connection, runners, newest, overtaken>>
  BY DEF Dispatch
<1>2. item \in Items
  <2>1. SubSeq(h, held + 1, Len(h)) \in Events
    BY <1>0, SubSeqProperties DEF Events
  <2> QED BY <1>0, <2>1 DEF Items
<1>3. item.instance = i /\ item.token = tokens + 1 /\ Delta(i, item.eventCount, item.pastEvents)
  BY <1>0 DEF Delta
<1> HIDE DEF item, held
<1>4. /\ n \in Nat /\ DOMAIN stream = 1 .. n /\ stream' \in Seq(Items)
      /\ DOMAIN stream' = 1 .. n + 1 /\ stream'[n + 1] = item
      /\ \A k \in 1 .. n : stream'[k] = stream[k] /\ stream[k] \in Items
  <2>1. stream \in Seq(Items)
    BY <1>0 DEF HistoryTypeOK
  <2>2. /\ stream' \in Seq(Items) /\ Len(stream') = n + 1 /\ stream'[n + 1] = item
        /\ \A k \in 1 .. n : stream'[k] = stream[k]
    BY <1>1, <1>2, <2>1, AppendProperties
  <2> QED BY <2>1, <2>2, OnTheStream, LenProperties
<1>5. HistoryTypeOK'
  BY <1>0, <1>1, <1>4 DEF HistoryTypeOK, cacheVars
<1>6. TokensInv'
  <2>1. \A j \in Instances : newest'[j] <= tokens' /\ pending'[j] <= tokens'
    BY <1>0, <1>1 DEF TokensInv, HistoryTypeOK
  <2>2. \A k \in DOMAIN stream' :
          newest'[stream'[k].instance] < stream'[k].token /\ stream'[k].token <= tokens'
    <3>1. ASSUME NEW k \in 1 .. n
          PROVE  newest[stream[k].instance] < stream[k].token /\ stream[k].token <= tokens + 1
      <4>1. stream[k].token \in Nat
        BY <1>4 DEF Items
      <4>2. newest[stream[k].instance] < stream[k].token /\ stream[k].token <= tokens
        BY <1>4 DEF TokensInv
      <4> QED BY <1>0, <4>1, <4>2
    <3>2. newest[i] < tokens + 1
      BY <1>0 DEF TokensInv
    <3> QED BY <1>0, <1>1, <1>3, <1>4, <3>1, <3>2
  <2>3. \A j, k \in DOMAIN stream' : j < k => stream'[j].token < stream'[k].token
    <3>1. ASSUME NEW j \in 1 .. n  PROVE stream[j].token < tokens + 1
      <4>1. stream[j].token \in Nat
        BY <1>4 DEF Items
      <4>2. stream[j].token <= tokens
        BY <1>4 DEF TokensInv
      <4> QED BY <1>0, <4>1, <4>2
    <3>2. \A j, k \in 1 .. n : j < k => stream[j].token < stream[k].token
      BY <1>4 DEF TokensInv
    <3> QED BY <1>3, <1>4, <3>1, <3>2
  <2>4. ASSUME NEW j \in Instances, pending'[j] # 0
        PROVE  /\ newest'[j] <= pending'[j]
               /\ \A k \in DOMAIN stream' :
                    stream'[k].instance = j => stream'[k].token <= pending'[j]
    <3>1. CASE j = i
      <4>1. pending'[j] = tokens + 1
        BY <1>0, <1>1, <3>1 DEF HistoryTypeOK
      <4>2. \A k \in DOMAIN stream' : stream'[k].token \in Nat
        <5>1. \A k \in 1 .. n : stream[k].token \in Nat
          BY <1>4 DEF Items
        <5> QED BY <1>0, <1>3, <1>4, <5>1
      <4> QED BY <1>1, <2>1, <2>2, <3>1, <4>1
    <3>2. CASE j # i
      <4>1. pending'[j] = pending[j]
        BY <1>0, <1>1, <3>2 DEF HistoryTypeOK
      <4> QED BY <1>1, <1>3, <1>4, <2>4, <3>2, <4>1 DEF TokensInv
    <3> QED BY <3>1, <3>2
  <2> QED BY <1>1, <2>1, <2>2, <2>3, <2>4 DEF TokensInv, cacheVars
<1>7. DeltasInv'
  <2>1. \A j, m, events : Delta(j, m, events)' <=> Delta(j, m, events)
    BY <1>1 DEF Delta
  <2>2. \A k \in 1 .. n : Delta(stream[k].instance, stream[k].eventCount, stream[k].pastEvents)
    BY <1>4 DEF DeltasInv
  <2>3. \A k \in DOMAIN stream' :
          Delta(stream'[k].instance, stream'[k].eventCount, stream'[k].pastEvents)
    BY <1>3, <1>4, <2>2
  <2>4. \A s \in runners' :
          s \in runners /\ (Newest(s)' => Newest(s))
    BY <1>1 DEF Newest
  <2> QED BY <2>1, <2>3, <2>4 DEF DeltasInv
<1>8. ~overtaken' => PrefixInv'
  BY <1>1 DEF PrefixInv, Newest, cacheVars
<1> QED BY <1>5, <1>6, <1>7, <1>8

LEMMA LapseKeeps ==
  ASSUME HistoryInv, NEW i \in Instances, Lapses(i)
  PROVE  HistoryInv'
<1> USE DEF HistoryInv
<1>1. /\ pending' = [pending EXCEPT ![i] = 0]
      /\ UNCHANGED <<cacheVars, committed, generation, watermark, tokens, stream, connection,
                     runners, newest, overtaken>>
  BY DEF Lapses, streamVars
<1>2. HistoryTypeOK'
  BY <1>1 DEF HistoryTypeOK, cacheVars
<1>3. TokensInv'
  BY <1>1 DEF TokensInv, HistoryTypeOK, cacheVars
<1>4. DeltasInv'
  BY <1>1 DEF DeltasInv, Delta, Newest
<1>5. ~overtaken' => PrefixInv'
  BY <1>1 DEF PrefixInv, Newest, cacheVars
<1> QED BY <1>2, <1>3, <1>4, <1>5

\* Entries that go, and nothing else: a fresh stream, or a sweep.
LEMMA FewerEntriesKeep ==
  ASSUME HistoryInv, DOMAIN entries' \subseteq DOMAIN entries,
         \A i \in DOMAIN entries' : entries'[i] = entries[i],
         latestTokens' = latestTokens, connection' \in Nat,
         UNCHANGED <<sidecarVars, stream, runners, newest, overtaken>>
  PROVE  HistoryInv'
<1> USE DEF HistoryInv, sidecarVars
<1>1. HistoryTypeOK'
  BY DEF HistoryTypeOK
<1>2. TokensInv'
  BY DEF TokensInv
<1>3. DeltasInv'
  BY DEF DeltasInv, Delta, Newest
<1>4. ~overtaken => PrefixInv'
  BY DEF PrefixInv, Newest
<1> QED BY <1>1, <1>2, <1>3, <1>4

\* The head of the stream becomes the newest dispatch of its instance.
LEMMA ReceiveKeeps ==
  ASSUME HistoryInv, Receive
  PROVE  HistoryInv'
<1> USE DEF HistoryInv
<1> DEFINE item == Head(stream)
           next == [instance |-> item.instance, token |-> item.token, connection |-> connection,
                    eventCount |-> item.eventCount, history |-> item.pastEvents, end |-> "no",
                    at |-> "resolve", passes |-> FALSE]
           n == Len(stream)
<1>0. /\ HistoryTypeOK /\ stream # <<>> /\ stream \in Seq(Items)
      /\ n \in Nat /\ DOMAIN stream = 1 .. n /\ \A k \in 1 .. n : stream[k] \in Items
  BY OnTheStream DEF HistoryTypeOK, Receive
<1>1. /\ n \in Nat \ {0} /\ item = stream[1] /\ item \in Items
      /\ stream' \in Seq(Items) /\ DOMAIN stream' = 1 .. n - 1
      /\ \A k \in 1 .. n - 1 : stream'[k] = stream[k + 1]
  <2>1. stream' = Tail(stream)
    BY DEF Receive
  <2>2. n \in Nat \ {0} /\ item \in Items /\ stream' \in Seq(Items) /\ Len(stream') = n - 1
    BY <1>0, <2>1, EmptySeq, HeadTailProperties
  <2> QED BY <1>0, <2>1, <2>2, HeadTailProperties, LenProperties
<1>2. /\ latestTokens' = Put(latestTokens, item.instance, item.token)
      /\ runners' = runners \union {next}
      /\ newest' = [newest EXCEPT ![item.instance] = item.token]
      /\ entries' = entries
      /\ UNCHANGED <<sidecarVars, connection, overtaken>>
  BY DEF Receive, NoteDispatch
<1>3. /\ item.instance \in Instances /\ item.token \in Nat \ {0}
      /\ next \in Runners /\ next.instance = item.instance /\ next.token = item.token
      /\ next.eventCount = item.eventCount /\ next.history = item.pastEvents
      /\ next.at = "resolve"
  BY <1>0, <1>1 DEF Items, Runners, HistoryTypeOK
<1>4. newest[item.instance] < item.token /\ item.token <= tokens
  BY <1>0, <1>1 DEF TokensInv
<1> HIDE DEF next
<1>5. /\ newest' \in [Instances -> Nat]
      /\ \A i \in Instances : newest'[i] = IF i = item.instance THEN item.token ELSE newest[i]
  BY <1>0, <1>2, <1>3 DEF HistoryTypeOK
<1>6. /\ \A i \in DOMAIN latestTokens' :
           latestTokens'[i] = IF i = item.instance THEN item.token ELSE latestTokens[i]
      /\ DOMAIN latestTokens' = DOMAIN latestTokens \union {item.instance}
  BY <1>2 DEF Put
<1>7. HistoryTypeOK'
  BY <1>0, <1>1, <1>2, <1>3, <1>5, <1>6 DEF HistoryTypeOK, sidecarVars
<1>8. TokensInv'
  <2>0. \A i \in Instances : newest[i] \in Nat /\ tokens \in Nat /\ pending[i] \in Nat
    BY <1>0 DEF HistoryTypeOK
  <2>1. \A i \in Instances : newest'[i] <= tokens' /\ pending'[i] <= tokens'
    BY <1>2, <1>4, <1>5 DEF TokensInv, sidecarVars
  <2>2. \A k \in DOMAIN stream' :
          newest'[stream'[k].instance] < stream'[k].token /\ stream'[k].token <= tokens'
    <3>1. ASSUME NEW k \in 1 .. n - 1
          PROVE  newest'[stream[k + 1].instance] < stream[k + 1].token
                 /\ stream[k + 1].token <= tokens'
      <4>1. k + 1 \in 1 .. n /\ 1 \in 1 .. n /\ 1 < k + 1 /\ stream[k + 1].instance \in Instances
        BY <1>0, <1>1 DEF Items
      <4> QED BY <1>0, <1>1, <1>2, <1>5, <4>1 DEF TokensInv, sidecarVars
    <3> QED BY <1>1, <3>1
  <2>3. \A j, k \in DOMAIN stream' : j < k => stream'[j].token < stream'[k].token
    <3>1. ASSUME NEW j \in 1 .. n - 1, NEW k \in 1 .. n - 1, j < k
          PROVE  stream[j + 1].token < stream[k + 1].token
      <4>1. j + 1 \in 1 .. n /\ k + 1 \in 1 .. n /\ j + 1 < k + 1
        BY <1>0, <3>1
      <4>2. \A a, b \in 1 .. n : a < b => stream[a].token < stream[b].token
        BY <1>0 DEF TokensInv
      <4> QED BY <4>1, <4>2
    <3>2. ASSUME NEW j \in DOMAIN stream', NEW k \in DOMAIN stream', j < k
          PROVE  stream'[j].token < stream'[k].token
      <4>1. j \in 1 .. n - 1 /\ k \in 1 .. n - 1
        BY <1>1
      <4> QED BY <1>1, <3>1, <3>2, <4>1
    <3> QED BY <3>2
  <2>4. \A r \in runners : r.token <= newest[r.instance] /\ r.instance \in Instances
                            /\ r.token \in Nat
    BY <1>0 DEF TokensInv, HistoryTypeOK, Runners
  <2>5. \A r \in runners' : r.token <= newest'[r.instance]
    BY <1>2, <1>3, <1>4, <1>5, <2>0, <2>4
  <2>6. \A r \in runners : r.instance = next.instance => r.token # next.token
    BY <1>3, <1>4, <2>0, <2>4
  <2>7. \A r, s \in runners' : r.instance = s.instance /\ r.token = s.token => r = s
    BY <1>2, <2>6 DEF TokensInv
  <2>8. ASSUME NEW i \in Instances, pending'[i] # 0
        PROVE  /\ newest'[i] <= pending'[i]
               /\ \A k \in DOMAIN stream' :
                    stream'[k].instance = i => stream'[k].token <= pending'[i]
    <3>0. pending' = pending
      BY <1>2 DEF sidecarVars
    <3>1. /\ pending[i] # 0 /\ newest[i] <= pending[i] /\ pending' = pending
          /\ \A k \in 1 .. n : stream[k].instance = i => stream[k].token <= pending[i]
      BY <1>0, <2>8, <3>0 DEF TokensInv
    <3>2. newest'[i] <= pending[i]
      <4>1. 1 \in 1 .. n
        BY <1>1
      <4>2. item.instance = i => item.token <= pending[i]
        BY <1>1, <3>1, <4>1
      <4> QED BY <1>5, <3>1, <4>2
    <3>3. \A k \in 1 .. n - 1 : k + 1 \in 1 .. n
      BY <1>0
    <3> QED BY <1>1, <3>1, <3>2, <3>3
  <2>9. \A i \in DOMAIN latestTokens' : latestTokens'[i] = newest'[i]
    BY <1>0, <1>3, <1>5, <1>6 DEF TokensInv, HistoryTypeOK
  <2>10. \A r \in runners' : r.at \in {"update", "forget"} => r.passes
    BY <1>2, <1>3 DEF TokensInv
  <2> QED BY <2>1, <2>2, <2>3, <2>5, <2>7, <2>8, <2>9, <2>10 DEF TokensInv
<1>9. \A r \in runners : Newest(r)' => Newest(r) /\ r.instance # item.instance
  <2>1. ASSUME NEW r \in runners
        PROVE  r.token \in Nat /\ r.instance \in Instances /\ r.token <= newest[r.instance]
    BY <1>0 DEF TokensInv, HistoryTypeOK, Runners
  <2>2. newest[item.instance] \in Nat
    BY <1>0, <1>3 DEF HistoryTypeOK
  <2> QED BY <1>3, <1>4, <1>5, <2>1, <2>2 DEF Newest
<1>10. DeltasInv'
  <2>1. \A k \in 1 .. n - 1 : k + 1 \in 1 .. n
    BY <1>0
  <2>2. \A k \in 1 .. n : Delta(stream[k].instance, stream[k].eventCount, stream[k].pastEvents)
    BY <1>0 DEF DeltasInv
  <2>3. \A k \in DOMAIN stream' :
          Delta(stream[k].instance, stream[k].eventCount, stream[k].pastEvents)'
    <3>1. \A j, m, events : Delta(j, m, events)' <=> Delta(j, m, events)
      BY <1>2 DEF Delta, sidecarVars
    <3> QED BY <1>1, <2>1, <2>2, <3>1
  <2>4. Delta(next.instance, next.eventCount, next.history)
    BY <1>0, <1>1, <1>3, <2>2
  <2>5. \A r \in runners' :
          Newest(r)' /\ r.at = "resolve" => Delta(r.instance, r.eventCount, r.history)'
    BY <1>2, <1>9, <2>4 DEF DeltasInv, Delta, sidecarVars
  <2> QED BY <2>3, <2>5 DEF DeltasInv
<1>11. ~overtaken' => PrefixInv'
  BY <1>2, <1>3, <1>9 DEF PrefixInv, sidecarVars
<1> QED BY <1>7, <1>8, <1>10, <1>11

-----------------------------------------------------------------------------
(* The theorems *)

LEMMA HistoryInit ==
  ASSUME Init
  PROVE  HistoryInv
<1> USE DEF Init, CacheInit, NoEntries
<1>1. DOMAIN entries = {} /\ DOMAIN latestTokens = {} /\ DOMAIN stream = {} /\ runners = {}
  OBVIOUS
<1>2. HistoryTypeOK
  <2>1. <<>> \in Events /\ stream \in Seq(Items)
    BY EmptySeq DEF Events
  <2> QED BY <1>1, <2>1 DEF HistoryTypeOK
<1>3. TokensInv
  BY <1>1 DEF TokensInv
<1>4. DeltasInv
  BY <1>1 DEF DeltasInv
<1>5. PrefixInv
  BY <1>1 DEF PrefixInv
<1> QED BY <1>2, <1>3, <1>4, <1>5 DEF HistoryInv

LEMMA HistoryStep ==
  ASSUME HistoryInv, [Next]_vars
  PROVE  HistoryInv'
<1>1. ASSUME NEW i \in Instances, Dispatch(i)  PROVE HistoryInv'
  BY <1>1, DispatchKeeps
<1>2. ASSUME NEW i \in Instances, LapseUnanswered(i) \/ LapseTooSoon(i)  PROVE HistoryInv'
  BY <1>2, LapseKeeps DEF LapseUnanswered, LapseTooSoon
<1>3. CASE Disconnect
  BY <1>3, BreakKeeps DEF Disconnect
<1>4. CASE Connect
  <2>1. DOMAIN entries' = {} /\ latestTokens' = latestTokens /\ connection' \in Nat
    BY <1>4 DEF Connect, Reset, NoEntries, HistoryInv, HistoryTypeOK
  <2> QED BY <1>4, <2>1, FewerEntriesKeep DEF Connect
<1>5. CASE Receive
  BY <1>5, ReceiveKeeps
<1>6. CASE Janitor
  <2>1. /\ DOMAIN entries' \subseteq DOMAIN entries /\ latestTokens' = latestTokens
        /\ \A i \in DOMAIN entries' : entries'[i] = entries[i]
    BY <1>6, DropOnlyDrops DEF Janitor, SweepExpired
  <2>2. connection' \in Nat /\ UNCHANGED <<sidecarVars, stream, runners, newest, overtaken>>
    BY <1>6 DEF Janitor, streamVars, HistoryInv, HistoryTypeOK
  <2> QED BY <2>1, <2>2, FewerEntriesKeep
<1>7. ASSUME NEW r \in runners, RunnerStep(r)  PROVE HistoryInv'
  <2>1. CASE ExecuteThrows(r) \/ AnswerFails(r)
    BY <2>1, RunnerLeaves DEF ExecuteThrows, AnswerFails, LeavesUnanswered
  <2> QED BY <1>7, <2>1, ResolvePastEventsKeeps, GetInstanceHistoryKeeps, FetchFailsKeeps,
             ExecuteKeeps, UpdateHistoryCacheKeeps, ForgetKeeps, CompleteOrchestratorTaskKeeps
          DEF RunnerStep
<1>8. CASE Rest \/ UNCHANGED vars
  <2>1. UNCHANGED <<cacheVars, sidecarVars, streamVars, runners, newest, overtaken>>
    BY <1>8 DEF Rest, vars
  <2>2. DOMAIN entries' = DOMAIN entries /\ connection' \in Nat
    BY <2>1 DEF cacheVars, streamVars, HistoryInv, HistoryTypeOK
  <2> QED BY <2>1, <2>2, FewerEntriesKeep DEF cacheVars, streamVars
<1> QED BY <1>1, <1>2, <1>3, <1>4, <1>5, <1>6, <1>7, <1>8 DEF Next

\* Tokens only grow along the stream, deltas on their way fit what is committed, and as long as
\* no dispatch was overtaken the cache holds prefixes of the committed histories.
THEOREM HistoriesStayPrefixes == Spec => []HistoryInv
<1>1. Init => HistoryInv
  BY HistoryInit
<1>2. HistoryInv /\ [Next]_vars => HistoryInv'
  BY HistoryStep
<1> QED BY <1>1, <1>2, PTL DEF Spec

\* Whoever's answer the sidecar will accept has executed the committed history of its instance,
\* for any number of instances, runners, lost streams and failures, unless a dispatch was
\* overtaken between IsLatestDispatch and its write.
THEOREM AnswersRestOnTheCommitted == Spec => []ReplaysTheCommittedUnlessOvertaken
<1>1. HistoryInv => ReplaysTheCommittedUnlessOvertaken
  <2> SUFFICES ASSUME HistoryInv, ~overtaken, NEW r \in runners,
                      r.at \notin {"resolve", "fetch"}, pending[r.instance] = r.token
               PROVE  r.history = committed[r.instance]
    BY DEF ReplaysTheCommittedUnlessOvertaken, ReplaysTheCommitted
  <2>1. Newest(r)
    BY AwaitedIsNewest DEF HistoryInv
  <2> QED BY <2>1 DEF HistoryInv, PrefixInv
<1> QED BY <1>1, HistoriesStayPrefixes, PTL

\* Every step of the worker makes one operation of the cache, or none.
LEMMA CacheOfWorkerStep ==
  ASSUME HistoryInv, CacheInv, [Next]_vars
  PROVE  CacheInv'
<1>1. CASE UNCHANGED <<entries, totalBytes, lastAccess>>
  BY <1>1, CacheKept
<1>2. CASE Connect
  BY <1>2, ResetKeeps DEF Connect
<1>3. CASE Janitor
  BY <1>3, SweepKeeps DEF Janitor
<1>4. ASSUME NEW r \in runners, RunnerStep(r)  PROVE CacheInv'
  <2>1. r.instance \in Instances /\ Len(r.history) \in Nat
    BY LenProperties DEF HistoryInv, HistoryTypeOK, Runners, Events
  <2>2. CASE ResolvePastEvents(r)
    BY <1>1, <2>1, <2>2, GetKeeps DEF ResolvePastEvents, cacheVars
  <2>3. CASE UpdateHistoryCache(r)
    BY <2>1, <2>3, PutKeeps, RemoveKeeps DEF UpdateHistoryCache
  <2>4. CASE Forget(r)
    BY <1>1, <2>4 DEF Forget, ForgetDispatch
  <2> QED BY <1>1, <1>4, <2>2, <2>3, <2>4
          DEF RunnerStep, GetInstanceHistory, FetchFails, Execute, ExecuteThrows,
              CompleteOrchestratorTask, AnswerFails, LeavesUnanswered, cacheVars
<1> QED BY <1>1, <1>2, <1>3, <1>4
        DEF Next, Dispatch, LapseUnanswered, LapseTooSoon, Lapses, Disconnect, Receive, NoteDispatch,
            Rest, vars, cacheVars

\* WorkflowHistoryCache under the runners of one worker, its stream and its sweeper: whatever they
\* make of it concurrently, it keeps its books and its bounds.
THEOREM WorkersKeepCachesInBounds == Spec => [](CacheConsistent /\ CacheWithinBounds)
<1>1. Init => CacheInv
  BY InitCache DEF Init
<1>2. HistoryInv /\ CacheInv /\ [Next]_vars => CacheInv'
  BY CacheOfWorkerStep
<1>3. CacheInv => CacheConsistent /\ CacheWithinBounds
  BY BooksAreKept DEF CacheInv
<1> QED BY <1>1, <1>2, <1>3, HistoriesStayPrefixes, PTL DEF Spec
=============================================================================
