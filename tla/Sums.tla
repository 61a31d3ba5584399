-------------------------------- MODULE Sums --------------------------------
(***************************************************************************)
(* What the models' counting proofs need to know of sums over finite sets: *)
(* SumFunctionOnSet of the module Functions, the least element of a set of *)
(* naturals and the greatest.  Induction over a finite set is done through *)
(* a smallest counterexample.                                              *)
(***************************************************************************)
EXTENDS Integers, FiniteSets, Functions, FiniteSetTheorems, WellFoundedInduction, TLAPS

(* Of a set of subsets of a finite set, one has no other below it. *)
LEMMA MinimalSubset ==
  ASSUME NEW S, IsFiniteSet(S), NEW B \in SUBSET (SUBSET S), B # {}
  PROVE  \E s \in B : \A r \in B : r \subseteq s => r = s
<1>1. IsWellFoundedOn(StrictSubsetOrdering(S), SUBSET S)
  BY FS_StrictSubsetOrderingWellFounded, FS_FiniteSubsetsOfFinite
<1>2. PICK s \in B : \A r \in B : ~ (<<r, s>> \in StrictSubsetOrdering(S))
  BY <1>1, WFMin
<1> QED
  BY <1>2 DEF StrictSubsetOrdering

(* A set of naturals has a least element. *)
LEMMA LeastNatural ==
  ASSUME NEW B \in SUBSET Nat, B # {}
  PROVE  \E m \in B : \A n \in B : m <= n
<1>1. PICK b \in B : TRUE
  OBVIOUS
<1> DEFINE Whole == 0..b
           Below == {0..n : n \in {k \in B : k <= b}}
<1>2. IsFiniteSet(Whole)
  BY FS_Interval
<1>3. Below \in SUBSET (SUBSET Whole) /\ Below # {}
  OBVIOUS
<1>4. PICK s \in Below : \A r \in Below : r \subseteq s => r = s
  <2> HIDE DEF Below, Whole
  <2> QED
    BY <1>2, <1>3, MinimalSubset
<1>5. PICK m \in B : m <= b /\ s = 0..m
  OBVIOUS
<1>6. ASSUME NEW n \in B, n < m PROVE FALSE
  <2>1. 0..n \in Below /\ 0..n \subseteq s /\ m \in s /\ m \notin 0..n
    BY <1>5, <1>6
  <2> QED
    BY <2>1, <1>4
<1> QED
  BY <1>5, <1>6

(* And a finite set of naturals has a greatest element. *)
LEMMA GreatestNatural ==
  ASSUME NEW S \in SUBSET Nat, IsFiniteSet(S), S # {}
  PROVE  \E m \in S : \A n \in S : n <= m
<1> DEFINE Whole == S
           From(n) == {k \in S : n <= k}
           Tails == {From(n) : n \in S}
<1>1. Tails \in SUBSET (SUBSET Whole) /\ Tails # {} /\ IsFiniteSet(Whole)
  OBVIOUS
<1>2. PICK s \in Tails : \A r \in Tails : r \subseteq s => r = s
  <2> HIDE DEF Tails, Whole
  <2> QED
    BY <1>1, MinimalSubset
<1>3. PICK m \in S : s = From(m)
  BY <1>2 DEF Tails
<1>4. ASSUME NEW n \in S, ~ (n <= m) PROVE FALSE
  <2>1. n \in Nat /\ m \in Nat /\ m < n /\ \A k \in S : k \in Nat
    BY <1>4
  <2>2. From(n) \subseteq s
    <3>1. \A k \in S : n <= k => m <= k
      BY <2>1
    <3> QED
      BY <1>3, <3>1
  <2>3. m \in s /\ m \notin From(n)
    BY <1>3, <2>1
  <2>4. From(n) \in Tails
    OBVIOUS
  <2> HIDE DEF From, Tails
  <2> QED
    BY <1>2, <2>2, <2>3, <2>4
<1> QED
  BY <1>4

-----------------------------------------------------------------------------
(* The recursion by which the community modules fold a set. *)
Chosen(s) == CHOOSE x \in s : TRUE

IsSum(g, f, S) ==
  g = [s \in SUBSET S |-> IF s = {} THEN 0 ELSE f[Chosen(s)] + g[s \ {Chosen(s)}]]

SumsOf(f, S) == CHOOSE g : IsSum(g, f, S)

(* The element that the fold takes next is one of the set. *)
LEMMA ChosenIn == ASSUME NEW s, s # {} PROVE Chosen(s) \in s
BY DEF Chosen

(* The sum is the value that the recursion gives the whole set. *)
LEMMA SumUnfolds ==
  ASSUME NEW f, NEW S
  PROVE  SumFunctionOnSet(f, S) = SumsOf(f, S)[S]
BY DEF SumFunctionOnSet, FoldFunctionOnSet, MapThenFoldSet, SumsOf, IsSum, Chosen

(* Solutions of the recursion on a set and on a subset agree on the *)
(* subset.                                                          *)
LEMMA SumsAgree ==
  ASSUME NEW f, NEW S, IsFiniteSet(S), NEW R \in SUBSET S,
         NEW g, IsSum(g, f, S), NEW h, IsSum(h, f, R)
  PROVE  \A s \in SUBSET R : g[s] = h[s]
<1> DEFINE Bad == {s \in SUBSET R : g[s] # h[s]}
<1>1. IsFiniteSet(R)
  BY FS_Subset
<1> SUFFICES ASSUME Bad # {} PROVE FALSE
  OBVIOUS
<1>2. PICK s \in Bad : \A r \in Bad : r \subseteq s => r = s
  <2>1. Bad \in SUBSET (SUBSET R)
    OBVIOUS
  <2> HIDE DEF Bad
  <2> QED
    BY <1>1, <2>1, MinimalSubset
<1>3. s # {}
  BY <1>2 DEF IsSum
<1>4. Chosen(s) \in s /\ s \ {Chosen(s)} \in SUBSET R
  BY <1>3, ChosenIn
<1>5. g[s \ {Chosen(s)}] = h[s \ {Chosen(s)}]
  BY <1>2, <1>4
<1> QED
  BY <1>2, <1>3, <1>5 DEF IsSum

(* On a finite set the recursion has a solution; by a smallest set that *)
(* had none.                                                            *)
LEMMA SumExists ==
  ASSUME NEW f, NEW S, IsFiniteSet(S)
  PROVE  IsSum(SumsOf(f, S), f, S)
<1> DEFINE Bad == {s \in SUBSET S : ~ \E g : IsSum(g, f, s)}
<1> SUFFICES ASSUME Bad # {} PROVE FALSE
  BY DEF SumsOf
<1>1. PICK s \in Bad : \A r \in Bad : r \subseteq s => r = s
  <2>1. Bad \in SUBSET (SUBSET S)
    OBVIOUS
  <2> HIDE DEF Bad
  <2> QED
    BY <2>1, MinimalSubset
<1>2. ASSUME NEW r \in SUBSET s, r # s PROVE IsSum(SumsOf(f, r), f, r)
  <2>1. \E g : IsSum(g, f, r)
    BY <1>1, <1>2
  <2> QED
    BY <2>1 DEF SumsOf
<1> DEFINE V(r) == SumsOf(f, r)[r]
           Sum(r) == IF r = {} THEN 0 ELSE f[Chosen(r)] + V(r \ {Chosen(r)})
           G == [r \in SUBSET s |-> Sum(r)]
<1>3. ASSUME NEW r \in SUBSET s, r # s PROVE V(r) = Sum(r)
  <2>1. IsSum(SumsOf(f, r), f, r) /\ r \in SUBSET r
    BY <1>2, <1>3
  <2>2. CASE r = {}
    BY <2>1, <2>2 DEF IsSum
  <2>3. CASE r # {}
    <3> DEFINE q == r \ {Chosen(r)}
    <3>1. Chosen(r) \in r /\ q \in SUBSET r /\ q # s
      BY <2>3, ChosenIn, <1>3
    <3>2. SumsOf(f, r)[r] = f[Chosen(r)] + SumsOf(f, r)[q]
      BY <2>1, <2>3 DEF IsSum
    <3>3. IsFiniteSet(r)
      BY FS_Subset
    <3>4. IsSum(SumsOf(f, q), f, q)
      BY <1>2, <3>1
    <3>5. SumsOf(f, r)[q] = SumsOf(f, q)[q]
      <4> HIDE DEF q
      <4> QED
        BY <2>1, <3>1, <3>3, <3>4, SumsAgree
    <3> QED
      BY <2>3, <3>2, <3>5
  <2> QED
    BY <2>2, <2>3
<1>4. ASSUME NEW r \in SUBSET s, r # {} PROVE G[r \ {Chosen(r)}] = V(r \ {Chosen(r)})
  <2>1. r \ {Chosen(r)} \in SUBSET s /\ r \ {Chosen(r)} # s
    BY <1>4, ChosenIn
  <2> HIDE DEF V, Sum
  <2> QED
    BY <2>1, <1>3
<1>5. IsSum(G, f, s)
  <2>1. \A r \in SUBSET s :
          Sum(r) = IF r = {} THEN 0 ELSE f[Chosen(r)] + G[r \ {Chosen(r)}]
    BY <1>4
  <2> HIDE DEF Sum
  <2> QED
    BY <2>1 DEF IsSum
<1> QED
  BY <1>1, <1>5

-----------------------------------------------------------------------------
(* The sum over no element is zero. *)
LEMMA SumEmpty == ASSUME NEW f PROVE SumFunctionOnSet(f, {}) = 0
<1>1. IsSum(SumsOf(f, {}), f, {})
  BY SumExists, FS_EmptySet
<1> QED
  BY <1>1, SumUnfolds DEF IsSum

(* The sum over a finite set unfolds by one step of the recursion. *)
LEMMA SumNonempty ==
  ASSUME NEW f, NEW S, IsFiniteSet(S), S # {}
  PROVE  SumFunctionOnSet(f, S) =
           f[Chosen(S)] + SumFunctionOnSet(f, S \ {Chosen(S)})
<1> DEFINE q == S \ {Chosen(S)}
<1>1. IsSum(SumsOf(f, S), f, S)
  BY SumExists
<1>2. IsFiniteSet(q) /\ q \in SUBSET S
  BY FS_Subset
<1>3. IsSum(SumsOf(f, q), f, q)
  BY <1>2, SumExists
<1>4. SumsOf(f, S)[S] = f[Chosen(S)] + SumsOf(f, S)[q]
  BY <1>1 DEF IsSum
<1>5. SumsOf(f, S)[q] = SumsOf(f, q)[q]
  <2> HIDE DEF q
  <2> QED
    BY <1>1, <1>2, <1>3, SumsAgree
<1> HIDE DEF q
<1>6. SumFunctionOnSet(f, S) = SumsOf(f, S)[S] /\ SumFunctionOnSet(f, q) = SumsOf(f, q)[q]
  BY SumUnfolds
<1> QED
  BY <1>4, <1>5, <1>6 DEF q

(* A sum of naturals is one. *)
LEMMA SumNat ==
  ASSUME NEW f, NEW S, IsFiniteSet(S), \A x \in S : f[x] \in Nat
  PROVE  SumFunctionOnSet(f, S) \in Nat
<1> DEFINE Bad == {s \in SUBSET S : SumFunctionOnSet(f, s) \notin Nat}
<1> SUFFICES ASSUME Bad # {} PROVE FALSE
  OBVIOUS
<1>1. PICK s \in Bad : \A r \in Bad : r \subseteq s => r = s
  <2>1. Bad \in SUBSET (SUBSET S)
    OBVIOUS
  <2> HIDE DEF Bad
  <2> QED
    BY <2>1, MinimalSubset
<1>2. s # {} /\ IsFiniteSet(s)
  <2>1. SumFunctionOnSet(f, {}) \in Nat
    BY SumEmpty
  <2> QED
    BY <1>1, <2>1, FS_Subset
<1>3. Chosen(s) \in s /\ f[Chosen(s)] \in Nat
  BY <1>2, ChosenIn
<1>4. SumFunctionOnSet(f, s \ {Chosen(s)}) \in Nat
  BY <1>1, <1>3
<1> QED
  BY <1>1, <1>2, <1>3, <1>4, SumNonempty

(* Any element may be taken out of the sum. *)
LEMMA SumWithout ==
  ASSUME NEW f, NEW S, IsFiniteSet(S), \A x \in S : f[x] \in Nat, NEW y \in S
  PROVE  SumFunctionOnSet(f, S) = f[y] + SumFunctionOnSet(f, S \ {y})
<1> DEFINE Sum(s) == SumFunctionOnSet(f, s)
           Bad == {s \in SUBSET S : \E x \in s : Sum(s) # f[x] + Sum(s \ {x})}
<1>0. \A s \in SUBSET S : IsFiniteSet(s) /\ Sum(s) \in Nat
  BY SumNat, FS_Subset
<1> SUFFICES ASSUME Bad # {} PROVE FALSE
  OBVIOUS
<1>1. PICK s \in Bad : \A r \in Bad : r \subseteq s => r = s
  <2>1. Bad \in SUBSET (SUBSET S)
    OBVIOUS
  <2> HIDE DEF Bad
  <2> QED
    BY <2>1, MinimalSubset
<1>2. PICK x \in s : Sum(s) # f[x] + Sum(s \ {x})
  OBVIOUS
<1> DEFINE c == Chosen(s)
<1>3. /\ c \in s /\ Sum(s) = f[c] + Sum(s \ {c})
      /\ f[c] \in Nat /\ f[x] \in Nat
  BY <1>0, <1>2, ChosenIn, SumNonempty
<1> HIDE DEF c, Sum
<1>4. x # c
  BY <1>2, <1>3
<1>5. /\ Sum(s \ {c}) = f[x] + Sum((s \ {c}) \ {x})
      /\ Sum(s \ {x}) = f[c] + Sum((s \ {x}) \ {c})
  <2>1. s \ {c} \in SUBSET S /\ s \ {c} # s /\ x \in s \ {c}
    BY <1>3, <1>4
  <2>2. s \ {x} \in SUBSET S /\ s \ {x} # s /\ c \in s \ {x}
    BY <1>3, <1>4
  <2> QED
    BY <1>1, <2>1, <2>2
<1>6. (s \ {c}) \ {x} = (s \ {x}) \ {c} /\ Sum((s \ {x}) \ {c}) \in Nat
  BY <1>0
<1>7. Sum(s) = f[c] + (f[x] + Sum((s \ {x}) \ {c}))
  BY <1>3, <1>5, <1>6
<1>8. f[x] + Sum(s \ {x}) = f[x] + (f[c] + Sum((s \ {x}) \ {c}))
  BY <1>5
<1> HIDE DEF Bad
<1> QED
  BY <1>2, <1>3, <1>6, <1>7, <1>8

(* One element more adds its value. *)
LEMMA SumWith ==
  ASSUME NEW f, NEW S, IsFiniteSet(S), NEW y, y \notin S,
         \A x \in S \cup {y} : f[x] \in Nat
  PROVE  SumFunctionOnSet(f, S \cup {y}) = SumFunctionOnSet(f, S) + f[y]
<1>1. IsFiniteSet(S \cup {y}) /\ (S \cup {y}) \ {y} = S
  BY FS_AddElement
<1> DEFINE whole == S \cup {y}
<1>2. SumFunctionOnSet(f, whole) = f[y] + SumFunctionOnSet(f, S)
  <2>1. y \in whole /\ whole \ {y} = S /\ \A x \in whole : f[x] \in Nat
    BY <1>1
  <2> HIDE DEF whole
  <2>2. SumFunctionOnSet(f, whole) = f[y] + SumFunctionOnSet(f, whole \ {y})
    BY <1>1, <2>1, SumWithout DEF whole
  <2> QED
    BY <2>1, <2>2
<1>3. SumFunctionOnSet(f, S) \in Nat /\ f[y] \in Nat
  BY SumNat
<1> QED
  BY <1>1, <1>2, <1>3

(* Functions that agree on a set have the same sum there. *)
LEMMA SumAgrees ==
  ASSUME NEW f, NEW g, NEW S, IsFiniteSet(S), \A x \in S : f[x] = g[x]
  PROVE  SumFunctionOnSet(f, S) = SumFunctionOnSet(g, S)
<1> DEFINE Bad == {s \in SUBSET S : SumFunctionOnSet(f, s) # SumFunctionOnSet(g, s)}
<1> SUFFICES ASSUME Bad # {} PROVE FALSE
  OBVIOUS
<1>1. PICK s \in Bad : \A r \in Bad : r \subseteq s => r = s
  <2>1. Bad \in SUBSET (SUBSET S)
    OBVIOUS
  <2> HIDE DEF Bad
  <2> QED
    BY <2>1, MinimalSubset
<1>2. s # {} /\ IsFiniteSet(s)
  BY <1>1, SumEmpty, FS_Subset
<1>3. Chosen(s) \in s /\ f[Chosen(s)] = g[Chosen(s)]
  BY <1>2, ChosenIn
<1>4. SumFunctionOnSet(f, s \ {Chosen(s)}) = SumFunctionOnSet(g, s \ {Chosen(s)})
  BY <1>1, <1>3
<1> QED
  BY <1>1, <1>2, <1>3, <1>4, SumNonempty

(* Functions that differ in one place differ in their sums by as much. *)
Counting(f, S) == IsFiniteSet(S) /\ f \in [S -> Nat]
DifferAt(f, g, S, y) == y \in S /\ \A x \in S : x # y => g[x] = f[x]

(* The sums of functions that differ at one element differ by its values. *)
LEMMA SumDiffers ==
  ASSUME NEW f, NEW g, NEW S, NEW y, Counting(f, S), Counting(g, S), DifferAt(f, g, S, y)
  PROVE  /\ SumFunction(f) \in Nat /\ SumFunction(g) \in Nat
         /\ SumFunction(g) + f[y] = SumFunction(f) + g[y]
<1> USE DEF Counting, DifferAt
<1> DEFINE R == S \ {y}
<1>1. /\ IsFiniteSet(R) /\ \A x \in R : f[x] = g[x]
      /\ \A x \in S : f[x] \in Nat /\ g[x] \in Nat
  BY FS_Subset
<1>2. /\ SumFunctionOnSet(f, S) = f[y] + SumFunctionOnSet(f, R)
      /\ SumFunctionOnSet(g, S) = g[y] + SumFunctionOnSet(g, R)
  BY <1>1, SumWithout
<1>3. SumFunctionOnSet(f, R) = SumFunctionOnSet(g, R) /\ SumFunctionOnSet(f, R) \in Nat
  <2> HIDE DEF R
  <2> QED
    BY <1>1, SumAgrees, SumNat DEF R
<1>4. /\ SumFunctionOnSet(f, S) \in Nat /\ SumFunctionOnSet(g, S) \in Nat
      /\ SumFunctionOnSet(g, S) + f[y] = SumFunctionOnSet(f, S) + g[y]
  BY <1>1, <1>2, <1>3
<1> QED
  BY <1>4 DEF SumFunction

(* One more in one place is one more in the sum. *)
SumOneMoreAt(f, g, y) == g = [f EXCEPT ![y] = @ + 1]

(* One more at one element is one more in the sum. *)
LEMMA SumOneMore ==
  ASSUME NEW f, NEW g, NEW S, NEW y \in S, Counting(f, S), SumOneMoreAt(f, g, y)
  PROVE  Counting(g, S) /\ SumFunction(g) = SumFunction(f) + 1
<1>1. /\ g \in [S -> Nat] /\ g[y] = f[y] + 1 /\ f[y] \in Nat
      /\ \A x \in S : x # y => g[x] = f[x]
  BY DEF Counting, SumOneMoreAt
<1>2. Counting(f, S) /\ Counting(g, S) /\ DifferAt(f, g, S, y)
  BY <1>1 DEF Counting, DifferAt
<1>3. /\ SumFunction(f) \in Nat /\ SumFunction(g) \in Nat
      /\ SumFunction(g) + f[y] = SumFunction(f) + g[y]
  BY <1>2, SumDiffers
<1> QED
  BY <1>1, <1>2, <1>3

(* A sum of zeros is zero. *)
LEMMA SumZero ==
  ASSUME NEW f, NEW S, IsFiniteSet(S), \A x \in S : f[x] = 0
  PROVE  SumFunctionOnSet(f, S) = 0
<1> DEFINE Bad == {s \in SUBSET S : SumFunctionOnSet(f, s) # 0}
<1> SUFFICES ASSUME Bad # {} PROVE FALSE
  OBVIOUS
<1>1. PICK s \in Bad : \A r \in Bad : r \subseteq s => r = s
  <2>1. Bad \in SUBSET (SUBSET S)
    OBVIOUS
  <2> HIDE DEF Bad
  <2> QED
    BY <2>1, MinimalSubset
<1>2. s # {} /\ IsFiniteSet(s)
  BY <1>1, SumEmpty, FS_Subset
<1>3. Chosen(s) \in s /\ f[Chosen(s)] = 0
  BY <1>2, ChosenIn
<1>4. SumFunctionOnSet(f, s \ {Chosen(s)}) = 0
  BY <1>1, <1>3
<1> QED
  BY <1>1, <1>2, <1>3, <1>4, SumNonempty

(* The sum of naturals over a smaller set is not larger. *)
LEMMA SumSubset ==
  ASSUME NEW f, NEW S, IsFiniteSet(S), \A x \in S : f[x] \in Nat, NEW R \in SUBSET S
  PROVE  SumFunctionOnSet(f, R) <= SumFunctionOnSet(f, S)
<1> DEFINE Sum(s) == SumFunctionOnSet(f, s)
           Bad == {s \in SUBSET S : R \subseteq s /\ ~ (Sum(R) <= Sum(s))}
<1>0. \A s \in SUBSET S : IsFiniteSet(s) /\ Sum(s) \in Nat
  BY SumNat, FS_Subset
<1> SUFFICES ASSUME Bad # {} PROVE FALSE
  OBVIOUS
<1>1. PICK s \in Bad : \A r \in Bad : r \subseteq s => r = s
  <2>1. Bad \in SUBSET (SUBSET S)
    OBVIOUS
  <2> HIDE DEF Bad
  <2> QED
    BY <2>1, MinimalSubset
<1>2. PICK x \in s : x \notin R
  BY <1>0, <1>1
<1>3. Sum(s) = f[x] + Sum(s \ {x}) /\ f[x] \in Nat /\ Sum(s \ {x}) \in Nat
  BY <1>0, SumWithout
<1>4. Sum(R) <= Sum(s \ {x})
  <2>1. s \ {x} \in SUBSET S /\ R \subseteq s \ {x} /\ s \ {x} \subseteq s /\ s \ {x} # s
    BY <1>2
  <2>2. s \ {x} \notin Bad
    BY <2>1, <1>1
  <2> QED
    BY <2>1, <2>2
<1> QED
  BY <1>0, <1>1, <1>3, <1>4

(* One more at one element is one more in every sum over that element. *)
LEMMA SumOverCell ==
  ASSUME NEW S, NEW f \in [S -> Nat], NEW g, NEW y \in S, SumOneMoreAt(f, g, y),
         NEW R \in SUBSET S, IsFiniteSet(R)
  PROVE  SumFunctionOnSet(g, R) = SumFunctionOnSet(f, R) + (IF y \in R THEN 1 ELSE 0)
<1>1. /\ g \in [S -> Nat] /\ g[y] = f[y] + 1
      /\ \A x \in S : x # y => g[x] = f[x]
  BY DEF SumOneMoreAt
<1>2. /\ \A x \in R : f[x] \in Nat /\ g[x] \in Nat
      /\ SumFunctionOnSet(f, R) \in Nat
  <2>1. \A x \in R : f[x] \in Nat /\ g[x] \in Nat
    BY <1>1
  <2> QED
    BY <2>1, SumNat
<1>3. CASE y \notin R
  <2>1. SumFunctionOnSet(f, R) = SumFunctionOnSet(g, R)
    <3>1. \A x \in R : f[x] = g[x]
      BY <1>1, <1>3
    <3> QED
      BY <3>1, SumAgrees
  <2> QED
    BY <1>2, <1>3, <2>1
<1>4. CASE y \in R
  <2> DEFINE rest == R \ {y}
  <2>1. IsFiniteSet(rest) /\ \A x \in rest : f[x] = g[x] /\ f[x] \in Nat
    BY <1>1, FS_Subset
  <2>2. /\ SumFunctionOnSet(f, R) = f[y] + SumFunctionOnSet(f, rest)
        /\ SumFunctionOnSet(g, R) = g[y] + SumFunctionOnSet(g, rest)
    BY <1>2, <1>4, SumWithout
  <2> HIDE DEF rest
  <2>3. SumFunctionOnSet(f, rest) = SumFunctionOnSet(g, rest)
    BY <2>1, SumAgrees
  <2>4. SumFunctionOnSet(f, rest) \in Nat
    BY <2>1, SumNat
  <2> QED
    BY <1>1, <1>4, <2>2, <2>3, <2>4
<1> QED
  BY <1>3, <1>4

=============================================================================
