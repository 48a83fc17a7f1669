----------------------------- MODULE DataProofs -----------------------------
(***************************************************************************)
(* Facts about data that several proofs need: least members of sets of     *)
(* naturals, and sums over finite sets.                                    *)
(***************************************************************************)
EXTENDS Integers, FiniteSetsExt, FiniteSetTheorems, WellFoundedInduction, TLAPS

\* A set of naturals that is not empty has a least member.
LEMMA LeastExists ==
  ASSUME NEW S \in SUBSET Nat, S # {}
  PROVE  \E m \in S : \A y \in S : m <= y
<1> DEFINE R == {p \in Nat \X Nat : p[1] < p[2]}
<1>1. IsWellFoundedOn(R, Nat)
  <2>1. R = OpToRel(<, Nat)
    BY Zenon DEF OpToRel
  <2>. QED
    BY <2>1, NatLessThanWellFounded, Zenon
<1>2. PICK m \in S : \A y \in S : ~(<<y, m>> \in R)
  <2> HIDE DEF R
  <2>. QED
    BY <1>1, WFMin
<1>3. ASSUME NEW y \in S PROVE m <= y
  <2>1. m \in Nat /\ y \in Nat
    OBVIOUS
  <2>2. y < m => <<y, m>> \in R
    BY <2>1
  <2>. QED
    BY <1>2, <2>1, <2>2
<1>. QED
  BY <1>3

\* Min of such a set is that member.
LEMMA MinIsLeast ==
  ASSUME NEW S \in SUBSET Nat, S # {}
  PROVE  Min(S) \in S /\ \A y \in S : Min(S) <= y
BY LeastExists DEF Min

\* The greater and the lesser of two integers.
LEMMA MaxOfTwo ==
  ASSUME NEW x \in Int, NEW y \in Int
  PROVE  /\ Max({x, y}) = IF x < y THEN y ELSE x
         /\ Min({x, y}) = IF x < y THEN x ELSE y
<1>1. ASSUME NEW a \in {x, y}, \A b \in {x, y} : a >= b PROVE Max({x, y}) = a
  <2>1. Max({x, y}) \in {x, y} /\ \A b \in {x, y} : Max({x, y}) >= b
    BY <1>1 DEF Max
  <2>. QED
    BY <1>1, <2>1
<1>2. ASSUME NEW a \in {x, y}, \A b \in {x, y} : a <= b PROVE Min({x, y}) = a
  <2>1. Min({x, y}) \in {x, y} /\ \A b \in {x, y} : Min({x, y}) <= b
    BY <1>2 DEF Min
  <2>. QED
    BY <1>2, <2>1
<1>. QED
  BY <1>1, <1>2

-----------------------------------------------------------------------------
(* Sums.  SumFunctionOnSet folds a function over the subsets of a set, an   *)
(* arbitrary element at a time; that there is such a fold, that it is the   *)
(* same one for every set, and that any element may be the one taken off,   *)
(* each follow from a least counterexample.                                 *)

One(s) == CHOOSE x \in s : TRUE

IsSum(f, U, g) ==
  g = [s \in SUBSET U |-> IF s = {} THEN 0 ELSE f[One(s)] + g[s \ {One(s)}]]

\* A set that is not empty is one element more than what is left of it.
LEMMA OneLess ==
  ASSUME NEW U, IsFiniteSet(U), NEW s \in SUBSET U
  PROVE  /\ IsFiniteSet(s) /\ Cardinality(s) \in Nat
         /\ s # {} => One(s) \in s
         /\ \A x \in s : s \ {x} \in SUBSET U /\ Cardinality(s \ {x}) = Cardinality(s) - 1
<1>1. IsFiniteSet(s)
  BY FS_Subset
<1>2. Cardinality(s) \in Nat
  BY <1>1, FS_CardinalityType
<1>3. \A x \in s : Cardinality(s \ {x}) = Cardinality(s) - 1
  BY <1>1, FS_RemoveElement
<1>. QED
  BY <1>1, <1>2, <1>3 DEF One

\* There is a fold over the subsets of a finite set, and its values are numbers.
LEMMA SumExists ==
  ASSUME NEW U, IsFiniteSet(U), NEW f, \A x \in U : f[x] \in Nat
  PROVE  \E g \in [SUBSET U -> Nat] : IsSum(f, U, g)
<1> DEFINE Body(g, s) == IF s = {} THEN 0 ELSE f[One(s)] + g[s \ {One(s)}]
           FoldsTo(n) == \E g \in [SUBSET U -> Nat] :
                           \A s \in SUBSET U : Cardinality(s) <= n => g[s] = Body(g, s)
           Bad == {n \in Nat : ~FoldsTo(n)}
<1>1. \A s \in SUBSET U : /\ Cardinality(s) \in Nat
                          /\ s # {} => One(s) \in s
                          /\ \A x \in s : /\ s \ {x} \in SUBSET U
                                          /\ Cardinality(s \ {x}) = Cardinality(s) - 1
  BY OneLess
<1>2. ASSUME NEW g \in [SUBSET U -> Nat], NEW s \in SUBSET U
      PROVE  Body(g, s) \in Nat
  <2>1. CASE s # {}
    <3>1. One(s) \in U /\ s \ {One(s)} \in SUBSET U
      BY <1>1, <2>1
    <3>. QED
      BY <2>1, <3>1
  <2>. QED
    BY <2>1
<1>3. FoldsTo(0)
  <2> DEFINE g == [s \in SUBSET U |-> 0]
  <2>1. \A s \in SUBSET U : Cardinality(s) <= 0 => s = {}
    BY <1>1, FS_EmptySet, FS_Subset
  <2>2. g \in [SUBSET U -> Nat] /\ \A s \in SUBSET U : Cardinality(s) <= 0 => g[s] = Body(g, s)
    BY <2>1
  <2>. QED
    BY <2>2
<1>4. ASSUME NEW n \in Nat, n # 0, FoldsTo(n - 1)
      PROVE  FoldsTo(n)
  <2>1. PICK g \in [SUBSET U -> Nat] :
          \A s \in SUBSET U : Cardinality(s) <= n - 1 => g[s] = Body(g, s)
    BY <1>4
  <2> DEFINE h == [s \in SUBSET U |-> IF Cardinality(s) = n THEN Body(g, s) ELSE g[s]]
  <2>2. h \in [SUBSET U -> Nat]
    <3> HIDE DEF Body
    <3>. QED
      BY <1>2
  <2>3. ASSUME NEW s \in SUBSET U, Cardinality(s) <= n PROVE h[s] = Body(g, s) /\ Body(h, s) = Body(g, s)
    <3>1. h[s] = Body(g, s)
      BY <1>1, <2>1, <2>3
    <3>2. CASE s # {}
      <4>1. s \ {One(s)} \in SUBSET U /\ Cardinality(s \ {One(s)}) # n
        BY <1>1, <2>3, <3>2
      <4>2. h[s \ {One(s)}] = g[s \ {One(s)}]
        BY <4>1
      <4>. QED
        BY <3>1, <4>2
    <3>. QED
      BY <3>1, <3>2
  <2> HIDE DEF h, Body
  <2>. QED
    BY <2>2, <2>3
<1>5. \A n \in Nat : FoldsTo(n)
  <2> HIDE DEF FoldsTo
  <2>1. CASE Bad # {}
    <3>1. PICK n \in Bad : \A m \in Bad : n <= m
      BY <2>1, LeastExists
    <3>2. n \in Nat /\ n # 0 /\ n - 1 \in Nat /\ n - 1 \notin Bad
      BY <1>3, <3>1
    <3>. QED
      BY <1>4, <3>1, <3>2
  <2>. QED
    BY <2>1
<1>6. PICK g \in [SUBSET U -> Nat] :
        \A s \in SUBSET U : Cardinality(s) <= Cardinality(U) => g[s] = Body(g, s)
  BY <1>1, <1>5
<1>7. \A s \in SUBSET U : Cardinality(s) <= Cardinality(U)
  BY FS_Subset
<1>8. g = [s \in SUBSET U |-> Body(g, s)]
  <2> HIDE DEF Body
  <2>. QED
    BY <1>6, <1>7
<1>. QED
  BY <1>8 DEF IsSum

\* The folds over two sets agree wherever both are defined.
LEMMA SumUnique ==
  ASSUME NEW U, IsFiniteSet(U), NEW T \in SUBSET U, NEW f, NEW g, NEW h,
         IsSum(f, U, g), IsSum(f, T, h)
  PROVE  \A s \in SUBSET T : h[s] = g[s]
<1> DEFINE Bad == {s \in SUBSET T : h[s] # g[s]}
           Sizes == {Cardinality(s) : s \in Bad}
<1>1. \A s \in SUBSET T : /\ s \in SUBSET U /\ Cardinality(s) \in Nat
                          /\ s # {} => One(s) \in s
                          /\ \A x \in s : /\ s \ {x} \in SUBSET T
                                          /\ Cardinality(s \ {x}) = Cardinality(s) - 1
  <2>1. \A s \in SUBSET T : s \in SUBSET U
    OBVIOUS
  <2>2. ASSUME NEW s \in SUBSET T, NEW x \in s PROVE s \ {x} \in SUBSET T
    OBVIOUS
  <2>. QED
    BY <2>1, <2>2, OneLess
<1>2. ASSUME NEW s \in SUBSET T
      PROVE  /\ g[s] = IF s = {} THEN 0 ELSE f[One(s)] + g[s \ {One(s)}]
             /\ h[s] = IF s = {} THEN 0 ELSE f[One(s)] + h[s \ {One(s)}]
  <2>1. s \in SUBSET U
    BY <1>1
  <2>. QED
    BY <2>1 DEF IsSum
<1>3. CASE Bad # {}
  <2>1. Sizes \in SUBSET Nat /\ Sizes # {}
    BY <1>1, <1>3
  <2>2. PICK n \in Sizes : \A m \in Sizes : n <= m
    <3> HIDE DEF Sizes
    <3>. QED
      BY <2>1, LeastExists
  <2>3. PICK s \in Bad : \A t \in Bad : Cardinality(s) <= Cardinality(t)
    BY <2>2
  <2>4. CASE s = {}
    BY <1>2, <2>3, <2>4
  <2>5. CASE s # {}
    <3> DEFINE rest == s \ {One(s)}
    <3>1. rest \in SUBSET T /\ Cardinality(rest) = Cardinality(s) - 1 /\ Cardinality(s) \in Nat
      BY <1>1, <2>5
    <3>2. rest \notin Bad
      BY <2>3, <3>1
    <3>3. h[rest] = g[rest]
      BY <3>1, <3>2
    <3>. QED
      BY <1>2, <2>3, <2>5, <3>3
  <2>. QED
    BY <2>4, <2>5
<1>. QED
  BY <1>3

\* The library's sum is the value of any such fold.
LEMMA SumIsFold ==
  ASSUME NEW U, IsFiniteSet(U), NEW f, \A x \in U : f[x] \in Nat,
         NEW g, IsSum(f, U, g), NEW S \in SUBSET U
  PROVE  SumFunctionOnSet(f, S) = g[S]
<1> DEFINE iter == CHOOSE i : IsSum(f, S, i)
<1>1. SumFunctionOnSet(f, S) = iter[S]
  BY Zenon DEF SumFunctionOnSet, FoldFunctionOnSet, MapThenFoldSet, IsSum, One
<1>2. \E i : IsSum(f, S, i)
  <2>1. IsFiniteSet(S) /\ \A x \in S : f[x] \in Nat
    BY FS_Subset
  <2>. QED
    BY <2>1, SumExists
<1>3. IsSum(f, S, iter)
  BY <1>2
<1> HIDE DEF iter
<1>. QED
  BY <1>1, <1>3, SumUnique

\* A sum over nothing is nothing, every sum is a number, and a sum is any one
\* of its terms and the sum of the rest.
LEMMA SumProperties ==
  ASSUME NEW U, IsFiniteSet(U), NEW f, \A x \in U : f[x] \in Nat
  PROVE  /\ SumFunctionOnSet(f, {}) = 0
         /\ \A S \in SUBSET U :
              /\ SumFunctionOnSet(f, S) \in Nat
              /\ \A a \in S : SumFunctionOnSet(f, S) = f[a] + SumFunctionOnSet(f, S \ {a})
<1>1. PICK g \in [SUBSET U -> Nat] : IsSum(f, U, g)
  BY SumExists
<1>2. \A S \in SUBSET U : SumFunctionOnSet(f, S) = g[S]
  BY <1>1, SumIsFold
<1>3. \A s \in SUBSET U : /\ Cardinality(s) \in Nat
                          /\ s # {} => One(s) \in s
                          /\ \A x \in s : /\ s \ {x} \in SUBSET U
                                          /\ Cardinality(s \ {x}) = Cardinality(s) - 1
  BY OneLess
<1>4. \A s \in SUBSET U : g[s] = IF s = {} THEN 0 ELSE f[One(s)] + g[s \ {One(s)}]
  BY <1>1 DEF IsSum
<1> DEFINE Bad == {s \in SUBSET U : \E a \in s : g[s] # f[a] + g[s \ {a}]}
           Sizes == {Cardinality(s) : s \in Bad}
<1>5. ASSUME Bad # {} PROVE FALSE
  <2>1. Sizes \in SUBSET Nat /\ Sizes # {}
    BY <1>3, <1>5
  <2>2. PICK n \in Sizes : \A m \in Sizes : n <= m
    <3> HIDE DEF Sizes
    <3>. QED
      BY <2>1, LeastExists
  <2>3. PICK s \in Bad : \A t \in Bad : Cardinality(s) <= Cardinality(t)
    BY <2>2
  <2>4. PICK a \in s : g[s] # f[a] + g[s \ {a}]
    BY <2>3
  <2> DEFINE x == One(s)
             left == s \ {x}
             other == s \ {a}
             rest == left \ {a}
  <2>5. x \in s /\ a # x /\ g[s] = f[x] + g[left]
    BY <1>3, <1>4, <2>3, <2>4
  <2>6. /\ left \in SUBSET U /\ Cardinality(left) = Cardinality(s) - 1 /\ a \in left
        /\ other \in SUBSET U /\ Cardinality(other) = Cardinality(s) - 1 /\ x \in other
        /\ rest = other \ {x} /\ rest \in SUBSET U /\ Cardinality(s) \in Nat
    BY <1>3, <2>3, <2>4, <2>5
  <2>7. left \notin Bad /\ other \notin Bad
    <3> HIDE DEF Bad, left, other
    <3>. QED
      BY <2>3, <2>6
  <2>8. g[left] = f[a] + g[rest] /\ g[other] = f[x] + g[rest]
    BY <2>6, <2>7
  <2>9. f[a] \in Nat /\ f[x] \in Nat /\ g[rest] \in Nat
    BY <1>1, <2>3, <2>4, <2>5, <2>6
  <2> HIDE DEF x, left, other, rest
  <2>10. g[s] = f[a] + g[other]
    BY <2>5, <2>8, <2>9
  <2>. QED
    BY <2>4, <2>10 DEF other
<1>6. ASSUME NEW S \in SUBSET U, NEW a \in S
      PROVE  SumFunctionOnSet(f, S) = f[a] + SumFunctionOnSet(f, S \ {a})
  <2>1. g[S] = f[a] + g[S \ {a}]
    BY <1>5
  <2>2. S \ {a} \in SUBSET U
    OBVIOUS
  <2>. QED
    BY <1>2, <2>1, <2>2
<1>7. SumFunctionOnSet(f, {}) = 0
  BY <1>2, <1>4
<1>8. \A S \in SUBSET U : SumFunctionOnSet(f, S) \in Nat
  BY <1>1, <1>2
<1>. QED
  BY <1>6, <1>7, <1>8

\* A sum whose terms are covered, one by one, by different terms of another is
\* no greater than the other.
LEMMA SumCovered ==
  ASSUME NEW S, IsFiniteSet(S), NEW f, \A x \in S : f[x] \in Nat,
         NEW T, IsFiniteSet(T), NEW g, \A y \in T : g[y] \in Nat,
         NEW h, \A x \in S : h[x] \in T /\ f[x] <= g[h[x]],
         \A x, y \in S : h[x] = h[y] => x = y
  PROVE  SumFunctionOnSet(f, S) <= SumFunctionOnSet(g, T)
<1> DEFINE Sf(A) == SumFunctionOnSet(f, A)
           Sg(A) == SumFunctionOnSet(g, A)
           Image(A) == {h[x] : x \in A}
           Bad == {A \in SUBSET S : ~(Sf(A) <= Sg(Image(A)))}
           Sizes == {Cardinality(A) : A \in Bad}
<1>1. \A A \in SUBSET S : /\ Cardinality(A) \in Nat
                          /\ \A x \in A : /\ A \ {x} \in SUBSET S
                                          /\ Cardinality(A \ {x}) = Cardinality(A) - 1
  BY OneLess
<1>2. /\ Sf({}) = 0
      /\ \A A \in SUBSET S : Sf(A) \in Nat /\ \A a \in A : Sf(A) = f[a] + Sf(A \ {a})
  BY SumProperties
<1>3. /\ Sg({}) = 0
      /\ \A A \in SUBSET T : Sg(A) \in Nat /\ \A a \in A : Sg(A) = g[a] + Sg(A \ {a})
  BY SumProperties
<1>4. \A A \in SUBSET S : Image(A) \in SUBSET T
  OBVIOUS
<1>5. \A A \in SUBSET S : \A x \in A : Image(A \ {x}) = Image(A) \ {h[x]} /\ h[x] \in Image(A)
  OBVIOUS
<1> HIDE DEF Sf, Sg, Image
<1>6. ASSUME Bad # {} PROVE FALSE
  <2>1. Sizes \in SUBSET Nat /\ Sizes # {}
    BY <1>1, <1>6
  <2>2. PICK n \in Sizes : \A m \in Sizes : n <= m
    <3> HIDE DEF Sizes
    <3>. QED
      BY <2>1, LeastExists
  <2>3. PICK A \in Bad : \A B \in Bad : Cardinality(A) <= Cardinality(B)
    BY <2>2
  <2>4. A # {}
    <3>1. Image({}) = {}
      BY DEF Image
    <3>2. CASE A = {}
      <4>1. Sf(A) = 0 /\ Sg(Image(A)) = 0
        BY <1>2, <1>3, <3>1, <3>2
      <4>. QED
        BY <2>3, <4>1
    <3>. QED
      BY <3>2
  <2>5. PICK a \in A : TRUE
    BY <2>4
  <2>6. A \ {a} \in SUBSET S /\ Cardinality(A \ {a}) = Cardinality(A) - 1 /\ Cardinality(A) \in Nat
    BY <1>1, <2>3, <2>5
  <2>7. Sf(A \ {a}) <= Sg(Image(A \ {a}))
    BY <2>3, <2>6
  <2>8. Sf(A) = f[a] + Sf(A \ {a}) /\ f[a] \in Nat /\ Sf(A \ {a}) \in Nat
    BY <1>2, <2>3, <2>5, <2>6
  <2>9. /\ Sg(Image(A)) = g[h[a]] + Sg(Image(A \ {a}))
        /\ g[h[a]] \in Nat /\ Sg(Image(A \ {a})) \in Nat /\ f[a] <= g[h[a]]
    BY <1>3, <1>4, <1>5, <2>3, <2>5, <2>6
  <2>. QED
    BY <2>3, <2>7, <2>8, <2>9
<1>7. Sf(S) <= Sg(Image(S))
  BY <1>6
<1>8. ASSUME NEW A \in SUBSET T PROVE Sg(A) <= Sg(T)
  <2> DEFINE Less == {B \in SUBSET T : A \subseteq B /\ ~(Sg(A) <= Sg(B))}
             Counts == {Cardinality(B) : B \in Less}
  <2>1. \A B \in SUBSET T : Cardinality(B) \in Nat /\ \A x \in B : Cardinality(B \ {x}) = Cardinality(B) - 1
    BY OneLess
  <2>2. CASE Less # {}
    <3>1. Counts \in SUBSET Nat /\ Counts # {}
      BY <2>1, <2>2
    <3>2. PICK n \in Counts : \A m \in Counts : n <= m
      <4> HIDE DEF Counts
      <4>. QED
        BY <3>1, LeastExists
    <3>3. PICK B \in Less : \A C \in Less : Cardinality(B) <= Cardinality(C)
      BY <3>2
    <3>4. PICK b \in B : b \notin A
      BY <1>3, <3>3
    <3>5. B \ {b} \in SUBSET T /\ A \subseteq B \ {b} /\ Cardinality(B \ {b}) = Cardinality(B) - 1
          /\ Cardinality(B) \in Nat
      BY <2>1, <3>3, <3>4
    <3>6. Sg(A) <= Sg(B \ {b})
      BY <3>3, <3>5
    <3>7. Sg(B) = g[b] + Sg(B \ {b}) /\ g[b] \in Nat /\ Sg(B \ {b}) \in Nat /\ Sg(A) \in Nat
      BY <1>3, <3>3, <3>4, <3>5
    <3>. QED
      BY <3>3, <3>6, <3>7
  <2>. QED
    BY <2>2
<1>9. Sf(S) \in Nat /\ Sg(Image(S)) \in Nat /\ Sg(T) \in Nat /\ Sg(Image(S)) <= Sg(T)
  BY <1>2, <1>3, <1>4, <1>8
<1>. QED
  BY <1>7, <1>9 DEF Sf, Sg
=============================================================================
