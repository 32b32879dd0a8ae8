---------------------------- MODULE FoldTheorems ----------------------------
(***************************************************************************)
(* Induction over the natural numbers and over finite sets, stated of a    *)
(* set instead of an operator, and what it says of the sums the models     *)
(* compute with MapThenSumSet.                                             *)
(***************************************************************************)
EXTENDS Integers, FiniteSetsExt, FiniteSetTheorems, WellFoundedInduction, TLAPS

-----------------------------------------------------------------------------
(* Sizes *)

(* n natural numbers in a row are n numbers. *)
LEMMA RunSize ==
  ASSUME NEW b \in Nat, NEW n \in Nat \ {0}
  PROVE  /\ IsFiniteSet(b..(b + n - 1))
         /\ Cardinality(b..(b + n - 1)) = n
  <1> DEFINE e == b + n - 1
  <1>1. e \in Int /\ ~(b > e) /\ e - b + 1 = n
    OBVIOUS
  <1> HIDE DEF e
  <1>2. IsFiniteSet(b..e) /\ Cardinality(b..e) = IF b > e THEN 0 ELSE e - b + 1
    BY <1>1, FS_Interval
  <1>3. IsFiniteSet(b..e) /\ Cardinality(b..e) = n
    BY <1>1, <1>2
  <1> QED  BY <1>3 DEF e

-----------------------------------------------------------------------------
(* Induction *)

(* A set of natural numbers has a least element. *)
LEMMA LeastNat ==
  ASSUME NEW T \in SUBSET Nat, T # {}
  PROVE  \E n \in T : \A m \in T : n <= m
  <1> DEFINE R == OpToRel(<, Nat)
  <1>1. IsWellFoundedOn(R, Nat)
    BY NatLessThanWellFounded
  <1>2. \A x, y \in Nat : x < y => <<x, y>> \in R
    BY DEF OpToRel
  <1> HIDE DEF R
  <1>3. PICK x \in T : \A y \in T : ~(<<y, x>> \in R)
    BY <1>1, WFMin
  <1>4. \A y \in T : ~(y < x)
    BY <1>2, <1>3
  <1> QED  BY <1>3, <1>4

(* Induction over the natural numbers. *)
LEMMA AllNat ==
  ASSUME NEW T \in SUBSET Nat, 0 \in T, \A n \in T : n + 1 \in T
  PROVE  T = Nat
  <1> SUFFICES ASSUME T # Nat PROVE FALSE
    OBVIOUS
  <1> DEFINE U == Nat \ T
  <1>1. U # {} /\ U \in SUBSET Nat
    OBVIOUS
  <1>2. PICK n \in U : \A m \in U : n <= m
    BY <1>1, LeastNat
  <1>3. n # 0 /\ n - 1 \in Nat /\ n - 1 \notin U
    BY <1>2
  <1> QED  BY <1>3

(* Induction over the subsets of a finite set: what holds of a set once it  *)
(* holds of its subsets with an element less holds of all.                  *)
LEMMA AllSubsets ==
  ASSUME NEW X, IsFiniteSet(X), NEW T \in SUBSET (SUBSET X),
         \A s \in SUBSET X : (\A x \in s : s \ {x} \in T) => s \in T
  PROVE  X \in T
  <1> SUFFICES ASSUME X \notin T PROVE FALSE
    OBVIOUS
  <1> DEFINE U == {Cardinality(s) : s \in (SUBSET X) \ T}
  <1>1. \A s \in SUBSET X : IsFiniteSet(s) /\ Cardinality(s) \in Nat
    BY FS_Subset, FS_CardinalityType
  <1>2. U \in SUBSET Nat /\ U # {}
    BY <1>1
  <1>3. PICK n \in U : \A m \in U : n <= m
    BY <1>2, LeastNat
  <1>4. PICK s \in (SUBSET X) \ T : n = Cardinality(s)
    BY <1>3
  <1>5. PICK x \in s : s \ {x} \notin T
    BY <1>4
  <1>6. Cardinality(s \ {x}) \in U
    BY <1>4, <1>5
  <1>7. Cardinality(s \ {x}) = Cardinality(s) - 1 /\ Cardinality(s) \in Nat
    BY <1>1, <1>4, <1>5, FS_RemoveElement
  <1>8. n <= Cardinality(s \ {x})
    BY <1>3, <1>6
  <1> HIDE DEF U
  <1> QED  BY <1>4, <1>7, <1>8

-----------------------------------------------------------------------------
(* Least and greatest elements *)

(* The greatest of finitely many numbers. *)
LEMMA MaxIn ==
  ASSUME NEW n \in Nat, NEW s \in SUBSET (1..n), s # {}
  PROVE  Max(s) \in s /\ \A x \in s : x <= Max(s)
  <1> DEFINE U == {u \in Nat : \A x \in s : x <= u}
  <1>1. n \in U
    OBVIOUS
  <1>2. PICK u \in U : \A v \in U : u <= v
    <2> HIDE DEF U
    <2> QED  BY <1>1, LeastNat DEF U
  <1>3. u \in s
    <2> SUFFICES ASSUME u \notin s PROVE FALSE
      OBVIOUS
    <2>1. PICK x \in s : TRUE
      OBVIOUS
    <2>2. x \in Nat /\ x >= 1 /\ x <= u /\ u \in Nat
      BY <1>2
    <2>3. u - 1 \in Nat
      BY <2>2
    <2>4. \A y \in s : y <= u - 1
      BY <1>2
    <2>5. u - 1 \in U
      BY <2>3, <2>4
    <2>6. u <= u - 1
      BY <1>2, <2>5
    <2> QED  BY <2>2, <2>6
  <1>4. \A x \in s : u >= x
    BY <1>2
  <1> QED  BY <1>3, <1>4 DEF Max

(* The least of any numbers. *)
LEMMA MinIn ==
  ASSUME NEW s \in SUBSET Nat, s # {}
  PROVE  Min(s) \in s /\ \A x \in s : Min(s) <= x
  <1>1. PICK n \in s : \A m \in s : n <= m
    BY LeastNat
  <1> QED  BY <1>1 DEF Min

(* Finitely many numbers have a greatest one. *)
LEMMA Greatest ==
  ASSUME NEW S, IsFiniteSet(S), S \subseteq Nat, S # {}
  PROVE  \E n \in S : \A m \in S : m <= n
  <1> DEFINE Has(s) == s = {} \/ \E n \in s : \A m \in s : m <= n
             T == {s \in SUBSET S : Has(s)}
  <1>1. ASSUME NEW s \in SUBSET S, \A x \in s : s \ {x} \in T PROVE s \in T
    <2> SUFFICES ASSUME NEW x \in s PROVE \E n \in s : \A m \in s : m <= n
      OBVIOUS
    <2>1. Has(s \ {x})
      BY <1>1
    <2>2. CASE s \ {x} = {}
      BY <2>2
    <2>3. CASE s \ {x} # {}
      <3>1. PICK y \in s \ {x} : \A m \in s \ {x} : m <= y
        BY <2>1, <2>3
      <3>2. x \in Nat /\ y \in Nat /\ \A m \in s : m \in Nat
        OBVIOUS
      <3>3. CASE x <= y
        BY <3>1, <3>3
      <3>4. CASE ~(x <= y)
        BY <3>1, <3>2, <3>4
      <3> QED  BY <3>3, <3>4
    <2> QED  BY <2>2, <2>3
  <1>2. T \in SUBSET (SUBSET S)
    OBVIOUS
  <1> HIDE DEF T
  <1>3. S \in T
    BY <1>1, <1>2, AllSubsets
  <1> QED  BY <1>3 DEF T

-----------------------------------------------------------------------------
(* Sums *)

LEMMA Commute ==
  ASSUME NEW i \in Int, NEW j \in Int, NEW k \in Int
  PROVE  i + j = j + i /\ i + (j + k) = j + (i + k)
  OBVIOUS

Sum(f, S) == MapThenSumSet(LAMBDA x : f[x], S)

Pick(s) == CHOOSE x \in s : TRUE

(* The function MapThenSumSet defines by recursion over the subsets of S. *)
Rec(f, S, it) == it = [s \in SUBSET S |-> IF s = {} THEN 0 ELSE f[Pick(s)] + it[s \ {Pick(s)}]]
It(f, S)      == CHOOSE it : Rec(f, S, it)

LEMMA SumIsIt ==
  ASSUME NEW f, NEW S
  PROVE  Sum(f, S) = It(f, S)[S]
  BY DEF Sum, MapThenSumSet, MapThenFoldSet, It, Rec, Pick

(* There is such a function: it is built for the sets of up to n elements, *)
(* one n after the other.                                                  *)
LEMMA RecExists ==
  ASSUME NEW f, NEW S, IsFiniteSet(S)
  PROVE  Rec(f, S, It(f, S))
  <1> DEFINE Part(n, g) ==
               g = [s \in SUBSET S |-> IF s = {} \/ Cardinality(s) > n THEN 0
                                       ELSE f[Pick(s)] + g[s \ {Pick(s)}]]
             T == {n \in Nat : \E g : Part(n, g)}
  <1>1. \A s \in SUBSET S : IsFiniteSet(s) /\ Cardinality(s) \in Nat
    BY FS_Subset, FS_CardinalityType
  <1>2. \A s \in SUBSET S : s # {} => /\ Pick(s) \in s /\ s \ {Pick(s)} \in SUBSET S
                                      /\ Cardinality(s \ {Pick(s)}) = Cardinality(s) - 1
    BY <1>1, FS_RemoveElement DEF Pick
  <1>3. 0 \in T
    <2> DEFINE g == [s \in SUBSET S |-> 0]
    <2>1. \A s \in SUBSET S : s = {} \/ Cardinality(s) > 0
      BY <1>1, FS_EmptySet
    <2>2. Part(0, g)
      BY <2>1
    <2>3. \E k : Part(0, k)
      <3> HIDE DEF g
      <3> QED  BY <2>2
    <2> QED  BY <2>3
  <1>4. ASSUME NEW n \in T PROVE n + 1 \in T
    <2>1. PICK g : Part(n, g)
      OBVIOUS
    <2> DEFINE h == [s \in SUBSET S |-> IF s = {} \/ Cardinality(s) > n + 1 THEN 0
                                        ELSE f[Pick(s)] + g[s \ {Pick(s)}]]
    <2>2. \A s \in SUBSET S : Cardinality(s) <= n => h[s] = g[s]
      <3> SUFFICES ASSUME NEW s \in SUBSET S, Cardinality(s) <= n PROVE h[s] = g[s]
        OBVIOUS
      <3>1. ~(Cardinality(s) > n) /\ ~(Cardinality(s) > n + 1)
        BY <1>1
      <3>2. g[s] = IF s = {} THEN 0 ELSE f[Pick(s)] + g[s \ {Pick(s)}]
        BY <2>1, <3>1
      <3> QED  BY <3>1, <3>2
    <2>3. \A s \in SUBSET S : s # {} /\ ~(Cardinality(s) > n + 1) =>
            h[s \ {Pick(s)}] = g[s \ {Pick(s)}]
      <3> HIDE DEF h
      <3>1. n \in Nat
        OBVIOUS
      <3> HIDE DEF T
      <3> SUFFICES ASSUME NEW s \in SUBSET S, s # {}, ~(Cardinality(s) > n + 1)
                   PROVE  h[s \ {Pick(s)}] = g[s \ {Pick(s)}]
        OBVIOUS
      <3>2. s \ {Pick(s)} \in SUBSET S /\ Cardinality(s \ {Pick(s)}) <= n
        BY <1>1, <1>2, <3>1
      <3> QED  BY <2>2, <3>2
    <2>4. Part(n + 1, h)
      BY <2>3
    <2>5. \E k : Part(n + 1, k)
      <3> HIDE DEF h
      <3> QED  BY <2>4
    <2>6. n + 1 \in Nat
      OBVIOUS
    <2> QED  BY <2>5, <2>6
  <1>5. T = Nat
    BY <1>3, <1>4, AllNat
  <1>6. PICK g : Part(Cardinality(S), g)
    BY <1>1, <1>5
  <1>7. \A s \in SUBSET S : ~(Cardinality(s) > Cardinality(S))
    BY <1>1, FS_Subset
  <1>8. Rec(f, S, g)
    BY <1>6, <1>7 DEF Rec
  <1> QED  BY <1>8 DEF It

(* Two such functions agree on the sets they share. *)
LEMMA RecUnique ==
  ASSUME NEW f, NEW X, NEW Y, NEW i, NEW j, Rec(f, X, i), Rec(f, Y, j),
         NEW S \in SUBSET X, S \in SUBSET Y, IsFiniteSet(S)
  PROVE  i[S] = j[S]
  <1> DEFINE T == {s \in SUBSET S : i[s] = j[s]}
  <1>1. ASSUME NEW s \in SUBSET S, \A x \in s : s \ {x} \in T PROVE s \in T
    <2>1. s \in SUBSET X /\ s \in SUBSET Y
      OBVIOUS
    <2>2. /\ i[s] = IF s = {} THEN 0 ELSE f[Pick(s)] + i[s \ {Pick(s)}]
          /\ j[s] = IF s = {} THEN 0 ELSE f[Pick(s)] + j[s \ {Pick(s)}]
      BY <2>1 DEF Rec
    <2>3. s # {} => s \ {Pick(s)} \in T
      BY <1>1 DEF Pick
    <2> QED  BY <2>2, <2>3
  <1> HIDE DEF T
  <1>2. S \in T
    BY <1>1, AllSubsets DEF T
  <1> QED  BY <1>2 DEF T

LEMMA SumEmpty ==
  ASSUME NEW f
  PROVE  Sum(f, {}) = 0
  <1>1. Rec(f, {}, It(f, {}))
    BY RecExists, FS_EmptySet
  <1> QED  BY <1>1, SumIsIt DEF Rec

LEMMA SumPick ==
  ASSUME NEW f, NEW S, IsFiniteSet(S), S # {}
  PROVE  Sum(f, S) = f[Pick(S)] + Sum(f, S \ {Pick(S)})
  <1> DEFINE R == S \ {Pick(S)}
  <1>1. IsFiniteSet(R)
    BY FS_Subset
  <1>2. Rec(f, S, It(f, S)) /\ Rec(f, R, It(f, R))
    BY <1>1, RecExists
  <1>3. It(f, S)[R] = It(f, R)[R]
    BY <1>1, <1>2, RecUnique
  <1>4. It(f, S)[S] = f[Pick(S)] + It(f, S)[R]
    BY <1>2 DEF Rec
  <1> QED  BY <1>3, <1>4, SumIsIt

LEMMA SumType ==
  ASSUME NEW f, NEW X, IsFiniteSet(X), \A x \in X : f[x] \in Int
  PROVE  Sum(f, X) \in Int
  <1> DEFINE T == {s \in SUBSET X : Sum(f, s) \in Int}
  <1>1. ASSUME NEW s \in SUBSET X, \A x \in s : s \ {x} \in T PROVE s \in T
    <2>1. CASE s = {}
      BY <2>1, SumEmpty
    <2>2. CASE s # {}
      <3>1. Pick(s) \in s /\ IsFiniteSet(s)
        BY <2>2, FS_Subset DEF Pick
      <3>2. Sum(f, s) = f[Pick(s)] + Sum(f, s \ {Pick(s)})
        BY <2>2, <3>1, SumPick
      <3>3. Sum(f, s \ {Pick(s)}) \in Int /\ f[Pick(s)] \in Int
        BY <1>1, <3>1
      <3> QED  BY <3>2, <3>3
    <2> QED  BY <2>1, <2>2
  <1> HIDE DEF T
  <1>2. X \in T
    BY <1>1, AllSubsets DEF T
  <1> QED  BY <1>2 DEF T

(* A sum is any of its terms and the sum of the others. *)
LEMMA SumSplit ==
  ASSUME NEW f, NEW X, IsFiniteSet(X), \A x \in X : f[x] \in Int, NEW x \in X
  PROVE  Sum(f, X) = f[x] + Sum(f, X \ {x})
  <1> DEFINE T == {s \in SUBSET X : \A y \in s : Sum(f, s) = f[y] + Sum(f, s \ {y})}
  <1>1. ASSUME NEW s \in SUBSET X, \A y \in s : s \ {y} \in T PROVE s \in T
    <2> SUFFICES ASSUME NEW y \in s PROVE Sum(f, s) = f[y] + Sum(f, s \ {y})
      OBVIOUS
    <2> DEFINE p == Pick(s)
    <2>1. p \in s
      BY DEF Pick
    <2>2. Sum(f, s) = f[p] + Sum(f, s \ {p})
      BY FS_Subset, SumPick
    <2>3. CASE y = p
      BY <2>2, <2>3
    <2>4. CASE y # p
      <3> HIDE DEF p
      <3>1. Sum(f, s \ {p}) = f[y] + Sum(f, (s \ {p}) \ {y})
        BY <1>1, <2>1, <2>4
      <3>2. Sum(f, s \ {y}) = f[p] + Sum(f, (s \ {y}) \ {p})
        BY <1>1, <2>1, <2>4
      <3>3. (s \ {p}) \ {y} = (s \ {y}) \ {p}
        OBVIOUS
      <3>4. f[p] \in Int /\ f[y] \in Int /\ Sum(f, (s \ {y}) \ {p}) \in Int
        <4>1. IsFiniteSet((s \ {y}) \ {p})
          BY FS_Subset
        <4>2. \A z \in (s \ {y}) \ {p} : f[z] \in Int
          OBVIOUS
        <4> QED  BY <2>1, <4>1, <4>2, SumType
      <3> DEFINE z == Sum(f, (s \ {y}) \ {p})
      <3>5. f[p] + (f[y] + z) = f[y] + (f[p] + z)
        BY <3>4, Commute
      <3>6. Sum(f, s) = f[p] + (f[y] + z)
        BY <2>2, <3>1, <3>3
      <3> QED  BY <3>2, <3>5, <3>6
    <2> QED  BY <2>3, <2>4
  <1> HIDE DEF T
  <1>2. X \in T
    BY <1>1, AllSubsets DEF T
  <1> QED  BY <1>2 DEF T

LEMMA SumAdd ==
  ASSUME NEW f, NEW X, IsFiniteSet(X), NEW x, x \notin X, \A y \in X \cup {x} : f[y] \in Int
  PROVE  Sum(f, X \cup {x}) = Sum(f, X) + f[x]
  <1>1. IsFiniteSet(X \cup {x})
    BY FS_AddElement
  <1>2. Sum(f, X \cup {x}) = f[x] + Sum(f, (X \cup {x}) \ {x})
    BY <1>1, SumSplit
  <1>3. (X \cup {x}) \ {x} = X
    OBVIOUS
  <1>4. Sum(f, X) \in Int /\ f[x] \in Int
    BY SumType
  <1> QED  BY <1>2, <1>3, <1>4, Commute

(* A sum grows with its terms. *)
LEMMA SumLeq ==
  ASSUME NEW f, NEW g, NEW X, IsFiniteSet(X),
         \A x \in X : f[x] \in Int /\ g[x] \in Int /\ f[x] <= g[x]
  PROVE  Sum(f, X) <= Sum(g, X)
  <1> DEFINE T == {s \in SUBSET X : Sum(f, s) <= Sum(g, s)}
  <1>1. ASSUME NEW s \in SUBSET X, \A x \in s : s \ {x} \in T PROVE s \in T
    <2>1. CASE s = {}
      BY <2>1, SumEmpty
    <2>2. CASE s # {}
      <3>1. Pick(s) \in s /\ IsFiniteSet(s) /\ IsFiniteSet(s \ {Pick(s)})
        BY <2>2, FS_Subset DEF Pick
      <3>2. /\ Sum(f, s) = f[Pick(s)] + Sum(f, s \ {Pick(s)})
            /\ Sum(g, s) = g[Pick(s)] + Sum(g, s \ {Pick(s)})
        BY <2>2, <3>1, SumPick
      <3>3. Sum(f, s \ {Pick(s)}) <= Sum(g, s \ {Pick(s)})
        BY <1>1, <3>1
      <3>4. Sum(f, s \ {Pick(s)}) \in Int /\ Sum(g, s \ {Pick(s)}) \in Int
        <4>1. /\ \A y \in s \ {Pick(s)} : f[y] \in Int
              /\ \A y \in s \ {Pick(s)} : g[y] \in Int
          OBVIOUS
        <4> QED  BY <3>1, <4>1, SumType
      <3>5. f[Pick(s)] \in Int /\ g[Pick(s)] \in Int /\ f[Pick(s)] <= g[Pick(s)]
        BY <3>1
      <3> QED  BY <3>2, <3>3, <3>4, <3>5
    <2> QED  BY <2>1, <2>2
  <1> HIDE DEF T
  <1>2. X \in T
    BY <1>1, AllSubsets DEF T
  <1> QED  BY <1>2 DEF T

(* A sum depends on its terms only. *)
LEMMA SumSame ==
  ASSUME NEW f, NEW g, NEW X, IsFiniteSet(X), \A x \in X : f[x] = g[x]
  PROVE  Sum(f, X) = Sum(g, X)
  <1> DEFINE T == {s \in SUBSET X : Sum(f, s) = Sum(g, s)}
  <1>1. ASSUME NEW s \in SUBSET X, \A x \in s : s \ {x} \in T PROVE s \in T
    <2>1. CASE s = {}
      BY <2>1, SumEmpty
    <2>2. CASE s # {}
      <3>1. Pick(s) \in s /\ IsFiniteSet(s)
        BY <2>2, FS_Subset DEF Pick
      <3>2. /\ Sum(f, s) = f[Pick(s)] + Sum(f, s \ {Pick(s)})
            /\ Sum(g, s) = g[Pick(s)] + Sum(g, s \ {Pick(s)})
        BY <2>2, <3>1, SumPick
      <3>3. Sum(f, s \ {Pick(s)}) = Sum(g, s \ {Pick(s)}) /\ f[Pick(s)] = g[Pick(s)]
        BY <1>1, <3>1
      <3> QED  BY <3>2, <3>3
    <2> QED  BY <2>1, <2>2
  <1> HIDE DEF T
  <1>2. X \in T
    BY <1>1, AllSubsets DEF T
  <1> QED  BY <1>2 DEF T

(* The sum of a set in two parts. *)
LEMMA SumUnion ==
  ASSUME NEW f, NEW X, IsFiniteSet(X), NEW Y, IsFiniteSet(Y), X \cap Y = {},
         \A x \in X \cup Y : f[x] \in Int
  PROVE  Sum(f, X \cup Y) = Sum(f, X) + Sum(f, Y)
  <1> DEFINE T == {s \in SUBSET Y : Sum(f, X \cup s) = Sum(f, X) + Sum(f, s)}
  <1>1. Sum(f, X) \in Int
    BY SumType
  <1>2. ASSUME NEW s \in SUBSET Y, \A y \in s : s \ {y} \in T PROVE s \in T
    <2>1. CASE s = {}
      <3>1. X \cup {} = X
        OBVIOUS
      <3> QED  BY <1>1, <2>1, <3>1, SumEmpty
    <2>2. CASE s # {}
      <3>1. PICK y \in s : TRUE
        BY <2>2
      <3> DEFINE r == s \ {y}
      <3>2. r \in SUBSET Y /\ Sum(f, X \cup r) = Sum(f, X) + Sum(f, r) /\ s = r \cup {y}
        BY <1>2
      <3>3. IsFiniteSet(r) /\ IsFiniteSet(X \cup r)
        BY FS_Subset, FS_Union
      <3>4. y \notin r /\ y \notin X \cup r /\ X \cup s = (X \cup r) \cup {y}
        OBVIOUS
      <3>5. Sum(f, r \cup {y}) = Sum(f, r) + f[y]
        BY <3>3, <3>4, SumAdd
      <3>6. Sum(f, (X \cup r) \cup {y}) = Sum(f, X \cup r) + f[y]
        BY <3>3, <3>4, SumAdd
      <3>7. f[y] \in Int /\ Sum(f, r) \in Int
        BY <3>3, SumType
      <3> HIDE DEF r
      <3>8. (Sum(f, X) + Sum(f, r)) + f[y] = Sum(f, X) + (Sum(f, r) + f[y])
        BY <1>1, <3>7, Commute
      <3>9. Sum(f, X \cup s) = Sum(f, X) + Sum(f, s)
        BY <3>2, <3>4, <3>5, <3>6, <3>8
      <3> QED  BY <3>9
    <2> QED  BY <2>1, <2>2
  <1> HIDE DEF T
  <1>3. Y \in T
    BY <1>2, AllSubsets DEF T
  <1> QED  BY <1>3 DEF T

(* n equal terms. *)
LEMMA SumConstant ==
  ASSUME NEW f, NEW X, IsFiniteSet(X), NEW c \in Int, \A x \in X : f[x] = c
  PROVE  Sum(f, X) = Cardinality(X) * c
  <1> DEFINE T == {s \in SUBSET X : Sum(f, s) = Cardinality(s) * c}
  <1>1. ASSUME NEW s \in SUBSET X, \A x \in s : s \ {x} \in T PROVE s \in T
    <2>1. CASE s = {}
      BY <2>1, SumEmpty, FS_EmptySet
    <2>2. CASE s # {}
      <3>1. Pick(s) \in s /\ IsFiniteSet(s) /\ Cardinality(s) \in Nat
        BY <2>2, FS_Subset, FS_CardinalityType DEF Pick
      <3>2. Sum(f, s) = f[Pick(s)] + Sum(f, s \ {Pick(s)})
        BY <2>2, <3>1, SumPick
      <3>3. Sum(f, s \ {Pick(s)}) = Cardinality(s \ {Pick(s)}) * c /\ f[Pick(s)] = c
        BY <1>1, <3>1
      <3>4. Cardinality(s \ {Pick(s)}) = Cardinality(s) - 1
        BY <3>1, FS_RemoveElement
      <3>5. c + (Cardinality(s) - 1) * c = Cardinality(s) * c
        BY <3>1
      <3> QED  BY <3>2, <3>3, <3>4, <3>5
    <2> QED  BY <2>1, <2>2
  <1> HIDE DEF T
  <1>2. X \in T
    BY <1>1, AllSubsets DEF T
  <1> QED  BY <1>2 DEF T

(* Natural numbers add up to one, and none of them is greater than that. *)
LEMMA SumNat ==
  ASSUME NEW f, NEW X, IsFiniteSet(X), \A x \in X : f[x] \in Nat
  PROVE  Sum(f, X) \in Nat /\ \A x \in X : f[x] <= Sum(f, X)
  <1>1. \A S \in SUBSET X : Sum(f, S) \in Nat
    <2> SUFFICES ASSUME NEW S \in SUBSET X PROVE Sum(f, S) \in Nat
      OBVIOUS
    <2> DEFINE z == [x \in S |-> 0]
    <2>1. IsFiniteSet(S) /\ \A x \in S : z[x] = 0 /\ f[x] \in Int
      BY FS_Subset
    <2> HIDE DEF z
    <2>2. Sum(z, S) = Cardinality(S) * 0
      BY <2>1, SumConstant
    <2>3. Sum(z, S) <= Sum(f, S) /\ Sum(f, S) \in Int
      BY <2>1, SumLeq, SumType
    <2>4. Cardinality(S) \in Nat
      BY <2>1, FS_CardinalityType
    <2> QED  BY <2>2, <2>3, <2>4
  <1>2. ASSUME NEW x \in X PROVE f[x] <= Sum(f, X)
    <2>1. \A y \in X : f[y] \in Int
      OBVIOUS
    <2>2. Sum(f, X) = f[x] + Sum(f, X \ {x})
      BY <2>1, SumSplit
    <2>3. Sum(f, X \ {x}) \in Nat
      BY <1>1
    <2> QED  BY <2>2, <2>3
  <1> QED  BY <1>1, <1>2

(* The first numbers of n blocks of p, from b on. *)
Blocks(b, p, n) == {b + p * i : i \in 0..(n - 1)}

(* g has the sums of f over n blocks of p, from b on. *)
Condenses(g, f, b, p, n) ==
  /\ \A x \in b..(b + p * n - 1) : f[x] \in Int
  /\ \A i \in 0..(n - 1) : g[b + p * i] = Sum(f, (b + p * i)..(b + p * i + p - 1))

(* A range of blocks, summed up block by block. *)
LEMMA SumBlocks ==
  ASSUME NEW b \in Nat, NEW p \in Nat \ {0}, NEW N \in Nat, NEW f, NEW g,
         Condenses(g, f, b, p, N)
  PROVE  Sum(g, Blocks(b, p, N)) = Sum(f, b..(b + p * N - 1))
  <1> DEFINE B(n) == {b + p * i : i \in 0..(n - 1)}
             R(n) == b..(b + p * n - 1)
             Q(n) == /\ IsFiniteSet(B(n))
                     /\ \A x \in B(n) : x < b + p * n /\ g[x] \in Int
                     /\ Sum(g, B(n)) = Sum(f, R(n))
             T == {n \in Nat : n <= N => Q(n)}
  <1>1. 0 \in T
    <2>1. B(0) = {} /\ R(0) = {}
      OBVIOUS
    <2> QED  BY <2>1, SumEmpty, FS_EmptySet
  <1>2. ASSUME NEW n \in Nat, n <= N => Q(n), n + 1 <= N PROVE Q(n + 1)
    <2> DEFINE x == b + p * n
               I == x..(x + p - 1)
    <2>1. p * (n + 1) = p * n + p /\ p * n \in Nat
      OBVIOUS
    <2>2. n <= N /\ n \in 0..(N - 1)
      BY <1>2
    <2>3. x \in Nat /\ b + p * (n + 1) = x + p
      BY <2>1
    <2> HIDE DEF T, Q
    <2>4. Q(n)
      BY <1>2, <2>2
    <2>5. /\ IsFiniteSet(B(n)) /\ Sum(g, B(n)) = Sum(f, R(n))
          /\ \A z \in B(n) : z < x /\ g[z] \in Int
      BY <2>4 DEF Q
    <2>6. B(n + 1) = B(n) \cup {x}
      <3>1. 0..((n + 1) - 1) = (0..(n - 1)) \cup {n}
        OBVIOUS
      <3> QED  BY <3>1
    <2>7. R(n + 1) = R(n) \cup I /\ R(n) \cap I = {}
      <3> DEFINE y == p * n
      <3>1. y \in Nat /\ R(n) = b..(b + y - 1) /\ x = b + y /\ R(n + 1) = b..(b + y + p - 1)
        BY <2>1, <2>3
      <3> HIDE DEF y, x, R
      <3> QED  BY <3>1
    <2>8. R(n + 1) \subseteq b..(b + p * N - 1)
      <3>1. p * N = p * (n + 1) + p * (N - (n + 1)) /\ p * (N - (n + 1)) \in Nat
            /\ p * (n + 1) \in Nat /\ p * N \in Nat
        BY <1>2
      <3> QED  BY <3>1
    <2>9. IsFiniteSet(R(n)) /\ IsFiniteSet(I)
      <3>1. b + p * n - 1 \in Int /\ x + p - 1 \in Int
        BY <2>1, <2>3
      <3> QED  BY <2>3, <3>1, FS_Interval
    <2>10. \A z \in R(n) \cup I : f[z] \in Int
      BY <2>7, <2>8 DEF Condenses
    <2>11. Sum(f, R(n + 1)) = Sum(f, R(n)) + Sum(f, I) /\ Sum(f, I) \in Int
      <3> HIDE DEF I, R
      <3> QED  BY <2>7, <2>9, <2>10, SumUnion, SumType
    <2>12. g[x] = Sum(f, I)
      BY <2>2 DEF Condenses
    <2> HIDE DEF x, B, R, I
    <2>13. x \notin B(n) /\ \A z \in B(n) \cup {x} : g[z] \in Int
      BY <2>3, <2>11, <2>12, <2>5
    <2>14. Sum(g, B(n) \cup {x}) = Sum(g, B(n)) + g[x]
      BY <2>13, <2>5, SumAdd
    <2>15. Sum(g, B(n + 1)) = Sum(f, R(n + 1))
      BY <2>6, <2>11, <2>12, <2>14, <2>5
    <2>16. IsFiniteSet(B(n + 1))
      BY <2>6, <2>5, FS_AddElement
    <2>17. \A z \in B(n + 1) : z < b + p * (n + 1) /\ g[z] \in Int
      <3> SUFFICES ASSUME NEW z \in B(n + 1) PROVE z < x + p /\ g[z] \in Int
        BY <2>3
      <3>1. CASE z = x
        BY <2>3, <2>11, <2>12, <3>1
      <3>2. CASE z \in B(n)
        <4>1. z \in Nat
          BY <3>2 DEF B
        <4> QED  BY <2>3, <2>5, <3>2, <4>1
      <3> QED  BY <2>6, <3>1, <3>2
    <2> QED  BY <2>15, <2>16, <2>17 DEF Q
  <1> HIDE DEF Q
  <1>3. \A n \in T : n + 1 \in T
    BY <1>2
  <1>4. T \in SUBSET Nat
    OBVIOUS
  <1> HIDE DEF T
  <1>5. T = Nat
    BY <1>1, <1>3, <1>4, AllNat
  <1>6. Q(N)
    BY <1>5 DEF T
  <1> QED  BY <1>6 DEF Q, Blocks

=============================================================================
