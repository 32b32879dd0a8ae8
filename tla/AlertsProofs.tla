---------------------------- MODULE AlertsProofs ----------------------------
(***************************************************************************)
(* Proofs of Alerts, for any alerts, patterns, receivers and rounds: the   *)
(* matcher finds a pattern exactly where it means to be found, an alert is *)
(* raised exactly when its pattern matches the rounds since the start, and *)
(* receivers end up with the truth.                                        *)
(***************************************************************************)
EXTENDS Alerts, FoldTheorems, SequenceTheorems

-----------------------------------------------------------------------------
(* The fold of Matches *)

(* The function it defines by recursion over the places of the pattern. *)
RecMatch(elems, samples, it) ==
  it = [s \in SUBSET DOMAIN elems |->
          IF s = {} THEN {Len(samples)}
          ELSE Consume(elems[Min(s)], samples, it[s \ {Min(s)}])]
ItMatch(elems, samples) == CHOOSE it : RecMatch(elems, samples, it)

LEMMA MatchesIsIt ==
  ASSUME NEW elems, NEW samples
  PROVE  Matches(elems, samples) <=> ItMatch(elems, samples)[DOMAIN elems] # {}
  BY DEF Matches, FoldRight, MapThenFoldSet, ItMatch, RecMatch

LEMMA RecMatchExists ==
  ASSUME NEW E, NEW elems \in Seq(E), NEW samples
  PROVE  RecMatch(elems, samples, ItMatch(elems, samples))
  <1> DEFINE D == DOMAIN elems
             none == {Len(samples)}
             Part(n, g) ==
               g = [s \in SUBSET D |-> IF s = {} \/ Cardinality(s) > n THEN none
                                       ELSE Consume(elems[Min(s)], samples, g[s \ {Min(s)}])]
             T == {n \in Nat : \E g : Part(n, g)}
  <1>0. D = 1..Len(elems) /\ Len(elems) \in Nat /\ IsFiniteSet(D)
    BY FS_Interval
  <1> HIDE DEF D, none
  <1>1. \A s \in SUBSET D : IsFiniteSet(s) /\ Cardinality(s) \in Nat
    BY <1>0, FS_Subset, FS_CardinalityType
  <1>2. \A s \in SUBSET D : s # {} => /\ Min(s) \in s /\ s \ {Min(s)} \in SUBSET D
                                      /\ Cardinality(s \ {Min(s)}) = Cardinality(s) - 1
    <2> SUFFICES ASSUME NEW s \in SUBSET D, s # {}
                 PROVE  /\ Min(s) \in s /\ s \ {Min(s)} \in SUBSET D
                        /\ Cardinality(s \ {Min(s)}) = Cardinality(s) - 1
      OBVIOUS
    <2>1. Min(s) \in s
      BY <1>0, MinIn
    <2> QED  BY <1>1, <2>1, FS_RemoveElement
  <1>3. 0 \in T
    <2> DEFINE g == [s \in SUBSET D |-> none]
    <2>1. \A s \in SUBSET D : s = {} \/ Cardinality(s) > 0
      BY <1>1, FS_EmptySet
    <2>2. Part(0, g)
      BY <2>1
    <2>3. \E k : Part(0, k)
      <3> HIDE DEF g
      <3> QED  BY <2>2
    <2> QED  BY <2>3
  <1>4. ASSUME NEW n \in T PROVE n + 1 \in T
    <2>1. PICK g : Part(n, g)
      OBVIOUS
    <2> DEFINE h == [s \in SUBSET D |-> IF s = {} \/ Cardinality(s) > n + 1 THEN none
                                        ELSE Consume(elems[Min(s)], samples, g[s \ {Min(s)}])]
    <2>2. \A s \in SUBSET D : Cardinality(s) <= n => h[s] = g[s]
      <3> SUFFICES ASSUME NEW s \in SUBSET D, Cardinality(s) <= n PROVE h[s] = g[s]
        OBVIOUS
      <3>1. ~(Cardinality(s) > n) /\ ~(Cardinality(s) > n + 1)
        BY <1>1
      <3>2. g[s] = IF s = {} THEN none ELSE Consume(elems[Min(s)], samples, g[s \ {Min(s)}])
        BY <2>1, <3>1
      <3> QED  BY <3>1, <3>2
    <2>3. \A s \in SUBSET D : s # {} /\ ~(Cardinality(s) > n + 1) =>
            h[s \ {Min(s)}] = g[s \ {Min(s)}]
      <3> HIDE DEF h
      <3>1. n \in Nat
        OBVIOUS
      <3> HIDE DEF T
      <3> SUFFICES ASSUME NEW s \in SUBSET D, s # {}, ~(Cardinality(s) > n + 1)
                   PROVE  h[s \ {Min(s)}] = g[s \ {Min(s)}]
        OBVIOUS
      <3>2. s \ {Min(s)} \in SUBSET D /\ Cardinality(s \ {Min(s)}) = Cardinality(s) - 1
        BY <1>2
      <3>3. Cardinality(s \ {Min(s)}) <= n
        <4>1. Cardinality(s) \in Nat
          BY <1>1
        <4> QED  BY <3>1, <3>2, <4>1
      <3> QED  BY <2>2, <3>2, <3>3
    <2>4. Part(n + 1, h)
      BY <2>3
    <2>5. \E k : Part(n + 1, k)
      <3> HIDE DEF h
      <3> QED  BY <2>4
    <2>6. n + 1 \in Nat
      OBVIOUS
    <2> QED  BY <2>5, <2>6
  <1>5. T = Nat
    BY <1>3, <1>4, AllNat
  <1>6. PICK g : Part(Cardinality(D), g)
    BY <1>1, <1>5
  <1>7. \A s \in SUBSET D : ~(Cardinality(s) > Cardinality(D))
    <2> SUFFICES ASSUME NEW s \in SUBSET D PROVE ~(Cardinality(s) > Cardinality(D))
      OBVIOUS
    <2>1. Cardinality(s) <= Cardinality(D)
      BY <1>0, FS_Subset
    <2>2. Cardinality(s) \in Nat /\ Cardinality(D) \in Nat
      BY <1>1
    <2> QED  BY <2>1, <2>2
  <1>8. RecMatch(elems, samples, g)
    BY <1>6, <1>7 DEF RecMatch, D, none
  <1> QED  BY <1>8 DEF ItMatch

-----------------------------------------------------------------------------
(* What the matcher finds *)

Gains(e, n) == IF IsSpan(e) THEN n <= e.n ELSE n = 1

(* The ways to match the elements from place i on, and what each leaves. *)
Chosen(p, s, i) ==
  {take \in [1..Len(p) -> 0..Len(s)] :
     /\ Sum(take, i..Len(p)) <= Len(s)
     /\ \A j \in i..Len(p) :
          /\ Gains(p[j], take[j])
          /\ IsSpan(p[j]) \/ ElemMatch(p[j], s[Len(s) - Sum(take, j..Len(p)) + 1])}
Left(p, s, i) == {Len(s) - Sum(take, i..Len(p)) : take \in Chosen(p, s, i)}

(* Sums of what elements take. *)
LEMMA Taken ==
  ASSUME NEW n \in Nat, NEW N \in Nat, NEW take \in [1..n -> 0..N]
  PROVE  /\ Sum(take, (n + 1)..n) = 0
         /\ \A i \in 1..(n + 1) : Sum(take, i..n) \in Nat
         /\ \A i \in 1..n : /\ Sum(take, i..n) = take[i] + Sum(take, (i + 1)..n)
                            /\ Sum(take, (i + 1)..n) <= Sum(take, i..n)
                            /\ Sum(take, i..n) <= Sum(take, 1..n)
                            /\ take[i] <= Sum(take, i..n)
  <1>1. (n + 1)..n = {}
    OBVIOUS
  <1>2. \A i \in 1..(n + 1) : /\ i..n \subseteq 1..n /\ IsFiniteSet(i..n)
                              /\ \A x \in i..n : take[x] \in Nat /\ take[x] \in Int
    <2> SUFFICES ASSUME NEW i \in 1..(n + 1)
                 PROVE  /\ i..n \subseteq 1..n /\ IsFiniteSet(i..n)
                        /\ \A x \in i..n : take[x] \in Nat /\ take[x] \in Int
      OBVIOUS
    <2>1. i..n \subseteq 1..n /\ i \in Nat
      OBVIOUS
    <2>2. IsFiniteSet(i..n)
      BY <2>1, FS_Interval
    <2> QED  BY <2>1, <2>2
  <1>3. \A i \in 1..(n + 1) : Sum(take, i..n) \in Nat /\ \A x \in i..n : take[x] <= Sum(take, i..n)
    BY <1>2, SumNat
  <1>4. ASSUME NEW i \in 1..n PROVE Sum(take, i..n) = take[i] + Sum(take, (i + 1)..n)
    <2>1. i \in i..n /\ (i..n) \ {i} = (i + 1)..n
      OBVIOUS
    <2>2. IsFiniteSet(i..n) /\ \A x \in i..n : take[x] \in Int
      BY <1>2
    <2> QED  BY <2>1, <2>2, SumSplit
  <1>5. ASSUME NEW i \in 1..n PROVE Sum(take, i..n) <= Sum(take, 1..n)
    <2>1. /\ 1..n = (1..(i - 1)) \cup (i..n) /\ (1..(i - 1)) \cap (i..n) = {}
          /\ 1..(i - 1) \subseteq 1..n
      OBVIOUS
    <2>2. IsFiniteSet(1..(i - 1)) /\ IsFiniteSet(i..n)
      BY FS_Interval
    <2>3. \A x \in 1..n : take[x] \in Nat /\ take[x] \in Int
      OBVIOUS
    <2>4. Sum(take, 1..n) = Sum(take, 1..(i - 1)) + Sum(take, i..n)
      BY <2>1, <2>2, <2>3, SumUnion
    <2>5. Sum(take, 1..(i - 1)) \in Nat
      BY <2>1, <2>2, <2>3, SumNat
    <2> QED  BY <1>3, <2>4, <2>5
  <1>6. \A i \in 1..n : i \in 1..(n + 1) /\ i + 1 \in 1..(n + 1) /\ i \in i..n /\ take[i] \in Nat
    OBVIOUS
  <1>7. \A i \in 1..n : Sum(take, (i + 1)..n) <= Sum(take, i..n)
    BY <1>3, <1>4, <1>6
  <1> QED  BY <1>1, <1>3, <1>4, <1>5, <1>6, <1>7, SumEmpty

LEMMA SpanFacts ==
  ASSUME NEW p \in Seq(Element), NEW i \in 1..Len(p)
  PROVE  IsSpan(p[i]) => p[i].n \in 1..MaxSpan
  <1>1. p[i] \in Element
    OBVIOUS
  <1> QED  BY <1>1 DEF Element, IsSpan

LEMMA LeftStep ==
  ASSUME NEW p \in Seq(Element), NEW s, Len(s) \in Nat, NEW i \in 1..Len(p)
  PROVE  Left(p, s, i) = Consume(p[i], s, Left(p, s, i + 1))
  <1> DEFINE n == Len(p)
             N == Len(s)
             e == p[i]
  <1>1. n \in Nat /\ i \in 1..n /\ i + 1 \in 1..(n + 1) /\ i \in Nat /\ N \in Nat
    OBVIOUS
  <1>2. IsSpan(e) => e.n \in Nat
    <2>1. IsSpan(p[i]) => p[i].n \in 1..MaxSpan
      BY SpanFacts
    <2>2. 1..MaxSpan \subseteq Nat
      BY DEF MaxSpan
    <2> QED  BY <2>1, <2>2
  <1> HIDE DEF n, N, e
  <1>3. ASSUME NEW m \in Left(p, s, i) PROVE m \in Consume(e, s, Left(p, s, i + 1))
    <2>1. PICK take \in Chosen(p, s, i) : m = N - Sum(take, i..n)
      BY DEF Left, N, n
    <2>2. /\ take \in [1..n -> 0..N] /\ Sum(take, i..n) <= N /\ Gains(e, take[i])
          /\ IsSpan(e) \/ ElemMatch(e, s[N - Sum(take, i..n) + 1])
      BY <1>1 DEF Chosen, n, N, e
    <2> DEFINE k == N - Sum(take, (i + 1)..n)
    <2>3. /\ Sum(take, i..n) = take[i] + Sum(take, (i + 1)..n)
          /\ Sum(take, (i + 1)..n) <= Sum(take, i..n)
          /\ Sum(take, i..n) \in Nat /\ Sum(take, (i + 1)..n) \in Nat
      <3>1. i \in 1..(n + 1)
        BY <1>1
      <3>2. Sum(take, i..n) \in Nat /\ Sum(take, (i + 1)..n) \in Nat
        BY <1>1, <2>2, <3>1, Taken
      <3>3. /\ Sum(take, i..n) = take[i] + Sum(take, (i + 1)..n)
            /\ Sum(take, (i + 1)..n) <= Sum(take, i..n)
        BY <1>1, <2>2, Taken
      <3> QED  BY <3>2, <3>3
    <2>4. take \in Chosen(p, s, i + 1)
      <3>1. (i + 1)..n \subseteq i..n /\ Sum(take, (i + 1)..n) <= N
        BY <1>1, <2>2, <2>3
      <3> QED  BY <2>1, <3>1 DEF Chosen, n, N
    <2>5. k \in Left(p, s, i + 1)
      BY <2>4 DEF Left, n, N
    <2>6. m \in Nat /\ k \in Nat /\ m = k - take[i] /\ take[i] \in Nat
      BY <1>1, <2>1, <2>2, <2>3, SMTT(30)
    <2> HIDE DEF k
    <2>7. CASE IsSpan(e)
      <3>1. take[i] <= e.n
        BY <2>2, <2>7 DEF Gains
      <3>2. m \in (IF k > e.n THEN k - e.n ELSE 0)..k
        BY <1>2, <2>6, <2>7, <3>1
      <3> QED  BY <2>5, <2>7, <3>2 DEF Consume
    <2>8. CASE ~IsSpan(e)
      <3>1. take[i] = 1 /\ ElemMatch(e, s[N - Sum(take, i..n) + 1])
        BY <2>2, <2>8 DEF Gains
      <3>2. k > 0 /\ m = k - 1
        BY <2>6, <3>1
      <3>3. N - Sum(take, i..n) + 1 = k
        BY <1>1, <2>1, <2>3, <2>6, <3>2
      <3> QED  BY <2>5, <2>8, <3>1, <3>2, <3>3 DEF Consume
    <2> QED  BY <2>7, <2>8
  <1>4. ASSUME NEW m \in Consume(e, s, Left(p, s, i + 1)) PROVE m \in Left(p, s, i)
    <2>1. PICK k \in Left(p, s, i + 1) :
            IF IsSpan(e) THEN m \in (IF k > e.n THEN k - e.n ELSE 0)..k
            ELSE m = k - 1 /\ k > 0 /\ ElemMatch(e, s[k])
      BY DEF Consume
    <2>2. PICK old \in Chosen(p, s, i + 1) : k = N - Sum(old, (i + 1)..n)
      BY DEF Left, N, n
    <2>3. old \in [1..n -> 0..N] /\ Sum(old, (i + 1)..n) <= N
      BY DEF Chosen, n, N
    <2>4. Sum(old, (i + 1)..n) \in Nat
      BY <1>1, <2>3, Taken
    <2>5. k \in Nat /\ k <= N
      BY <1>1, <2>2, <2>3, <2>4
    <2>6. m \in Nat /\ m <= k /\ Gains(e, k - m)
      BY <1>2, <2>1, <2>5 DEF Gains
    <2> DEFINE take == [old EXCEPT ![i] = k - m]
    <2>7. /\ take \in [1..n -> 0..N] /\ take[i] = k - m
          /\ \A j \in 1..n : j # i => take[j] = old[j]
      BY <1>1, <2>3, <2>5, <2>6
    <2> HIDE DEF take
    <2>8. \A j \in (i + 1)..(n + 1) : Sum(take, j..n) = Sum(old, j..n)
      <3> SUFFICES ASSUME NEW j \in (i + 1)..(n + 1) PROVE Sum(take, j..n) = Sum(old, j..n)
        OBVIOUS
      <3>1. j \in Nat /\ i + 1 <= j
        BY <1>1
      <3>2. IsFiniteSet(j..n)
        BY <1>1, <3>1, FS_Interval
      <3>3. \A x \in j..n : x \in 1..n /\ x # i
        BY <1>1, <3>1
      <3>4. \A x \in j..n : take[x] = old[x]
        BY <2>7, <3>3
      <3> QED  BY <3>2, <3>4, SumSame
    <2>9. Sum(take, i..n) = N - m /\ N - Sum(take, i..n) = m /\ Sum(take, i..n) <= N
      <3>1. Sum(take, i..n) = take[i] + Sum(take, (i + 1)..n)
        BY <1>1, <2>7, Taken
      <3>2. Sum(take, (i + 1)..n) = N - k
        <4>1. i + 1 \in (i + 1)..(n + 1)
          BY <1>1
        <4> QED  BY <1>1, <2>2, <2>4, <2>8, <4>1
      <3> QED  BY <1>1, <2>5, <2>6, <2>7, <3>1, <3>2
    <2>10. ASSUME NEW j \in i..n
           PROVE  /\ Gains(p[j], take[j])
                  /\ IsSpan(p[j]) \/ ElemMatch(p[j], s[N - Sum(take, j..n) + 1])
      <3>1. CASE j = i
        <4>1. Gains(p[j], take[j])
          BY <2>6, <2>7, <3>1 DEF e
        <4>2. ~IsSpan(e) => N - Sum(take, j..n) + 1 = k
          BY <2>1, <2>5, <2>9, <3>1
        <4> QED  BY <2>1, <3>1, <4>1, <4>2 DEF e
      <3>2. CASE j # i
        <4>1. j \in (i + 1)..n /\ j \in (i + 1)..(n + 1) /\ j \in 1..n
          BY <1>1, <3>2
        <4>2. /\ Gains(p[j], old[j])
              /\ IsSpan(p[j]) \/ ElemMatch(p[j], s[N - Sum(old, j..n) + 1])
          BY <4>1 DEF Chosen, n, N
        <4> QED  BY <2>7, <2>8, <3>2, <4>1, <4>2
      <3> QED  BY <3>1, <3>2
    <2>11. take \in Chosen(p, s, i)
      BY <2>7, <2>9, <2>10 DEF Chosen, n, N
    <2> QED  BY <2>9, <2>11 DEF Left, n, N
  <1> QED  BY <1>3, <1>4 DEF e

LEMMA LeftLast ==
  ASSUME NEW p \in Seq(Element), NEW s, Len(s) \in Nat
  PROVE  Left(p, s, Len(p) + 1) = {Len(s)}
  <1> DEFINE n == Len(p)
             N == Len(s)
             one == [j \in 1..n |-> 0]
  <1>1. n \in Nat /\ N \in Nat /\ (n + 1)..n = {}
    OBVIOUS
  <1>2. \A take \in [1..n -> 0..N] : Sum(take, (n + 1)..n) = 0
    BY <1>1, Taken
  <1>3. one \in [1..n -> 0..N]
    BY <1>1
  <1> HIDE DEF n, N, one
  <1>4. Chosen(p, s, n + 1) = [1..n -> 0..N]
    BY <1>1, <1>2 DEF Chosen, n, N
  <1>5. N - 0 = N
    BY <1>1
  <1>6. Left(p, s, n + 1) = {N}
    BY <1>2, <1>3, <1>4, <1>5 DEF Left, n, N
  <1> QED  BY <1>6 DEF n, N

(* Backtracking finds all ways there are. *)
LEMMA MatchedAll ==
  ASSUME NEW p \in Seq(Element), NEW s, Len(s) \in Nat
  PROVE  Matches(p, s) <=> Chosen(p, s, 1) # {}
  <1> DEFINE n == Len(p)
             it == ItMatch(p, s)
             T == {d \in Nat : d <= n => it[(n + 1 - d)..n] = Left(p, s, n + 1 - d)}
  <1>1. n \in Nat /\ DOMAIN p = 1..n /\ (n + 1)..n = {} /\ 1 = n + 1 - n
    OBVIOUS
  <1>2. RecMatch(p, s, it)
    BY RecMatchExists
  <1>3. Left(p, s, n + 1) = {Len(s)}
    BY LeftLast
  <1>4. \A i \in 1..n : Left(p, s, i) = Consume(p[i], s, Left(p, s, i + 1))
    BY LeftStep
  <1> HIDE DEF n, it
  <1>5. it[{}] = {Len(s)}
    BY <1>2 DEF RecMatch
  <1>6. ASSUME NEW i \in 1..n PROVE it[i..n] = Consume(p[i], s, it[(i + 1)..n])
    <2>1. /\ i \in i..n /\ (i..n) \ {i} = (i + 1)..n
          /\ i..n \in SUBSET (1..n) /\ i..n \in SUBSET Nat
      <3>1. i \in Nat /\ 1 <= i /\ i <= n
        BY <1>1
      <3>2. i \in i..n /\ (i..n) \ {i} = (i + 1)..n
        BY <1>1, <3>1
      <3>3. \A x \in i..n : x \in 1..n /\ x \in Nat
        BY <1>1, <3>1
      <3> QED  BY <3>2, <3>3
    <2>2. Min(i..n) = i
      <3>1. Min(i..n) \in i..n /\ Min(i..n) <= i
        BY <2>1, MinIn
      <3> QED  BY <1>1, <3>1
    <2>3. it[i..n] = Consume(p[Min(i..n)], s, it[(i..n) \ {Min(i..n)}])
      BY <1>1, <1>2, <2>1 DEF RecMatch
    <2> QED  BY <2>1, <2>2, <2>3
  <1>7. 0 \in T
    <2>1. n + 1 - 0 = n + 1
      BY <1>1
    <2> QED  BY <1>1, <1>3, <1>5, <2>1
  <1>8. ASSUME NEW d \in T PROVE d + 1 \in T
    <2>1. d \in Nat /\ (d <= n => it[(n + 1 - d)..n] = Left(p, s, n + 1 - d))
      OBVIOUS
    <2> SUFFICES ASSUME d + 1 <= n PROVE it[(n + 1 - (d + 1))..n] = Left(p, s, n + 1 - (d + 1))
      BY <2>1
    <2> DEFINE i == n + 1 - (d + 1)
    <2>2. i \in 1..n /\ i + 1 = n + 1 - d /\ d <= n
      BY <1>1, <2>1
    <2> HIDE DEF i, T
    <2>3. it[(i + 1)..n] = Left(p, s, i + 1)
      BY <2>1, <2>2
    <2>4. it[i..n] = Left(p, s, i)
      BY <1>4, <1>6, <2>2, <2>3
    <2> QED  BY <2>4 DEF i
  <1>9. T = Nat
    BY <1>7, <1>8, AllNat
  <1>10. it[1..n] = Left(p, s, 1)
    <2>1. n \in T
      BY <1>1, <1>9
    <2> QED  BY <1>1, <2>1
  <1>11. Left(p, s, 1) # {} <=> Chosen(p, s, 1) # {}
    BY DEF Left
  <1> QED  BY <1>1, <1>10, <1>11, MatchesIsIt DEF it

-----------------------------------------------------------------------------
(* What patterns mean *)

LEMMA SumFromIs ==
  ASSUME NEW n \in Nat, NEW take, DOMAIN take = 1..n, NEW i \in Nat \ {0}
  PROVE  SumFrom(take, i) = Sum(take, i..n)
  <1>1. {j \in DOMAIN take : j >= i} = i..n
    OBVIOUS
  <1> QED  BY <1>1 DEF SumFrom, Sum

LEMMA MeansChosen ==
  ASSUME NEW p \in Seq(Element), NEW s, Len(s) \in Nat
  PROVE  Means(p, s) <=> Chosen(p, s, 1) # {}
  <1> DEFINE n == Len(p)
             N == Len(s)
  <1>1. n \in Nat /\ DOMAIN p = 1..n /\ N \in Nat
    OBVIOUS
  <1>2. ASSUME NEW take \in [1..n -> 0..N] PROVE \A i \in 1..n : SumFrom(take, i) = Sum(take, i..n)
    <2>1. DOMAIN take = 1..n /\ \A i \in 1..n : i \in Nat \ {0}
      BY <1>1
    <2> QED  BY <1>1, <2>1, SumFromIs
  <1>3. ASSUME NEW take \in [1..n -> 0..N] PROVE SumFrom(take, 1) = Sum(take, 1..n)
    <2>1. DOMAIN take = 1..n /\ 1 \in Nat \ {0}
      OBVIOUS
    <2> QED  BY <1>1, <2>1, SumFromIs
  <1> HIDE DEF n, N
  <1>4. Means(p, s) <=> \E take \in [1..n -> 0..N] :
          /\ \A i \in 1..n : Gains(p[i], take[i])
          /\ SumFrom(take, 1) <= N
          /\ \A i \in 1..n : IsSpan(p[i]) \/ ElemMatch(p[i], s[N - SumFrom(take, i) + 1])
    BY <1>1 DEF Means, Gains, N
  <1>5. Chosen(p, s, 1) # {} <=> \E take \in [1..n -> 0..N] :
          /\ Sum(take, 1..n) <= N
          /\ \A j \in 1..n :
               /\ Gains(p[j], take[j])
               /\ IsSpan(p[j]) \/ ElemMatch(p[j], s[N - Sum(take, j..n) + 1])
    BY DEF Chosen, n, N
  <1>6. ASSUME NEW take \in [1..n -> 0..N]
        PROVE  (/\ \A i \in 1..n : Gains(p[i], take[i])
                /\ SumFrom(take, 1) <= N
                /\ \A i \in 1..n : IsSpan(p[i]) \/ ElemMatch(p[i], s[N - SumFrom(take, i) + 1]))
               <=> (/\ Sum(take, 1..n) <= N
                    /\ \A j \in 1..n :
                         /\ Gains(p[j], take[j])
                         /\ IsSpan(p[j]) \/ ElemMatch(p[j], s[N - Sum(take, j..n) + 1]))
    BY <1>2, <1>3
  <1> QED  BY <1>4, <1>5, <1>6

(* The matcher (Pattern::matches) finds a pattern exactly where it means to *)
(* be found.                                                               *)
THEOREM MatcherRight ==
  ASSUME NEW p \in Seq(Element), NEW s, Len(s) \in Nat
  PROVE  Matches(p, s) <=> Means(p, s)
  BY MeansChosen, MatchedAll

LEMMA DepthIs ==
  ASSUME NEW p \in Seq(Element), NEW take \in [1..Len(p) -> Nat],
         \A i \in 1..Len(p) : Gains(p[i], take[i])
  PROVE  Depth(p) \in Nat /\ Sum(take, 1..Len(p)) <= Depth(p)
  <1> DEFINE n == Len(p)
             most == [i \in DOMAIN p |-> IF IsSpan(p[i]) THEN p[i].n ELSE 1]
  <1>1. n \in Nat /\ DOMAIN p = 1..n /\ IsFiniteSet(1..n)
    BY FS_Interval
  <1>2. \A i \in 1..n : IsSpan(p[i]) => p[i].n \in Nat
    <2>1. \A i \in 1..n : IsSpan(p[i]) => p[i].n \in 1..MaxSpan
      BY SpanFacts
    <2>2. 1..MaxSpan \subseteq Nat
      BY DEF MaxSpan
    <2> QED  BY <2>1, <2>2
  <1>3. most \in [1..n -> Nat] /\ \A i \in 1..n : Gains(p[i], take[i]) => take[i] <= most[i]
    <2>1. most \in [1..n -> Nat]
      BY <1>1, <1>2
    <2>2. ASSUME NEW i \in 1..n, Gains(p[i], take[i]) PROVE take[i] <= most[i]
      <3>1. most[i] = IF IsSpan(p[i]) THEN p[i].n ELSE 1
        BY <1>1
      <3> HIDE DEF most
      <3> QED  BY <2>2, <3>1 DEF Gains
    <2> QED  BY <2>1, <2>2
  <1>4. Depth(p) = SumFrom(most, 1)
    BY DEF Depth
  <1> HIDE DEF n, most
  <1>5. SumFrom(most, 1) = Sum(most, 1..n)
    <2>1. DOMAIN most = 1..n /\ 1 \in Nat \ {0}
      BY <1>3
    <2> QED  BY <1>1, <2>1, SumFromIs
  <1>6. \A i \in 1..n : most[i] \in Nat /\ most[i] \in Int /\ take[i] \in Int /\ take[i] <= most[i]
    BY <1>3 DEF n
  <1>7. Sum(most, 1..n) \in Nat
    BY <1>1, <1>6, SumNat
  <1>8. Sum(take, 1..n) <= Sum(most, 1..n)
    BY <1>1, <1>6, SumLeq
  <1> QED  BY <1>4, <1>5, <1>7, <1>8 DEF n

(* ring is the end of full. *)
EndOf(ring, full0) ==
  /\ Len(ring) <= Len(full0)
  /\ \A k \in 1..Len(ring) : ring[k] = full0[Len(full0) - Len(ring) + k]

(* A pattern looks no further back than its depth. *)
LEMMA RingSuffices ==
  ASSUME NEW p \in Seq(Element), NEW ring, NEW all, Len(ring) \in Nat, Len(all) \in Nat,
         EndOf(ring, all), Len(ring) = Len(all) \/ Depth(p) <= Len(ring)
  PROVE  Means(p, ring) <=> Means(p, all)
  <1> DEFINE n == Len(p)
             K == Len(ring)
             M == Len(all)
  <1>1. n \in Nat /\ K \in Nat /\ M \in Nat /\ K <= M
    BY DEF EndOf
  <1>2. \A k \in 1..K : ring[k] = all[M - K + k]
    BY DEF EndOf
  <1> HIDE DEF n, K, M
  <1>3. ASSUME NEW take \in [1..n -> 0..M], \A j \in 1..n : Gains(p[j], take[j]),
               Sum(take, 1..n) <= K, NEW j \in 1..n, ~IsSpan(p[j])
        PROVE  ring[K - Sum(take, j..n) + 1] = all[M - Sum(take, j..n) + 1]
    <2> DEFINE S == Sum(take, j..n)
    <2>1. S \in Nat /\ S <= Sum(take, 1..n) /\ take[j] <= S /\ Sum(take, 1..n) \in Nat
      <3>1. j \in 1..(n + 1) /\ 1 \in 1..(n + 1)
        BY <1>1
      <3>2. S \in Nat /\ Sum(take, 1..n) \in Nat
        BY <1>1, <3>1, Taken
      <3>3. S <= Sum(take, 1..n) /\ take[j] <= S
        BY <1>1, Taken
      <3> QED  BY <3>2, <3>3
    <2>2. take[j] = 1
      BY <1>3 DEF Gains
    <2> HIDE DEF S
    <2>3. K - S + 1 \in 1..K /\ M - K + (K - S + 1) = M - S + 1
      BY <1>1, <1>3, <2>1, <2>2
    <2>4. ring[K - S + 1] = all[M - S + 1]
      BY <1>2, <2>3
    <2> QED  BY <2>4 DEF S
  <1>4. ASSUME NEW take \in Chosen(p, all, 1) PROVE take \in Chosen(p, ring, 1)
    <2>1. /\ take \in [1..n -> 0..M] /\ Sum(take, 1..n) <= M
          /\ \A j \in 1..n : /\ Gains(p[j], take[j])
                             /\ IsSpan(p[j]) \/ ElemMatch(p[j], all[M - Sum(take, j..n) + 1])
      BY DEF Chosen, n, M
    <2>2. take \in [1..n -> Nat] /\ 1 \in 1..(n + 1) /\ \A j \in 1..n : j \in 1..(n + 1)
      BY <1>1, <2>1
    <2>3. Sum(take, 1..n) <= K
      <3>1. CASE K = M
        BY <2>1, <3>1
      <3>2. CASE Depth(p) <= K
        <4>1. Sum(take, 1..n) <= Depth(p) /\ Depth(p) \in Nat
          BY <2>1, <2>2, DepthIs DEF n
        <4>2. Sum(take, 1..n) \in Nat
          BY <1>1, <2>1, <2>2, Taken
        <4> QED  BY <1>1, <3>2, <4>1, <4>2
      <3> QED  BY <3>1, <3>2 DEF K, M
    <2>4. take \in [1..n -> 0..K]
      <3>1. ASSUME NEW j \in 1..n PROVE take[j] \in 0..K
        <4>1. take[j] <= Sum(take, j..n) /\ Sum(take, j..n) <= Sum(take, 1..n)
          BY <1>1, <2>1, Taken
        <4>2. Sum(take, j..n) \in Nat /\ Sum(take, 1..n) \in Nat
          BY <1>1, <2>1, <2>2, Taken
        <4>3. take[j] \in Nat
          BY <2>2
        <4> QED  BY <1>1, <2>3, <4>1, <4>2, <4>3
      <3> QED  BY <2>1, <3>1
    <2>5. \A j \in 1..n : IsSpan(p[j]) \/ ElemMatch(p[j], ring[K - Sum(take, j..n) + 1])
      BY <1>3, <2>1, <2>3
    <2> QED  BY <2>1, <2>3, <2>4, <2>5 DEF Chosen, n, K
  <1>5. ASSUME NEW take \in Chosen(p, ring, 1) PROVE take \in Chosen(p, all, 1)
    <2>1. /\ take \in [1..n -> 0..K] /\ Sum(take, 1..n) <= K
          /\ \A j \in 1..n : /\ Gains(p[j], take[j])
                             /\ IsSpan(p[j]) \/ ElemMatch(p[j], ring[K - Sum(take, j..n) + 1])
      BY DEF Chosen, n, K
    <2>2. take \in [1..n -> 0..M] /\ Sum(take, 1..n) <= M
      <3>1. 0..K \subseteq 0..M
        BY <1>1
      <3>2. 1 \in 1..(n + 1)
        BY <1>1
      <3>3. Sum(take, 1..n) \in Nat
        BY <1>1, <2>1, <3>2, Taken
      <3> QED  BY <1>1, <2>1, <3>1, <3>3
    <2>3. \A j \in 1..n : IsSpan(p[j]) \/ ElemMatch(p[j], all[M - Sum(take, j..n) + 1])
      BY <1>3, <2>1, <2>2
    <2> QED  BY <2>1, <2>2, <2>3 DEF Chosen, n, M
  <1> QED  BY <1>4, <1>5, MeansChosen

LEMMA DepthType ==
  ASSUME NEW p \in Seq(Element)
  PROVE  Depth(p) \in Nat
  <1> DEFINE least == [i \in 1..Len(p) |-> IF IsSpan(p[i]) THEN 0 ELSE 1]
  <1>1. least \in [1..Len(p) -> Nat]
    OBVIOUS
  <1>2. \A i \in 1..Len(p) : IsSpan(p[i]) => p[i].n \in Nat
    <2>1. \A i \in 1..Len(p) : IsSpan(p[i]) => p[i].n \in 1..MaxSpan
      BY SpanFacts
    <2>2. 1..MaxSpan \subseteq Nat
      BY DEF MaxSpan
    <2> QED  BY <2>1, <2>2
  <1>3. \A i \in 1..Len(p) : Gains(p[i], least[i])
    <2> SUFFICES ASSUME NEW i \in 1..Len(p) PROVE Gains(p[i], least[i])
      OBVIOUS
    <2>1. least[i] = IF IsSpan(p[i]) THEN 0 ELSE 1
      OBVIOUS
    <2>2. IsSpan(p[i]) => 0 <= p[i].n
      BY <1>2
    <2> HIDE DEF least
    <2> QED  BY <2>1, <2>2 DEF Gains
  <1> HIDE DEF least
  <1> QED  BY <1>1, <1>3, DepthIs

(* Nothing concrete matches no rounds at all. *)
LEMMA MeansNothing ==
  ASSUME NEW p, Concrete(p), NEW s, Len(s) = 0
  PROVE  ~Means(p, s)
  <1>1. PICK i \in DOMAIN p : ~IsSpan(p[i])
    BY DEF Concrete
  <1>2. \A take \in [DOMAIN p -> 0..Len(s)] : take[i] # 1
    OBVIOUS
  <1> QED  BY <1>1, <1>2 DEF Means

-----------------------------------------------------------------------------
(* The ring of rounds *)

LEMMA HistoryDepthFacts ==
  /\ HistoryDepth \in Nat \ {0}
  /\ \A a \in AlertNames : Pat[a] \in Seq(Element) /\ Depth(Pat[a]) <= HistoryDepth
  <1> DEFINE D == {Depth(Pat[a]) : a \in AlertNames}
             S == D \cup {MinHistory}
  <1>1. \A a \in AlertNames : Pat[a] \in Seq(Element)
    BY AlertsAssumption DEF Concrete
  <1>2. \A a \in AlertNames : Depth(Pat[a]) \in Nat
    BY <1>1, DepthType
  <1>3. IsFiniteSet(D)
    <2> DEFINE f == [a \in AlertNames |-> Depth(Pat[a])]
    <2>1. f \in Surjection(AlertNames, D)
      BY DEF Surjection
    <2> HIDE DEF D, f
    <2> QED  BY <2>1, AlertsAssumption, FS_Surjection
  <1>4. IsFiniteSet(S)
    BY <1>3, FS_AddElement
  <1>5. S \subseteq Nat /\ S # {} /\ MinHistory \in S /\ MinHistory \in Nat \ {0}
    BY <1>2, AlertsAssumption
  <1>6. \A a \in AlertNames : Depth(Pat[a]) \in S
    OBVIOUS
  <1>7. HistoryDepth = SetMax(S)
    BY DEF HistoryDepth
  <1> HIDE DEF S
  <1>8. PICK n \in S : \A m \in S : m <= n
    BY <1>4, <1>5, Greatest
  <1>9. SetMax(S) \in S /\ \A m \in S : m <= SetMax(S)
    BY <1>8 DEF SetMax
  <1>10. HistoryDepth \in Nat /\ MinHistory <= HistoryDepth
    BY <1>5, <1>7, <1>9
  <1>11. HistoryDepth # 0
    BY <1>5, <1>10
  <1>12. \A a \in AlertNames : Depth(Pat[a]) <= HistoryDepth
    BY <1>6, <1>7, <1>9
  <1> QED  BY <1>1, <1>10, <1>11, <1>12

LEMMA SeriesFacts ==
  ASSUME NEW X, NEW rounds \in Seq(X), NEW kind
  PROVE  /\ Len(Series(kind, rounds)) = Len(rounds)
         /\ \A k \in 1..Len(rounds) :
              Series(kind, rounds)[k] = IF kind = "loss" THEN rounds[k].loss ELSE rounds[k].median
  <1> DEFINE n == Len(rounds)
             value(k) == IF kind = "loss" THEN rounds[k].loss ELSE rounds[k].median
             V == {value(k) : k \in 1..n}
             f == [k \in 1..n |-> value(k)]
  <1>1. n \in Nat /\ DOMAIN rounds = 1..n
    OBVIOUS
  <1>2. Series(kind, rounds) = f
    BY <1>1 DEF Series
  <1>3. f \in [1..n -> V]
    OBVIOUS
  <1>4. \A k \in 1..n : f[k] = value(k)
    OBVIOUS
  <1> HIDE DEF f, n, V
  <1>5. Len(f) = n
    BY <1>1, <1>3
  <1> QED  BY <1>2, <1>4, <1>5 DEF n

LEMMA WithoutOldest ==
  ASSUME NEW X, NEW c \in Seq(X), NEW H \in Nat, Len(c) = H + 1
  PROVE  /\ SubSeq(c, 2, H + 1) \in Seq(X)
         /\ Len(SubSeq(c, 2, H + 1)) = H
         /\ \A k \in 1..H : SubSeq(c, 2, H + 1)[k] = c[k + 1]
  OBVIOUS

(* One more round: the ring stays the end of all rounds, and full if it can *)
(* be.                                                                     *)
LEMMA PushKeeps ==
  ASSUME NEW ring \in Seq(Samples), NEW all \in Seq(Samples), NEW s \in Samples,
         EndOf(ring, all), Len(ring) <= HistoryDepth,
         Len(ring) = Len(all) \/ Len(ring) = HistoryDepth
  PROVE  LET r == Push(ring, s)
             b == Append(all, s)
         IN /\ r \in Seq(Samples) /\ b \in Seq(Samples)
            /\ EndOf(r, b) /\ Len(r) <= HistoryDepth
            /\ Len(r) = Len(b) \/ Len(r) = HistoryDepth
  <1> DEFINE c == Append(ring, s)
             b == Append(all, s)
             r == Push(ring, s)
             H == HistoryDepth
             K == Len(ring)
             M == Len(all)
  <1>1. H \in Nat \ {0} /\ K \in Nat /\ M \in Nat /\ K <= M /\ K <= H /\ (K = M \/ K = H)
    BY HistoryDepthFacts DEF EndOf
  <1>2. /\ c \in Seq(Samples) /\ Len(c) = K + 1 /\ c[K + 1] = s
        /\ \A k \in 1..K : c[k] = ring[k]
    BY AppendProperties
  <1>3. /\ b \in Seq(Samples) /\ Len(b) = M + 1 /\ b[M + 1] = s
        /\ \A k \in 1..M : b[k] = all[k]
    BY AppendProperties
  <1>4. r = IF Len(c) > H THEN SubSeq(c, Len(c) - H + 1, Len(c)) ELSE c
    BY DEF Push
  <1>5. \A k \in 1..K : ring[k] = all[M - K + k]
    BY DEF EndOf
  <1> HIDE DEF c, b, r, H, K, M
  <1>6. \A k \in 1..(K + 1) : c[k] = b[M - K + k]
    <2> SUFFICES ASSUME NEW k \in 1..(K + 1) PROVE c[k] = b[M - K + k]
      OBVIOUS
    <2>1. CASE k = K + 1
      <3>1. M - K + k = M + 1
        BY <1>1, <2>1
      <3> QED  BY <1>2, <1>3, <2>1, <3>1
    <2>2. CASE k # K + 1
      <3>1. k \in 1..K /\ M - K + k \in 1..M
        BY <1>1, <2>2
      <3> QED  BY <1>2, <1>3, <1>5, <3>1
    <2> QED  BY <2>1, <2>2
  <1>7. CASE Len(c) > H
    <2>1. K = H /\ Len(c) - H + 1 = 2 /\ Len(c) = H + 1
      BY <1>1, <1>2, <1>7
    <2>2. r = SubSeq(c, 2, H + 1)
      BY <1>4, <1>7, <2>1
    <2>3. /\ r \in Seq(Samples) /\ Len(r) = H
          /\ \A k \in 1..H : r[k] = c[k + 1]
      BY <1>1, <1>2, <2>1, <2>2, WithoutOldest
    <2>4. \A k \in 1..H : r[k] = b[(M + 1) - H + k]
      <3> SUFFICES ASSUME NEW k \in 1..H PROVE r[k] = b[(M + 1) - H + k]
        OBVIOUS
      <3>1. k + 1 \in 1..(K + 1) /\ M - K + (k + 1) = (M + 1) - H + k
        BY <1>1, <2>1
      <3> QED  BY <1>6, <2>3, <3>1
    <2>5. EndOf(r, b)
      BY <1>1, <1>3, <2>1, <2>3, <2>4 DEF EndOf
    <2> QED  BY <1>1, <1>3, <2>3, <2>5 DEF b, r, H
  <1>8. CASE ~(Len(c) > H)
    <2>1. r = c /\ Len(c) <= H
      BY <1>1, <1>2, <1>4, <1>8
    <2>2. K = M \/ Len(c) = H
      BY <1>1, <1>2, <2>1
    <2>3. K = M
      BY <1>1, <1>2, <2>1
    <2>4. Len(c) = Len(b) /\ Len(c) \in Nat /\ Len(b) \in Nat
      BY <1>1, <1>2, <1>3, <2>3
    <2>5. \A k \in 1..Len(c) : c[k] = b[Len(b) - Len(c) + k]
      <3> SUFFICES ASSUME NEW k \in 1..Len(c) PROVE c[k] = b[Len(b) - Len(c) + k]
        OBVIOUS
      <3>1. k \in 1..(K + 1) /\ M - K + k = Len(b) - Len(c) + k
        BY <1>1, <1>2, <1>3
      <3> QED  BY <1>6, <3>1
    <2>6. EndOf(c, b)
      BY <2>4, <2>5 DEF EndOf
    <2> QED  BY <1>2, <1>3, <2>1, <2>4, <2>6 DEF b, r, H
  <1> QED  BY <1>7, <1>8

-----------------------------------------------------------------------------
(* The inductive invariant *)

Kept ==
  /\ TypeOK
  /\ told \in [AlertNames -> UNION {[1..Receivers[a] -> Events \cup {"none"}] : a \in AlertNames}]
  /\ EndOf(history, full)
  /\ Len(history) = Len(full) \/ Len(history) = HistoryDepth

(* Until two notifications of an alert meet, it has at most one in flight. *)
OneInFlight == calm => \A n, m \in tasks : n.alert = m.alert => n = m

(* What is in flight says what is the case, and those it has passed know.  *)
Raising == {"raised", "repeat"}
Carried ==
  (calm /\ starts = 1) =>
    \A n \in tasks : NotifyClear[n.alert] => (n.event \in Raising <=> raised[n.alert])
Knowing ==
  (calm /\ starts = 1) =>
    \A a \in AlertNames : \A r \in 1..Receivers[a] :
      (/\ NotifyClear[a] /\ <<a, r>> \notin missed
       /\ \A n \in tasks : n.alert = a => r < n.next) => Honest(a, r)

AlertsInv == Kept /\ RaisedIsMeant /\ OneInFlight /\ Carried /\ Knowing

LEMMA TaskFacts ==
  ASSUME TypeOK, NEW n \in tasks
  PROVE  /\ n.alert \in AlertNames /\ n.event \in Events /\ n.next \in 1..Receivers[n.alert]
         /\ n = [alert |-> n.alert, event |-> n.event, next |-> n.next]
  <1>1. PICK a \in AlertNames : n \in [alert : {a}, event : Events, next : 1..Receivers[a]]
    BY DEF TypeOK
  <1> QED  BY <1>1

LEMMA EventFacts ==
  ASSUME NEW a \in AlertNames, NEW m \in BOOLEAN, raised[a] \in BOOLEAN
  PROVE  /\ EventOf(a, m) \in Events \cup {"none"}
         /\ EventOf(a, m) # "none" => (EventOf(a, m) \in Raising <=> m)
         /\ (EventOf(a, m) = "none" /\ NotifyClear[a]) => m = raised[a]
         /\ (EventOf(a, m) = "none" /\ m /\ Repeat[a] # 0) => ~(elapsed[a] >= Repeat[a])
  BY AlertsAssumption DEF EventOf, Events, Raising

(* What a new Alerter has. *)
LEMMA AfreshMeant ==
  ASSUME NEW a \in AlertNames
  PROVE  ~Means(Pat[a], Series(Kind[a], <<>>))
  <1>1. <<>> \in Seq(Samples) /\ Len(<<>>) = 0
    OBVIOUS
  <1>2. Len(Series(Kind[a], <<>>)) = 0
    BY <1>1, SeriesFacts
  <1> QED  BY <1>2, AlertsAssumption, MeansNothing

LEMMA AfreshKept ==
  /\ <<>> \in Seq(Samples) /\ Len(<<>>) = 0 /\ 0 <= HistoryDepth /\ EndOf(<<>>, <<>>)
  /\ \A a \in AlertNames : 0 \in 0..Repeat[a]
  /\ [a \in AlertNames |-> FALSE] \in [AlertNames -> BOOLEAN]
  <1>1. <<>> \in Seq(Samples) /\ Len(<<>>) = 0 /\ EndOf(<<>>, <<>>)
    BY DEF EndOf
  <1>2. 0 <= HistoryDepth
    BY HistoryDepthFacts
  <1>3. \A a \in AlertNames : 0 \in 0..Repeat[a]
    BY AlertsAssumption
  <1> QED  BY <1>1, <1>2, <1>3

LEMMA InitAlerts ==
  Init => AlertsInv
  <1> SUFFICES ASSUME Init PROVE AlertsInv
    OBVIOUS
  <1> USE DEF Init, AlerterInit
  <1>1. TypeOK
    <2>1. starts \in 1..MaxStarts
      BY AlertsAssumption
    <2>2. \A a \in AlertNames : elapsed[a] \in 0..Repeat[a]
      BY AfreshKept
    <2>3. \A a \in AlertNames : told[a] \in [1..Receivers[a] -> Events \cup {"none"}]
      OBVIOUS
    <2> QED  BY <2>1, <2>2, <2>3, AfreshKept DEF TypeOK
  <1>2. told \in [AlertNames -> UNION {[1..Receivers[a] -> Events \cup {"none"}] : a \in AlertNames}]
    <2>1. \A a \in AlertNames : [r \in 1..Receivers[a] |-> "none"] \in
                                  [1..Receivers[a] -> Events \cup {"none"}]
      OBVIOUS
    <2> QED  BY <2>1
  <1>3. Kept
    BY <1>1, <1>2, AfreshKept DEF Kept
  <1>4. RaisedIsMeant
    BY AfreshMeant DEF RaisedIsMeant, Means
  <1>5. OneInFlight /\ Carried
    BY DEF OneInFlight, Carried
  <1>6. Knowing
    BY DEF Knowing, Honest
  <1> QED  BY <1>3, <1>4, <1>5, <1>6 DEF AlertsInv

-----------------------------------------------------------------------------
(* Each action keeps it *)

LEMMA RoundKeeps ==
  ASSUME AlertsInv, NEW s \in Samples, Round(s)
  PROVE  AlertsInv'
  <1> DEFINE h == Push(history, s)
             now == [a \in AlertNames |-> Matches(Pat[a], Series(Kind[a], h))]
             event == [a \in AlertNames |-> EventOf(a, now[a])]
             made == {[alert |-> a, event |-> event[a], next |-> 1] :
                        a \in {b \in AlertNames : event[b] # "none"}}
  <1>1. /\ history' = h /\ full' = Append(full, s) /\ raised' = now
        /\ elapsed' = [a \in AlertNames |-> IF event[a] # "none" THEN 0 ELSE elapsed[a]]
        /\ tasks' = tasks \cup made
        /\ calm' = (calm /\ \A n \in made, m \in tasks : n.alert # m.alert)
        /\ UNCHANGED <<starts, told, missed>>
    BY DEF Round
  <1>2. /\ TypeOK /\ Kept /\ EndOf(history, full)
        /\ Len(history) = Len(full) \/ Len(history) = HistoryDepth
    BY DEF AlertsInv, Kept
  <1>3. \A a \in AlertNames : now[a] \in BOOLEAN /\ now[a] = Matches(Pat[a], Series(Kind[a], h))
    BY DEF Matches
  <1>4. \A a \in AlertNames : raised[a] \in BOOLEAN
    BY <1>2 DEF TypeOK
  <1>5. \A a \in AlertNames :
          /\ event[a] \in Events \cup {"none"}
          /\ event[a] # "none" => (event[a] \in Raising <=> now[a])
          /\ (event[a] = "none" /\ NotifyClear[a]) => now[a] = raised[a]
    <2> HIDE DEF now
    <2> QED  BY <1>3, <1>4, EventFacts
  <1>6. \A n : n \in made <=> \E a \in AlertNames :
                 event[a] # "none" /\ n = [alert |-> a, event |-> event[a], next |-> 1]
    OBVIOUS
  <1>7. now \in [AlertNames -> BOOLEAN]
    BY <1>3
  <1> HIDE DEF h, now, event, made
  <1>8. /\ h \in Seq(Samples) /\ full' \in Seq(Samples)
        /\ EndOf(h, full') /\ Len(h) <= HistoryDepth
        /\ Len(h) = Len(full') \/ Len(h) = HistoryDepth
    <2>1. history \in Seq(Samples) /\ full \in Seq(Samples) /\ Len(history) <= HistoryDepth
      BY <1>2 DEF TypeOK
    <2> QED  BY <1>1, <1>2, <2>1, PushKeeps DEF h
  <1>9. Kept'
    <2>1. \A a \in AlertNames : elapsed'[a] \in 0..Repeat[a]
      BY <1>1, <1>2, AfreshKept DEF TypeOK
    <2>2. tasks' \subseteq UNION {[alert : {a}, event : Events, next : 1..Receivers[a]] : a \in AlertNames}
      <3>1. ASSUME NEW n \in made
            PROVE  n \in UNION {[alert : {a}, event : Events, next : 1..Receivers[a]] : a \in AlertNames}
        <4>1. PICK a \in AlertNames : event[a] # "none"
                                      /\ n = [alert |-> a, event |-> event[a], next |-> 1]
          BY <1>6
        <4>2. event[a] \in Events /\ 1 \in 1..Receivers[a]
          BY <1>5, <4>1, AlertsAssumption
        <4>3. n \in [alert : {a}, event : Events, next : 1..Receivers[a]]
          BY <4>1, <4>2
        <4> QED  BY <4>3
      <3> QED  BY <1>1, <1>2, <3>1 DEF TypeOK
    <2>3. calm' \in BOOLEAN
      BY <1>1, <1>2 DEF TypeOK
    <2>4. TypeOK'
      BY <1>1, <1>2, <1>7, <1>8, <2>1, <2>2, <2>3 DEF TypeOK
    <2> QED  BY <1>1, <1>2, <1>8, <2>4 DEF Kept
  <1>10. RaisedIsMeant'
    <2> SUFFICES ASSUME NEW a \in AlertNames
                 PROVE  now[a] = Means(Pat[a], Series(Kind[a], full'))
      BY <1>1 DEF RaisedIsMeant
    <2> DEFINE ring == Series(Kind[a], h)
               all == Series(Kind[a], full')
    <2>1. /\ Len(ring) = Len(h) /\ \A k \in 1..Len(h) :
               ring[k] = IF Kind[a] = "loss" THEN h[k].loss ELSE h[k].median
      BY <1>8, SeriesFacts
    <2>2. /\ Len(all) = Len(full') /\ \A k \in 1..Len(full') :
               all[k] = IF Kind[a] = "loss" THEN full'[k].loss ELSE full'[k].median
      BY <1>8, SeriesFacts
    <2>3. now[a] = Matches(Pat[a], ring)
      BY <1>3
    <2> HIDE DEF ring, all
    <2>4. Len(h) \in Nat /\ Len(full') \in Nat
      BY <1>8
    <2>5. EndOf(ring, all)
      <3> SUFFICES ASSUME NEW k \in 1..Len(h) PROVE ring[k] = all[Len(full') - Len(h) + k]
        BY <1>8, <2>1, <2>2 DEF EndOf
      <3>1. h[k] = full'[Len(full') - Len(h) + k] /\ Len(full') - Len(h) + k \in 1..Len(full')
        BY <1>8, <2>4 DEF EndOf
      <3> QED  BY <2>1, <2>2, <3>1
    <2>6. Pat[a] \in Seq(Element) /\ Depth(Pat[a]) <= HistoryDepth
      BY HistoryDepthFacts
    <2>7. Len(ring) = Len(all) \/ Depth(Pat[a]) <= Len(ring)
      BY <1>8, <2>1, <2>2, <2>6
    <2>8. Means(Pat[a], ring) <=> Means(Pat[a], all)
      BY <2>1, <2>2, <2>4, <2>5, <2>6, <2>7, RingSuffices
    <2>9. Matches(Pat[a], ring) <=> Means(Pat[a], ring)
      BY <2>1, <2>4, <2>6, MatcherRight
    <2>10. Means(Pat[a], all) \in BOOLEAN /\ Matches(Pat[a], ring) \in BOOLEAN
      BY DEF Means, Matches
    <2> QED  BY <2>3, <2>8, <2>9, <2>10 DEF all
  <1>11. calm' => calm /\ \A n \in made, m \in tasks : n.alert # m.alert
    BY <1>1
  <1>12. OneInFlight'
    <2> SUFFICES ASSUME calm', NEW n \in tasks', NEW m \in tasks', n.alert = m.alert
                 PROVE  n = m
      BY DEF OneInFlight
    <2>1. CASE n \in tasks /\ m \in tasks
      BY <1>11, <2>1 DEF AlertsInv, OneInFlight
    <2>2. CASE n \in made /\ m \in made
      BY <1>6, <2>2
    <2> QED  BY <1>1, <1>11, <2>1, <2>2
  <1>13. Carried'
    <2> SUFFICES ASSUME calm', starts = 1, NEW n \in tasks', NotifyClear[n.alert]
                 PROVE  n.event \in Raising <=> now[n.alert]
      BY <1>1 DEF Carried
    <2>1. CASE n \in made
      <3>1. PICK a \in AlertNames : event[a] # "none"
                                    /\ n = [alert |-> a, event |-> event[a], next |-> 1]
        BY <1>6, <2>1
      <3> QED  BY <1>5, <3>1
    <2>2. CASE n \in tasks
      <3>1. n.alert \in AlertNames
        BY <1>2, <2>2, TaskFacts
      <3>2. event[n.alert] = "none"
        <4> SUFFICES ASSUME event[n.alert] # "none" PROVE FALSE
          OBVIOUS
        <4> DEFINE m == [alert |-> n.alert, event |-> event[n.alert], next |-> 1]
        <4>1. m \in made /\ m.alert = n.alert
          BY <1>6, <3>1
        <4> QED  BY <1>11, <2>2, <4>1
      <3>3. n.event \in Raising <=> raised[n.alert]
        BY <1>11, <2>2 DEF AlertsInv, Carried
      <3> QED  BY <1>5, <3>1, <3>2, <3>3
    <2> QED  BY <1>1, <2>1, <2>2
  <1>14. Knowing'
    <2> SUFFICES ASSUME calm', starts = 1, NEW a \in AlertNames, NEW r \in 1..Receivers[a],
                        NotifyClear[a], <<a, r>> \notin missed,
                        \A n \in tasks' : n.alert = a => r < n.next
                 PROVE  told[a][r] \in {"raised", "repeat"} <=> now[a]
      BY <1>1 DEF Knowing, Honest
    <2>1. event[a] = "none"
      <3> SUFFICES ASSUME event[a] # "none" PROVE FALSE
        OBVIOUS
      <3> DEFINE m == [alert |-> a, event |-> event[a], next |-> 1]
      <3>1. m \in tasks' /\ m.alert = a /\ m.next = 1
        BY <1>1, <1>6
      <3>2. r < 1
        BY <3>1
      <3>3. r \in Nat /\ r >= 1
        BY AlertsAssumption
      <3> QED  BY <3>2, <3>3
    <2>2. Honest(a, r)
      BY <1>1, <1>11 DEF AlertsInv, Knowing
    <2> QED  BY <1>5, <2>1, <2>2 DEF Honest
  <1> QED  BY <1>9, <1>10, <1>12, <1>13, <1>14 DEF AlertsInv

LEMMA PassKeeps ==
  ASSUME AlertsInv, Pass
  PROVE  AlertsInv'
  <1>1. \A a \in AlertNames : elapsed'[a] \in 0..Repeat[a]
    <2> SUFFICES ASSUME NEW a \in AlertNames PROVE elapsed'[a] \in 0..Repeat[a]
      OBVIOUS
    <2>1. elapsed[a] \in 0..Repeat[a] /\ Repeat[a] \in Nat
      BY AlertsAssumption DEF AlertsInv, Kept, TypeOK
    <2>2. elapsed'[a] = IF elapsed[a] < Repeat[a] THEN elapsed[a] + 1 ELSE elapsed[a]
      BY DEF Pass
    <2> QED  BY <2>1, <2>2
  <1>2. UNCHANGED <<history, raised, tasks, starts, fed, full, told, missed, calm>>
    BY DEF Pass
  <1>3. Kept'
    <2>1. TypeOK'
      BY <1>1, <1>2 DEF AlertsInv, Kept, TypeOK
    <2> QED  BY <1>2, <2>1 DEF AlertsInv, Kept
  <1> QED  BY <1>2, <1>3 DEF AlertsInv, RaisedIsMeant, OneInFlight, Carried, Knowing, Honest

TellingSet == [AlertNames -> UNION {[1..Receivers[a] -> Events \cup {"none"}] : a \in AlertNames}]

(* What a dispatch leaves right, whether it works or fails: it concerns     *)
(* one receiver, who knows the event now or is among the missed.            *)
LEMMA ServedKeeps ==
  ASSUME AlertsInv, NEW n \in tasks, NextReceiver(n),
         UNCHANGED <<history, raised, elapsed, starts, full, calm>>,
         told' \in TellingSet,
         \A a \in AlertNames : told'[a] \in [1..Receivers[a] -> Events \cup {"none"}],
         \A a \in AlertNames : \A r \in 1..Receivers[a] :
           ~(a = n.alert /\ r = n.next) =>
             told'[a][r] = told[a][r] /\ (<<a, r>> \in missed' <=> <<a, r>> \in missed),
         <<n.alert, n.next>> \in missed' \/ told'[n.alert][n.next] = n.event
  PROVE  AlertsInv'
  <1>1. TypeOK
    BY DEF AlertsInv, Kept
  <1>2. /\ n.alert \in AlertNames /\ n.event \in Events /\ n.next \in 1..Receivers[n.alert]
        /\ n = [alert |-> n.alert, event |-> n.event, next |-> n.next]
    BY <1>1, TaskFacts
  <1>3. Receivers[n.alert] \in Nat
    BY <1>2, AlertsAssumption
  <1> DEFINE after == [n EXCEPT !.next = n.next + 1]
  <1>4. after = [alert |-> n.alert, event |-> n.event, next |-> n.next + 1]
    BY <1>2
  <1>5. tasks' = (tasks \ {n}) \cup (IF n.next < Receivers[n.alert] THEN {after} ELSE {})
    BY DEF NextReceiver
  <1> HIDE DEF after
  <1>6. \A m \in tasks' : (m \in tasks /\ m # n) \/ (m = after /\ n.next < Receivers[n.alert])
    BY <1>5
  <1>7. Kept'
    <2>1. after \in [alert : {n.alert}, event : Events, next : 1..Receivers[n.alert]]
            \/ ~(n.next < Receivers[n.alert])
      BY <1>2, <1>3, <1>4
    <2>2. tasks' \subseteq UNION {[alert : {a}, event : Events, next : 1..Receivers[a]] : a \in AlertNames}
      BY <1>1, <1>2, <1>6, <2>1 DEF TypeOK
    <2>3. TypeOK'
      BY <1>1, <2>2 DEF TypeOK
    <2> QED  BY <2>3 DEF AlertsInv, Kept, TellingSet
  <1>8. RaisedIsMeant'
    BY DEF AlertsInv, RaisedIsMeant
  <1>9. OneInFlight'
    <2> SUFFICES ASSUME calm, NEW m \in tasks', NEW k \in tasks', m.alert = k.alert PROVE m = k
      BY DEF OneInFlight
    <2> QED  BY <1>4, <1>6 DEF AlertsInv, OneInFlight
  <1>10. Carried'
    <2> SUFFICES ASSUME calm, starts = 1, NEW m \in tasks', NotifyClear[m.alert]
                 PROVE  m.event \in Raising <=> raised[m.alert]
      BY DEF Carried
    <2> QED  BY <1>4, <1>6 DEF AlertsInv, Carried
  <1>11. Knowing'
    <2> SUFFICES ASSUME calm, starts = 1, NEW a \in AlertNames, NEW r \in 1..Receivers[a],
                        NotifyClear[a], <<a, r>> \notin missed',
                        \A m \in tasks' : m.alert = a => r < m.next
                 PROVE  told'[a][r] \in {"raised", "repeat"} <=> raised[a]
      BY DEF Knowing, Honest
    <2>1. CASE a = n.alert /\ r = n.next
      BY <2>1 DEF AlertsInv, Carried, Raising
    <2>2. CASE ~(a = n.alert /\ r = n.next)
      <3>1. told'[a][r] = told[a][r] /\ <<a, r>> \notin missed
        BY <2>2
      <3>2. ASSUME NEW m \in tasks, m.alert = a PROVE r < m.next
        <4>1. CASE m # n
          BY <1>5, <3>2, <4>1
        <4>2. CASE m = n /\ n.next < Receivers[n.alert]
          <5>1. r < n.next + 1
            BY <1>4, <1>5, <3>2, <4>2
          <5> QED  BY <1>2, <1>3, <2>2, <3>2, <4>2, <5>1
        <4>3. CASE m = n /\ ~(n.next < Receivers[n.alert])
          BY <1>2, <1>3, <2>2, <3>2, <4>3
        <4> QED  BY <4>1, <4>2, <4>3
      <3>3. Honest(a, r)
        BY <3>1, <3>2 DEF AlertsInv, Knowing
      <3> QED  BY <3>1, <3>3 DEF Honest
    <2> QED  BY <2>1, <2>2
  <1> QED  BY <1>7, <1>8, <1>9, <1>10, <1>11 DEF AlertsInv

LEMMA DispatchKeeps ==
  ASSUME AlertsInv, NEW n \in tasks, Dispatch(n)
  PROVE  AlertsInv'
  <1>1. TypeOK /\ told \in TellingSet
    BY DEF AlertsInv, Kept, TellingSet
  <1>2. n.alert \in AlertNames /\ n.event \in Events /\ n.next \in 1..Receivers[n.alert]
    BY <1>1, TaskFacts
  <1> DEFINE new == [told[n.alert] EXCEPT ![n.next] = n.event]
  <1>3. told' = [told EXCEPT ![n.alert] = new]
    BY DEF Dispatch
  <1>4. \A a \in AlertNames : told[a] \in [1..Receivers[a] -> Events \cup {"none"}]
    BY <1>1 DEF TypeOK
  <1>5. new \in [1..Receivers[n.alert] -> Events \cup {"none"}] /\ new[n.next] = n.event
        /\ \A r \in 1..Receivers[n.alert] : r # n.next => new[r] = told[n.alert][r]
    BY <1>2, <1>4
  <1> HIDE DEF new
  <1>6. \A a \in AlertNames : told'[a] = IF a = n.alert THEN new ELSE told[a]
    BY <1>1, <1>3 DEF TellingSet
  <1>7. /\ told' \in TellingSet
        /\ \A a \in AlertNames : told'[a] \in [1..Receivers[a] -> Events \cup {"none"}]
    BY <1>1, <1>2, <1>3, <1>4, <1>5, <1>6 DEF TellingSet
  <1>8. \A a \in AlertNames : \A r \in 1..Receivers[a] :
           ~(a = n.alert /\ r = n.next) =>
             told'[a][r] = told[a][r] /\ (<<a, r>> \in missed' <=> <<a, r>> \in missed)
    <2>1. missed' = missed \ {<<n.alert, n.next>>}
      BY DEF Dispatch
    <2> QED  BY <1>5, <1>6, <2>1
  <1>9. told'[n.alert][n.next] = n.event
    BY <1>2, <1>5, <1>6
  <1>10. NextReceiver(n) /\ UNCHANGED <<history, raised, elapsed, starts, full, calm>>
    BY DEF Dispatch
  <1> QED  BY <1>7, <1>8, <1>9, <1>10, ServedKeeps

LEMMA DispatchFailsKeeps ==
  ASSUME AlertsInv, NEW n \in tasks, DispatchFails(n)
  PROVE  AlertsInv'
  <1>1. NextReceiver(n) /\ UNCHANGED <<history, raised, elapsed, starts, full, told, calm>>
        /\ missed' = missed \cup {<<n.alert, n.next>>}
    BY DEF DispatchFails
  <1>2. /\ told' \in TellingSet
        /\ \A a \in AlertNames : told'[a] \in [1..Receivers[a] -> Events \cup {"none"}]
    BY <1>1 DEF AlertsInv, Kept, TypeOK, TellingSet
  <1>3. \A a \in AlertNames : \A r \in 1..Receivers[a] :
           ~(a = n.alert /\ r = n.next) =>
             told'[a][r] = told[a][r] /\ (<<a, r>> \in missed' <=> <<a, r>> \in missed)
    BY <1>1
  <1>4. <<n.alert, n.next>> \in missed'
    BY <1>1
  <1> QED  BY <1>1, <1>2, <1>3, <1>4, ServedKeeps

LEMMA AfreshKeeps ==
  ASSUME AlertsInv, Reload \/ Restart
  PROVE  AlertsInv'
  <1>1. /\ starts < MaxStarts /\ starts' = starts + 1
        /\ history' = <<>> /\ full' = <<>>
        /\ raised' = [a \in AlertNames |-> FALSE] /\ elapsed' = [a \in AlertNames |-> 0]
        /\ tasks' \subseteq tasks /\ UNCHANGED <<told, calm>>
    BY DEF Reload, Restart
  <1>2. TypeOK
    BY DEF AlertsInv, Kept
  <1>3. starts' \in 1..MaxStarts /\ starts' # 1
    BY <1>1, <1>2, AlertsAssumption DEF TypeOK
  <1>4. Kept'
    <2>1. \A a \in AlertNames : elapsed'[a] \in 0..Repeat[a]
      BY <1>1, AfreshKept
    <2>2. history' \in Seq(Samples) /\ Len(history') <= HistoryDepth /\ full' \in Seq(Samples)
          /\ raised' \in [AlertNames -> BOOLEAN] /\ EndOf(history', full')
          /\ Len(history') = Len(full')
      BY <1>1, AfreshKept
    <2>3. TypeOK'
      BY <1>1, <1>2, <1>3, <2>1, <2>2 DEF TypeOK
    <2> QED  BY <1>1, <2>2, <2>3 DEF AlertsInv, Kept
  <1>5. RaisedIsMeant'
    BY <1>1, AfreshMeant DEF RaisedIsMeant, Means
  <1>6. OneInFlight'
    BY <1>1 DEF AlertsInv, OneInFlight
  <1> QED  BY <1>3, <1>4, <1>5, <1>6 DEF AlertsInv, Carried, Knowing

LEMMA NextAlerts ==
  AlertsInv /\ [Next]_vars => AlertsInv'
  <1> SUFFICES ASSUME AlertsInv, [Next]_vars PROVE AlertsInv'
    OBVIOUS
  <1>1. CASE UNCHANGED vars
    BY <1>1 DEF vars, AlertsInv, Kept, TypeOK, RaisedIsMeant, OneInFlight, Carried, Knowing, Honest
  <1> QED  BY <1>1, RoundKeeps, PassKeeps, DispatchKeeps, DispatchFailsKeeps, AfreshKeeps DEF Next

-----------------------------------------------------------------------------
(* The theorems *)

LEMMA AlertsKept ==
  Spec => []AlertsInv
  BY InitAlerts, NextAlerts, PTL DEF Spec

(* Every variable keeps its type, and the ring of rounds (process_round)    *)
(* never outgrows the deepest pattern.                                      *)
THEOREM AlertTypes ==
  Spec => []TypeOK
  <1>1. AlertsInv => TypeOK
    BY DEF AlertsInv, Kept
  <1> QED  BY <1>1, AlertsKept, PTL

(* For any patterns that Pattern::parse lets through and any rounds, an     *)
(* alert is raised exactly when its pattern matches the rounds since the    *)
(* start: rec's backtracking misses no way to match and finds none that is  *)
(* not there, and the rounds process_round drops were out of its sight.     *)
THEOREM RaisedMeant ==
  Spec => []RaisedIsMeant
  <1>1. AlertsInv => RaisedIsMeant
    BY DEF AlertsInv
  <1> QED  BY <1>1, AlertsKept, PTL

(* A receiver whose last dispatch worked was told the truth last, whatever  *)
(* the other receivers' dispatches did, once nothing of the alert is in     *)
(* flight - as long as no two of its notifications were, and no reload      *)
(* forgot it (emit, dispatch).                                              *)
THEOREM LastWord ==
  Spec => []LastWordIsTrue
  <1>1. AlertsInv => LastWordIsTrue
    BY DEF AlertsInv, Knowing, LastWordIsTrue
  <1> QED  BY <1>1, AlertsKept, PTL

(* A round that finds an alert still raised reminds its receivers as soon   *)
(* as repeat_every is over, so that less of it has passed after every round *)
(* (process_round).                                                         *)
THEOREM StillRepeated ==
  Spec => StillRaisedIsRepeated
  <1> DEFINE A == full' # full =>
                    \A a \in AlertNames : (raised'[a] /\ Repeat[a] # 0) => elapsed'[a] < Repeat[a]
  <1>1. ASSUME AlertsInv, [Next]_vars PROVE [A]_vars
    <2>1. ASSUME NEW s \in Samples, Round(s) PROVE A
      <3> SUFFICES ASSUME NEW a \in AlertNames, raised'[a], Repeat[a] # 0
                   PROVE  elapsed'[a] < Repeat[a]
        OBVIOUS
      <3> DEFINE m == Matches(Pat[a], Series(Kind[a], Push(history, s)))
                 e == EventOf(a, m)
      <3>1. raised'[a] = m /\ elapsed'[a] = IF e # "none" THEN 0 ELSE elapsed[a]
        BY <2>1 DEF Round
      <3>2. m \in BOOLEAN /\ raised[a] \in BOOLEAN
        BY <1>1 DEF Matches, AlertsInv, Kept, TypeOK
      <3> HIDE DEF m
      <3>3. e = "none" => ~(elapsed[a] >= Repeat[a])
        BY <3>1, <3>2, EventFacts
      <3>4. elapsed[a] \in Nat /\ Repeat[a] \in Nat
        BY <1>1, AlertsAssumption DEF AlertsInv, Kept, TypeOK
      <3> QED  BY <3>1, <3>3, <3>4
    <2>2. CASE Reload \/ Restart
      BY <2>2 DEF Reload, Restart
    <2>3. CASE Pass \/ (\E n \in tasks : Dispatch(n) \/ DispatchFails(n)) \/ UNCHANGED vars
      BY <2>3 DEF Pass, Dispatch, DispatchFails, vars
    <2> QED  BY <1>1, <2>1, <2>2, <2>3 DEF Next
  <1> QED  BY <1>1, AlertsKept, PTL DEF Spec, StillRaisedIsRepeated
=============================================================================
