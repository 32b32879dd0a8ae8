---------------------------- MODULE SeriesProofs ----------------------------
(***************************************************************************)
(* Proofs of Series, SeriesFetch and SeriesSteps for every archive table,  *)
(* clock range, set of values and query.  The inductive invariant Inv says *)
(* of each archive that the window in progress is the newest round's, that *)
(* every row lies in its slot and behind that window, and that the rows of *)
(* the newest windows are all there.                                       *)
(*                                                                         *)
(* A query is right because of what is shown of every reachable state:     *)
(* rows say the truth (RowsFaithful) and those of the newest ring are all  *)
(* there (RowsRetained).  What is added is the arithmetic of a query:      *)
(* which archive is chosen, and how many points a stride leaves.           *)
(*                                                                         *)
(* The last part is about SeriesSteps: until a call is killed, the stores  *)
(* of record add up to one atomic Record; after any number of kills, what  *)
(* is lost is bounded, archive by archive, by the windows that were hit.   *)
(***************************************************************************)
EXTENDS SeriesFetch, SeriesSteps, FoldTheorems

-----------------------------------------------------------------------------
(* Windows and slots *)

LEMMA DivMod ==
  ASSUME NEW n \in Nat, NEW p \in Nat \ {0}
  PROVE  /\ n \div p \in Nat /\ n % p \in 0..(p - 1)
         /\ n = p * (n \div p) + (n % p)
  OBVIOUS

LEMMA MulMono ==
  ASSUME NEW p \in Nat \ {0}, NEW i \in Nat, NEW j \in Nat
  PROVE  /\ p * i \in Nat
         /\ i < j => p * i + p <= p * j
         /\ p * i < p * j => i < j
         /\ p * j = p * i + p * (j - i)
  OBVIOUS

LEMMA DivUnique ==
  ASSUME NEW n \in Nat, NEW p \in Nat \ {0}, NEW k \in Nat,
         p * k <= n, n < p * k + p
  PROVE  n \div p = k
  OBVIOUS

LEMMA SameRemainder ==
  ASSUME NEW i \in Nat, NEW j \in Nat, NEW n \in Nat \ {0},
         i % n = j % n, i < j
  PROVE  i + n <= j
  <1> DEFINE b == i \div n
             c == j \div n
             r == i % n
  <1>1. b \in Nat /\ r \in 0..(n - 1) /\ i = n * b + r
    BY DivMod
  <1>2. c \in Nat /\ j = n * c + r
    BY DivMod
  <1> HIDE DEF b, c, r
  <1> DEFINE x == n * b
             y == n * c
  <1>3. x \in Nat /\ y \in Nat /\ i = x + r /\ j = y + r /\ r \in Nat
    BY <1>1, <1>2
  <1>4. x < y => x + n <= y
    BY <1>1, <1>2, MulMono
  <1> HIDE DEF x, y
  <1> QED  BY <1>3, <1>4

LEMMA ArchiveType ==
  ASSUME NEW a \in Archives
  PROVE  /\ Rras[a].steps \in Nat \ {0} /\ Rras[a].rows \in Nat \ {0}
         /\ Rras[a].cf \in Cfs /\ Rras[a].xff \in Nat
  <1>1. Rras[a] \in RraSpec
    BY RrasAssumption DEF Archives
  <1> QED  BY <1>1 DEF RraSpec

(* A window is the multiple of its period that holds its rounds. *)
LEMMA WindowBounds ==
  ASSUME NEW a \in Archives, NEW t \in Nat
  PROVE  /\ Window(a, t) \in Nat
         /\ Window(a, t) <= t /\ t < Window(a, t) + Rras[a].steps
         /\ t \div Rras[a].steps \in Nat
         /\ Window(a, t) = Rras[a].steps * (t \div Rras[a].steps)
  <1> DEFINE p == Rras[a].steps
             q == t \div p
             r == t % p
  <1>1. p \in Nat \ {0}
    BY ArchiveType
  <1>2. q \in Nat /\ r \in 0..(p - 1) /\ t = p * q + r
    BY <1>1, DivMod
  <1>3. Window(a, t) = t - r
    BY DEF Window
  <1>4. p * q \in Nat
    BY <1>1, <1>2
  <1> HIDE DEF p, q, r
  <1>5. Window(a, t) = p * q
    BY <1>1, <1>2, <1>3, <1>4
  <1> QED  BY <1>1, <1>2, <1>3, <1>4, <1>5 DEF p, q

(* Rounds between two rounds of a window belong to it. *)
LEMMA WindowUnique ==
  ASSUME NEW a \in Archives, NEW t \in Nat, NEW u \in Nat,
         Window(a, u) <= t, t < Window(a, u) + Rras[a].steps
  PROVE  Window(a, t) = Window(a, u)
  <1> DEFINE p == Rras[a].steps
             k == u \div p
  <1>1. p \in Nat \ {0}
    BY ArchiveType
  <1>2. k \in Nat /\ Window(a, u) = p * k
    BY WindowBounds
  <1> HIDE DEF k
  <1>3. t \div p = k
    BY <1>1, <1>2, DivUnique
  <1> QED  BY <1>2, <1>3, WindowBounds

LEMMA WindowIdempotent ==
  ASSUME NEW a \in Archives, NEW t \in Nat
  PROVE  Window(a, Window(a, t)) = Window(a, t)
  BY ArchiveType, WindowBounds, WindowUnique

LEMMA WindowMonotone ==
  ASSUME NEW a \in Archives, NEW t \in Nat, NEW u \in Nat, u <= t
  PROVE  Window(a, u) <= Window(a, t)
  <1>1. SUFFICES ASSUME Window(a, t) < Window(a, u) PROVE FALSE
    BY WindowBounds
  <1>2. Window(a, u) <= t /\ t < Window(a, u) + Rras[a].steps
    <2>1. Rras[a].steps \in Nat
      BY ArchiveType
    <2>2. Window(a, u) \in Nat /\ Window(a, u) <= u
      BY WindowBounds
    <2>3. Window(a, t) \in Nat /\ t < Window(a, t) + Rras[a].steps
      BY WindowBounds
    <2> QED  BY <1>1, <2>1, <2>2, <2>3
  <1>3. Window(a, t) = Window(a, u)
    BY <1>2, WindowUnique
  <1> QED  BY <1>1, <1>3, WindowBounds

LEMMA SlotType ==
  ASSUME NEW a \in Archives, NEW w \in Nat
  PROVE  SlotOf(a, w) \in Slots(a)
  <1> Rras[a].steps \in Nat \ {0} /\ Rras[a].rows \in Nat \ {0}
    BY ArchiveType
  <1> QED  BY DivMod DEF SlotOf, Slots

(* Two windows that share a slot are at least a whole ring apart. *)
LEMMA SlotsApart ==
  ASSUME NEW a \in Archives, NEW u \in Nat, NEW w \in Nat,
         Window(a, u) = u, Window(a, w) = w,
         SlotOf(a, u) = SlotOf(a, w), u < w
  PROVE  u + Rras[a].rows * Rras[a].steps <= w
  <1> DEFINE p == Rras[a].steps
             n == Rras[a].rows
             i == u \div p
             j == w \div p
  <1>1. p \in Nat \ {0} /\ n \in Nat \ {0}
    BY ArchiveType
  <1>2. i \in Nat /\ u = p * i /\ j \in Nat /\ w = p * j
    BY WindowBounds
  <1>3. i % n = j % n
    BY DEF SlotOf
  <1> HIDE DEF p, n, i, j
  <1>4. i < j
    BY <1>1, <1>2, MulMono
  <1>5. i + n <= j
    BY <1>1, <1>2, <1>3, <1>4, SameRemainder
  <1>6. p * i + p * n <= p * j
    <2>1. i + n \in Nat /\ j - (i + n) \in Nat
      BY <1>1, <1>2, <1>5
    <2>2. p * j = p * (i + n) + p * (j - (i + n))
      BY <1>1, <1>2, <2>1, MulMono
    <2>3. p * (j - (i + n)) \in Nat /\ p * (i + n) = p * i + p * n
      BY <1>1, <1>2, <2>1
    <2> QED  BY <1>1, <1>2, <2>1, <2>2, <2>3
  <1>7. p * n = n * p
    BY <1>1
  <1> QED  BY <1>2, <1>6, <1>7 DEF p, n
-----------------------------------------------------------------------------
(* The inductive invariant *)

(* An accumulator that has counted a value holds one. *)
AccKnown == \A a \in Archives : acc[a].count > 0 => acc[a].val # NaN

(* No slot after the newest accepted one has been accepted. *)
HistoryBound ==
  \A t \in Times : accepted[t] # Absent => lastUpdate # 0 /\ t <= lastUpdate

Inv ==
  /\ TypeOK /\ AccKnown /\ HistoryBound
  /\ AccFaithful /\ RowsPlaced /\ RowsRetained

LEMMA TimesNat == Times \subseteq Nat /\ 0 \notin Times
  BY TimeAssumption DEF Times

(* A round's own window starts after the epoch. *)
LEMMA WindowPositive ==
  ASSUME NEW a \in Archives, NEW t \in Times
  PROVE  Window(a, t) \in Nat \ {0}
  <1> DEFINE p == Rras[a].steps
  <1>1. p \in Nat \ {0} /\ p <= MinTime /\ MinTime <= t /\ t \in Nat /\ MinTime \in Nat
    BY ArchiveType, TimeAssumption, TimesNat DEF Times
  <1>2. Window(a, t) \in Nat /\ t < Window(a, t) + p
    BY <1>1, WindowBounds
  <1> HIDE DEF p
  <1> QED  BY <1>1, <1>2

LEMMA CombineType ==
  ASSUME NEW cf \in Cfs, NEW cur \in Int \cup {NaN}, NEW v \in Int
  PROVE  Combine(cf, cur, v) \in Int
  BY ValuesAssumption DEF Combine, Cfs

LEMMA RowOfType ==
  ASSUME NEW a \in Archives, NEW val \in Int \cup {NaN}, NEW n \in Nat,
         n > 0 => val # NaN
  PROVE  RowOf(a, val, n) \in RowVal
  BY DEF RowOf, RowVal, Mean, TooSparse

LEMMA FinalizeType ==
  ASSUME NEW a \in Archives, NEW r \in [Slots(a) -> RowOK], NEW c \in AccOK,
         NEW w \in Nat, c.count > 0 => c.val # NaN
  PROVE  /\ Finalize(a, r, c, w) \in [Slots(a) -> RowOK]
         /\ Finalize(a, r, c, w)[SlotOf(a, w)].ts = w
         /\ \A s \in Slots(a) : s # SlotOf(a, w) => Finalize(a, r, c, w)[s] = r[s]
  <1>1. c.val \in Int \cup {NaN} /\ c.count \in Nat
    BY DEF AccOK
  <1>2. RowOf(a, c.val, c.count) \in RowVal
    BY <1>1, RowOfType
  <1>3. [ts |-> w, val |-> RowOf(a, c.val, c.count)] \in RowOK
    BY <1>2 DEF RowOK
  <1>4. SlotOf(a, w) \in Slots(a)
    BY SlotType
  <1> QED  BY <1>3, <1>4 DEF Finalize

LEMMA FreshAccType ==
  ASSUME NEW a \in Archives, NEW w \in Nat
  PROVE  /\ FreshAcc(a, w) \in AccOK
         /\ FreshAcc(a, w).start = w /\ FreshAcc(a, w).count = 0
  BY DEF FreshAcc, AccOK

LEMMA AccumulateType ==
  ASSUME NEW a \in Archives, NEW c \in AccOK, NEW v \in Values \cup {NaN},
         c.count > 0 => c.val # NaN
  PROVE  /\ Accumulate(a, c, v) \in AccOK
         /\ Accumulate(a, c, v).count > 0 => Accumulate(a, c, v).val # NaN
         /\ Accumulate(a, c, v).start = c.start
         /\ Accumulate(a, c, v).count = c.count + (IF v = NaN THEN 0 ELSE 1)
  <1>0. c.count \in Nat /\ c.val \in Int \cup {NaN} /\ c.start \in Nat \cup {Empty}
    BY DEF AccOK
  <1>1. CASE v = NaN
    BY <1>0, <1>1 DEF Accumulate
  <1>2. CASE v # NaN
    <2>1. v \in Int /\ Combine(Rras[a].cf, c.val, v) \in Int
      BY <1>0, <1>2, ArchiveType, CombineType, ValuesAssumption
    <2>2. Accumulate(a, c, v) =
            [start |-> c.start, val |-> Combine(Rras[a].cf, c.val, v), count |-> c.count + 1]
      BY <1>2 DEF Accumulate, AccOK
    <2> QED  BY <1>0, <1>2, <2>1, <2>2, ValuesAssumption DEF AccOK
  <1> QED  BY <1>1, <1>2

-----------------------------------------------------------------------------
(* One archive during record *)

(* The window in progress is the new round's, or ended before it began. *)
LEMMA Roll ==
  ASSUME Inv, NEW t \in Times, lastUpdate = 0 \/ t > lastUpdate, NEW a \in Archives
  PROVE  IF acc[a].start = Window(a, t)
         THEN lastUpdate # 0 /\ Window(a, lastUpdate) = Window(a, t)
         ELSE lastUpdate < Window(a, t)
  <1> DEFINE W == Window(a, t)
             p == Rras[a].steps
  <1>1. /\ t \in Nat /\ lastUpdate \in Nat /\ p \in Nat \ {0}
        /\ W \in Nat \ {0} /\ t < W + p
    BY TimesNat, WindowPositive, WindowBounds, ArchiveType DEF Inv, TypeOK
  <1>2. lastUpdate # 0 /\ W <= lastUpdate => Window(a, lastUpdate) = W
    BY <1>1, WindowUnique
  <1>3. CASE acc[a].start = Empty
    <2>1. acc[a].start # W
      BY <1>1, <1>3, ValuesAssumption
    <2>2. lastUpdate = 0 \/ lastUpdate - Window(a, lastUpdate) = p - 1
      BY <1>3 DEF Inv, AccFaithful, AccOpen, Completes
    <2> HIDE DEF W, p
    <2>3. lastUpdate < W
      BY <1>1, <1>2, <2>2
    <2> QED  BY <2>1, <2>3 DEF W
  <1>4. CASE acc[a].start # Empty
    <2>1. lastUpdate # 0 /\ acc[a].start = Window(a, lastUpdate)
      BY <1>4 DEF Inv, AccFaithful, AccOpen
    <2> QED  BY <1>1, <1>2, <2>1
  <1> QED  BY <1>3, <1>4

LEMMA RolledAccType ==
  ASSUME Inv, NEW t \in Times, NEW a \in Archives
  PROVE  /\ RolledAcc(a, t) \in AccOK
         /\ RolledAcc(a, t).start = Window(a, t)
         /\ RolledAcc(a, t).count > 0 => RolledAcc(a, t).val # NaN
  <1>1. Window(a, t) \in Nat
    BY WindowPositive
  <1>2. acc[a] \in AccOK /\ (acc[a].count > 0 => acc[a].val # NaN)
    BY DEF Inv, TypeOK, AccKnown
  <1> QED  BY <1>1, <1>2, FreshAccType DEF RolledAcc

(* Rows r of archive a lie in their slots, behind window w. *)
Behind(a, r, w) ==
  \A s \in Slots(a) :
    r[s].ts # 0 => /\ Window(a, r[s].ts) = r[s].ts
                   /\ SlotOf(a, r[s].ts) = s
                   /\ r[s].ts < w

(* Rows r hold every window that had a round before w, back to a ring's    *)
(* length.                                                                 *)
Holds(a, r, w) ==
  \A u \in Times :
    LET x == Window(a, u) IN
    (HasRound(a, x) /\ x < w /\ w - Rras[a].rows * Rras[a].steps < x)
      => r[SlotOf(a, x)].ts = x

LEMMA RolledRowsFacts ==
  ASSUME Inv, NEW t \in Times, lastUpdate = 0 \/ t > lastUpdate, NEW a \in Archives
  PROVE  /\ RolledRows(a, t) \in [Slots(a) -> RowOK]
         /\ \A s \in Slots(a) : row[a][s].ts <= RolledRows(a, t)[s].ts
         /\ Behind(a, RolledRows(a, t), Window(a, t))
         /\ Holds(a, RolledRows(a, t), Window(a, t))
  <1> DEFINE W == Window(a, t)
             R == Rras[a].rows * Rras[a].steps
             L == Window(a, lastUpdate)
             rr == RolledRows(a, t)
  <1>1. /\ t \in Nat /\ lastUpdate \in Nat /\ W \in Nat \ {0} /\ L \in Nat /\ R \in Nat
        /\ L <= lastUpdate
    <2>1. Rras[a].rows \in Nat /\ Rras[a].steps \in Nat
      BY ArchiveType
    <2>2. R \in Nat
      BY <2>1
    <2>3. t \in Nat /\ lastUpdate \in Nat
      BY TimesNat DEF Inv, TypeOK
    <2> HIDE DEF R
    <2> QED  BY <2>2, <2>3, WindowPositive, WindowBounds
  <1>2. row[a] \in [Slots(a) -> RowOK] /\ acc[a] \in AccOK
    BY DEF Inv, TypeOK
  <1>3. \A s \in Slots(a) : row[a][s].ts \in Nat
    BY <1>2 DEF RowOK
  <1>4. \A s \in Slots(a) :
          row[a][s].ts # 0 => /\ Window(a, row[a][s].ts) = row[a][s].ts
                              /\ SlotOf(a, row[a][s].ts) = s
                              /\ row[a][s].ts <= lastUpdate
                              /\ acc[a].start # Empty => row[a][s].ts < acc[a].start
    BY DEF Inv, RowsPlaced
  (* A window with a round is no younger than the newest round's. *)
  <1>5. \A u \in Times : HasRound(a, Window(a, u)) =>
          lastUpdate # 0 /\ Window(a, u) <= L
    <2> SUFFICES ASSUME NEW u \in Times, HasRound(a, Window(a, u))
                 PROVE  lastUpdate # 0 /\ Window(a, u) <= L
      OBVIOUS
    <2>1. PICK v \in Times : /\ Window(a, u) <= v /\ v < Window(a, u) + Rras[a].steps
                             /\ accepted[v] # Absent
      BY DEF HasRound, InWindow
    <2>2. lastUpdate # 0 /\ v <= lastUpdate
      BY <2>1 DEF Inv, HistoryBound
    <2>3. v \in Nat /\ u \in Nat
      BY TimesNat
    <2>4. Window(a, v) = Window(a, u)
      BY <2>1, <2>3, WindowUnique
    <2> QED  BY <1>1, <2>2, <2>3, <2>4, WindowMonotone
  (* Settled windows of the newest ring are in row. *)
  <1>6. \A u \in Times : LET x == Window(a, u) IN
          (Settled(a, x) /\ x > L - R) => row[a][SlotOf(a, x)].ts = x
    BY DEF Inv, RowsRetained
  <1>7. CASE acc[a].start = W
    <2>1. L = W /\ rr = row[a]
      BY <1>7, Roll DEF RolledRows
    <2>2. acc[a].start # Empty
      BY <1>1, <1>7, ValuesAssumption
    <2>3. Behind(a, rr, W)
      BY <1>4, <1>7, <2>1, <2>2 DEF Behind
    <2>4. Holds(a, rr, W)
      BY <1>6, <2>1 DEF Holds, Settled
    <2> QED  BY <1>2, <1>3, <2>1, <2>3, <2>4
  <1>8. CASE acc[a].start # W /\ acc[a].start = Empty
    <2>1. lastUpdate < W /\ rr = row[a]
      BY <1>8, Roll DEF RolledRows
    <2>2. Behind(a, rr, W)
      BY <1>1, <1>3, <1>4, <2>1 DEF Behind
    <2>3. lastUpdate = 0 \/ lastUpdate = L + Rras[a].steps - 1
      <3>1. lastUpdate = 0 \/ lastUpdate - L = Rras[a].steps - 1
        BY <1>8 DEF Inv, AccFaithful, AccOpen, Completes
      <3>2. Rras[a].steps \in Nat
        BY ArchiveType
      <3> QED  BY <1>1, <3>1, <3>2
    <2>4. Holds(a, rr, W)
      <3> SUFFICES ASSUME NEW u \in Times, HasRound(a, Window(a, u)),
                          Window(a, u) < W, W - R < Window(a, u)
                   PROVE  row[a][SlotOf(a, Window(a, u))].ts = Window(a, u)
        BY <2>1 DEF Holds
      <3>1. lastUpdate # 0 /\ Window(a, u) <= L /\ Window(a, u) \in Nat
        BY <1>5, WindowPositive
      <3>2. Settled(a, Window(a, u))
        BY <1>1, <2>3, <3>1 DEF Settled
      <3>3. Window(a, u) > L - R
        BY <1>1, <2>1, <3>1
      <3> QED  BY <1>6, <3>2, <3>3
    <2> QED  BY <1>2, <1>3, <2>1, <2>2, <2>4
  <1>9. CASE acc[a].start # W /\ acc[a].start # Empty
    <2>1. /\ lastUpdate < W /\ acc[a].start = L
          /\ rr = Finalize(a, row[a], acc[a], L)
      BY <1>9, Roll DEF RolledRows, Inv, AccFaithful, AccOpen
    <2>2. /\ rr \in [Slots(a) -> RowOK]
          /\ rr[SlotOf(a, L)].ts = L
          /\ \A s \in Slots(a) : s # SlotOf(a, L) => rr[s] = row[a][s]
      BY <1>1, <1>2, <2>1, FinalizeType DEF Inv, AccKnown
    <2>3. Window(a, L) = L
      BY <1>1, WindowIdempotent
    <2>4. \A s \in Slots(a) : row[a][s].ts <= rr[s].ts
      BY <1>1, <1>3, <1>4, <1>9, <2>1, <2>2
    <2>5. Behind(a, rr, W)
      BY <1>1, <1>3, <1>4, <2>1, <2>2, <2>3 DEF Behind
    <2>6. Holds(a, rr, W)
      <3> SUFFICES ASSUME NEW u \in Times, HasRound(a, Window(a, u)),
                          Window(a, u) < W, W - R < Window(a, u)
                   PROVE  rr[SlotOf(a, Window(a, u))].ts = Window(a, u)
        BY DEF Holds
      <3> DEFINE x == Window(a, u)
      <3>1. x <= L /\ x \in Nat /\ Window(a, x) = x /\ SlotOf(a, x) \in Slots(a)
        BY <1>5, WindowPositive, TimesNat, WindowIdempotent, SlotType
      <3>2. CASE x = L
        BY <2>2, <3>2
      <3>3. CASE x < L
        <4>1. Settled(a, x) /\ x > L - R
          BY <1>1, <2>1, <3>1, <3>3 DEF Settled
        <4>2. row[a][SlotOf(a, x)].ts = x
          BY <1>6, <4>1
        <4>3. SlotOf(a, x) # SlotOf(a, L)
          <5>1. SlotOf(a, x) = SlotOf(a, L) => x + R <= L
            BY <1>1, <2>3, <3>1, <3>3, SlotsApart
          <5> HIDE DEF x, W, R, L
          <5> QED  BY <1>1, <2>1, <3>1, <4>1, <5>1
        <4> QED  BY <2>2, <3>1, <4>2, <4>3
      <3> HIDE DEF x, W, R, L
      <3>4. x = L \/ x < L
        BY <1>1, <3>1
      <3> QED  BY <3>2, <3>3, <3>4 DEF x
    <2> QED  BY <2>2, <2>4, <2>5, <2>6
  <1> QED  BY <1>7, <1>8, <1>9

LEMMA NextRowsFacts ==
  ASSUME Inv, NEW t \in Times, lastUpdate = 0 \/ t > lastUpdate,
         NEW a \in Archives, NEW v \in Values \cup {NaN}
  PROVE  /\ NextRows(a, t, v) \in [Slots(a) -> RowOK]
         /\ \A s \in Slots(a) : row[a][s].ts <= NextRows(a, t, v)[s].ts
         /\ Behind(a, NextRows(a, t, v), t + 1)
         /\ ~Completes(a, t) => Behind(a, NextRows(a, t, v), Window(a, t))
         /\ Holds(a, NextRows(a, t, v), Window(a, t))
         /\ Completes(a, t) => NextRows(a, t, v)[SlotOf(a, Window(a, t))].ts = Window(a, t)
  <1> DEFINE W == Window(a, t)
             R == Rras[a].rows * Rras[a].steps
             rr == RolledRows(a, t)
             nr == NextRows(a, t, v)
             c == Accumulate(a, RolledAcc(a, t), v)
  <1>1. /\ rr \in [Slots(a) -> RowOK]
        /\ \A s \in Slots(a) : row[a][s].ts <= rr[s].ts
        /\ Behind(a, rr, W) /\ Holds(a, rr, W)
    BY RolledRowsFacts
  <1>2. /\ t \in Nat /\ W \in Nat \ {0} /\ W <= t
        /\ Window(a, W) = W
    BY TimesNat, WindowPositive, WindowBounds, WindowIdempotent
  <1>3. R \in Nat
    <2>1. Rras[a].rows \in Nat /\ Rras[a].steps \in Nat
      BY ArchiveType
    <2> QED  BY <2>1
  <1>4. \A s \in Slots(a) : row[a][s].ts \in Nat /\ rr[s].ts \in Nat
    BY <1>1 DEF Inv, TypeOK, RowOK
  <1>5. CASE ~Completes(a, t)
    <2>1. nr = rr
      BY <1>5 DEF NextRows
    <2>2. Behind(a, rr, t + 1)
      BY <1>1, <1>2, <1>4 DEF Behind
    <2> QED  BY <1>1, <1>5, <2>1, <2>2
  <1>6. CASE Completes(a, t)
    <2>1. nr = Finalize(a, rr, c, W)
      BY <1>6 DEF NextRows
    <2>2. c \in AccOK /\ (c.count > 0 => c.val # NaN)
      BY RolledAccType, AccumulateType
    <2>3. /\ nr \in [Slots(a) -> RowOK]
          /\ nr[SlotOf(a, W)].ts = W
          /\ \A s \in Slots(a) : s # SlotOf(a, W) => nr[s] = rr[s]
      BY <1>1, <1>2, <2>1, <2>2, FinalizeType
    <2>4. \A s \in Slots(a) : rr[s].ts <= nr[s].ts
      BY <1>1, <1>2, <1>4, <2>3 DEF Behind
    <2>5. \A s \in Slots(a) : row[a][s].ts <= nr[s].ts
      <3>1. \A s \in Slots(a) : nr[s].ts \in Nat
        BY <2>3 DEF RowOK
      <3> QED  BY <1>1, <1>4, <2>4, <3>1
    <2>6. Behind(a, nr, t + 1)
      BY <1>1, <1>2, <1>4, <2>3 DEF Behind
    <2>7. Holds(a, nr, W)
      <3> SUFFICES ASSUME NEW u \in Times, HasRound(a, Window(a, u)),
                          Window(a, u) < W, W - R < Window(a, u)
                   PROVE  nr[SlotOf(a, Window(a, u))].ts = Window(a, u)
        BY DEF Holds
      <3> DEFINE x == Window(a, u)
      <3>1. rr[SlotOf(a, x)].ts = x
        BY <1>1 DEF Holds
      <3>2. x \in Nat /\ Window(a, x) = x /\ SlotOf(a, x) \in Slots(a)
        BY WindowPositive, TimesNat, WindowIdempotent, SlotType
      <3>3. SlotOf(a, x) = SlotOf(a, W) => x + R <= W
        BY <1>2, <3>2, SlotsApart
      <3>4. SlotOf(a, x) # SlotOf(a, W)
        <4> HIDE DEF x, W, R
        <4>1. W - R < x
          BY DEF x, W, R
        <4> QED  BY <1>2, <1>3, <3>2, <3>3, <4>1
      <3> QED  BY <2>3, <3>1, <3>2, <3>4
    <2> QED  BY <1>6, <2>3, <2>5, <2>6, <2>7
  <1> QED  BY <1>5, <1>6

(* The rounds of a window that are known once the round of slot t is too. *)
LEMMA KnownStep ==
  ASSUME Inv, NEW t \in Times, lastUpdate = 0 \/ t > lastUpdate,
         NEW a \in Archives, NEW v \in Values \cup {NaN}, Record(t, v)
  PROVE  /\ IF v = NaN THEN KnownIn(a, Window(a, t))' = KnownIn(a, Window(a, t))
                       ELSE KnownIn(a, Window(a, t))' = KnownIn(a, Window(a, t)) \cup {t}
         /\ t \notin KnownIn(a, Window(a, t))
         /\ IsFiniteSet(KnownIn(a, Window(a, t)))
         /\ lastUpdate < Window(a, t) => KnownIn(a, Window(a, t)) = {}
  <1> DEFINE W == Window(a, t)
             K == KnownIn(a, W)
  <1>1. accepted \in [Times -> Values \cup {NaN, Absent}]
        /\ accepted' = [accepted EXCEPT ![t] = v]
    BY DEF Record, Inv, TypeOK
  <1>2. t \in Nat /\ lastUpdate \in Nat /\ W \in Nat /\ W <= t /\ t < W + Rras[a].steps
    BY TimesNat, WindowBounds DEF Inv, TypeOK
  <1>3. \A u \in Times : accepted[u] # Absent => lastUpdate # 0 /\ u <= lastUpdate
    BY DEF Inv, HistoryBound
  <1>4. accepted[t] = Absent
    BY <1>2, <1>3
  <1>5. t \notin K
    BY <1>4 DEF KnownIn
  <1>6. t \in InWindow(a, W)
    BY <1>2 DEF InWindow
  <1>7. KnownIn(a, W)' = {u \in InWindow(a, W) : accepted'[u] \notin {NaN, Absent}}
    BY DEF KnownIn, InWindow
  <1>8. v # NaN => v \notin {NaN, Absent}
    BY ValuesAssumption
  <1>9. \A u \in InWindow(a, W) : accepted'[u] = IF u = t THEN v ELSE accepted[u]
    BY <1>1 DEF InWindow
  <1>10. IF v = NaN THEN KnownIn(a, W)' = K ELSE KnownIn(a, W)' = K \cup {t}
    BY <1>4, <1>6, <1>7, <1>8, <1>9 DEF KnownIn
  <1>11. IsFiniteSet(K)
    <2>1. IsFiniteSet(Times)
      BY FS_Interval, TimeAssumption DEF Times
    <2>2. K \subseteq Times
      BY DEF KnownIn, InWindow
    <2> QED  BY <2>1, <2>2, FS_Subset
  <1>12. lastUpdate < W => K = {}
    <2> SUFFICES ASSUME lastUpdate < W, NEW u \in K PROVE FALSE
      OBVIOUS
    <2>1. u \in Times /\ W <= u /\ accepted[u] # Absent
      BY DEF KnownIn, InWindow
    <2>2. u <= lastUpdate /\ u \in Nat
      BY <1>3, <2>1, TimesNat
    <2> QED  BY <1>2, <2>1, <2>2
  <1> QED  BY <1>5, <1>10, <1>11, <1>12

LEMMA NextAccFacts ==
  ASSUME Inv, NEW t \in Times, lastUpdate = 0 \/ t > lastUpdate,
         NEW a \in Archives, NEW v \in Values \cup {NaN}, Record(t, v)
  PROVE  /\ NextAcc(a, t, v) \in AccOK
         /\ NextAcc(a, t, v).count > 0 => NextAcc(a, t, v).val # NaN
         /\ NextAcc(a, t, v).start = IF Completes(a, t) THEN Empty ELSE Window(a, t)
         /\ NextAcc(a, t, v).count = Cardinality(KnownIn(a, Window(a, t))')
  <1> DEFINE W == Window(a, t)
             K == KnownIn(a, W)
             c == Accumulate(a, RolledAcc(a, t), v)
             na == NextAcc(a, t, v)
  <1>1. /\ c \in AccOK /\ (c.count > 0 => c.val # NaN) /\ c.start = W
        /\ c.count = RolledAcc(a, t).count + (IF v = NaN THEN 0 ELSE 1)
    BY RolledAccType, AccumulateType
  <1>2. na = IF Completes(a, t) THEN [c EXCEPT !.start = Empty] ELSE c
    BY DEF NextAcc
  <1>3. /\ na \in AccOK /\ na.val = c.val /\ na.count = c.count
        /\ na.start = IF Completes(a, t) THEN Empty ELSE W
    BY <1>1, <1>2 DEF AccOK
  <1>4. RolledAcc(a, t).count = Cardinality(K)
    <2>1. W \in Nat \ {0}
      BY WindowPositive
    <2>2. CASE acc[a].start = W
      <3>1. acc[a].start # Empty
        BY <2>1, <2>2, ValuesAssumption
      <3> QED  BY <2>2, <3>1 DEF RolledAcc, Inv, AccFaithful
    <2>3. CASE acc[a].start # W
      <3>1. lastUpdate < W
        BY <2>3, Roll
      <3>2. K = {}
        BY <3>1, KnownStep
      <3>3. RolledAcc(a, t).count = 0
        BY <2>1, <2>3, FreshAccType DEF RolledAcc
      <3> QED  BY <3>2, <3>3, FS_EmptySet
    <2> QED  BY <2>2, <2>3
  <1>5. c.count = Cardinality(KnownIn(a, W)')
    <2>1. CASE v = NaN
      <3>1. KnownIn(a, W)' = K
        BY <2>1, KnownStep
      <3>2. Cardinality(K) \in Nat
        BY KnownStep, FS_CardinalityType
      <3> QED  BY <1>1, <1>4, <2>1, <3>1, <3>2
    <2>2. CASE v # NaN
      <3>1. KnownIn(a, W)' = K \cup {t} /\ t \notin K /\ IsFiniteSet(K)
        BY <2>2, KnownStep
      <3>2. Cardinality(K \cup {t}) = Cardinality(K) + 1
        BY <3>1, FS_AddElement
      <3> QED  BY <1>1, <1>4, <2>2, <3>1, <3>2
    <2> QED  BY <2>1, <2>2
  <1> QED  BY <1>1, <1>3, <1>5

-----------------------------------------------------------------------------
(* The invariant *)

LEMMA InitInv == Init => Inv
  <1> SUFFICES ASSUME Init PROVE Inv
    OBVIOUS
  <1>1. TypeOK
    BY DEF Init, TypeOK, AccOK, RowOK, RowVal, Mean
  <1>2. AccKnown /\ HistoryBound
    BY DEF Init, AccKnown, HistoryBound
  <1>3. AccFaithful
    BY DEF Init, AccFaithful, AccOpen
  <1>4. RowsPlaced
    BY DEF Init, RowsPlaced
  <1>5. RowsRetained
    BY DEF Init, RowsRetained, Settled, HasRound, InWindow
  <1> QED  BY <1>1, <1>2, <1>3, <1>4, <1>5 DEF Inv

LEMMA RecordInv ==
  ASSUME Inv, NEW t \in Times, NEW v \in Values \cup {NaN}, Record(t, v)
  PROVE  Inv'
  <1>1. lastUpdate = 0 \/ t > lastUpdate
    BY DEF Record
  <1>2. /\ lastUpdate' = t /\ t \in Nat \ {0} /\ lastUpdate \in Nat
        /\ acc' = [a \in Archives |-> NextAcc(a, t, v)]
        /\ row' = [a \in Archives |-> NextRows(a, t, v)]
        /\ accepted \in [Times -> Values \cup {NaN, Absent}]
        /\ accepted' = [accepted EXCEPT ![t] = v]
    BY TimesNat DEF Record, Inv, TypeOK
  <1>3. \A a \in Archives :
          /\ acc'[a] \in AccOK
          /\ acc'[a].count > 0 => acc'[a].val # NaN
          /\ acc'[a].start = IF Completes(a, t) THEN Empty ELSE Window(a, t)
          /\ acc'[a].count = Cardinality(KnownIn(a, Window(a, t))')
    BY <1>1, <1>2, NextAccFacts
  <1>4. \A a \in Archives :
          /\ row'[a] \in [Slots(a) -> RowOK]
          /\ Behind(a, row'[a], t + 1)
          /\ ~Completes(a, t) => Behind(a, row'[a], Window(a, t))
          /\ Holds(a, row'[a], Window(a, t))
          /\ Completes(a, t) => row'[a][SlotOf(a, Window(a, t))].ts = Window(a, t)
    BY <1>1, <1>2, NextRowsFacts
  <1>5. TypeOK'
    <2>1. acc' \in [Archives -> AccOK]
      BY <1>2, <1>3
    <2>2. \A a \in Archives : row'[a] \in [Slots(a) -> RowOK]
      BY <1>4
    <2>3. DOMAIN row' = Archives
      BY <1>2
    <2>4. accepted' \in [Times -> Values \cup {NaN, Absent}]
      BY <1>2
    <2> QED  BY <1>2, <2>1, <2>2, <2>3, <2>4 DEF TypeOK, Slots
  <1>6. AccKnown'
    BY <1>3 DEF AccKnown
  <1>7. HistoryBound'
    <2> SUFFICES ASSUME NEW u \in Times, accepted'[u] # Absent PROVE u <= t
      BY <1>2 DEF HistoryBound
    <2>1. u = t \/ accepted[u] # Absent
      BY <1>2
    <2>2. u \in Nat
      BY TimesNat
    <2> QED  BY <1>1, <1>2, <2>1, <2>2 DEF Inv, HistoryBound
  <1>8. AccFaithful'
    <2>1. AccOpen'
      <3> SUFFICES ASSUME NEW a \in Archives
                   PROVE  IF acc'[a].start = Empty THEN lastUpdate' = 0 \/ Completes(a, t)
                          ELSE lastUpdate' # 0 /\ acc'[a].start = Window(a, t) /\ ~Completes(a, t)
        BY <1>2 DEF AccOpen, Window, Completes
      <3>1. Window(a, t) # Empty
        BY WindowPositive, ValuesAssumption
      <3> QED  BY <1>2, <1>3, <3>1
    <2> DEFINE K(a, w) == {u \in InWindow(a, w) : accepted'[u] \notin {NaN, Absent}}
    <2>2. \A a \in Archives : KnownIn(a, Window(a, t))' = K(a, Window(a, t))
      BY DEF KnownIn, InWindow
    <2> HIDE DEF K
    <2>3. \A a \in Archives :
            acc'[a].start # Empty => acc'[a].count = Cardinality(K(a, acc'[a].start))
      BY <1>3, <2>2
    <2> QED  BY <2>1, <2>3 DEF AccFaithful, KnownIn, InWindow, K
  <1>9. RowsPlaced'
    <2> SUFFICES ASSUME NEW a \in Archives, NEW s \in Slots(a), row'[a][s].ts # 0
                 PROVE  /\ row'[a][s].ts = Window(a, row'[a][s].ts)
                        /\ SlotOf(a, row'[a][s].ts) = s
                        /\ row'[a][s].ts <= t
                        /\ acc'[a].start # Empty => row'[a][s].ts < acc'[a].start
      BY <1>2 DEF RowsPlaced, Window, SlotOf, Slots
    <2>1. row'[a][s].ts \in Nat
      BY <1>4 DEF RowOK
    <2>2. /\ row'[a][s].ts = Window(a, row'[a][s].ts)
          /\ SlotOf(a, row'[a][s].ts) = s
          /\ row'[a][s].ts < t + 1
      BY <1>4 DEF Behind
    <2>3. acc'[a].start # Empty => row'[a][s].ts < acc'[a].start
      BY <1>3, <1>4 DEF Behind
    <2> QED  BY <1>2, <2>1, <2>2, <2>3
  <1>10. RowsRetained'
    <2> SUFFICES ASSUME NEW a \in Archives, NEW u \in Times,
                        Settled(a, Window(a, u))',
                        Window(a, u) > Window(a, t) - Rras[a].rows * Rras[a].steps
                 PROVE  row'[a][SlotOf(a, Window(a, u))].ts = Window(a, u)
      BY <1>2 DEF RowsRetained, Window, SlotOf
    <2> DEFINE x == Window(a, u)
               W == Window(a, t)
               R == Rras[a].rows * Rras[a].steps
    <2>1. /\ HasRound(a, x)'
          /\ W > x \/ t = x + Rras[a].steps - 1
      BY <1>2 DEF Settled, Window
    <2>2. /\ x \in Nat /\ W \in Nat /\ W <= t /\ t < W + Rras[a].steps
          /\ Rras[a].steps \in Nat \ {0} /\ Window(a, x) = x
      BY <1>2, WindowPositive, WindowBounds, ArchiveType, TimesNat, WindowIdempotent
    <2>3. CASE x = W
      <3>1. Completes(a, t)
        BY <1>2, <2>1, <2>2, <2>3 DEF Completes
      <3> QED  BY <1>4, <2>3, <3>1
    <2>4. CASE x # W
      <3>1. t = x + Rras[a].steps - 1 => W = x
        <4> SUFFICES ASSUME t = x + Rras[a].steps - 1 PROVE W = x
          OBVIOUS
        <4>1. x <= t /\ t < x + Rras[a].steps
          BY <2>2
        <4>2. u \in Nat
          BY TimesNat
        <4> QED  BY <1>2, <4>1, <4>2, WindowUnique
      <3>2. x < W
        BY <2>1, <2>2, <2>4, <3>1
      <3>3. HasRound(a, x)
        <4>1. PICK z \in InWindow(a, x) : accepted'[z] # Absent
          BY <2>1 DEF HasRound, InWindow
        <4>2. z \in Times /\ z \in Nat /\ x <= z /\ z < x + Rras[a].steps
          BY TimesNat DEF InWindow
        <4>3. Window(a, z) = x
          BY <4>2, TimesNat, WindowUnique
        <4>4. z # t
          BY <2>4, <4>3
        <4> QED  BY <1>2, <4>1, <4>2, <4>4 DEF HasRound
      <3>4. W - R < x
        OBVIOUS
      <3> QED  BY <1>4, <3>2, <3>3, <3>4 DEF Holds
    <2> QED  BY <2>3, <2>4
  <1> QED  BY <1>5, <1>6, <1>7, <1>8, <1>9, <1>10 DEF Inv

LEMMA StutterInv ==
  ASSUME Inv, UNCHANGED vars PROVE Inv'
  BY DEF Inv, vars, TypeOK, AccKnown, HistoryBound, AccFaithful, AccOpen, RowsPlaced,
         RowsRetained, Settled, HasRound, InWindow, KnownIn, Window, SlotOf, Slots, Completes

LEMMA NextInv ==
  ASSUME Inv, [Next]_vars PROVE Inv'
  <1>1. ASSUME NEW t \in Times, NEW v \in Values \cup {NaN}, Record(t, v) PROVE Inv'
    BY <1>1, RecordInv
  <1>2. ASSUME NEW t \in Times, Skip(t) PROVE Inv'
    BY <1>2, StutterInv DEF Skip
  <1>3. CASE UNCHANGED vars
    BY <1>3, StutterInv
  <1> QED  BY <1>1, <1>2, <1>3 DEF Next

-----------------------------------------------------------------------------
(* What a row is worth *)

(* The history as an argument, so that a step's two histories can be        *)
(* compared: h is `accepted' before or after it.                           *)
History           == [Times -> Values \cup {NaN, Absent}]
KnownOf(h, a, w)  == {t \in InWindow(a, w) : h[t] \notin {NaN, Absent}}
ValuesOf(h, a, w) == {h[t] : t \in KnownOf(h, a, w)}
SumOf(h, a, w)    == Sum(h, KnownOf(h, a, w))

RefOf(h, a, w) ==
  LET n == Cardinality(KnownOf(h, a, w)) IN
  CASE TooSparse(a, n)                              -> NaN
    [] ~TooSparse(a, n) /\ Rras[a].cf = "average"   -> Mean(SumOf(h, a, w), n)
    [] ~TooSparse(a, n) /\ Rras[a].cf = "min"       -> Mean(Min(ValuesOf(h, a, w)), 1)
    [] ~TooSparse(a, n) /\ Rras[a].cf = "max"       -> Mean(Max(ValuesOf(h, a, w)), 1)

(* val is what archive a makes of the known values of window w. *)
Consolidated(h, a, w, val) ==
  /\ Rras[a].cf = "average" => val = SumOf(h, a, w)
  /\ Rras[a].cf = "min" =>
       IF KnownOf(h, a, w) = {} THEN val = NaN
       ELSE val \in ValuesOf(h, a, w) /\ \A x \in ValuesOf(h, a, w) : val <= x
  /\ Rras[a].cf = "max" =>
       IF KnownOf(h, a, w) = {} THEN val = NaN
       ELSE val \in ValuesOf(h, a, w) /\ \A x \in ValuesOf(h, a, w) : val >= x

(* The rows r of archive a are right about history h. *)
Right(h, a, r) ==
  \A s \in Slots(a) :
    r[s].ts # 0 => /\ \E t \in InWindow(a, r[s].ts) : h[t] # Absent
                   /\ r[s].val = RefOf(h, a, r[s].ts)

LEMMA KnownOfType ==
  ASSUME NEW h \in History, NEW a, NEW w
  PROVE  /\ IsFiniteSet(KnownOf(h, a, w))
         /\ KnownOf(h, a, w) \subseteq Times
         /\ \A t \in KnownOf(h, a, w) : h[t] \in Int
  <1>1. IsFiniteSet(Times)
    BY FS_Interval, TimeAssumption DEF Times
  <1>2. KnownOf(h, a, w) \subseteq Times
    BY DEF KnownOf, InWindow
  <1>3. IsFiniteSet(KnownOf(h, a, w))
    BY <1>1, <1>2, FS_Subset
  <1>4. \A t \in KnownOf(h, a, w) : h[t] \in Int
    BY <1>2, ValuesAssumption DEF History, KnownOf
  <1> QED  BY <1>2, <1>3, <1>4

(* A fresh accumulator consolidates a window without known values. *)
LEMMA FreshConsolidated ==
  ASSUME NEW h, NEW a \in Archives, NEW w, KnownOf(h, a, w) = {}
  PROVE  Consolidated(h, a, w, FreshAcc(a, w).val)
  BY SumEmpty DEF Consolidated, FreshAcc, SumOf

(* Combine takes one more value into the consolidation. *)
LEMMA AddConsolidated ==
  ASSUME NEW h \in History, NEW t \in Times, h[t] = Absent, NEW v \in Values,
         NEW a \in Archives, NEW w, t \in InWindow(a, w),
         NEW val \in Int \cup {NaN}, Consolidated(h, a, w, val),
         NEW h2 \in History, h2[t] = v, \A u \in Times \ {t} : h2[u] = h[u]
  PROVE  Consolidated(h2, a, w, Combine(Rras[a].cf, val, v))
  <1> DEFINE K == KnownOf(h, a, w)
             K2 == KnownOf(h2, a, w)
             V == ValuesOf(h, a, w)
             V2 == ValuesOf(h2, a, w)
  <1>1. v \in Int /\ v \notin {NaN, Absent} /\ NaN \notin Int
    BY ValuesAssumption
  <1>2. h2[t] = v /\ \A u \in Times : u # t => h2[u] = h[u]
    OBVIOUS
  <1>3. t \notin K
    BY DEF KnownOf
  <1>4. K2 = K \cup {t}
    BY <1>1, <1>2 DEF KnownOf, InWindow
  <1>5. IsFiniteSet(K) /\ K \subseteq Times /\ \A u \in K : h[u] \in Int
    BY KnownOfType
  <1>6. \A u \in K : h2[u] = h[u]
    BY <1>2, <1>3, <1>5
  <1>7. V2 = V \cup {v} /\ V \subseteq Int
    <2>1. V2 = {h2[u] : u \in K \cup {t}}
      BY <1>4 DEF ValuesOf
    <2>2. V = {h[u] : u \in K}
      BY DEF ValuesOf
    <2> HIDE DEF K, V, V2
    <2> QED  BY <1>2, <1>5, <1>6, <2>1, <2>2
  <1>8. K = {} <=> V = {}
    BY DEF ValuesOf
  <1> HIDE DEF K, K2, V, V2
  <1>9. CASE Rras[a].cf = "average"
    <2>0. \A u \in K \cup {t} : h2[u] \in Int
      BY <1>1, <1>2, <1>5, <1>6
    <2>1. Sum(h2, K \cup {t}) = Sum(h2, K) + v
      BY <1>2, <1>3, <1>5, <2>0, SumAdd
    <2>2. Sum(h2, K) = Sum(h, K)
      BY <1>5, <1>6, SumSame
    <2>3. val = Sum(h, K) /\ val \in Int
      BY <1>5, <1>9, SumType DEF Consolidated, SumOf, K
    <2>4. Combine(Rras[a].cf, val, v) = val + v
      BY <1>1, <1>9, <2>3 DEF Combine
    <2>5. SumOf(h2, a, w) = Combine(Rras[a].cf, val, v)
      BY <1>4, <2>1, <2>2, <2>3, <2>4 DEF SumOf, K2
    <2> QED  BY <1>9, <2>5 DEF Consolidated
  <1>10. CASE Rras[a].cf = "min"
    <2> DEFINE m == Combine("min", val, v)
    <2>1. IF V = {} THEN val = NaN ELSE val \in V /\ \A x \in V : val <= x
      BY <1>8, <1>10 DEF Consolidated, K, V
    <2>2. m = IF V = {} THEN v ELSE IF v < val THEN v ELSE val
      BY <1>1, <1>7, <2>1 DEF Combine
    <2> HIDE DEF m
    <2>3. m \in V2 /\ \A x \in V2 : m <= x
      BY <1>1, <1>7, <2>1, <2>2
    <2> QED  BY <1>4, <1>10, <2>3 DEF Consolidated, K2, V2, m
  <1>11. CASE Rras[a].cf = "max"
    <2> DEFINE m == Combine("max", val, v)
    <2>1. IF V = {} THEN val = NaN ELSE val \in V /\ \A x \in V : val >= x
      BY <1>8, <1>11 DEF Consolidated, K, V
    <2>2. m = IF V = {} THEN v ELSE IF v > val THEN v ELSE val
      BY <1>1, <1>7, <2>1 DEF Combine
    <2> HIDE DEF m
    <2>3. m \in V2 /\ \A x \in V2 : m >= x
      BY <1>1, <1>7, <2>1, <2>2
    <2> QED  BY <1>4, <1>11, <2>3 DEF Consolidated, K2, V2, m
  <1> QED  BY <1>9, <1>10, <1>11, ArchiveType DEF Cfs

(* Two histories that know the same of a window agree on its consolidation. *)
LEMMA SameKnown ==
  ASSUME NEW h \in History, NEW h2, NEW a \in Archives, NEW w,
         KnownOf(h2, a, w) = KnownOf(h, a, w),
         \A t \in KnownOf(h, a, w) : h2[t] = h[t]
  PROVE  /\ RefOf(h2, a, w) = RefOf(h, a, w)
         /\ \A val : Consolidated(h, a, w, val) => Consolidated(h2, a, w, val)
  <1>1. SumOf(h2, a, w) = SumOf(h, a, w)
    BY KnownOfType, SumSame DEF SumOf
  <1>2. ValuesOf(h2, a, w) = ValuesOf(h, a, w)
    BY DEF ValuesOf
  <1> QED  BY <1>1, <1>2 DEF RefOf, Consolidated

(* The row written from a consolidation is the reference's. *)
LEMMA RowIsReference ==
  ASSUME NEW h \in History, NEW a \in Archives, NEW w, NEW val,
         Consolidated(h, a, w, val)
  PROVE  RowOf(a, val, Cardinality(KnownOf(h, a, w))) = RefOf(h, a, w)
  <1> DEFINE K == KnownOf(h, a, w)
             V == ValuesOf(h, a, w)
             n == Cardinality(K)
  <1>1. CASE TooSparse(a, n)
    BY <1>1 DEF RowOf, RefOf
  <1>2. CASE ~TooSparse(a, n)
    <2>1. K # {}
      BY <1>2, FS_EmptySet DEF TooSparse
    <2>2. V \subseteq Int
      BY KnownOfType DEF ValuesOf
    <2>3. CASE Rras[a].cf = "average"
      BY <1>2, <2>3 DEF RowOf, RefOf, Consolidated
    <2>4. CASE Rras[a].cf = "min"
      <3>1. val \in V /\ \A x \in V : val <= x
        BY <2>1, <2>4 DEF Consolidated
      <3>2. Min(V) = val
        BY <2>2, <3>1 DEF Min
      <3> QED  BY <1>2, <2>4, <3>2 DEF RowOf, RefOf
    <2>5. CASE Rras[a].cf = "max"
      <3>1. val \in V /\ \A x \in V : val >= x
        BY <2>1, <2>5 DEF Consolidated
      <3>2. Max(V) = val
        BY <2>2, <3>1 DEF Max
      <3> QED  BY <1>2, <2>5, <3>2 DEF RowOf, RefOf
    <2> QED  BY <2>3, <2>4, <2>5, ArchiveType DEF Cfs
  <1> QED  BY <1>1, <1>2

-----------------------------------------------------------------------------
(* The values of the rows, an invariant on top of Inv: the newest round has  *)
(* been accepted, the window in progress consolidates what is known of it,   *)
(* and every row is the reference's.                                         *)
Worth ==
  /\ lastUpdate # 0 => lastUpdate \in Times /\ accepted[lastUpdate] # Absent
  /\ \A a \in Archives :
       acc[a].start # Empty => Consolidated(accepted, a, acc[a].start, acc[a].val)
  /\ \A a \in Archives : Right(accepted, a, row[a])

LEMMA InitWorth == Init => Worth
  BY DEF Init, Worth, Right

LEMMA RecordHistory ==
  ASSUME Inv, NEW t \in Times, NEW v \in Values \cup {NaN}, Record(t, v)
  PROVE  /\ accepted \in History /\ accepted' \in History
         /\ accepted[t] = Absent /\ accepted'[t] = v /\ v # Absent
         /\ \A u \in Times \ {t} : accepted'[u] = accepted[u]
         /\ lastUpdate' = t /\ t \in Nat /\ lastUpdate \in Nat
         /\ lastUpdate = 0 \/ t > lastUpdate
  <1>1. /\ accepted \in [Times -> Values \cup {NaN, Absent}]
        /\ accepted' = [accepted EXCEPT ![t] = v]
        /\ lastUpdate' = t /\ t \in Nat /\ lastUpdate \in Nat
        /\ lastUpdate = 0 \/ t > lastUpdate
    BY TimesNat DEF Record, Inv, TypeOK
  <1>2. accepted[t] = Absent
    BY <1>1 DEF Inv, HistoryBound
  <1>3. v # Absent
    BY ValuesAssumption
  <1> QED  BY <1>1, <1>2, <1>3 DEF History

(* A round says nothing of a window before its own. *)
LEMMA OldWindow ==
  ASSUME Inv, NEW t \in Times, NEW v \in Values \cup {NaN}, Record(t, v),
         NEW a \in Archives, NEW w \in Nat, w < Window(a, t), Window(a, w) = w
  PROVE  /\ t \notin InWindow(a, w)
         /\ RefOf(accepted', a, w) = RefOf(accepted, a, w)
  <1>1. t \notin InWindow(a, w)
    <2> SUFFICES ASSUME w <= t, t < w + Rras[a].steps PROVE FALSE
      BY DEF InWindow
    <2>1. Window(a, t) = w
      BY TimesNat, WindowUnique
    <2> QED  BY <2>1
  <1>2. \A u \in InWindow(a, w) : accepted'[u] = accepted[u]
    BY <1>1, RecordHistory DEF InWindow
  <1>3. KnownOf(accepted', a, w) = KnownOf(accepted, a, w)
    BY <1>2 DEF KnownOf
  <1>4. \A u \in KnownOf(accepted, a, w) : accepted'[u] = accepted[u]
    BY <1>2 DEF KnownOf
  <1>5. RefOf(accepted', a, w) = RefOf(accepted, a, w)
    BY <1>3, <1>4, RecordHistory, SameKnown
  <1> QED  BY <1>1, <1>5

(* A window that is written late is worth what is known of it. *)
LEMMA RolledRight ==
  ASSUME Inv, Worth, NEW t \in Times, NEW a \in Archives
  PROVE  Right(accepted, a, RolledRows(a, t))
  <1>1. CASE acc[a].start \in {Window(a, t), Empty}
    BY <1>1 DEF RolledRows, Worth
  <1>2. CASE acc[a].start \notin {Window(a, t), Empty}
    <2> DEFINE w == acc[a].start
               rr == RolledRows(a, t)
    <2>1. /\ lastUpdate # 0 /\ w = Window(a, lastUpdate)
          /\ acc[a].count = Cardinality(KnownOf(accepted, a, w))
      BY <1>2 DEF Inv, AccFaithful, AccOpen, KnownIn, KnownOf
    <2>2. lastUpdate \in Times /\ accepted[lastUpdate] # Absent /\ lastUpdate \in Nat
      BY <2>1, TimesNat DEF Worth
    <2>3. lastUpdate \in InWindow(a, w)
      BY <2>1, <2>2, WindowBounds DEF InWindow
    <2>4. RowOf(a, acc[a].val, acc[a].count) = RefOf(accepted, a, w)
      <3>1. accepted \in History
        BY DEF Inv, TypeOK, History
      <3>2. Consolidated(accepted, a, w, acc[a].val)
        BY <1>2 DEF Worth
      <3> QED  BY <2>1, <3>1, <3>2, RowIsReference
    <2>5. /\ rr[SlotOf(a, w)] = [ts |-> w, val |-> RefOf(accepted, a, w)]
          /\ \A s \in Slots(a) : s # SlotOf(a, w) => rr[s] = row[a][s]
      <3>1. row[a] \in [Slots(a) -> RowOK] /\ SlotOf(a, w) \in Slots(a)
        BY <2>1, <2>2, WindowBounds, SlotType DEF Inv, TypeOK
      <3>2. rr = Finalize(a, row[a], acc[a], w)
        BY <1>2 DEF RolledRows
      <3> QED  BY <2>4, <3>1, <3>2 DEF Finalize
    <2>6. Right(accepted, a, row[a])
      BY DEF Worth
    <2> HIDE DEF w, rr
    <2>7. Right(accepted, a, rr)
      BY <2>2, <2>3, <2>5, <2>6 DEF Right
    <2> QED  BY <2>7 DEF rr
  <1> QED  BY <1>1, <1>2

(* The round is consolidated into its window. *)
LEMMA AccWorth ==
  ASSUME Inv, Worth, NEW t \in Times, NEW v \in Values \cup {NaN}, Record(t, v),
         NEW a \in Archives
  PROVE  Consolidated(accepted', a, Window(a, t), NextAcc(a, t, v).val)
  <1> DEFINE W == Window(a, t)
             r == RolledAcc(a, t)
             c == Accumulate(a, r, v)
             h == accepted
  <1>1. /\ h \in History /\ h' \in History
        /\ h[t] = Absent /\ h'[t] = v
        /\ \A u \in Times \ {t} : h'[u] = h[u]
        /\ lastUpdate = 0 \/ t > lastUpdate
    BY RecordHistory
  <1>2. W \in Nat /\ W <= t /\ t < W + Rras[a].steps /\ t \in Nat
    BY TimesNat, WindowBounds
  <1>3. t \in InWindow(a, W)
    BY <1>2 DEF InWindow
  <1>4. Consolidated(h, a, W, r.val)
    <2>1. CASE acc[a].start = W
      <3>1. acc[a].start # Empty
        BY <1>2, <2>1, ValuesAssumption
      <3> QED  BY <2>1, <3>1 DEF RolledAcc, Worth
    <2>2. CASE acc[a].start # W
      <3>1. lastUpdate < W
        BY <1>1, <2>2, Roll
      <3>2. KnownIn(a, W) = {}
        BY <1>1, <3>1, KnownStep
      <3>3. KnownOf(h, a, W) = {}
        BY <3>2 DEF KnownIn, KnownOf
      <3> QED  BY <2>2, <3>3, FreshConsolidated DEF RolledAcc
    <2> QED  BY <2>1, <2>2
  <1>5. r \in AccOK
    BY RolledAccType
  <1>6. Consolidated(h', a, W, c.val)
    <2>1. CASE v = NaN
      <3>1. KnownOf(h', a, W) = KnownOf(h, a, W)
        BY <1>1, <2>1 DEF KnownOf, InWindow
      <3>2. \A u \in KnownOf(h, a, W) : h'[u] = h[u]
        BY <1>1 DEF KnownOf, InWindow
      <3>3. c = r
        BY <2>1 DEF Accumulate
      <3> HIDE DEF W, r, c, h
      <3>4. Consolidated(h', a, W, r.val)
        BY <1>1, <1>4, <3>1, <3>2, SameKnown
      <3> QED  BY <3>3, <3>4
    <2>2. CASE v # NaN
      <3>1. v \in Values /\ r.val \in Int \cup {NaN}
        BY <1>5, <2>2 DEF AccOK
      <3>2. c.val = Combine(Rras[a].cf, r.val, v)
        BY <1>5, <2>2 DEF Accumulate, AccOK
      <3> HIDE DEF W, r, c, h
      <3>3. Consolidated(h', a, W, Combine(Rras[a].cf, r.val, v))
        BY <1>1, <1>3, <1>4, <3>1, AddConsolidated
      <3> QED  BY <3>2, <3>3
    <2> QED  BY <2>1, <2>2
  <1>7. NextAcc(a, t, v).val = c.val
    <2>1. c \in AccOK
      BY RolledAccType, AccumulateType
    <2> QED  BY <2>1 DEF NextAcc, AccOK
  <1> QED  BY <1>6, <1>7

LEMMA NextRight ==
  ASSUME Inv, Worth, NEW t \in Times, NEW v \in Values \cup {NaN}, Record(t, v),
         NEW a \in Archives
  PROVE  Right(accepted', a, NextRows(a, t, v))
  <1> DEFINE W == Window(a, t)
             rr == RolledRows(a, t)
             nr == NextRows(a, t, v)
             c == Accumulate(a, RolledAcc(a, t), v)
  <1>1. /\ accepted \in History /\ accepted' \in History
        /\ accepted[t] = Absent /\ accepted'[t] = v /\ v # Absent
        /\ \A u \in Times \ {t} : accepted'[u] = accepted[u]
        /\ lastUpdate = 0 \/ t > lastUpdate
    BY RecordHistory
  <1>2. rr \in [Slots(a) -> RowOK] /\ Behind(a, rr, W)
    BY <1>1, RolledRowsFacts
  <1>3. Right(accepted, a, rr)
    BY RolledRight
  <1>4. Right(accepted', a, rr)
    <2> SUFFICES ASSUME NEW s \in Slots(a), rr[s].ts # 0
                 PROVE  /\ \E u \in InWindow(a, rr[s].ts) : accepted'[u] # Absent
                        /\ rr[s].val = RefOf(accepted', a, rr[s].ts)
      BY DEF Right
    <2>1. rr[s].ts \in Nat /\ rr[s].ts < W /\ Window(a, rr[s].ts) = rr[s].ts
      BY <1>2 DEF Behind, RowOK
    <2>2. PICK u \in InWindow(a, rr[s].ts) : accepted[u] # Absent
      BY <1>3 DEF Right
    <2>3. accepted'[u] # Absent
      BY <1>1, <2>2 DEF InWindow
    <2>4. rr[s].val = RefOf(accepted, a, rr[s].ts)
      BY <1>3 DEF Right
    <2> QED  BY <2>1, <2>2, <2>3, <2>4, OldWindow
  <1>5. CASE ~Completes(a, t)
    BY <1>4, <1>5 DEF NextRows
  <1>6. CASE Completes(a, t)
    <2>1. W \in Nat /\ SlotOf(a, W) \in Slots(a) /\ t \in InWindow(a, W)
      BY TimesNat, WindowBounds, SlotType DEF InWindow
    <2>2. c \in AccOK /\ c.val = NextAcc(a, t, v).val /\ c.count = NextAcc(a, t, v).count
      BY RolledAccType, AccumulateType DEF NextAcc, AccOK
    <2>3. c.count = Cardinality(KnownOf(accepted', a, W))
      <3>1. KnownIn(a, W)' = KnownOf(accepted', a, W)
        BY DEF KnownIn, KnownOf, InWindow
      <3> QED  BY <1>1, <2>2, <3>1, NextAccFacts
    <2>4. Consolidated(accepted', a, W, c.val)
      BY <2>2, AccWorth
    <2>5. RowOf(a, c.val, c.count) = RefOf(accepted', a, W)
      BY <1>1, <2>3, <2>4, RowIsReference
    <2>6. nr = Finalize(a, rr, c, W)
      BY <1>6 DEF NextRows
    <2>7. /\ nr[SlotOf(a, W)] = [ts |-> W, val |-> RefOf(accepted', a, W)]
          /\ \A s \in Slots(a) : s # SlotOf(a, W) => nr[s] = rr[s]
      BY <1>2, <2>1, <2>5, <2>6 DEF Finalize
    <2> HIDE DEF W, rr, nr
    <2>8. Right(accepted', a, nr)
      BY <1>1, <1>4, <2>1, <2>7 DEF Right
    <2> QED  BY <2>8 DEF nr
  <1> QED  BY <1>5, <1>6

LEMMA NextWorth ==
  ASSUME Inv, Worth, [Next]_vars
  PROVE  Worth'
  <1>1. ASSUME NEW t \in Times, NEW v \in Values \cup {NaN}, Record(t, v) PROVE Worth'
    <2>1. /\ lastUpdate' = t /\ accepted'[t] = v /\ v # Absent
          /\ lastUpdate = 0 \/ t > lastUpdate
      BY <1>1, RecordHistory
    <2>2. \A a \in Archives : acc'[a] = NextAcc(a, t, v) /\ row'[a] = NextRows(a, t, v)
      BY <1>1 DEF Record
    <2>3. \A a \in Archives : acc'[a].start # Empty => acc'[a].start = Window(a, t)
      BY <1>1, <2>1, <2>2, NextAccFacts
    <2>4. \A a \in Archives :
            acc'[a].start # Empty => Consolidated(accepted', a, acc'[a].start, acc'[a].val)
      BY <1>1, <2>2, <2>3, AccWorth
    <2>5. \A a \in Archives : Right(accepted', a, row'[a])
      BY <1>1, <2>2, NextRight
    <2> QED  BY <2>1, <2>4, <2>5 DEF Worth
  <1>2. ASSUME UNCHANGED vars PROVE Worth'
    BY <1>2 DEF Worth, vars
  <1>3. ASSUME NEW t \in Times, Skip(t) PROVE Worth'
    BY <1>2, <1>3 DEF Skip
  <1> QED  BY <1>1, <1>2, <1>3 DEF Next

LEMMA WorthIsFaithful ==
  ASSUME Inv, Worth
  PROVE  RowsFaithful
  <1> SUFFICES ASSUME NEW a \in Archives, NEW s \in Slots(a), row[a][s].ts # 0
               PROVE  LET w == row[a][s].ts IN
                      /\ w = Window(a, w) /\ SlotOf(a, w) = s /\ Settled(a, w)
                      /\ row[a][s].val = Reference(a, w)
    BY DEF RowsFaithful
  <1> DEFINE w == row[a][s].ts
             L == Window(a, lastUpdate)
  <1>1. /\ w = Window(a, w) /\ SlotOf(a, w) = s /\ w <= lastUpdate
        /\ acc[a].start # Empty => w < acc[a].start
    BY DEF Inv, RowsPlaced
  <1>2. (\E t \in InWindow(a, w) : accepted[t] # Absent) /\ row[a][s].val = RefOf(accepted, a, w)
    BY DEF Worth, Right
  <1>3. w \in Nat /\ lastUpdate \in Nat /\ L \in Nat
    BY WindowBounds DEF Inv, TypeOK, RowOK
  <1>4. L > w \/ lastUpdate = w + Rras[a].steps - 1
    <2>1. CASE acc[a].start # Empty
      BY <1>1, <2>1 DEF Inv, AccFaithful, AccOpen
    <2>2. CASE acc[a].start = Empty
      <3>1. lastUpdate - L = Rras[a].steps - 1
        BY <1>1, <1>3, <2>2 DEF Inv, AccFaithful, AccOpen, Completes
      <3>2. w <= L
        BY <1>1, <1>3, WindowMonotone
      <3>3. Rras[a].steps \in Nat
        BY ArchiveType
      <3> DEFINE p == Rras[a].steps
      <3>4. p \in Nat /\ lastUpdate - L = p - 1
        BY <3>1, <3>3
      <3> HIDE DEF w, L, p
      <3>5. L > w \/ lastUpdate = w + p - 1
        BY <1>3, <3>2, <3>4
      <3> QED  BY <3>5 DEF p
    <2> QED  BY <2>1, <2>2
  <1>5. RefOf(accepted, a, w) = Reference(a, w)
    BY DEF Reference, RefOf, SumIn, SumOf, Sum, KnownIn, KnownOf, ValuesIn, ValuesOf
  <1>6. Settled(a, w)
    BY <1>2, <1>4 DEF Settled, HasRound
  <1> QED  BY <1>1, <1>2, <1>5, <1>6

-----------------------------------------------------------------------------
(* What every behaviour satisfies *)

(* Every reachable state satisfies the invariant. *)
THEOREM Invariance == Spec => []Inv
  <1>1. Init => Inv
    BY InitInv
  <1>2. Inv /\ [Next]_vars => Inv'
    BY NextInv
  <1> QED  BY <1>1, <1>2, PTL DEF Spec

(* The series' variables keep their types, whatever the archive table. *)
THEOREM TypeCorrect == Spec => []TypeOK
  <1>1. Inv => TypeOK
    BY DEF Inv
  <1> QED  BY <1>1, Invariance, PTL

(* The window in progress has counted each known round once (accumulate,   *)
(* reset_acc and both finalize calls of record).                           *)
THEOREM AccumulatorFaithful == Spec => []AccFaithful
  <1>1. Inv => AccFaithful
    BY DEF Inv
  <1> QED  BY <1>1, Invariance, PTL

(* Every row lies in the slot of its window and behind the open window. *)
THEOREM RowsInPlace == Spec => []RowsPlaced
  <1>1. Inv => RowsPlaced
    BY DEF Inv
  <1> QED  BY <1>1, Invariance, PTL

(* The row of every settled window of the newest ring is there. *)
THEOREM RingRetains == Spec => []RowsRetained
  <1>1. Inv => RowsRetained
    BY DEF Inv
  <1> QED  BY <1>1, Invariance, PTL

(* Every row is the consolidation of the rounds accepted in its window:     *)
(* the accumulators and both finalize calls of record lose none, count none *)
(* twice and mix no two windows.                                            *)
THEOREM RowsAreFaithful == Spec => []RowsFaithful
  <1>1. Init => Worth
    BY InitWorth
  <1>2. Inv /\ Worth /\ [Next]_vars => Worth'
    BY NextWorth
  <1>3. Inv /\ Worth => RowsFaithful
    BY WorthIsFaithful
  <1> QED  BY <1>1, <1>2, <1>3, Invariance, PTL DEF Spec

(* No record replaces a row by an older one. *)
THEOREM NoRegress == Spec => RowsNeverRegress
  <1> DEFINE NR == \A a \in Archives : \A s \in Slots(a) : row[a][s].ts <= row'[a][s].ts
  <1>1. Inv /\ [Next]_vars => [NR]_vars
    <2> SUFFICES ASSUME Inv, Next PROVE [NR]_vars
      OBVIOUS
    <2>1. ASSUME NEW t \in Times, NEW v \in Values \cup {NaN}, Record(t, v) PROVE NR
      <3>1. lastUpdate = 0 \/ t > lastUpdate
        BY <2>1 DEF Record
      <3>2. \A a \in Archives : row'[a] = NextRows(a, t, v)
        BY <2>1 DEF Record
      <3> QED  BY <3>1, <3>2, NextRowsFacts
    <2>2. ASSUME NEW t \in Times, Skip(t) PROVE UNCHANGED vars
      BY <2>2 DEF Skip
    <2> QED  BY <2>1, <2>2 DEF Next
  <1> QED  BY <1>1, Invariance, PTL DEF Spec, RowsNeverRegress

(* The first round recorded for a slot is the one kept. *)
THEOREM FirstWriteStays == Spec => FirstWriteWins
  <1> DEFINE FW == /\ lastUpdate <= lastUpdate'
                   /\ \A t \in Times : accepted[t] # Absent => accepted'[t] = accepted[t]
  <1>1. Inv /\ [Next]_vars => [FW]_vars
    <2> SUFFICES ASSUME Inv, Next PROVE [FW]_vars
      OBVIOUS
    <2>1. ASSUME NEW t \in Times, NEW v \in Values \cup {NaN}, Record(t, v) PROVE FW
      <3>1. /\ lastUpdate = 0 \/ t > lastUpdate
            /\ lastUpdate' = t /\ accepted' = [accepted EXCEPT ![t] = v]
            /\ t \in Nat /\ lastUpdate \in Nat
        BY <2>1, TimesNat DEF Record, Inv, TypeOK
      <3>2. \A u \in Times : accepted[u] # Absent => u # t
        BY <3>1 DEF Inv, HistoryBound
      <3>3. \A u \in Times : accepted[u] # Absent => accepted'[u] = accepted[u]
        BY <3>1, <3>2 DEF Inv, TypeOK
      <3> QED  BY <3>1, <3>3
    <2>2. ASSUME NEW t \in Times, Skip(t) PROVE UNCHANGED vars
      BY <2>2 DEF Skip
    <2> QED  BY <2>1, <2>2 DEF Next
  <1> QED  BY <1>1, Invariance, PTL DEF Spec, FirstWriteWins


-----------------------------------------------------------------------------
(* The choice of the archive *)

LEMMA ArchivesFinite ==
  /\ Archives = 1..Len(Rras) /\ Len(Rras) \in Nat
  /\ \A a \in Archives : a \in Nat /\ a <= Len(Rras)
  /\ \A a \in Archives : Rras[a].steps \in Nat /\ Rras[a].steps <= MinTime
  /\ MinTime \in Nat
  BY RrasAssumption, TimeAssumption, ArchiveType DEF Archives

LEMMA FinestIn ==
  ASSUME NEW S \in SUBSET Archives, S # {}
  PROVE  Finest(S) \in S /\ \A b \in S \ {Finest(S)} : Finer(Finest(S), b)
  <1> DEFINE P == {Rras[a].steps : a \in S}
  <1>1. P \in SUBSET Nat /\ P # {}
    BY ArchivesFinite
  <1>2. PICK m \in P : \A n \in P : m <= n
    BY <1>1, LeastNat
  <1> DEFINE F == {a \in S : Rras[a].steps = m}
  <1>3. F \in SUBSET Nat /\ F # {}
    BY ArchivesFinite
  <1>4. PICK a \in F : \A b \in F : a <= b
    BY <1>3, LeastNat
  <1>5. a \in S /\ \A b \in S \ {a} : Finer(a, b)
    <2> SUFFICES ASSUME NEW b \in S \ {a} PROVE Finer(a, b)
      BY <1>4
    <2>1. Rras[a].steps = m /\ m <= Rras[b].steps /\ m \in Nat /\ Rras[b].steps \in Nat
      BY <1>1, <1>2, <1>4, ArchivesFinite
    <2>2. Rras[b].steps = m => a < b
      BY <1>3, <1>4
    <2> QED  BY <2>1, <2>2 DEF Finer
  <1>6. \E x \in S : \A b \in S \ {x} : Finer(x, b)
    BY <1>5
  <1> QED  BY <1>6 DEF Finest

LEMMA CoarsestIn ==
  ASSUME NEW S \in SUBSET Archives, S # {}
  PROVE  Coarsest(S) \in S
  <1> DEFINE P == {MinTime - Rras[a].steps : a \in S}
  <1>1. \A a \in S : MinTime - Rras[a].steps \in Nat /\ Len(Rras) - a \in Nat
    BY ArchivesFinite
  <1>2. P \in SUBSET Nat /\ P # {}
    BY <1>1
  <1>3. PICK m \in P : \A n \in P : m <= n
    BY <1>2, LeastNat
  <1> DEFINE F == {a \in S : MinTime - Rras[a].steps = m}
             G == {Len(Rras) - a : a \in F}
  <1>4. G \in SUBSET Nat /\ G # {}
    BY <1>1, <1>3
  <1>5. PICK g \in G : \A n \in G : g <= n
    BY <1>4, LeastNat
  <1>6. PICK a \in F : g = Len(Rras) - a
    BY <1>5
  <1>7. a \in S /\ \A b \in S \ {a} : Finer(b, a)
    <2> SUFFICES ASSUME NEW b \in S \ {a} PROVE Finer(b, a)
      BY <1>6
    <2>1. /\ MinTime - Rras[a].steps = m /\ m <= MinTime - Rras[b].steps
          /\ m \in Nat /\ Rras[b].steps \in Nat /\ Rras[a].steps \in Nat
          /\ a \in Nat /\ b \in Nat /\ MinTime \in Nat /\ Len(Rras) \in Nat
      BY <1>2, <1>3, <1>6, ArchivesFinite
    <2>2. Rras[b].steps = Rras[a].steps => Len(Rras) - a <= Len(Rras) - b
      BY <1>5, <1>6, <2>1
    <2> DEFINE sa == Rras[a].steps
               sb == Rras[b].steps
    <2>3. MinTime - sa <= MinTime - sb /\ sa \in Nat /\ sb \in Nat /\ MinTime \in Nat
      BY <2>1
    <2>4. sb < sa \/ (sb = sa /\ b < a)
      <3> HIDE DEF sa, sb
      <3>1. sb <= sa
        BY <2>3
      <3>2. sb = sa => Len(Rras) - a <= Len(Rras) - b
        BY <2>2 DEF sa, sb
      <3> QED  BY <2>1, <2>3, <3>1, <3>2
    <2> QED  BY <2>4 DEF Finer
  <1>8. \E x \in S : \A b \in S \ {x} : Finer(b, x)
    BY <1>7
  <1> QED  BY <1>8 DEF Coarsest

(* A query is served by one of the archives that can. *)
LEMMA ChosenIn ==
  ASSUME NEW q, Candidates(q) # {}
  PROVE  Chosen(q) \in Candidates(q) /\ Chosen(q) \in Archives
  <1> DEFINE fit  == {a \in Candidates(q) : Fits(q, a)}
             best == {a \in fit : Covers(q, a)}
  <1>1. /\ Candidates(q) \in SUBSET Archives
        /\ fit \in SUBSET Archives /\ best \in SUBSET Archives
    BY DEF Candidates
  <1>2. CASE best # {}
    BY <1>1, <1>2, FinestIn DEF Chosen
  <1>3. CASE best = {} /\ fit # {}
    BY <1>1, <1>3, CoarsestIn DEF Chosen
  <1>4. CASE best = {} /\ fit = {}
    BY <1>1, <1>4, CoarsestIn DEF Chosen
  <1> QED  BY <1>2, <1>3, <1>4

-----------------------------------------------------------------------------
(* The windows of a query *)

(* What the callers of fetch may ask, with any bound on the points. *)
Asked ==
  {q \in [cf : Cfs, from : (MinTime - 1)..MaxTime, to : MinTime..(MaxTime + 1), max : Nat] :
     q.from < q.to}

LEMMA QueriesAsked == Queries \subseteq Asked
  BY BudgetsAssumption DEF Queries, Query, Asked

LEMMA QueryType ==
  ASSUME NEW q \in Asked
  PROVE  /\ q.from \in Nat /\ q.to \in Nat /\ q.from < q.to /\ q.to <= MaxTime + 1
         /\ q.max \in Nat
  <1>1. /\ q.from \in (MinTime - 1)..MaxTime /\ q.to \in MinTime..(MaxTime + 1)
        /\ q.max \in Nat /\ q.from < q.to
    BY DEF Asked
  <1>2. MinTime - 1 \in Nat /\ MinTime \in Nat /\ MaxTime \in Nat
    BY TimeAssumption
  <1>3. q.from \in Nat /\ q.to \in Nat /\ q.to <= MaxTime + 1
    BY <1>1, <1>2
  <1> QED  BY <1>1, <1>3

LEMMA CeilFacts ==
  ASSUME NEW n \in Nat, NEW d \in Nat \ {0}
  PROVE  /\ CeilDiv(n, d) \in Nat
         /\ n <= d * CeilDiv(n, d)
         /\ n > 0 => CeilDiv(n, d) = ((n - 1) \div d) + 1
         /\ \A m \in Nat : n <= d * m => CeilDiv(n, d) <= m
  <1> DEFINE c == CeilDiv(n, d)
             r == (n + d - 1) % d
  <1>1. n + d - 1 \in Nat
    OBVIOUS
  <1>2. c \in Nat /\ r \in 0..(d - 1) /\ n + d - 1 = d * c + r
    BY <1>1, DivMod DEF CeilDiv
  <1> HIDE DEF c, r
  <1>3. d * c \in Nat
    BY <1>2
  <1>4. n <= d * c
    BY <1>2, <1>3
  <1>5. ASSUME n > 0 PROVE c = ((n - 1) \div d) + 1
    <2> DEFINE e == (n - 1) \div d
               x == (n - 1) % d
    <2>1. n - 1 \in Nat
      BY <1>5
    <2>2. e \in Nat /\ x \in 0..(d - 1) /\ n - 1 = d * e + x
      BY <2>1, DivMod
    <2> HIDE DEF e, x
    <2>3. d * (e + 1) = d * e + d /\ d * e \in Nat
      BY <2>2
    <2>4. d * (e + 1) <= n + d - 1 /\ n + d - 1 < d * (e + 1) + d
      BY <2>2, <2>3
    <2>5. (n + d - 1) \div d = e + 1
      BY <2>2, <2>4, DivUnique
    <2> QED  BY <2>5 DEF CeilDiv, c, e
  <1>6. ASSUME NEW m \in Nat, n <= d * m PROVE c <= m
    <2>1. d * c <= d * m + d - 1
      BY <1>2, <1>3, <1>6
    <2>2. SUFFICES ASSUME m < c PROVE FALSE
      BY <1>2
    <2>3. d * m + d <= d * c /\ d * m \in Nat
      BY <1>2, <2>2, MulMono
    <2> QED  BY <1>3, <2>1, <2>3
  <1> QED  BY <1>2, <1>4, <1>5, <1>6 DEF c

(* The windows from the one of q.from to the one of q.to, and the stride. *)
LEMMA CountFacts ==
  ASSUME NEW q \in Asked, NEW a \in Archives
  PROVE  /\ Count(q, a) \in Nat \ {0} /\ Stride(q, a) \in Nat \ {0}
         /\ Window(a, q.from) \in Nat
         /\ Window(a, q.to) = Window(a, q.from) + Rras[a].steps * (Count(q, a) - 1)
  <1> DEFINE p == Rras[a].steps
             i == q.from \div p
             j == q.to \div p
             A == Window(a, q.from)
             B == Window(a, q.to)
  <1>1. p \in Nat \ {0}
    BY ArchiveType
  <1>2. i \in Nat /\ A = p * i /\ j \in Nat /\ B = p * j /\ A \in Nat /\ B \in Nat
    BY QueryType, WindowBounds
  <1>3. A <= B
    BY QueryType, WindowMonotone
  <1> HIDE DEF p, i, j, A, B
  <1>4. i <= j
    <2>1. j < i => p * j < p * i
      <3>1. j < i => p * j + p <= p * i
        BY <1>1, <1>2, MulMono
      <3>2. p * j \in Nat /\ p * i \in Nat
        BY <1>2
      <3> QED  BY <1>1, <3>1, <3>2
    <2> QED  BY <1>2, <1>3, <2>1
  <1>5. j - i \in Nat /\ B = A + p * (j - i) /\ p * (j - i) \in Nat
    BY <1>1, <1>2, <1>4, MulMono
  <1>6. (B - A) \div p = j - i
    <2>1. B - A = p * (j - i) /\ B - A \in Nat
      BY <1>2, <1>5
    <2> QED  BY <1>1, <1>5, <2>1, DivUnique
  <1>7. Count(q, a) = (j - i) + 1
    BY <1>6 DEF Count, A, B, p
  <1>8. Count(q, a) \in Nat \ {0} /\ Count(q, a) - 1 = j - i
    BY <1>5, <1>7
  <1>9. Stride(q, a) \in Nat \ {0}
    <2>1. CASE q.max > 0 /\ Count(q, a) > q.max
      <3>1. Stride(q, a) = CeilDiv(Count(q, a), q.max)
        BY <2>1 DEF Stride
      <3>2. q.max \in Nat \ {0}
        BY <2>1, QueryType
      <3> DEFINE s == CeilDiv(Count(q, a), q.max)
      <3>3. s \in Nat /\ Count(q, a) <= q.max * s
        BY <1>8, <3>2, CeilFacts
      <3> HIDE DEF s
      <3>4. s # 0
        BY <1>8, <3>2, <3>3
      <3> QED  BY <3>1, <3>3, <3>4 DEF s
    <2>2. CASE ~(q.max > 0 /\ Count(q, a) > q.max)
      BY <2>2 DEF Stride
    <2> QED  BY <2>1, <2>2
  <1> QED  BY <1>2, <1>5, <1>8, <1>9 DEF A, B, p

(* A query returns every stride-th window, from the one of q.from on. *)
LEMMA WindowsAre ==
  ASSUME NEW q \in Asked, NEW a \in Archives
  PROVE  LET P == Rras[a].steps * Stride(q, a)
             N == (Count(q, a) - 1) \div Stride(q, a)
         IN  /\ P \in Nat \ {0} /\ N \in Nat
             /\ \A n \in 0..N : Window(a, q.from) + P * n \in Windows(q, a)
             /\ \A w \in Windows(q, a) : \E n \in 0..N : w = Window(a, q.from) + P * n
  <1> DEFINE p == Rras[a].steps
             k == Stride(q, a)
             c == Count(q, a) - 1
             A == Window(a, q.from)
             B == Window(a, q.to)
             P == p * k
             N == c \div k
  <1>1. p \in Nat \ {0} /\ k \in Nat \ {0} /\ c \in Nat /\ A \in Nat /\ B = A + p * c
    BY ArchiveType, CountFacts
  <1>2. Windows(q, a) = {w \in A..B : (w - A) % P = 0}
    BY DEF Windows
  <1> HIDE DEF p, k, c, A, B
  <1>3. P \in Nat \ {0} /\ N \in Nat /\ k * N <= c /\ c < k * N + k
    <2>1. P \in Nat \ {0}
      BY <1>1
    <2>2. N \in Nat /\ c % k \in 0..(k - 1) /\ c = k * N + (c % k)
      BY <1>1, DivMod
    <2> HIDE DEF N, P
    <2>3. k * N \in Nat
      BY <1>1, <2>2
    <2> QED  BY <1>1, <2>1, <2>2, <2>3
  <1> HIDE DEF N, P
  <1>4. ASSUME NEW n \in 0..N PROVE A + P * n \in Windows(q, a)
    <2>1. n \in Nat /\ n <= N
      BY <1>3
    <2>2. k * n <= c /\ k * n \in Nat
      <3>1. k * N = k * n + k * (N - n) /\ k * (N - n) \in Nat /\ k * n \in Nat /\ k * N \in Nat
        BY <1>1, <1>3, <2>1, MulMono
      <3> QED  BY <1>1, <1>3, <3>1
    <2>3. P * n = p * (k * n)
      BY <1>1, <2>1 DEF P
    <2>4. P * n \in Nat /\ P * n <= p * c
      <3>1. p * c = p * (k * n) + p * (c - k * n) /\ p * (c - k * n) \in Nat
        BY <1>1, <2>2, MulMono
      <3>2. P * n \in Nat
        BY <1>3, <2>1
      <3> QED  BY <2>3, <3>1, <3>2
    <2>5. p * c \in Nat
      BY <1>1
    <2>6. A + P * n \in A..B /\ (A + P * n) - A = P * n
      BY <1>1, <2>4, <2>5
    <2>7. (P * n) % P = 0
      <3>1. (P * n) \div P = n
        BY <1>3, <2>1, <2>4, DivUnique
      <3> DEFINE x == P * n
      <3>2. x = P * (x \div P) + (x % P) /\ x % P \in 0..(P - 1) /\ x \in Nat
        BY <1>3, <2>4, DivMod
      <3>3. x = x + (x % P)
        BY <3>1, <3>2
      <3> HIDE DEF x
      <3>4. x % P = 0
        BY <1>3, <3>2, <3>3
      <3> QED  BY <3>4 DEF x
    <2> QED  BY <1>2, <2>6, <2>7
  <1>5. ASSUME NEW w \in Windows(q, a) PROVE \E n \in 0..N : w = A + P * n
    <2> DEFINE n == (w - A) \div P
    <2>1. w \in A..B /\ (w - A) % P = 0 /\ w - A \in Nat
      BY <1>1, <1>2
    <2>2. n \in Nat /\ w - A = P * n + 0
      BY <1>3, <2>1, DivMod
    <2> HIDE DEF n
    <2>3. P * n = p * (k * n) /\ k * n \in Nat
      BY <1>1, <2>2 DEF P
    <2>4. p * (k * n) <= p * c
      <3>1. p * c \in Nat /\ P * n \in Nat
        BY <1>1, <1>3, <2>2
      <3> QED  BY <1>1, <2>1, <2>2, <2>3, <3>1
    <2>5. k * n <= c
      <3>1. c < k * n => p * c + p <= p * (k * n)
        BY <1>1, <2>3, MulMono
      <3>2. p * c \in Nat /\ p * (k * n) \in Nat
        BY <1>1, <2>3
      <3> QED  BY <1>1, <2>3, <2>4, <3>1, <3>2
    <2>6. n <= N
      <3>1. N < n => k * N + k <= k * n
        BY <1>1, <1>3, <2>2, MulMono
      <3>2. k * N \in Nat
        BY <1>1, <1>3
      <3> QED  BY <1>1, <1>3, <2>2, <2>3, <2>5, <3>1, <3>2
    <2>7. w = A + P * n
      <3>1. P * n \in Nat
        BY <1>3, <2>2
      <3> QED  BY <1>1, <2>1, <2>2, <3>1
    <2>8. n \in 0..N
      BY <1>3, <2>2, <2>6
    <2> QED  BY <2>7, <2>8
  <1> QED  BY <1>3, <1>4, <1>5 DEF p, k, c, A, P, N

(* Their number, which is the n that MAX_FETCH_POINTS guards. *)
LEMMA WindowsCount ==
  ASSUME NEW q \in Asked, NEW a \in Archives
  PROVE  /\ IsFiniteSet(Windows(q, a))
         /\ Cardinality(Windows(q, a)) = CeilDiv(Count(q, a), Stride(q, a))
  <1> DEFINE P == Rras[a].steps * Stride(q, a)
             N == (Count(q, a) - 1) \div Stride(q, a)
             A == Window(a, q.from)
             T == Windows(q, a)
             f == [n \in 0..N |-> A + P * n]
  <1>1. /\ P \in Nat \ {0} /\ N \in Nat /\ A \in Nat
        /\ \A n \in 0..N : A + P * n \in T
        /\ \A w \in T : \E n \in 0..N : w = A + P * n
    BY WindowsAre, CountFacts
  <1>2. CeilDiv(Count(q, a), Stride(q, a)) = N + 1
    <2>1. Count(q, a) \in Nat /\ Count(q, a) > 0 /\ Stride(q, a) \in Nat \ {0}
      BY CountFacts
    <2> QED  BY <2>1, CeilFacts
  <1> HIDE DEF P, N, A, T
  <1>3. f \in [0..N -> T] /\ \A w \in T : \E n \in 0..N : f[n] = w
    BY <1>1
  <1>4. \A m, n \in 0..N : f[m] = f[n] => m = n
    <2> SUFFICES ASSUME NEW m \in 0..N, NEW n \in 0..N, A + P * m = A + P * n, m # n
                 PROVE  FALSE
      OBVIOUS
    <2>1. m \in Nat /\ n \in Nat /\ P * m \in Nat /\ P * n \in Nat
      BY <1>1
    <2>2. P * m = P * n
      BY <1>1, <2>1
    <2>3. (m < n => P * m + P <= P * n) /\ (n < m => P * n + P <= P * m)
      BY <1>1, <2>1, MulMono
    <2> QED  BY <1>1, <2>1, <2>2, <2>3
  <1>5. ExistsBijection(0..N, T)
    BY <1>3, <1>4 DEF ExistsBijection, Bijection, Injection, Surjection, IsInjective
  <1>6. IsFiniteSet(0..N) /\ Cardinality(0..N) = N + 1
    BY <1>1, FS_Interval
  <1>7. IsFiniteSet(T) /\ Cardinality(T) = N + 1
    BY <1>5, <1>6, FS_Bijection
  <1> QED  BY <1>2, <1>7 DEF T

(* A window of a query is a window of the archive, in the query's range. *)
LEMMA WindowsShape ==
  ASSUME NEW q \in Asked, NEW a \in Archives, NEW w \in Windows(q, a)
  PROVE  /\ w \in Nat /\ Window(a, w) = w
         /\ Window(a, q.from) <= w /\ w <= MaxTime + 1
  <1> DEFINE p == Rras[a].steps
             k == Stride(q, a)
             i == q.from \div p
             A == Window(a, q.from)
             B == Window(a, q.to)
  <1>1. p \in Nat \ {0} /\ k \in Nat \ {0}
    BY ArchiveType, CountFacts
  <1>2. i \in Nat /\ A = p * i /\ A \in Nat /\ B \in Nat /\ B <= q.to
    BY QueryType, WindowBounds
  <1>3. PICK n \in Nat : w = A + (p * k) * n
    BY WindowsAre
  <1>4. w \in A..B
    BY DEF Windows
  <1> HIDE DEF p, k, i, A, B
  <1>5. k * n \in Nat /\ (p * k) * n = p * (k * n) /\ p * (k * n) \in Nat
    BY <1>1
  <1>6. w = p * (i + k * n) /\ i + k * n \in Nat
    <2> DEFINE x == k * n
    <2>1. x \in Nat
      BY <1>5
    <2> HIDE DEF x
    <2>2. p * (i + x) = p * i + p * x
      BY <1>1, <1>2, <2>1
    <2> QED  BY <1>2, <1>3, <1>5, <2>1, <2>2 DEF x
  <1>7. w \in Nat /\ A <= w /\ w <= B
    BY <1>2, <1>4
  <1>8. w \div p = i + k * n
    BY <1>1, <1>6, <1>7, DivUnique
  <1>9. Window(a, w) = p * (w \div p)
    BY <1>7, WindowBounds DEF p
  <1>10. w <= MaxTime + 1
    <2>1. q.to <= MaxTime + 1 /\ q.to \in Nat /\ MaxTime \in Nat
      BY QueryType, TimeAssumption
    <2> QED  BY <1>2, <1>7, <2>1
  <1> QED  BY <1>6, <1>7, <1>8, <1>9, <1>10 DEF A

(* A bounded query returns no more points than it asked for.               *)
LEMMA BoundedQuery == FetchBounded
  <1> SUFFICES ASSUME NEW q \in Queries, NEW a \in Candidates(q), ~TooMany(q, a)
               PROVE  LET n == Cardinality(Windows(q, a)) IN
                      /\ q.max > 0 => n <= q.max
                      /\ n = CeilDiv(Count(q, a), Stride(q, a)) /\ n <= MaxFetchPoints
    BY DEF FetchBounded
  <1> DEFINE c == Count(q, a)
             k == Stride(q, a)
             n == Cardinality(Windows(q, a))
  <1>1. a \in Archives /\ q \in Asked
    BY QueriesAsked DEF Candidates
  <1>2. c \in Nat \ {0} /\ k \in Nat \ {0} /\ n = CeilDiv(c, k)
    BY <1>1, CountFacts, WindowsCount
  <1>3. n \in Nat /\ n <= MaxFetchPoints
    <2>1. n \in Nat
      BY <1>2, CeilFacts
    <2> QED  BY <1>2, <2>1, BudgetsAssumption DEF TooMany
  <1>4. ASSUME q.max > 0 PROVE n <= q.max
    <2>1. q.max \in Nat \ {0}
      BY <1>1, <1>4, QueryType
    <2>2. c <= k * q.max
      <3>1. CASE c > q.max
        <4>1. k = CeilDiv(c, q.max)
          BY <1>4, <3>1 DEF Stride
        <4>2. c <= q.max * k
          BY <1>2, <2>1, <4>1, CeilFacts
        <4>3. q.max * k = k * q.max
          BY <1>2, <2>1
        <4> QED  BY <4>2, <4>3
      <3>2. CASE ~(c > q.max)
        <4>1. k = 1
          BY <3>2 DEF Stride
        <4> HIDE DEF c, k
        <4> QED  BY <1>2, <2>1, <3>2, <4>1
      <3> QED  BY <3>1, <3>2
    <2> HIDE DEF c, k, n
    <2> QED  BY <1>2, <2>1, <2>2, CeilFacts
  <1> QED  BY <1>2, <1>3, <1>4

-----------------------------------------------------------------------------
(* What a query is told *)

LEMMA HasRoundWindow ==
  ASSUME Inv, NEW a \in Archives, NEW w \in Nat, Window(a, w) = w, HasRound(a, w)
  PROVE  lastUpdate # 0 /\ \E t \in Times : Window(a, t) = w
  <1>1. PICK t \in Times : w <= t /\ t < w + Rras[a].steps /\ accepted[t] # Absent
    BY DEF HasRound, InWindow
  <1>2. Window(a, t) = w
    BY <1>1, TimesNat, WindowUnique
  <1>3. lastUpdate # 0
    BY <1>1 DEF Inv, HistoryBound
  <1> QED  BY <1>2, <1>3

(* The ring of an archive that covers the query still holds the rows of all *)
(* its settled windows.                                                     *)
LEMMA CoveredIsHeld ==
  ASSUME Inv, NEW q \in Asked, NEW a \in Archives, Covers(q, a),
         NEW w \in Windows(q, a), Settled(a, w)
  PROVE  row[a][SlotOf(a, w)].ts = w
  <1> DEFINE p == Rras[a].steps
             n == Rras[a].rows
             F == Window(a, q.from)
             L == Window(a, lastUpdate)
  <1>1. w \in Nat /\ Window(a, w) = w /\ F <= w
    BY WindowsShape
  <1>2. HasRound(a, w)
    BY DEF Settled
  <1>3. lastUpdate # 0 /\ \E t \in Times : Window(a, t) = w
    BY <1>1, <1>2, HasRoundWindow
  <1>4. F >= L - (n - 1) * p
    BY <1>3 DEF Covers
  <1>5. /\ p \in Nat \ {0} /\ n \in Nat \ {0} /\ F \in Nat /\ L \in Nat
    BY ArchiveType, QueryType, WindowBounds DEF Inv, TypeOK
  <1> HIDE DEF p, n, F, L
  <1>6. w > L - n * p
    <2>1. n * p = (n - 1) * p + p /\ (n - 1) * p \in Int
      BY <1>5
    <2> HIDE DEF p, n
    <2> QED  BY <1>1, <1>4, <1>5, <2>1
  <1> QED  BY <1>3, <1>6 DEF Inv, RowsRetained, p, n, L

(* The point of a window is the truth, or unknown. *)
LEMMA PointIsTruth ==
  ASSUME RowsFaithful, NEW a \in Archives, NEW w \in Nat \ {0}
  PROVE  PointAt(a, w) # NaN => PointAt(a, w) = Truth(a, w)
  <1> SUFFICES ASSUME PointAt(a, w) # NaN PROVE PointAt(a, w) = Truth(a, w)
    OBVIOUS
  <1>1. row[a][SlotOf(a, w)].ts = w /\ PointAt(a, w) = row[a][SlotOf(a, w)].val
    BY DEF PointAt
  <1>2. SlotOf(a, w) \in Slots(a)
    BY SlotType
  <1>3. Settled(a, w) /\ row[a][SlotOf(a, w)].val = Reference(a, w)
    BY <1>1, <1>2 DEF RowsFaithful
  <1> QED  BY <1>1, <1>3 DEF Truth

(* In an archive that covers the query it is the truth. *)
LEMMA CoveredIsTruth ==
  ASSUME Inv, RowsFaithful, NEW q \in Asked, NEW a \in Archives, Covers(q, a),
         NEW w \in Windows(q, a), w # 0
  PROVE  PointAt(a, w) = Truth(a, w)
  <1>1. w \in Nat \ {0}
    BY WindowsShape
  <1>2. CASE PointAt(a, w) # NaN
    BY <1>1, <1>2, PointIsTruth
  <1>3. CASE PointAt(a, w) = NaN /\ Settled(a, w)
    <2>1. row[a][SlotOf(a, w)].ts = w
      BY <1>3, CoveredIsHeld
    <2>2. SlotOf(a, w) \in Slots(a)
      BY <1>1, SlotType
    <2>3. row[a][SlotOf(a, w)].val = Reference(a, w)
      BY <1>1, <2>1, <2>2 DEF RowsFaithful
    <2> QED  BY <1>3, <2>1, <2>3 DEF PointAt, Truth
  <1>4. CASE PointAt(a, w) = NaN /\ ~Settled(a, w)
    BY <1>4 DEF Truth
  <1> QED  BY <1>2, <1>3, <1>4

LEMMA RightQuery ==
  ASSUME Inv, RowsFaithful, NEW q \in Asked, NEW a \in Archives
  PROVE  FetchRight(q, a, ExactAt(a))
  <1> SUFFICES ASSUME NEW w \in Windows(q, a), w \notin ExactAt(a)
               PROVE  ~Covers(q, a) /\ PointAt(a, w) = NaN
    <2>1. (\A w \in Windows(q, a) : w \notin ExactAt(a) => ~Covers(q, a) /\ PointAt(a, w) = NaN)
            => FetchRight(q, a, ExactAt(a))
      BY DEF FetchRight
    <2> QED  BY <2>1
  <1>1. w \in 1..(MaxTime + 1) /\ w = Window(a, w) /\ w \in Nat \ {0}
    <2>1. w # 0
      BY DEF ExactAt
    <2> QED  BY <2>1, WindowsShape, TimeAssumption
  <1>2. PointAt(a, w) # Truth(a, w)
    BY <1>1 DEF ExactAt
  <1>3. PointAt(a, w) = NaN
    BY <1>1, <1>2, PointIsTruth
  <1>4. ~Covers(q, a)
    BY <1>1, <1>2, CoveredIsTruth
  <1> QED  BY <1>3, <1>4

(* fetch, whatever archive it chose, returns the consolidation of a window  *)
(* or NaN, the consolidation of every settled window if the archive covers  *)
(* the query, and never more points than asked for.                         *)
THEOREM FetchIsExact == Spec => []FetchExact
  <1>1. Inv /\ RowsFaithful => FetchExact
    <2> SUFFICES ASSUME Inv, RowsFaithful,
                        NEW exact \in {[a \in Archives |-> ExactAt(a)]},
                        NEW q \in Queries, Candidates(q) # {}
                 PROVE  FetchRight(q, Chosen(q), exact[Chosen(q)])
      BY BoundedQuery DEF FetchExact
    <2>1. Chosen(q) \in Archives
      BY ChosenIn
    <2>2. exact[Chosen(q)] = ExactAt(Chosen(q))
      BY <2>1
    <2>3. FetchRight(q, Chosen(q), ExactAt(Chosen(q)))
      BY <2>1, QueriesAsked, RightQuery
    <2> QED  BY <2>2, <2>3
  <1> QED  BY <1>1, Invariance, RowsAreFaithful, PTL

-----------------------------------------------------------------------------
(* The views *)

LEMMA SumSingle ==
  ASSUME NEW f, NEW x, f[x] \in Int
  PROVE  Sum(f, {x}) = f[x]
  <1>1. Sum(f, {x}) = f[x] + Sum(f, {x} \ {x})
    BY FS_Singleton, SumSplit
  <1>2. {x} \ {x} = {}
    OBVIOUS
  <1> QED  BY <1>1, <1>2, SumEmpty

(* A window whose rounds are all known is settled. *)
LEMMA FullIsSettled ==
  ASSUME Inv, NEW a \in Archives, NEW w \in Nat, Window(a, w) = w,
         w + Rras[a].steps - 1 \in Times, w \in Times,
         accepted[w + Rras[a].steps - 1] # Absent
  PROVE  Settled(a, w)
  <1> DEFINE p == Rras[a].steps
             e == w + p - 1
  <1>1. p \in Nat \ {0} /\ lastUpdate \in Nat /\ e <= lastUpdate
    BY ArchiveType DEF Inv, TypeOK, HistoryBound
  <1>2. HasRound(a, w)
    <2>1. w <= e /\ e < w + p
      BY <1>1
    <2> QED  BY <2>1 DEF HasRound, InWindow
  <1>3. CASE lastUpdate = e
    BY <1>2, <1>3 DEF Settled
  <1>4. CASE lastUpdate # e
    <2>1. w + p <= lastUpdate
      BY <1>1, <1>4
    <2>2. Window(a, lastUpdate) \in Nat /\ lastUpdate < Window(a, lastUpdate) + p
      BY <1>1, WindowBounds
    <2>3. Window(a, lastUpdate) > w
      BY <1>1, <2>1, <2>2
    <2> QED  BY <1>2, <2>3 DEF Settled
  <1> QED  BY <1>3, <1>4

(* A raw archive that covers a round repeats it. *)
LEMMA RawTruth ==
  ASSUME Inv, NEW a \in Archives, Rras[a].steps = 1, NEW w \in Times
  PROVE  Truth(a, w) = IF accepted[w] \in {NaN, Absent} THEN NaN ELSE Mean(accepted[w], 1)
  <1>1. w \in Nat /\ Window(a, w) = w
    <2>1. w \in Nat /\ Window(a, w) \in Nat /\ Window(a, w) <= w /\ w < Window(a, w) + 1
      BY TimesNat, WindowBounds
    <2> QED  BY <2>1
  <1>2. InWindow(a, w) = {w}
    <2>1. \A u \in Times : u \in Nat
      BY TimesNat
    <2>2. \A u \in Times : w <= u /\ u < w + 1 <=> u = w
      BY <1>1, <2>1
    <2> QED  BY <2>2 DEF InWindow
  <1>3. CASE accepted[w] \in {NaN, Absent}
    <2>1. KnownIn(a, w) = {}
      BY <1>2, <1>3 DEF KnownIn
    <2>2. Reference(a, w) = NaN
      BY <2>1, FS_EmptySet DEF Reference, TooSparse
    <2> QED  BY <1>3, <2>2 DEF Truth
  <1>4. CASE accepted[w] \notin {NaN, Absent}
    <2>1. KnownIn(a, w) = {w} /\ ValuesIn(a, w) = {accepted[w]}
      BY <1>2, <1>4 DEF KnownIn, ValuesIn
    <2>2. accepted[w] \in Int
      BY <1>4, ValuesAssumption DEF Inv, TypeOK
    <2>3. SumIn(a, w) = accepted[w]
      <3>1. SumIn(a, w) = Sum(accepted, KnownIn(a, w))
        BY DEF SumIn, Sum
      <3> QED  BY <2>1, <2>2, <3>1, SumSingle
    <2>4. Min(ValuesIn(a, w)) = accepted[w] /\ Max(ValuesIn(a, w)) = accepted[w]
      BY <2>1, <2>2 DEF Min, Max
    <2>5. Cardinality(KnownIn(a, w)) = 1
      BY <2>1, FS_Singleton
    <2>6. ~TooSparse(a, 1)
      BY ArchiveType DEF TooSparse
    <2>7. Reference(a, w) = Mean(accepted[w], 1)
      BY <2>3, <2>4, <2>5, <2>6, ArchiveType DEF Reference, Cfs
    <2>8. Settled(a, w)
      <3>1. w + Rras[a].steps - 1 = w
        BY <1>1
      <3> QED  BY <1>1, <1>4, <3>1, FullIsSettled
    <2> QED  BY <1>4, <2>7, <2>8 DEF Truth
  <1> QED  BY <1>3, <1>4

(* Without a bound on the points, an archive that covers the query, if there *)
(* is a raw one, leads to a raw one that does.                               *)
LEMMA RawChosen ==
  ASSUME NEW q \in Asked, q.max = 0,
         NEW r \in Archives, Rras[r].steps = 1, Covers(q, r)
  PROVE  LET a == Chosen(q) IN
         a \in Archives /\ Rras[a].steps = 1 /\ Covers(q, a) /\ Candidates(q) # {}
  <1> DEFINE fit  == {x \in Candidates(q) : Fits(q, x)}
             best == {x \in fit : Covers(q, x)}
             a    == Finest(best)
  <1>1. r \in best
    BY DEF Candidates, Fits
  <1>2. best \in SUBSET Archives /\ Chosen(q) = a
    BY <1>1 DEF Candidates, Chosen
  <1>3. a \in best /\ \A b \in best \ {a} : Finer(a, b)
    BY <1>1, <1>2, FinestIn
  <1>4. Rras[a].steps = 1
    <2>1. CASE a = r
      BY <2>1
    <2>2. CASE a # r
      <3>1. Finer(a, r)
        BY <1>1, <1>3, <2>2
      <3>2. Rras[a].steps \in Nat \ {0}
        BY <1>2, <1>3, ArchiveType
      <3> QED  BY <3>1, <3>2 DEF Finer
    <2> QED  BY <2>1, <2>2
  <1> QED  BY <1>1, <1>2, <1>3, <1>4

LEMMA TopNewest ==
  ASSUME Inv, RowsFaithful
  PROVE  TopIsNewest
  <1> SUFFICES ASSUME NEW t \in Moments, t - LookBack \in Times,
                      NEW r \in Archives, Rras[r].steps = 1, Rras[r].rows > LookBack
               PROVE  LET known == KnownRounds(t - LookBack, t) IN
                      TopPoint(t) = IF known = {} THEN Absent ELSE Mean(accepted[Max(known)], 1)
    BY DEF TopIsNewest
  <1> DEFINE from == t - LookBack
             q == TopQuery(t)
             a == Chosen(q)
             known == KnownRounds(from, t)
  <1>1. /\ t \in Nat /\ from \in Nat /\ LookBack \in Nat \ {0} /\ t = from + LookBack
        /\ t \in Times /\ lastUpdate \in Nat /\ lastUpdate <= t /\ 0 \notin Times
        /\ LookBack < MaxFetchPoints /\ MaxFetchPoints \in Nat
    BY TimesNat, ViewsAssumption, BudgetsAssumption DEF Moments, Inv, TypeOK
  <1>2. q.from = from /\ q.to = t /\ q.max = 0 /\ q.cf = "average" /\ q \in Asked
    <2>1. q = [cf |-> "average", from |-> from, to |-> t, max |-> 0]
      BY DEF TopQuery, Average
    <2>2. from \in (MinTime - 1)..MaxTime /\ t \in MinTime..(MaxTime + 1) /\ from < t
      BY <1>1, TimeAssumption DEF Times
    <2> HIDE DEF q, from
    <2> QED  BY <2>1, <2>2 DEF Asked, Cfs
  <1>3. \A b \in Archives, u \in Nat : Rras[b].steps = 1 => Window(b, u) = u
    <2> SUFFICES ASSUME NEW b \in Archives, NEW u \in Nat, Rras[b].steps = 1
                 PROVE  Window(b, u) = u
      OBVIOUS
    <2>1. Window(b, u) \in Nat /\ Window(b, u) <= u /\ u < Window(b, u) + 1
      BY WindowBounds
    <2> QED  BY <2>1
  <1>4. Covers(q, r)
    <2>1. Window(r, q.from) = from /\ Window(r, lastUpdate) = lastUpdate
      BY <1>1, <1>2, <1>3
    <2>2. Rras[r].rows \in Nat
      BY ArchiveType
    <2>3. from >= lastUpdate - (Rras[r].rows - 1) * 1
      BY <1>1, <2>2
    <2> QED  BY <2>1, <2>3 DEF Covers
  <1>5. a \in Archives /\ Rras[a].steps = 1 /\ Covers(q, a) /\ Candidates(q) # {}
    BY <1>2, <1>4, RawChosen
  <1> HIDE DEF q, a, from, known
  <1>6. Stride(q, a) = 1 /\ Count(q, a) = LookBack + 1
    <2>1. Window(a, q.from) = from /\ Window(a, q.to) = t
      BY <1>1, <1>2, <1>3, <1>5
    <2>2. Count(q, a) = (t - from) \div 1 + 1
      BY <1>5, <2>1 DEF Count
    <2>3. (t - from) \div 1 = LookBack
      BY <1>1
    <2> QED  BY <1>2, <2>2, <2>3 DEF Stride
  <1>7. ~Fails(q)
    <2>1. CeilDiv(LookBack + 1, 1) = LookBack + 1
      BY <1>1 DEF CeilDiv
    <2>2. ~TooMany(q, a)
      BY <1>1, <1>6, <2>1 DEF TooMany
    <2> QED  BY <1>5, <2>2 DEF Fails, a
  <1>8. Windows(q, a) = from..t
    <2>1. Window(a, q.from) = from /\ Window(a, q.to) = t
      BY <1>1, <1>2, <1>3, <1>5
    <2>2. \A w \in from..t : (w - from) % (1 * 1) = 0
      BY <1>1
    <2> QED  BY <1>5, <1>6, <2>1, <2>2 DEF Windows
  <1>9. from..t \subseteq Times /\ \A u \in Times : u \in Nat
    <2>1. from \in Times
      BY DEF from
    <2> QED  BY <1>1, <2>1, TimeAssumption DEF Times
  <1>10. \A w \in from..t : PointAt(a, w) = IF accepted[w] \in {NaN, Absent} THEN NaN
                                            ELSE Mean(accepted[w], 1)
    <2> SUFFICES ASSUME NEW w \in from..t
                 PROVE  PointAt(a, w) = IF accepted[w] \in {NaN, Absent} THEN NaN
                                        ELSE Mean(accepted[w], 1)
      OBVIOUS
    <2>1. w \in Times /\ w # 0
      BY <1>1, <1>9
    <2>2. PointAt(a, w) = Truth(a, w)
      BY <1>2, <1>5, <1>8, <2>1, CoveredIsTruth
    <2> QED  BY <1>5, <2>1, <2>2, RawTruth
  <1>11. \A w \in from..t : PointAt(a, w) # NaN <=> accepted[w] \notin {NaN, Absent}
    <2>1. \A x \in Int : Mean(x, 1) # NaN
      BY ValuesAssumption DEF Mean
    <2>2. \A w \in from..t : accepted[w] \in Int \cup {NaN, Absent}
      BY <1>9, ValuesAssumption DEF Inv, TypeOK
    <2> QED  BY <1>10, <2>1, <2>2
  <1>12. KnownPoints(q) = known
    <2>1. KnownPoints(q) = {w \in from..t : PointAt(a, w) # NaN}
      BY <1>7, <1>8 DEF KnownPoints, a
    <2>2. known = {w \in from..t : accepted[w] \notin {NaN, Absent}}
      <3>1. \A u \in Times : u \in from..t <=> from <= u /\ u <= t
        BY <1>1, <1>9
      <3> QED  BY <1>9, <3>1 DEF known, KnownRounds
    <2> QED  BY <1>11, <2>1, <2>2
  <1>13. CASE known = {}
    BY <1>12, <1>13 DEF TopPoint, q, known, from
  <1>14. CASE known # {}
    <2>1. known \subseteq from..t /\ \A w \in known : accepted[w] \notin {NaN, Absent}
      <3>1. \A u \in Times : from <= u /\ u <= t => u \in from..t
        BY <1>1, <1>9
      <3> QED  BY <3>1 DEF known, KnownRounds
    <2>2. Max(known) \in known
      <3>1. \E m \in known : \A n \in known : m >= n
        <4> DEFINE D == {t - w : w \in known}
        <4>1. \A w \in known : w \in Nat /\ t - w \in Nat
          BY <1>1, <2>1
        <4>2. D \in SUBSET Nat /\ D # {}
          BY <1>14, <4>1
        <4>3. PICK d \in D : \A e \in D : d <= e
          BY <4>2, LeastNat
        <4>4. PICK m \in known : d = t - m
          BY <4>3
        <4>5. \A n \in known : t - m <= t - n
          BY <4>3, <4>4
        <4>6. \A n \in known : m >= n
          BY <1>1, <4>1, <4>4, <4>5
        <4> QED  BY <4>6
      <3> QED  BY <3>1 DEF Max
    <2>3. PointAt(a, Max(known)) = Mean(accepted[Max(known)], 1)
      BY <1>10, <2>1, <2>2
    <2>4. TopPoint(t) = PointAt(a, Max(known))
      BY <1>12, <1>14 DEF TopPoint, q, a
    <2> QED  BY <1>14, <2>3, <2>4 DEF known, from
  <1> QED  BY <1>13, <1>14

(* A window whose rounds are all known is their mean. *)
LEMMA FullTruth ==
  ASSUME Inv, NEW a \in Archives, Rras[a].cf = "average" \/ Rras[a].steps = 1,
         NEW w \in Nat, Window(a, w) = w,
         \A u \in w..(w + Rras[a].steps - 1) : u \in Times /\ accepted[u] \notin {NaN, Absent}
  PROVE  /\ Truth(a, w) = Mean(Sum(accepted, w..(w + Rras[a].steps - 1)), Rras[a].steps)
         /\ Sum(accepted, w..(w + Rras[a].steps - 1)) \in Int
  <1> DEFINE p == Rras[a].steps
             e == w + p - 1
             X == Sum(accepted, w..e)
  <1>1. p \in Nat \ {0} /\ e \in Nat /\ w <= e
    BY ArchiveType
  <1>2. w \in w..e /\ e \in w..e /\ IsFiniteSet(w..e) /\ Cardinality(w..e) = p
    <2>1. w \in w..e /\ e \in w..e
      BY <1>1
    <2>2. IsFiniteSet(w..e) /\ Cardinality(w..e) = p
      <3> HIDE DEF p
      <3> QED  BY <1>1, RunSize
    <2> QED  BY <2>1, <2>2
  <1>3. w \in Times /\ e \in Times /\ accepted[e] # Absent /\ accepted[w] \notin {NaN, Absent}
    BY <1>2
  <1>4. Settled(a, w)
    BY <1>3, FullIsSettled
  <1>5. \A u \in w..e : accepted[u] \in Int
    BY ValuesAssumption DEF Inv, TypeOK
  <1>6. X \in Int
    BY <1>2, <1>5, SumType
  <1>7. CASE p = 1
    <2>1. e = w /\ w..e = {w}
      BY <1>7
    <2>2. X = accepted[w]
      BY <1>2, <1>5, <2>1, SumSingle
    <2>3. Truth(a, w) = Mean(accepted[w], 1)
      BY <1>3, <1>7, RawTruth
    <2> QED  BY <1>6, <1>7, <2>2, <2>3
  <1>8. CASE Rras[a].cf = "average"
    <2>1. InWindow(a, w) = w..e
      <3>1. \A u \in Times : u \in Nat
        BY TimesNat
      <3>2. \A u \in Times : w <= u /\ u < w + p <=> u \in w..e
        BY <1>1, <3>1
      <3> QED  BY <3>2 DEF InWindow
    <2>2. KnownIn(a, w) = w..e
      BY <2>1 DEF KnownIn
    <2>3. SumIn(a, w) = X
      <3>1. SumIn(a, w) = Sum(accepted, KnownIn(a, w))
        BY DEF SumIn, Sum
      <3> QED  BY <2>2, <3>1
    <2>4. ~TooSparse(a, p)
      <3>1. Rras[a].xff \in Nat
        BY ArchiveType
      <3>2. (100 - Rras[a].xff) * p <= 100 * p /\ (100 - Rras[a].xff) * p \in Int
        BY <1>1, <3>1
      <3> QED  BY <1>1, <3>2 DEF TooSparse
    <2>5. Reference(a, w) = Mean(X, p)
      BY <1>2, <1>8, <2>2, <2>3, <2>4 DEF Reference
    <2> QED  BY <1>4, <1>6, <2>5 DEF Truth
  <1> QED  BY <1>7, <1>8

(* The rounds of a day that lies within the query. *)
LEMMA DayRounds ==
  ASSUME NEW D \in Nat \ {0}, NEW from \in Times, NEW t \in Times,
         NEW d \in (from \div D + 1)..((t + 1) \div D - 1)
  PROVE  /\ d \in Nat /\ D * d \in Nat /\ from < D * d /\ D * d + D - 1 <= t
         /\ (D * d)..(D * d + D - 1) \subseteq Times
         /\ \A u \in Nat : u \div D = d <=> u \in (D * d)..(D * d + D - 1)
  <1> DEFINE i == from \div D
             j == (t + 1) \div D
  <1>1. from \in Nat /\ t + 1 \in Nat /\ t \in Nat
    BY TimesNat
  <1>2. /\ i \in Nat /\ from % D \in 0..(D - 1) /\ from = D * i + (from % D)
        /\ j \in Nat /\ (t + 1) % D \in 0..(D - 1) /\ t + 1 = D * j + ((t + 1) % D)
    BY <1>1, DivMod
  <1>3. d \in (i + 1)..(j - 1)
    OBVIOUS
  <1> HIDE DEF i, j
  <1>4. d \in Nat /\ i < d /\ d + 1 <= j /\ d + 1 \in Nat
    BY <1>2, <1>3
  <1>5. D * i + D <= D * d /\ D * d \in Nat /\ D * i \in Nat
    BY <1>2, <1>4, MulMono
  <1>6. D * j = D * (d + 1) + D * (j - (d + 1)) /\ D * (j - (d + 1)) \in Nat
    BY <1>2, <1>4, MulMono
  <1>7. D * (d + 1) = D * d + D
    BY <1>4
  <1>8. from < D * d
    BY <1>1, <1>2, <1>5
  <1>9. D * d + D - 1 <= t
    BY <1>1, <1>2, <1>5, <1>6, <1>7
  <1>10. (D * d)..(D * d + D - 1) \subseteq Times
    BY <1>1, <1>5, <1>8, <1>9, TimeAssumption DEF Times
  <1>11. ASSUME NEW u \in Nat PROVE u \div D = d <=> u \in (D * d)..(D * d + D - 1)
    <2>1. ASSUME u \div D = d PROVE u \in (D * d)..(D * d + D - 1)
      <3>1. u = D * d + (u % D) /\ u % D \in 0..(D - 1)
        BY <2>1, DivMod
      <3> QED  BY <1>5, <3>1
    <2>2. ASSUME u \in (D * d)..(D * d + D - 1) PROVE u \div D = d
      <3>1. D * d <= u /\ u < D * d + D
        BY <1>5, <2>2
      <3> QED  BY <1>4, <3>1, DivUnique
    <2> QED  BY <2>1, <2>2
  <1> QED  BY <1>4, <1>5, <1>8, <1>9, <1>10, <1>11

LEMMA UptimeMean ==
  ASSUME Inv, RowsFaithful
  PROVE  UptimeIsMean
  <1> SUFFICES
        ASSUME NEW t \in Moments, NEW days \in 1..2,
               LET q == DaysQuery(t, days)
                   a == Chosen(q)
               IN  /\ q.from \in Times /\ ~Fails(q) /\ Covers(q, a) /\ Stride(q, a) = 1
                   /\ Day % Rras[a].steps = 0,
               NEW d \in (DaysQuery(t, days).from \div Day + 1)..((t + 1) \div Day - 1),
               LET all == {u \in Times : u \div Day = d} IN
                  \A u \in all : accepted[u] \notin {NaN, Absent}
        PROVE  LET a    == Chosen(DaysQuery(t, days))
                   all  == {u \in Times : u \div Day = d}
                   rows == DayPoint(t, days, d)
                   num  == [w \in rows |-> PointAt(a, w).num]
                   den  == [w \in rows |-> PointAt(a, w).den]
               IN  /\ rows # {}
                   /\ MapThenSumSet(LAMBDA w : num[w], rows) * Day
                      = MapThenSumSet(LAMBDA u : accepted[u], all)
                        * MapThenSumSet(LAMBDA w : den[w], rows)
    BY DEF UptimeIsMean
  <1> DEFINE q    == DaysQuery(t, days)
             a    == Chosen(q)
             p    == Rras[a].steps
             all  == {u \in Times : u \div Day = d}
             rows == DayPoint(t, days, d)
             num  == [w \in rows |-> PointAt(a, w).num]
             den  == [w \in rows |-> PointAt(a, w).den]
             D0   == Day * d
             M    == Day \div p
  (* The query and its archive. *)
  <1>1. /\ q.from \in Times /\ ~Fails(q) /\ Covers(q, a) /\ Stride(q, a) = 1 /\ Day % p = 0
        /\ d \in (q.from \div Day + 1)..((t + 1) \div Day - 1)
        /\ \A u \in all : accepted[u] \notin {NaN, Absent}
        /\ t \in Times /\ t \in Nat /\ Day \in Nat \ {0} /\ DayPoints \in Nat \ {0}
    BY TimesNat, ViewsAssumption DEF Moments
  <1>2. q.from = t - days * Day /\ q.to = t /\ q.cf = "average" /\ q \in Asked
    <2> DEFINE from == t - days * Day
               max  == days * DayPoints
    <2>1. q = [cf |-> "average", from |-> from, to |-> t, max |-> max]
      BY DEF DaysQuery, Average
    <2>2. from < t /\ max \in Nat
      BY <1>1
    <2>3. from \in (MinTime - 1)..MaxTime /\ t \in MinTime..(MaxTime + 1)
      <3>1. from \in Times
        BY <1>1, <2>1
      <3> QED  BY <1>1, <3>1, TimeAssumption DEF Times
    <2> HIDE DEF q, from, max
    <2>4. q \in Asked
      BY <2>1, <2>2, <2>3 DEF Asked, Cfs
    <2> QED  BY <2>1, <2>4 DEF from
  <1> HIDE DEF q, a
  <1>3. /\ a \in Archives /\ p \in Nat \ {0} /\ (Rras[a].cf = "average" \/ p = 1)
        /\ \A w : w \in rows <=> w \in Windows(q, a) /\ PointAt(a, w) # NaN /\ w \div Day = d
    <2>1. Candidates(q) # {}
      BY <1>1 DEF Fails
    <2>2. a \in Candidates(q) /\ a \in Archives
      BY <2>1, ChosenIn DEF a
    <2>3. KnownPoints(q) = {w \in Windows(q, a) : PointAt(a, w) # NaN}
      BY <1>1 DEF KnownPoints, a
    <2>4. rows = {w \in KnownPoints(q) : w \div Day = d}
      BY DEF DayPoint, q
    <2> QED  BY <1>2, <2>2, <2>3, <2>4, ArchiveType DEF Candidates
  (* The day is M windows. *)
  <1>4. /\ d \in Nat /\ D0 \in Nat /\ q.from < D0 /\ D0 + Day - 1 <= t
        /\ D0..(D0 + Day - 1) \subseteq Times
        /\ \A u \in Nat : u \div Day = d <=> u \in D0..(D0 + Day - 1)
    BY <1>1, DayRounds
  <1>5. all = D0..(D0 + Day - 1) /\ \A u \in D0..(D0 + Day - 1) : accepted[u] \notin {NaN, Absent}
    <2>1. all = D0..(D0 + Day - 1)
      BY <1>4, TimesNat
    <2> QED  BY <1>1, <2>1
  <1>6. M \in Nat \ {0} /\ Day = p * M /\ D0 = p * (M * d) /\ M * d \in Nat
    <2>1. M \in Nat /\ Day = p * M + 0
      BY <1>1, <1>3, DivMod
    <2> HIDE DEF M, p
    <2>2. M # 0 /\ Day = p * M
      BY <1>1, <1>3, <2>1
    <2>3. (p * M) * d = p * (M * d) /\ M * d \in Nat
      BY <1>3, <1>4, <2>1
    <2> QED  BY <2>1, <2>2, <2>3
  <1> HIDE DEF p, M, D0, all, rows
  (* Each of them is the mean of its rounds. *)
  <1>7. ASSUME NEW i \in 0..(M - 1)
        PROVE  LET w == D0 + p * i
                   X == Sum(accepted, w..(w + p - 1))
               IN  w \in rows /\ PointAt(a, w) = Mean(X, p) /\ X \in Int
    <2> DEFINE w == D0 + p * i
               X == Sum(accepted, w..(w + p - 1))
    <2>1. i \in Nat /\ p * i \in Nat /\ i + 1 <= M /\ w \in Nat /\ D0 <= w
      BY <1>3, <1>4, <1>6
    <2>2. w + p - 1 <= D0 + Day - 1
      <3>1. p * M = p * (i + 1) + p * (M - (i + 1)) /\ p * (M - (i + 1)) \in Nat
        BY <1>3, <1>6, <2>1, MulMono
      <3>2. p * (i + 1) = p * i + p
        BY <1>3, <2>1
      <3> QED  BY <1>3, <1>4, <1>6, <2>1, <3>1, <3>2
    <2>3. w = p * (M * d + i) /\ M * d + i \in Nat
      <3> DEFINE x == M * d
      <3>1. x \in Nat /\ D0 = p * x
        BY <1>6
      <3> HIDE DEF x
      <3>2. p * (x + i) = p * x + p * i
        BY <1>3, <2>1, <3>1
      <3> QED  BY <2>1, <3>1, <3>2 DEF x
    <2> HIDE DEF w
    <2>4. Window(a, w) = w
      <3>1. w \div p = M * d + i
        BY <1>3, <2>1, <2>3, DivUnique
      <3> QED  BY <1>3, <2>1, <2>3, <3>1, WindowBounds DEF p
    <2>5. w \in D0..(D0 + Day - 1) /\ w..(w + p - 1) \subseteq D0..(D0 + Day - 1)
      BY <1>1, <1>3, <1>4, <2>1, <2>2
    <2>6. w # 0
      BY <1>4, <2>5, TimesNat
    <2>7. w \in Windows(q, a)
      <3> DEFINE A == Window(a, q.from)
                 B == Window(a, q.to)
                 k == q.from \div p
                 x == M * d + i
      <3>1. k \in Nat /\ A = p * k /\ A \in Nat /\ A <= q.from /\ B \in Nat /\ q.from \in Nat
        BY <1>2, <1>3, QueryType, WindowBounds DEF p
      <3>2. A <= w
        BY <1>4, <2>1, <3>1
      <3>3. w <= B
        <4>1. w <= t
          BY <1>1, <1>3, <1>4, <2>1, <2>2
        <4> QED  BY <1>1, <1>2, <1>3, <2>1, <2>4, <4>1, WindowMonotone
      <3>4. (w - A) % (p * 1) = 0
        <4>1. x \in Nat /\ w = p * x
          BY <2>3
        <4> HIDE DEF x, k, A, B
        <4>2. p * k <= p * x
          BY <3>1, <3>2, <4>1
        <4>3. k <= x
          <5>1. x < k => p * x + p <= p * k
            BY <1>3, <3>1, <4>1, MulMono
          <5>2. p * x \in Nat /\ p * k \in Nat
            BY <1>3, <3>1, <4>1
          <5> QED  BY <1>3, <3>1, <4>1, <4>2, <5>1, <5>2
        <4> DEFINE n == w - A
                   m == x - k
        <4>4. m \in Nat /\ n = p * m /\ n \in Nat
          BY <1>3, <3>1, <3>2, <4>1, <4>3, <2>1, MulMono
        <4> HIDE DEF n, m
        <4>5. n \div p = m
          BY <1>3, <4>4, DivUnique
        <4>6. n = p * m + (n % p) /\ n % p \in 0..(p - 1)
          <5>1. n = p * (n \div p) + (n % p) /\ n % p \in 0..(p - 1)
            BY <1>3, <4>4, DivMod
          <5> QED  BY <4>5, <5>1
        <4>7. n % p = 0
          BY <4>4, <4>6
        <4> QED  BY <1>3, <4>7 DEF n
      <3>5. w \in A..B
        BY <2>1, <3>1, <3>2, <3>3
      <3> QED  BY <1>1, <3>4, <3>5 DEF Windows, p
    <2>8. Truth(a, w) = Mean(X, p) /\ X \in Int
      <3>1. \A u \in w..(w + p - 1) : u \in Times /\ accepted[u] \notin {NaN, Absent}
        BY <1>4, <1>5, <2>5
      <3> QED  BY <1>3, <2>1, <2>4, <3>1, FullTruth DEF p
    <2>9. PointAt(a, w) = Mean(X, p)
      BY <1>1, <1>2, <1>3, <2>6, <2>7, <2>8, CoveredIsTruth
    <2>10. PointAt(a, w) # NaN
      BY <1>3, <2>8, <2>9, ValuesAssumption DEF Mean
    <2>11. w \in rows
      BY <1>3, <1>4, <2>1, <2>5, <2>7, <2>10
    <2> QED  BY <2>8, <2>9, <2>11 DEF w
  (* There are no others. *)
  <1>8. rows = Blocks(D0, p, M)
    <2>1. ASSUME NEW w \in rows PROVE \E i \in 0..(M - 1) : w = D0 + p * i
      <3> DEFINE x == w \div p
                 y == M * d
      <3>1. w \in Nat /\ Window(a, w) = w /\ w \div Day = d
        BY <1>2, <1>3, WindowsShape
      <3>2. w \in D0..(D0 + Day - 1)
        BY <1>4, <3>1
      <3>3. x \in Nat /\ w = p * x /\ y \in Nat /\ D0 = p * y
        BY <1>3, <1>6, <3>1, WindowBounds DEF p
      <3> HIDE DEF x, y
      <3>4. y <= x
        <4>1. x < y => p * x + p <= p * y
          BY <1>3, <3>3, MulMono
        <4> QED  BY <1>3, <1>4, <3>1, <3>2, <3>3, <4>1
      <3>5. p * x = p * y + p * (x - y) /\ x - y \in Nat /\ p * (x - y) \in Nat
        BY <1>3, <3>3, <3>4, MulMono
      <3>6. x - y < M
        <4>1. p * (x - y) < p * M
          BY <1>1, <1>4, <1>6, <3>1, <3>2, <3>3, <3>5
        <4> QED  BY <1>3, <1>6, <3>5, <4>1, MulMono
      <3>7. x - y \in 0..(M - 1) /\ w = D0 + p * (x - y)
        BY <1>6, <3>3, <3>5, <3>6
      <3> QED  BY <3>7
    <2>2. \A i \in 0..(M - 1) : D0 + p * i \in rows
      BY <1>7
    <2> QED  BY <2>1, <2>2 DEF Blocks
  <1>9. \A i \in 0..(M - 1) :
              LET w == D0 + p * i IN
              num[w] = Sum(accepted, w..(w + p - 1)) /\ den[w] = p
    <2> SUFFICES ASSUME NEW i \in 0..(M - 1)
                 PROVE  LET w == D0 + p * i IN
                        num[w] = Sum(accepted, w..(w + p - 1)) /\ den[w] = p
      OBVIOUS
    <2> DEFINE w == D0 + p * i
               X == Sum(accepted, w..(w + p - 1))
    <2>1. w \in rows /\ PointAt(a, w) = [num |-> X, den |-> p]
      BY <1>7 DEF Mean
    <2> HIDE DEF w, X
    <2>2. num[w] = X /\ den[w] = p
      BY <2>1
    <2> QED  BY <2>2 DEF w, X
  (* Their sums add up to the day's, and their counts to its rounds. *)
  <1>10. Sum(num, rows) = Sum(accepted, all)
    <2>1. \A i \in 0..(M - 1) :
            num[D0 + p * i] = Sum(accepted, (D0 + p * i)..(D0 + p * i + p - 1))
      BY <1>9
    <2>2. \A u \in D0..(D0 + p * M - 1) : accepted[u] \in Int
      BY <1>4, <1>5, <1>6, ValuesAssumption DEF Inv, TypeOK
    <2>3. p \in Nat \ {0} /\ D0 \in Nat /\ M \in Nat
      BY <1>3, <1>4, <1>6
    <2> HIDE DEF num, p, D0, M
    <2>4. Condenses(num, accepted, D0, p, M)
      BY <2>1, <2>2 DEF Condenses
    <2>5. Sum(num, Blocks(D0, p, M)) = Sum(accepted, D0..(D0 + p * M - 1))
      BY <2>3, <2>4, SumBlocks
    <2> USE DEF num, p, D0, M
    <2> QED  BY <1>5, <1>6, <1>8, <2>5
  <1>11. Sum(den, rows) = Day
    <2> DEFINE one == [u \in Nat |-> 1]
    <2>1. \A b \in Nat, n \in Nat \ {0} : Sum(one, b..(b + n - 1)) = n
      <3> SUFFICES ASSUME NEW b \in Nat, NEW n \in Nat \ {0}
                   PROVE  Sum(one, b..(b + n - 1)) = n
        OBVIOUS
      <3> DEFINE I == b..(b + n - 1)
      <3>2. IsFiniteSet(I) /\ Cardinality(I) = n
        BY RunSize
      <3>3. \A u \in I : one[u] = 1
        OBVIOUS
      <3> HIDE DEF I, one
      <3>4. 1 \in Int
        OBVIOUS
      <3>5. Sum(one, I) = Cardinality(I) * 1
        BY <3>2, <3>3, <3>4, SumConstant
      <3> QED  BY <3>2, <3>5 DEF I
    <2>2. \A i \in 0..(M - 1) :
            den[D0 + p * i] = Sum(one, (D0 + p * i)..(D0 + p * i + p - 1))
      <3> HIDE DEF one, den
      <3> SUFFICES ASSUME NEW i \in 0..(M - 1)
                   PROVE  den[D0 + p * i] = Sum(one, (D0 + p * i)..(D0 + p * i + p - 1))
        OBVIOUS
      <3>1. den[D0 + p * i] = p
        BY <1>9
      <3>2. D0 + p * i \in Nat
        BY <1>3, <1>4, <1>6
      <3> QED  BY <1>3, <2>1, <3>1, <3>2
    <2>3. \A u \in D0..(D0 + p * M - 1) : one[u] \in Int
      BY <1>4
    <2>4. p \in Nat \ {0} /\ D0 \in Nat /\ M \in Nat
      BY <1>3, <1>4, <1>6
    <2> HIDE DEF den, one, p, D0, M
    <2>5. Condenses(den, one, D0, p, M)
      BY <2>2, <2>3 DEF Condenses
    <2>6. Sum(den, Blocks(D0, p, M)) = Sum(one, D0..(D0 + p * M - 1))
      BY <2>5, <2>4, SumBlocks
    <2> USE DEF den, p, D0, M
    <2> QED  BY <1>1, <1>4, <1>6, <1>8, <2>1, <2>6
  <1>12. rows # {}
    <2>1. 0 \in 0..(M - 1)
      BY <1>6
    <2> QED  BY <1>8, <2>1 DEF Blocks
  <1>13. Sum(num, rows) * Day = Sum(accepted, all) * Sum(den, rows)
    BY <1>10, <1>11
  <1> QED  BY <1>12, <1>13 DEF Sum, q, a, all, rows

(* top_targets shows the newest known round, and uptime_days the mean of a  *)
(* day's rounds, whatever archive their queries are served by.              *)
THEOREM ViewsAreExact == Spec => []ViewsExact
  <1>1. Inv /\ RowsFaithful => ViewsExact
    BY TopNewest, UptimeMean DEF ViewsExact
  <1> QED  BY <1>1, Invariance, RowsAreFaithful, PTL


-----------------------------------------------------------------------------
(* What a call has to do *)

(* From the file f it began with, for one archive: the accumulator and rows *)
(* once the window in progress is the round's, and once the round is added. *)
Rolled(f, a, t) ==
  IF f.acc[a].start = Window(a, t) THEN f.acc[a] ELSE FreshAcc(a, Window(a, t))
RolledOver(f, a, t) ==
  IF f.acc[a].start \in {Window(a, t), Empty} THEN f.row[a]
  ELSE Finalize(a, f.row[a], f.acc[a], f.acc[a].start)
Added(f, a, t, v) == Accumulate(a, Rolled(f, a, t), v)

AccDone(f, a, t, v) ==
  IF Completes(a, t) THEN [Added(f, a, t, v) EXCEPT !.start = Empty] ELSE Added(f, a, t, v)
RowsDone(f, a, t, v) ==
  IF Completes(a, t) THEN Finalize(a, RolledOver(f, a, t), Added(f, a, t, v), Window(a, t))
  ELSE RolledOver(f, a, t)

Lates   == {"lateTs", "lateVal"}
Resets  == {"resetVal", "resetCount", "resetStart"}
Closing == {"rowTs", "rowVal", "clearStart"}
Writes  == Lates \cup Resets \cup {"addVal", "addCount"} \cup Closing

(* Where archive a is when the next write is ph. *)
PartAcc(f, a, t, v, ph) ==
  CASE ph \in Lates \cup {"resetVal"} -> f.acc[a]
    [] ph = "resetCount" -> [f.acc[a] EXCEPT !.val = FreshAcc(a, 0).val]
    [] ph = "resetStart" ->
         [start |-> f.acc[a].start, val |-> FreshAcc(a, 0).val, count |-> 0]
    [] ph = "addVal" -> Rolled(f, a, t)
    [] ph = "addCount" -> [Rolled(f, a, t) EXCEPT !.val = Added(f, a, t, v).val]
    [] ph \in Closing -> Added(f, a, t, v)
PartRows(f, a, t, v, ph) ==
  CASE ph = "lateTs" -> f.row[a]
    [] ph = "lateVal" -> [f.row[a] EXCEPT ![SlotOf(a, f.acc[a].start)].ts = f.acc[a].start]
    [] ph \in Resets \cup {"addVal", "addCount", "rowTs"} -> RolledOver(f, a, t)
    [] ph = "rowVal" -> [RolledOver(f, a, t) EXCEPT ![SlotOf(a, Window(a, t))].ts = Window(a, t)]
    [] ph = "clearStart" -> Finalize(a, RolledOver(f, a, t), Added(f, a, t, v), Window(a, t))
Reached(f, a, t, ph) ==
  /\ ph \in Lates => f.acc[a].start \notin {Window(a, t), Empty}
  /\ ph \in Resets => f.acc[a].start # Window(a, t)
  /\ ph \in Closing => Completes(a, t)

(* The two stores of finalize. *)
PutTs(a, r, w)     == [r EXCEPT ![SlotOf(a, w)].ts = w]
PutVal(a, r, w, c) == [r EXCEPT ![SlotOf(a, w)].val = RowOf(a, c.val, c.count)]

(* The stores to an accumulator. *)
SetVal(c, x)   == [c EXCEPT !.val = x]
SetCount(c, n) == [c EXCEPT !.count = n]
SetStart(c, w) == [c EXCEPT !.start = w]

(* Records and slots are those of the layout. *)
AccShape(c) ==
  /\ c = [start |-> c.start, val |-> c.val, count |-> c.count]
  /\ c.start \in Nat \cup {Empty}
RowShape(a, r) ==
  r = [s \in Slots(a) |-> [ts |-> r[s].ts, val |-> r[s].val]]
Shape(f) ==
  /\ DOMAIN f.acc = Archives /\ DOMAIN f.row = Archives
  /\ \A a \in Archives : AccShape(f.acc[a]) /\ RowShape(a, f.row[a])

Calls == [ph : Writes \cup {"commit"}, a : Archives, t : Times, v : Values \cup {NaN}]

-----------------------------------------------------------------------------
(* The inductive invariant: how far the call under way has come *)

Untouched(a) == acc[a] = before.acc[a] /\ row[a] = before.row[a]
Finished(a) ==
  /\ acc[a] = AccDone(before, a, rec.t, rec.v)
  /\ row[a] = RowsDone(before, a, rec.t, rec.v)

Progress ==
  /\ rec = Idle => before = File
  /\ rec # Idle =>
       /\ rec \in Calls
       /\ lastUpdate = 0 \/ rec.t > lastUpdate
       /\ rec.ph = "commit" => \A a \in Archives : Finished(a)
       /\ rec.ph # "commit" =>
            /\ \A a \in Archives : a < rec.a => Finished(a)
            /\ \A a \in Archives : a > rec.a => Untouched(a)
            /\ acc[rec.a] = PartAcc(before, rec.a, rec.t, rec.v, rec.ph)
            /\ row[rec.a] = PartRows(before, rec.a, rec.t, rec.v, rec.ph)
            /\ Reached(before, rec.a, rec.t, rec.ph)

StepInv ==
  /\ kills \in Nat
  /\ acc = [a \in Archives |-> acc[a]] /\ row = [a \in Archives |-> row[a]]
  /\ Shape(before) /\ before.lastUpdate = lastUpdate
  /\ Progress

-----------------------------------------------------------------------------
(* Shapes *)

LEMMA SlotsOfArchive ==
  ASSUME NEW a \in Archives, NEW t \in Times
  PROVE  Window(a, t) \in Nat /\ SlotOf(a, Window(a, t)) \in Slots(a)
  BY TimesNat, WindowBounds, SlotType

LEMMA FinalizeShape ==
  ASSUME NEW a \in Archives, NEW r, RowShape(a, r), NEW c, NEW w \in Nat
  PROVE  /\ RowShape(a, Finalize(a, r, c, w))
         /\ [[r EXCEPT ![SlotOf(a, w)].ts = w]
               EXCEPT ![SlotOf(a, w)].val = RowOf(a, c.val, c.count)] = Finalize(a, r, c, w)
  <1> DEFINE s == SlotOf(a, w)
             x == RowOf(a, c.val, c.count)
  <1>1. s \in Slots(a)
    BY SlotType
  <1>2. r = [u \in Slots(a) |-> [ts |-> r[u].ts, val |-> r[u].val]]
    BY DEF RowShape
  <1> HIDE DEF s, x
  <1> DEFINE d == [r EXCEPT ![s] = [ts |-> w, val |-> x]]
  <1>3. d = [u \in Slots(a) |-> [ts |-> d[u].ts, val |-> d[u].val]]
    BY <1>1, <1>2
  <1>4. [[r EXCEPT ![s].ts = w] EXCEPT ![s].val = x] = d
    <2>1. r[s] = [ts |-> r[s].ts, val |-> r[s].val]
      BY <1>1, <1>2
    <2>2. [r[s] EXCEPT !.ts = w] = [ts |-> w, val |-> r[s].val]
      BY <2>1
    <2>3. [r EXCEPT ![s].ts = w] = [r EXCEPT ![s] = [ts |-> w, val |-> r[s].val]]
      BY <1>1, <1>2, <2>2
    <2> DEFINE e == [r EXCEPT ![s] = [ts |-> w, val |-> r[s].val]]
    <2>4. e[s] = [ts |-> w, val |-> r[s].val] /\ s \in DOMAIN e
      BY <1>1, <1>2
    <2>5. [e[s] EXCEPT !.val = x] = [ts |-> w, val |-> x]
      BY <2>4
    <2>6. [e EXCEPT ![s].val = x] = d
      BY <1>1, <1>2, <2>4, <2>5
    <2> QED  BY <2>3, <2>6
  <1>5. Finalize(a, r, c, w) = d
    BY DEF Finalize, d, s, x
  <1> QED  BY <1>3, <1>4, <1>5 DEF RowShape, s, x

LEMMA RolledShape ==
  ASSUME NEW f, Shape(f), NEW a \in Archives, NEW t \in Times, NEW v
  PROVE  /\ AccShape(Rolled(f, a, t)) /\ Rolled(f, a, t).start = Window(a, t)
         /\ AccShape(Added(f, a, t, v)) /\ Added(f, a, t, v).start = Window(a, t)
         /\ RowShape(a, RolledOver(f, a, t))
  <1>1. Window(a, t) \in Nat /\ AccShape(f.acc[a]) /\ RowShape(a, f.row[a])
    BY SlotsOfArchive DEF Shape
  <1>2. AccShape(Rolled(f, a, t)) /\ Rolled(f, a, t).start = Window(a, t)
    BY <1>1 DEF Rolled, AccShape, FreshAcc
  <1> DEFINE c == Rolled(f, a, t)
  <1>3. AccShape(Accumulate(a, c, v)) /\ Accumulate(a, c, v).start = c.start
    <2> HIDE DEF c
    <2> QED  BY <1>2 DEF Accumulate, AccShape, c
  <1>4. RowShape(a, RolledOver(f, a, t))
    <2>1. CASE f.acc[a].start \in {Window(a, t), Empty}
      BY <1>1, <2>1 DEF RolledOver
    <2>2. CASE f.acc[a].start \notin {Window(a, t), Empty}
      <3>1. f.acc[a].start \in Nat
        BY <1>1, <2>2 DEF AccShape
      <3> QED  BY <1>1, <2>2, <3>1, FinalizeShape DEF RolledOver
    <2> QED  BY <2>1, <2>2
  <1> QED  BY <1>2, <1>3, <1>4 DEF Added

-----------------------------------------------------------------------------
(* One write brings an archive to the next *)

LEMMA Parts ==
  ASSUME NEW f, NEW a, NEW t, NEW v
  PROVE  /\ \A ph \in Lates \cup {"resetVal"} : PartAcc(f, a, t, v, ph) = f.acc[a]
         /\ PartAcc(f, a, t, v, "addVal") = Rolled(f, a, t)
         /\ \A ph \in Closing : PartAcc(f, a, t, v, ph) = Added(f, a, t, v)
         /\ PartRows(f, a, t, v, "lateTs") = f.row[a]
         /\ \A ph \in Resets \cup {"addVal", "addCount", "rowTs"} :
              PartRows(f, a, t, v, ph) = RolledOver(f, a, t)
  BY DEF PartAcc, PartRows, Lates, Resets, Closing

LEMMA LateStores ==
  ASSUME NEW f, Shape(f), NEW a \in Archives, NEW t \in Times, NEW v,
         f.acc[a].start \notin {Window(a, t), Empty}, NEW r, NEW w, w = f.acc[a].start
  PROVE  /\ r = PartRows(f, a, t, v, "lateTs") =>
              PutTs(a, r, w) = PartRows(f, a, t, v, "lateVal")
         /\ r = PartRows(f, a, t, v, "lateVal") =>
              PutVal(a, r, w, f.acc[a]) = PartRows(f, a, t, v, "resetVal")
  <1> DEFINE c == f.acc[a]
             s == SlotOf(a, w)
             q == f.row[a]
  <1>1. w \in Nat /\ RowShape(a, q)
    BY DEF Shape, AccShape
  <1>2. /\ PartRows(f, a, t, v, "lateTs") = q
        /\ PartRows(f, a, t, v, "lateVal") = [q EXCEPT ![s].ts = w]
        /\ PartRows(f, a, t, v, "resetVal") = Finalize(a, q, c, w)
    BY DEF PartRows, Resets, RolledOver
  <1> HIDE DEF c, q
  <1>3. [[q EXCEPT ![s].ts = w] EXCEPT ![s].val = RowOf(a, c.val, c.count)] = Finalize(a, q, c, w)
    BY <1>1, FinalizeShape
  <1> HIDE DEF s
  <1>4. r = q => PutTs(a, r, w) = [q EXCEPT ![s].ts = w]
    BY DEF PutTs, s
  <1>5. r = [q EXCEPT ![s].ts = w] => PutVal(a, r, w, c) = Finalize(a, q, c, w)
    BY <1>3 DEF PutVal, s
  <1>6. PutVal(a, r, w, c) = PutVal(a, r, w, f.acc[a])
    BY DEF c
  <1> QED  BY <1>2, <1>4, <1>5, <1>6

LEMMA ResetStores ==
  ASSUME NEW f, Shape(f), NEW a \in Archives, NEW t \in Times, NEW v, NEW c
  PROVE  /\ c = PartAcc(f, a, t, v, "resetVal") =>
              SetVal(c, FreshAcc(a, 0).val) = PartAcc(f, a, t, v, "resetCount")
         /\ c = PartAcc(f, a, t, v, "resetCount") =>
              SetCount(c, 0) = PartAcc(f, a, t, v, "resetStart")
         /\ c = PartAcc(f, a, t, v, "resetStart") /\ f.acc[a].start # Window(a, t) =>
              SetStart(c, Window(a, t)) = PartAcc(f, a, t, v, "addVal")
  <1>1. AccShape(f.acc[a])
    BY DEF Shape
  <1>2. /\ PartAcc(f, a, t, v, "resetVal") = f.acc[a]
        /\ PartAcc(f, a, t, v, "resetCount") = [f.acc[a] EXCEPT !.val = FreshAcc(a, 0).val]
        /\ PartAcc(f, a, t, v, "resetStart") =
             [start |-> f.acc[a].start, val |-> FreshAcc(a, 0).val, count |-> 0]
        /\ PartAcc(f, a, t, v, "addVal") = Rolled(f, a, t)
    BY DEF PartAcc, Lates, Closing
  <1>3. f.acc[a].start # Window(a, t) => Rolled(f, a, t) = FreshAcc(a, Window(a, t))
    BY DEF Rolled
  <1>4. FreshAcc(a, Window(a, t)) =
          [start |-> Window(a, t), val |-> FreshAcc(a, 0).val, count |-> 0]
    BY DEF FreshAcc
  <1> DEFINE b == f.acc[a]
             x == FreshAcc(a, 0).val
             w == Window(a, t)
  <1>5. b = [start |-> b.start, val |-> b.val, count |-> b.count]
    BY <1>1 DEF AccShape
  <1> HIDE DEF b, x, w
  <1>6. [b EXCEPT !.val = x] = [start |-> b.start, val |-> x, count |-> b.count]
    BY <1>5
  <1>7. [[start |-> b.start, val |-> x, count |-> b.count] EXCEPT !.count = 0]
          = [start |-> b.start, val |-> x, count |-> 0]
    OBVIOUS
  <1>8. [[start |-> b.start, val |-> x, count |-> 0] EXCEPT !.start = w]
          = [start |-> w, val |-> x, count |-> 0]
    OBVIOUS
  <1> QED  BY <1>2, <1>3, <1>4, <1>6, <1>7, <1>8 DEF b, x, w, SetVal, SetCount, SetStart

LEMMA AddStores ==
  ASSUME NEW f, Shape(f), NEW a \in Archives, NEW t \in Times, NEW v, NEW c
  PROVE  /\ c = PartAcc(f, a, t, v, "addVal") =>
              SetVal(c, Accumulate(a, c, v).val) = PartAcc(f, a, t, v, "addCount")
         /\ c = PartAcc(f, a, t, v, "addCount") =>
              SetCount(c, Accumulate(a, c, v).count) = Added(f, a, t, v)
  <1> DEFINE r == Rolled(f, a, t)
  <1>1. AccShape(r)
    BY RolledShape
  <1>2. /\ PartAcc(f, a, t, v, "addVal") = r
        /\ PartAcc(f, a, t, v, "addCount") = [r EXCEPT !.val = Accumulate(a, r, v).val]
        /\ Added(f, a, t, v) = Accumulate(a, r, v)
    BY DEF PartAcc, Lates, Closing, Resets, Added
  <1> HIDE DEF r
  <1> DEFINE d == [r EXCEPT !.val = Accumulate(a, r, v).val]
  <1>3. [d EXCEPT !.count = Accumulate(a, d, v).count] = Accumulate(a, r, v)
    <2>1. CASE v = NaN
      BY <1>1, <2>1 DEF Accumulate, AccShape
    <2>2. CASE v # NaN
      BY <1>1, <2>2 DEF Accumulate, AccShape
    <2> QED  BY <2>1, <2>2
  <1> QED  BY <1>2, <1>3 DEF SetVal, SetCount

LEMMA CloseStores ==
  ASSUME NEW f, Shape(f), NEW a \in Archives, NEW t \in Times, NEW v, NEW q
  PROVE  LET w == Window(a, t)
             c == Added(f, a, t, v)
         IN /\ q = PartRows(f, a, t, v, "rowTs") =>
                 PutTs(a, q, w) = PartRows(f, a, t, v, "rowVal")
            /\ q = PartRows(f, a, t, v, "rowVal") =>
                 PutVal(a, q, w, c) = PartRows(f, a, t, v, "clearStart")
            /\ Completes(a, t) => /\ SetStart(c, Empty) = AccDone(f, a, t, v)
                                  /\ PartRows(f, a, t, v, "clearStart") = RowsDone(f, a, t, v)
            /\ ~Completes(a, t) => /\ c = AccDone(f, a, t, v)
                                   /\ PartRows(f, a, t, v, "addCount") = RowsDone(f, a, t, v)
  <1>1. Window(a, t) \in Nat /\ RowShape(a, RolledOver(f, a, t))
    BY SlotsOfArchive, RolledShape
  <1>2. /\ PartRows(f, a, t, v, "rowTs") = RolledOver(f, a, t)
        /\ PartRows(f, a, t, v, "addCount") = RolledOver(f, a, t)
        /\ PartRows(f, a, t, v, "rowVal")
             = [RolledOver(f, a, t) EXCEPT ![SlotOf(a, Window(a, t))].ts = Window(a, t)]
        /\ PartRows(f, a, t, v, "clearStart")
             = Finalize(a, RolledOver(f, a, t), Added(f, a, t, v), Window(a, t))
    BY DEF PartRows, Resets
  <1> DEFINE r == RolledOver(f, a, t)
             c == Added(f, a, t, v)
             w == Window(a, t)
             s == SlotOf(a, w)
  <1>3. [[r EXCEPT ![s].ts = w] EXCEPT ![s].val = RowOf(a, c.val, c.count)] = Finalize(a, r, c, w)
    <2> HIDE DEF r, c, w
    <2>1. w \in Nat /\ RowShape(a, r)
      BY <1>1 DEF r, w
    <2> QED  BY <2>1, FinalizeShape
  <1> QED  BY <1>2, <1>3 DEF AccDone, RowsDone, PutTs, PutVal, SetStart

(* What a call finds when it comes to an archive. *)
LEMMA FirstFound ==
  ASSUME StepInv, NEW a \in Archives, NEW t \in Times, NEW v, Untouched(a)
  PROVE  /\ FirstWrite(a, t) \in Writes
         /\ acc[a] = PartAcc(before, a, t, v, FirstWrite(a, t))
         /\ row[a] = PartRows(before, a, t, v, FirstWrite(a, t))
         /\ Reached(before, a, t, FirstWrite(a, t))
  <1>1. acc[a] = before.acc[a] /\ row[a] = before.row[a]
    BY DEF Untouched
  <1>2. Window(a, t) # Empty
    BY SlotsOfArchive, ValuesAssumption
  <1>3. CASE acc[a].start = Window(a, t)
    BY <1>1, <1>2, <1>3
    DEF FirstWrite, Writes, PartAcc, PartRows, Reached, Lates, Resets, Closing, Rolled, RolledOver
  <1>4. CASE acc[a].start = Empty
    BY <1>1, <1>2, <1>4
    DEF FirstWrite, Writes, PartAcc, PartRows, Reached, Lates, Resets, Closing, Rolled, RolledOver
  <1>5. CASE acc[a].start \notin {Window(a, t), Empty}
    BY <1>1, <1>2, <1>5
    DEF FirstWrite, Writes, PartAcc, PartRows, Reached, Lates, Resets, Closing, Rolled, RolledOver
  <1> QED  BY <1>3, <1>4, <1>5

-----------------------------------------------------------------------------
(* Each step keeps the invariant *)

(* A write leaves the archives it does not work on alone. *)
Elsewhere ==
  /\ acc' = [b \in Archives |-> acc'[b]] /\ row' = [b \in Archives |-> row'[b]]
  /\ \A b \in Archives : b # rec.a => acc'[b] = acc[b] /\ row'[b] = row[b]

LEMMA CallFacts ==
  ASSUME StepInv, rec # Idle
  PROVE  /\ Progress /\ Shape(before) /\ before.lastUpdate = lastUpdate
         /\ rec.a \in Archives /\ rec.t \in Times /\ rec.v \in Values \cup {NaN}
         /\ rec.ph \in Writes \cup {"commit"}
         /\ rec = [ph |-> rec.ph, a |-> rec.a, t |-> rec.t, v |-> rec.v]
  BY DEF StepInv, Progress, Calls

LEMMA NotIdle ==
  ASSUME NEW c \in Calls
  PROVE  c # Idle
  BY DEF Calls, Idle, Writes, Lates, Resets, Closing

LEMMA Stays ==
  ASSUME StepInv, rec # Idle, rec.ph # "commit", NEW q \in Writes,
         rec' = [rec EXCEPT !.ph = q], Elsewhere, UNCHANGED <<lastUpdate, before, kills>>,
         acc'[rec.a] = PartAcc(before, rec.a, rec.t, rec.v, q),
         row'[rec.a] = PartRows(before, rec.a, rec.t, rec.v, q),
         Reached(before, rec.a, rec.t, q)
  PROVE  StepInv'
  <1>1. /\ Progress /\ Shape(before) /\ before.lastUpdate = lastUpdate
        /\ rec.a \in Archives /\ rec.t \in Times /\ rec.v \in Values \cup {NaN}
        /\ rec = [ph |-> rec.ph, a |-> rec.a, t |-> rec.t, v |-> rec.v]
    BY CallFacts
  <1>2. rec' = [ph |-> q, a |-> rec.a, t |-> rec.t, v |-> rec.v]
    BY <1>1
  <1>3. rec' \in Calls /\ rec' # Idle
    BY <1>1, <1>2, NotIdle DEF Calls
  <1>4. q # "commit"
    BY DEF Writes, Lates, Resets, Closing
  <1>5. \A a \in Archives : a < rec.a => a # rec.a /\ Finished(a)
    <2>1. Archives \subseteq Int
      BY RrasAssumption DEF Archives
    <2> QED  BY <1>1, <2>1 DEF Progress
  <1>6. \A a \in Archives : a > rec.a => a # rec.a /\ Untouched(a)
    <2>1. Archives \subseteq Int
      BY RrasAssumption DEF Archives
    <2> QED  BY <1>1, <2>1 DEF Progress
  <1>7. \A a \in Archives : a < rec'.a => Finished(a)'
    BY <1>2, <1>5 DEF Finished, Elsewhere
  <1>8. \A a \in Archives : a > rec'.a => Untouched(a)'
    BY <1>2, <1>6 DEF Untouched, Elsewhere
  <1>9. Progress'
    BY <1>1, <1>2, <1>3, <1>4, <1>7, <1>8 DEF Progress
  <1>10. acc' = [a \in Archives |-> acc'[a]] /\ row' = [a \in Archives |-> row'[a]]
    BY DEF Elsewhere
  <1>11. Shape(before') /\ before'.lastUpdate = lastUpdate' /\ kills' \in Nat
    BY <1>1 DEF StepInv
  <1> QED  BY <1>9, <1>10, <1>11 DEF StepInv

LEMMA Advances ==
  ASSUME StepInv, rec # Idle, rec.ph # "commit",
         NextArchive, Elsewhere, UNCHANGED <<lastUpdate, before, kills>>,
         acc'[rec.a] = AccDone(before, rec.a, rec.t, rec.v),
         row'[rec.a] = RowsDone(before, rec.a, rec.t, rec.v)
  PROVE  StepInv'
  <1>1. /\ Progress /\ Shape(before) /\ before.lastUpdate = lastUpdate
        /\ rec.a \in Archives /\ rec.t \in Times /\ rec.v \in Values \cup {NaN}
        /\ rec = [ph |-> rec.ph, a |-> rec.a, t |-> rec.t, v |-> rec.v]
    BY CallFacts
  <1>2. Archives = 1..Len(Rras) /\ Len(Rras) \in Nat
    BY RrasAssumption DEF Archives
  <1>3. acc' = [a \in Archives |-> acc'[a]] /\ row' = [a \in Archives |-> row'[a]]
    BY DEF Elsewhere
  <1>4. Shape(before') /\ before'.lastUpdate = lastUpdate' /\ kills' \in Nat
    BY <1>1 DEF StepInv
  <1>5. rec'.t = rec.t /\ rec'.v = rec.v
    BY <1>1 DEF NextArchive
  <1>6. \A a \in Archives : a <= rec.a => Finished(a)'
    <2> SUFFICES ASSUME NEW a \in Archives, a <= rec.a PROVE Finished(a)'
      OBVIOUS
    <2>1. CASE a = rec.a
      BY <1>5, <2>1 DEF Finished
    <2>2. CASE a # rec.a
      <3>1. a < rec.a
        BY <1>1, <1>2, <2>2
      <3>2. Finished(a)
        BY <1>1, <3>1 DEF Progress
      <3> QED  BY <1>5, <2>2, <3>2 DEF Finished, Elsewhere
    <2> QED  BY <2>1, <2>2
  <1>7. \A a \in Archives : a > rec.a => Untouched(a) /\ Untouched(a)'
    <2> SUFFICES ASSUME NEW a \in Archives, a > rec.a PROVE Untouched(a) /\ Untouched(a)'
      OBVIOUS
    <2>1. a # rec.a
      BY <1>1, <1>2
    <2>2. Untouched(a)
      BY <1>1 DEF Progress
    <2> QED  BY <2>1, <2>2 DEF Untouched, Elsewhere
  <1>8. CASE rec.a = Len(Rras)
    <2>1. rec' = [ph |-> "commit", a |-> rec.a, t |-> rec.t, v |-> rec.v]
      BY <1>1, <1>8 DEF NextArchive
    <2>2. rec' \in Calls /\ rec' # Idle
      BY <1>1, <2>1, NotIdle DEF Calls
    <2>3. \A a \in Archives : Finished(a)'
      BY <1>2, <1>6, <1>8
    <2>4. Progress'
      BY <1>1, <2>1, <2>2, <2>3 DEF Progress
    <2> QED  BY <1>3, <1>4, <2>4 DEF StepInv
  <1>9. CASE rec.a # Len(Rras)
    <2>1. PICK k \in Archives : k = rec.a + 1
      BY <1>1, <1>2, <1>9
    <2> DEFINE q == FirstWrite(k, rec.t)
    <2>2. rec' = [ph |-> q, a |-> k, t |-> rec.t, v |-> rec.v] /\ k > rec.a
      <3>1. rec' = [rec EXCEPT !.a = k, !.ph = q]
        BY <1>9, <2>1 DEF NextArchive
      <3>2. k > rec.a
        BY <1>1, <1>2, <2>1
      <3> HIDE DEF q
      <3> QED  BY <1>1, <3>1, <3>2
    <2>3. Untouched(k) /\ Untouched(k)'
      BY <1>7, <2>2
    <2>4. /\ q \in Writes
          /\ acc[k] = PartAcc(before, k, rec.t, rec.v, q)
          /\ row[k] = PartRows(before, k, rec.t, rec.v, q)
          /\ Reached(before, k, rec.t, q)
      BY <1>1, <2>3, FirstFound
    <2> HIDE DEF q
    <2>5. /\ acc'[k] = PartAcc(before, k, rec.t, rec.v, q)
          /\ row'[k] = PartRows(before, k, rec.t, rec.v, q)
      BY <2>3, <2>4 DEF Untouched
    <2>6. rec' \in Calls /\ rec' # Idle
      BY <1>1, <2>2, <2>4, NotIdle DEF Calls
    <2>7. q # "commit"
      BY <2>4 DEF Writes, Lates, Resets, Closing
    <2>8. \A a \in Archives : a < k => Finished(a)'
      BY <1>1, <1>2, <1>6, <2>1
    <2>9. \A a \in Archives : a > k => Untouched(a)'
      BY <1>1, <1>2, <1>7, <2>1
    <2>10. Progress'
      BY <1>1, <2>2, <2>4, <2>5, <2>6, <2>7, <2>8, <2>9 DEF Progress
    <2> QED  BY <1>3, <1>4, <2>10 DEF StepInv
  <1> QED  BY <1>8, <1>9

LEMMA AccWritten ==
  ASSUME StepInv, NEW c, acc' = [acc EXCEPT ![rec.a] = c], row' = row
  PROVE  Elsewhere /\ (rec.a \in Archives => acc'[rec.a] = c /\ row'[rec.a] = row[rec.a])
  BY DEF StepInv, Elsewhere

LEMMA RowWritten ==
  ASSUME StepInv, NEW r, row' = [row EXCEPT ![rec.a] = r], acc' = acc
  PROVE  Elsewhere /\ (rec.a \in Archives => row'[rec.a] = r /\ acc'[rec.a] = acc[rec.a])
  BY DEF StepInv, Elsewhere

(* What is known of the archive a call works on. *)
LEMMA Working ==
  ASSUME StepInv, NEW p \in Writes, rec.ph = p
  PROVE  /\ rec # Idle /\ rec.ph # "commit" /\ Shape(before)
         /\ rec.a \in Archives /\ rec.t \in Times
         /\ acc[rec.a] = PartAcc(before, rec.a, rec.t, rec.v, p)
         /\ row[rec.a] = PartRows(before, rec.a, rec.t, rec.v, p)
         /\ Reached(before, rec.a, rec.t, p)
  <1>1. rec # Idle /\ rec.ph # "commit"
    BY DEF Idle, Writes, Lates, Resets, Closing
  <1> QED  BY <1>1, CallFacts DEF Progress

LEMMA LateTsKeeps ==
  ASSUME StepInv, LateTs, UNCHANGED <<before, kills>>
  PROVE  StepInv'
  <1> DEFINE a == rec.a
             w == before.acc[a].start
             r == PutTs(a, row[a], w)
  <1>1. /\ rec # Idle /\ rec.ph # "commit" /\ Shape(before)
        /\ rec.a \in Archives /\ rec.t \in Times
        /\ acc[a] = PartAcc(before, a, rec.t, rec.v, "lateTs")
        /\ row[a] = PartRows(before, a, rec.t, rec.v, "lateTs")
        /\ Reached(before, a, rec.t, "lateTs")
    BY Working DEF LateTs, Writes, Lates
  <1>2. acc[a] = before.acc[a] /\ before.acc[a].start \notin {Window(a, rec.t), Empty}
    BY <1>1, Parts DEF Reached, Lates
  <1>3. row' = [row EXCEPT ![a] = r] /\ UNCHANGED <<lastUpdate, acc>> /\ rec' = [rec EXCEPT !.ph = "lateVal"]
    BY <1>1, <1>2 DEF LateTs, WriteRowTs, Goto, PutTs
  <1>4. r = PartRows(before, a, rec.t, rec.v, "lateVal")
    BY <1>1, <1>2, LateStores
  <1>5. /\ PartAcc(before, a, rec.t, rec.v, "lateVal") = before.acc[a]
        /\ Reached(before, a, rec.t, "lateVal") /\ "lateVal" \in Writes
    BY <1>2, Parts DEF Reached, Writes, Lates, Resets, Closing
  <1> HIDE DEF r
  <1>6. Elsewhere /\ row'[a] = r /\ acc'[a] = acc[a]
    BY <1>1, <1>3, RowWritten
  <1> QED  BY <1>1, <1>2, <1>3, <1>4, <1>5, <1>6, Stays

LEMMA LateValKeeps ==
  ASSUME StepInv, LateVal, UNCHANGED <<before, kills>>
  PROVE  StepInv'
  <1> DEFINE a == rec.a
             c == before.acc[a]
             w == before.acc[a].start
             r == PutVal(a, row[a], w, c)
  <1>1. /\ rec # Idle /\ rec.ph # "commit" /\ Shape(before)
        /\ rec.a \in Archives /\ rec.t \in Times
        /\ acc[a] = PartAcc(before, a, rec.t, rec.v, "lateVal")
        /\ row[a] = PartRows(before, a, rec.t, rec.v, "lateVal")
        /\ Reached(before, a, rec.t, "lateVal")
    BY Working DEF LateVal, Writes, Lates
  <1>2. acc[a] = before.acc[a] /\ before.acc[a].start \notin {Window(a, rec.t), Empty}
    BY <1>1, Parts DEF Reached, Lates
  <1>3. /\ row' = [row EXCEPT ![a] = r] /\ UNCHANGED <<lastUpdate, acc>>
        /\ rec' = [rec EXCEPT !.ph = "resetVal"]
    BY <1>1, <1>2 DEF LateVal, WriteRowVal, Goto, PutVal
  <1>4. r = PartRows(before, a, rec.t, rec.v, "resetVal")
    BY <1>1, <1>2, LateStores
  <1>5. /\ PartAcc(before, a, rec.t, rec.v, "resetVal") = before.acc[a]
        /\ Reached(before, a, rec.t, "resetVal") /\ "resetVal" \in Writes
    BY <1>2, Parts DEF Reached, Writes, Lates, Resets, Closing
  <1> HIDE DEF r
  <1>6. Elsewhere /\ row'[a] = r /\ acc'[a] = acc[a]
    BY <1>1, <1>3, RowWritten
  <1> QED  BY <1>1, <1>2, <1>3, <1>4, <1>5, <1>6, Stays

LEMMA ResetValKeeps ==
  ASSUME StepInv, ResetVal, UNCHANGED <<before, kills>>
  PROVE  StepInv'
  <1> DEFINE a == rec.a
             c == SetVal(acc[a], FreshAcc(a, 0).val)
  <1>1. /\ rec # Idle /\ rec.ph # "commit" /\ Shape(before)
        /\ rec.a \in Archives /\ rec.t \in Times
        /\ acc[a] = PartAcc(before, a, rec.t, rec.v, "resetVal")
        /\ row[a] = PartRows(before, a, rec.t, rec.v, "resetVal")
        /\ Reached(before, a, rec.t, "resetVal")
    BY Working DEF ResetVal, Writes, Resets
  <1>2. /\ acc' = [acc EXCEPT ![a] = c] /\ UNCHANGED <<lastUpdate, row>>
        /\ rec' = [rec EXCEPT !.ph = "resetCount"]
    BY DEF ResetVal, WriteAcc, Goto, SetVal
  <1>3. c = PartAcc(before, a, rec.t, rec.v, "resetCount")
    BY <1>1, ResetStores
  <1>4. /\ PartRows(before, a, rec.t, rec.v, "resetCount") = row[a]
        /\ Reached(before, a, rec.t, "resetCount") /\ "resetCount" \in Writes
    BY <1>1, Parts DEF Reached, Writes, Lates, Resets, Closing
  <1> HIDE DEF c
  <1>5. Elsewhere /\ acc'[a] = c /\ row'[a] = row[a]
    BY <1>1, <1>2, AccWritten
  <1> QED  BY <1>1, <1>2, <1>3, <1>4, <1>5, Stays

LEMMA ResetCountKeeps ==
  ASSUME StepInv, ResetCount, UNCHANGED <<before, kills>>
  PROVE  StepInv'
  <1> DEFINE a == rec.a
             c == SetCount(acc[a], 0)
  <1>1. /\ rec # Idle /\ rec.ph # "commit" /\ Shape(before)
        /\ rec.a \in Archives /\ rec.t \in Times
        /\ acc[a] = PartAcc(before, a, rec.t, rec.v, "resetCount")
        /\ row[a] = PartRows(before, a, rec.t, rec.v, "resetCount")
        /\ Reached(before, a, rec.t, "resetCount")
    BY Working DEF ResetCount, Writes, Resets
  <1>2. /\ acc' = [acc EXCEPT ![a] = c] /\ UNCHANGED <<lastUpdate, row>>
        /\ rec' = [rec EXCEPT !.ph = "resetStart"]
    BY DEF ResetCount, WriteAcc, Goto, SetCount
  <1>3. c = PartAcc(before, a, rec.t, rec.v, "resetStart")
    BY <1>1, ResetStores
  <1>4. /\ PartRows(before, a, rec.t, rec.v, "resetStart") = row[a]
        /\ Reached(before, a, rec.t, "resetStart") /\ "resetStart" \in Writes
    BY <1>1, Parts DEF Reached, Writes, Lates, Resets, Closing
  <1> HIDE DEF c
  <1>5. Elsewhere /\ acc'[a] = c /\ row'[a] = row[a]
    BY <1>1, <1>2, AccWritten
  <1> QED  BY <1>1, <1>2, <1>3, <1>4, <1>5, Stays

LEMMA ResetStartKeeps ==
  ASSUME StepInv, ResetStart, UNCHANGED <<before, kills>>
  PROVE  StepInv'
  <1> DEFINE a == rec.a
             c == SetStart(acc[a], Window(a, rec.t))
  <1>1. /\ rec # Idle /\ rec.ph # "commit" /\ Shape(before)
        /\ rec.a \in Archives /\ rec.t \in Times
        /\ acc[a] = PartAcc(before, a, rec.t, rec.v, "resetStart")
        /\ row[a] = PartRows(before, a, rec.t, rec.v, "resetStart")
        /\ Reached(before, a, rec.t, "resetStart")
    BY Working DEF ResetStart, Writes, Resets
  <1>2. /\ acc' = [acc EXCEPT ![a] = c] /\ UNCHANGED <<lastUpdate, row>>
        /\ rec' = [rec EXCEPT !.ph = "addVal"]
    BY DEF ResetStart, WriteAcc, Goto, SetStart
  <1>3. c = PartAcc(before, a, rec.t, rec.v, "addVal")
    BY <1>1, ResetStores DEF Reached, Resets
  <1>4. /\ PartRows(before, a, rec.t, rec.v, "addVal") = row[a]
        /\ Reached(before, a, rec.t, "addVal") /\ "addVal" \in Writes
    BY <1>1, Parts DEF Reached, Writes, Lates, Resets, Closing
  <1> HIDE DEF c
  <1>5. Elsewhere /\ acc'[a] = c /\ row'[a] = row[a]
    BY <1>1, <1>2, AccWritten
  <1> QED  BY <1>1, <1>2, <1>3, <1>4, <1>5, Stays

LEMMA AddValKeeps ==
  ASSUME StepInv, AddVal, UNCHANGED <<before, kills>>
  PROVE  StepInv'
  <1> DEFINE a == rec.a
             c == SetVal(acc[a], Accumulate(a, acc[a], rec.v).val)
  <1>1. /\ rec # Idle /\ rec.ph # "commit" /\ Shape(before)
        /\ rec.a \in Archives /\ rec.t \in Times
        /\ acc[a] = PartAcc(before, a, rec.t, rec.v, "addVal")
        /\ row[a] = PartRows(before, a, rec.t, rec.v, "addVal")
    BY Working DEF AddVal, Writes
  <1>2. /\ acc' = [acc EXCEPT ![a] = c] /\ UNCHANGED <<lastUpdate, row>>
        /\ rec' = [rec EXCEPT !.ph = "addCount"]
    BY DEF AddVal, WriteAcc, Goto, SetVal
  <1>3. c = PartAcc(before, a, rec.t, rec.v, "addCount")
    BY <1>1, AddStores
  <1>4. /\ PartRows(before, a, rec.t, rec.v, "addCount") = row[a]
        /\ Reached(before, a, rec.t, "addCount") /\ "addCount" \in Writes
    BY <1>1, Parts DEF Reached, Writes, Lates, Resets, Closing
  <1> HIDE DEF c
  <1>5. Elsewhere /\ acc'[a] = c /\ row'[a] = row[a]
    BY <1>1, <1>2, AccWritten
  <1> QED  BY <1>1, <1>2, <1>3, <1>4, <1>5, Stays

LEMMA AddCountKeeps ==
  ASSUME StepInv, AddCount, UNCHANGED <<before, kills>>
  PROVE  StepInv'
  <1> DEFINE a == rec.a
             c == SetCount(acc[a], Accumulate(a, acc[a], rec.v).count)
  <1>1. /\ rec # Idle /\ rec.ph # "commit" /\ Shape(before)
        /\ rec.a \in Archives /\ rec.t \in Times
        /\ acc[a] = PartAcc(before, a, rec.t, rec.v, "addCount")
        /\ row[a] = PartRows(before, a, rec.t, rec.v, "addCount")
    BY Working DEF AddCount, Writes
  <1>2. acc' = [acc EXCEPT ![a] = c] /\ UNCHANGED <<lastUpdate, row>>
    BY DEF AddCount, WriteAcc, SetCount
  <1>3. c = Added(before, a, rec.t, rec.v)
    BY <1>1, AddStores
  <1> HIDE DEF c
  <1>4. Elsewhere /\ acc'[a] = c /\ row'[a] = row[a]
    BY <1>1, <1>2, AccWritten
  <1>5. CASE Completes(a, rec.t)
    <2>1. rec' = [rec EXCEPT !.ph = "rowTs"]
      BY <1>5 DEF AddCount, Goto
    <2>2. /\ PartAcc(before, a, rec.t, rec.v, "rowTs") = c
          /\ PartRows(before, a, rec.t, rec.v, "rowTs") = row[a]
          /\ Reached(before, a, rec.t, "rowTs") /\ "rowTs" \in Writes
      BY <1>1, <1>3, <1>5, Parts DEF Reached, Writes, Lates, Resets, Closing
    <2> QED  BY <1>1, <1>2, <1>4, <2>1, <2>2, Stays
  <1>6. CASE ~Completes(a, rec.t)
    <2>1. NextArchive
      BY <1>6 DEF AddCount
    <2>2. /\ acc'[a] = AccDone(before, a, rec.t, rec.v)
          /\ row'[a] = RowsDone(before, a, rec.t, rec.v)
      BY <1>1, <1>3, <1>4, <1>6, CloseStores
    <2> QED  BY <1>1, <1>2, <1>4, <2>1, <2>2, Advances
  <1> QED  BY <1>5, <1>6

LEMMA RowTsKeeps ==
  ASSUME StepInv, RowTs, UNCHANGED <<before, kills>>
  PROVE  StepInv'
  <1> DEFINE a == rec.a
             w == Window(a, rec.t)
             r == PutTs(a, row[a], w)
  <1>1. /\ rec # Idle /\ rec.ph # "commit" /\ Shape(before)
        /\ rec.a \in Archives /\ rec.t \in Times
        /\ acc[a] = PartAcc(before, a, rec.t, rec.v, "rowTs")
        /\ row[a] = PartRows(before, a, rec.t, rec.v, "rowTs")
        /\ Reached(before, a, rec.t, "rowTs")
    BY Working DEF RowTs, Writes, Closing
  <1>2. /\ row' = [row EXCEPT ![a] = r] /\ UNCHANGED <<lastUpdate, acc>>
        /\ rec' = [rec EXCEPT !.ph = "rowVal"]
    BY DEF RowTs, WriteRowTs, Goto, PutTs
  <1>3. r = PartRows(before, a, rec.t, rec.v, "rowVal")
    BY <1>1, CloseStores
  <1>4. /\ PartAcc(before, a, rec.t, rec.v, "rowVal") = acc[a]
        /\ Reached(before, a, rec.t, "rowVal") /\ "rowVal" \in Writes
    BY <1>1, Parts DEF Reached, Writes, Lates, Resets, Closing
  <1> HIDE DEF r
  <1>5. Elsewhere /\ row'[a] = r /\ acc'[a] = acc[a]
    BY <1>1, <1>2, RowWritten
  <1> QED  BY <1>1, <1>2, <1>3, <1>4, <1>5, Stays

LEMMA RowValsKeeps ==
  ASSUME StepInv, RowVals, UNCHANGED <<before, kills>>
  PROVE  StepInv'
  <1> DEFINE a == rec.a
             w == Window(a, rec.t)
             r == PutVal(a, row[a], w, acc[a])
  <1>1. /\ rec # Idle /\ rec.ph # "commit" /\ Shape(before)
        /\ rec.a \in Archives /\ rec.t \in Times
        /\ acc[a] = PartAcc(before, a, rec.t, rec.v, "rowVal")
        /\ row[a] = PartRows(before, a, rec.t, rec.v, "rowVal")
        /\ Reached(before, a, rec.t, "rowVal")
    BY Working DEF RowVals, Writes, Closing
  <1>2. /\ row' = [row EXCEPT ![a] = r] /\ UNCHANGED <<lastUpdate, acc>>
        /\ rec' = [rec EXCEPT !.ph = "clearStart"]
    BY DEF RowVals, WriteRowVal, Goto, PutVal
  <1>3. acc[a] = Added(before, a, rec.t, rec.v)
    BY <1>1, Parts DEF Closing
  <1>4. r = PartRows(before, a, rec.t, rec.v, "clearStart")
    BY <1>1, <1>3, CloseStores
  <1>5. /\ PartAcc(before, a, rec.t, rec.v, "clearStart") = acc[a]
        /\ Reached(before, a, rec.t, "clearStart") /\ "clearStart" \in Writes
    BY <1>1, Parts DEF Reached, Writes, Lates, Resets, Closing
  <1> HIDE DEF r
  <1>6. Elsewhere /\ row'[a] = r /\ acc'[a] = acc[a]
    BY <1>1, <1>2, RowWritten
  <1> QED  BY <1>1, <1>2, <1>4, <1>5, <1>6, Stays

LEMMA ClearStartKeeps ==
  ASSUME StepInv, ClearStart, UNCHANGED <<before, kills>>
  PROVE  StepInv'
  <1> DEFINE a == rec.a
             c == SetStart(acc[a], Empty)
  <1>1. /\ rec # Idle /\ rec.ph # "commit" /\ Shape(before)
        /\ rec.a \in Archives /\ rec.t \in Times
        /\ acc[a] = PartAcc(before, a, rec.t, rec.v, "clearStart")
        /\ row[a] = PartRows(before, a, rec.t, rec.v, "clearStart")
        /\ Completes(a, rec.t)
    BY Working DEF ClearStart, Writes, Closing, Reached
  <1>2. acc' = [acc EXCEPT ![a] = c] /\ UNCHANGED <<lastUpdate, row>> /\ NextArchive
    BY DEF ClearStart, WriteAcc, SetStart
  <1>3. acc[a] = Added(before, a, rec.t, rec.v)
    BY <1>1, Parts DEF Closing
  <1>4. /\ c = AccDone(before, a, rec.t, rec.v)
        /\ row[a] = RowsDone(before, a, rec.t, rec.v)
    BY <1>1, <1>3, CloseStores
  <1> HIDE DEF c
  <1>5. Elsewhere /\ acc'[a] = c /\ row'[a] = row[a]
    BY <1>1, <1>2, AccWritten
  <1> QED  BY <1>1, <1>2, <1>4, <1>5, Advances

Domains == acc = [a \in Archives |-> acc[a]] /\ row = [a \in Archives |-> row[a]]

LEMMA WriteKeeps ==
  ASSUME StepInv, Write
  PROVE  StepInv'
  <1>1. UNCHANGED <<before, kills>>
    BY DEF Write
  <1> QED  BY <1>1, LateTsKeeps, LateValKeeps, ResetValKeeps, ResetCountKeeps, ResetStartKeeps,
       AddValKeeps, AddCountKeeps, RowTsKeeps, RowValsKeeps, ClearStartKeeps DEF Write

LEMMA InitSteps ==
  StepInit => StepInv
  <1> SUFFICES ASSUME StepInit PROVE StepInv
    OBVIOUS
  <1> USE DEF StepInit, Init
  <1>1. Domains
    BY DEF Domains
  <1>2. \A a \in Archives : AccShape(acc[a]) /\ RowShape(a, row[a])
    BY DEF AccShape, RowShape
  <1>3. Shape(before) /\ before.lastUpdate = lastUpdate
    BY <1>1, <1>2 DEF Shape, File
  <1> QED  BY <1>1, <1>3 DEF StepInv, Progress, Domains

LEMMA BeginKeeps ==
  ASSUME StepInv, NEW t \in Times, NEW v \in Values \cup {NaN}, Begin(t, v)
  PROVE  StepInv'
  <1>1. /\ UNCHANGED <<lastUpdate, acc, row, before, kills>> /\ rec = Idle
        /\ lastUpdate = 0 \/ t > lastUpdate
        /\ rec' = [ph |-> FirstWrite(1, t), a |-> 1, t |-> t, v |-> v]
    BY DEF Begin, file
  <1>2. before = File /\ Shape(before)
    BY <1>1 DEF StepInv, Progress
  <1>3. \A a \in Archives : Untouched(a) /\ Untouched(a)'
    BY <1>1, <1>2 DEF Untouched, File
  <1>4. 1 \in Archives /\ Archives = 1..Len(Rras)
    BY RrasAssumption DEF Archives
  <1> DEFINE q == FirstWrite(1, t)
  <1>5. /\ q \in Writes
        /\ acc[1] = PartAcc(before, 1, t, v, q) /\ row[1] = PartRows(before, 1, t, v, q)
        /\ Reached(before, 1, t, q)
    BY <1>3, <1>4, FirstFound
  <1>6. rec' = [ph |-> q, a |-> 1, t |-> t, v |-> v]
    BY <1>1
  <1> HIDE DEF q
  <1>7. rec' \in Calls /\ rec' # Idle
    BY <1>4, <1>5, <1>6, NotIdle DEF Calls
  <1>8. q # "commit"
    BY <1>5 DEF Writes, Lates, Resets, Closing
  <1>9. \A a \in Archives : ~(a < 1)
    BY <1>4
  <1>10. Progress'
    BY <1>1, <1>3, <1>5, <1>6, <1>7, <1>8, <1>9 DEF Progress
  <1> QED  BY <1>1, <1>10 DEF StepInv

(* A commit leaves the file that one Record makes of the file the call    *)
(* began with.                                                             *)
LEMMA CommitFacts ==
  ASSUME StepInv, Commit
  PROVE  /\ rec.t \in Times /\ rec.v \in Values \cup {NaN}
         /\ before.lastUpdate = 0 \/ rec.t > before.lastUpdate
         /\ before' = [lastUpdate |-> rec.t,
                       acc |-> [a \in Archives |-> AccDone(before, a, rec.t, rec.v)],
                       row |-> [a \in Archives |-> RowsDone(before, a, rec.t, rec.v)]]
         /\ accepted' = [accepted EXCEPT ![rec.t] = rec.v]
  <1>1. rec.ph = "commit" /\ rec # Idle
    BY DEF Commit, Idle
  <1>2. /\ Progress /\ before.lastUpdate = lastUpdate
        /\ rec.t \in Times /\ rec.v \in Values \cup {NaN}
    BY <1>1, CallFacts
  <1>3. lastUpdate' = rec.t /\ acc' = acc /\ row' = row
    BY DEF Commit
  <1>4. \A a \in Archives : acc[a] = AccDone(before, a, rec.t, rec.v)
                            /\ row[a] = RowsDone(before, a, rec.t, rec.v)
    BY <1>1, <1>2 DEF Progress, Finished
  <1>5. Domains
    BY DEF StepInv, Domains
  <1>6. /\ acc = [a \in Archives |-> AccDone(before, a, rec.t, rec.v)]
        /\ row = [a \in Archives |-> RowsDone(before, a, rec.t, rec.v)]
    BY <1>4, <1>5 DEF Domains
  <1>7. before' = [lastUpdate |-> lastUpdate', acc |-> acc', row |-> row']
    BY DEF Commit, File
  <1> QED  BY <1>1, <1>2, <1>3, <1>6, <1>7 DEF Commit, Progress

(* Whatever a call has written so far, the file is one of the layout. *)
LEMMA PartShape ==
  ASSUME NEW f, Shape(f), NEW a \in Archives, NEW t \in Times, NEW v,
         NEW ph \in Writes, Reached(f, a, t, ph)
  PROVE  AccShape(PartAcc(f, a, t, v, ph)) /\ RowShape(a, PartRows(f, a, t, v, ph))
  <1>1. /\ AccShape(f.acc[a]) /\ RowShape(a, f.row[a]) /\ Window(a, t) \in Nat
        /\ AccShape(Rolled(f, a, t)) /\ AccShape(Added(f, a, t, v))
        /\ RowShape(a, RolledOver(f, a, t))
    BY RolledShape, SlotsOfArchive DEF Shape
  <1>2. ASSUME NEW c, AccShape(c), NEW x PROVE AccShape([c EXCEPT !.val = x])
    BY <1>2 DEF AccShape
  <1>3. ASSUME NEW r, RowShape(a, r), NEW w \in Nat
        PROVE  RowShape(a, [r EXCEPT ![SlotOf(a, w)].ts = w])
    <2>1. SlotOf(a, w) \in Slots(a)
      BY SlotType
    <2> DEFINE s == SlotOf(a, w)
               d == [r EXCEPT ![s].ts = w]
    <2>2. r = [u \in Slots(a) |-> [ts |-> r[u].ts, val |-> r[u].val]]
      BY <1>3 DEF RowShape
    <2> HIDE DEF s
    <2>3. DOMAIN d = Slots(a) /\ d = [u \in Slots(a) |-> d[u]]
      BY <2>2
    <2>4. \A u \in Slots(a) : d[u] = [ts |-> d[u].ts, val |-> d[u].val]
      BY <2>2
    <2> HIDE DEF d
    <2>5. RowShape(a, d)
      BY <2>3, <2>4 DEF RowShape
    <2> QED  BY <2>5 DEF d, s
  <1>4. AccShape(PartAcc(f, a, t, v, ph))
    <2>1. CASE ph \in Lates \cup {"resetVal"}
      BY <1>1, <2>1, Parts
    <2>2. CASE ph = "resetCount"
      BY <1>1, <1>2, <2>2 DEF PartAcc, Lates, Closing
    <2>3. CASE ph = "resetStart"
      BY <1>1, <2>3 DEF PartAcc, Lates, Closing, AccShape
    <2>4. CASE ph = "addVal"
      BY <1>1, <2>4, Parts
    <2>5. CASE ph = "addCount"
      BY <1>1, <1>2, <2>5 DEF PartAcc, Lates, Closing
    <2>6. CASE ph \in Closing
      BY <1>1, <2>6, Parts
    <2> QED  BY <2>1, <2>2, <2>3, <2>4, <2>5, <2>6 DEF Writes, Resets
  <1>5. RowShape(a, PartRows(f, a, t, v, ph))
    <2>1. CASE ph = "lateTs"
      BY <1>1, <2>1, Parts
    <2>2. CASE ph = "lateVal"
      <3>1. f.acc[a].start \in Nat
        BY <1>1, <2>2 DEF Reached, Lates, AccShape
      <3>2. PartRows(f, a, t, v, ph) =
              [f.row[a] EXCEPT ![SlotOf(a, f.acc[a].start)].ts = f.acc[a].start]
        BY <2>2 DEF PartRows, Resets
      <3> QED  BY <1>1, <1>3, <3>1, <3>2
    <2>3. CASE ph \in Resets \cup {"addVal", "addCount", "rowTs"}
      BY <1>1, <2>3, Parts
    <2>4. CASE ph = "rowVal"
      BY <1>1, <1>3, <2>4 DEF PartRows, Resets
    <2>5. CASE ph = "clearStart"
      BY <1>1, <2>5, FinalizeShape DEF PartRows, Resets
    <2> QED  BY <2>1, <2>2, <2>3, <2>4, <2>5 DEF Writes, Lates, Closing
  <1> QED  BY <1>4, <1>5

LEMMA DoneShape ==
  ASSUME NEW f, Shape(f), NEW a \in Archives, NEW t \in Times, NEW v
  PROVE  AccShape(AccDone(f, a, t, v)) /\ RowShape(a, RowsDone(f, a, t, v))
  <1>1. /\ AccShape(Added(f, a, t, v)) /\ RowShape(a, RolledOver(f, a, t))
        /\ Window(a, t) \in Nat
    BY RolledShape, SlotsOfArchive
  <1>2. AccShape(AccDone(f, a, t, v))
    BY <1>1 DEF AccShape, AccDone
  <1>3. RowShape(a, RowsDone(f, a, t, v))
    BY <1>1, FinalizeShape DEF RowsDone
  <1> QED  BY <1>2, <1>3

(* The file under a call, archive by archive. *)
LEMMA UnderWay ==
  ASSUME StepInv, rec # Idle, NEW a \in Archives
  PROVE  \/ Finished(a) \/ Untouched(a)
         \/ /\ rec.ph \in Writes /\ Reached(before, a, rec.t, rec.ph)
            /\ acc[a] = PartAcc(before, a, rec.t, rec.v, rec.ph)
            /\ row[a] = PartRows(before, a, rec.t, rec.v, rec.ph)
  <1>1. /\ Progress /\ rec.a \in Archives /\ rec.ph \in Writes \cup {"commit"}
    BY CallFacts
  <1>2. a \in Int /\ rec.a \in Int
    BY <1>1, RrasAssumption DEF Archives
  <1>3. rec.ph = "commit" \/ a < rec.a \/ a > rec.a \/ (a = rec.a /\ rec.ph \in Writes)
    BY <1>1, <1>2
  <1> QED  BY <1>1, <1>3 DEF Progress

LEMMA ShapeNow ==
  ASSUME StepInv
  PROVE  Shape(File)
  <1>1. Domains
    BY DEF StepInv, Domains
  <1>2. \A a \in Archives : AccShape(acc[a]) /\ RowShape(a, row[a])
    <2> SUFFICES ASSUME NEW a \in Archives PROVE AccShape(acc[a]) /\ RowShape(a, row[a])
      OBVIOUS
    <2>1. CASE rec = Idle
      BY <2>1 DEF StepInv, Progress, Shape, File
    <2>2. CASE rec # Idle
      <3>1. Shape(before) /\ rec.t \in Times
        BY <2>2, CallFacts
      <3>2. CASE Finished(a)
        BY <3>1, <3>2, DoneShape DEF Finished
      <3>3. CASE Untouched(a)
        BY <3>1, <3>3 DEF Untouched, Shape
      <3>4. CASE /\ rec.ph \in Writes /\ Reached(before, a, rec.t, rec.ph)
                 /\ acc[a] = PartAcc(before, a, rec.t, rec.v, rec.ph)
                 /\ row[a] = PartRows(before, a, rec.t, rec.v, rec.ph)
        BY <3>1, <3>4, PartShape
      <3> QED  BY <2>2, <3>2, <3>3, <3>4, UnderWay
    <2> QED  BY <2>1, <2>2
  <1> QED  BY <1>1, <1>2 DEF Shape, File, Domains

(* When a call ends, committed or killed, the file is what the next one     *)
(* finds.                                                                  *)
LEMMA EndKeeps ==
  ASSUME StepInv, rec' = Idle, UNCHANGED <<acc, row>>, before' = File', kills' \in Nat
  PROVE  StepInv'
  <1>1. Shape(File)
    BY ShapeNow
  <1>2. /\ before'.acc = acc /\ before'.row = row /\ before'.lastUpdate = lastUpdate'
    BY DEF File
  <1>3. Shape(before')
    BY <1>1, <1>2 DEF Shape, File
  <1>4. Progress'
    BY DEF Progress
  <1> QED  BY <1>2, <1>3, <1>4 DEF StepInv

LEMMA CommitKeeps ==
  ASSUME StepInv, Commit
  PROVE  StepInv'
  BY EndKeeps DEF Commit, StepInv

LEMMA KillKeeps ==
  ASSUME StepInv, Kill
  PROVE  StepInv'
  BY EndKeeps DEF Kill, StepInv, file

LEMMA StepsKept ==
  StepInv /\ [StepNext]_svars => StepInv'
  <1> SUFFICES ASSUME StepInv, [StepNext]_svars PROVE StepInv'
    OBVIOUS
  <1>1. CASE UNCHANGED svars
    BY <1>1 DEF svars, file, StepInv, Progress, Finished, Untouched, File
  <1>2. ASSUME NEW t \in Times, Ignore(t) PROVE StepInv'
    BY <1>2 DEF Ignore, Skip, vars, StepInv, Progress, Finished, Untouched, File
  <1> QED  BY <1>1, <1>2, WriteKeeps, BeginKeeps, CommitKeeps, KillKeeps DEF StepNext

-----------------------------------------------------------------------------
(* record implements Record *)

LEMMA Mapped ==
  ASSUME NEW a \in Archives, NEW t, NEW v
  PROVE  /\ AccDone(before, a, t, v) = Atomic!NextAcc(a, t, v)
         /\ RowsDone(before, a, t, v) = Atomic!NextRows(a, t, v)
  BY DEF AccDone, RowsDone, Added, Rolled, RolledOver, Atomic!NextAcc, Atomic!NextRows,
         Atomic!RolledAcc, Atomic!RolledRows, Atomic!Accumulate, Accumulate, Atomic!Finalize, Finalize,
         Atomic!FreshAcc, FreshAcc, Atomic!Window, Window, Atomic!Completes, Completes,
         Atomic!Combine, Combine, Atomic!RowOf, RowOf, Atomic!SlotOf, SlotOf,
         Atomic!TooSparse, TooSparse, Atomic!Mean, Mean

LEMMA InitMaps ==
  StepInit => Atomic!Init
  BY DEF StepInit, Init, Atomic!Init, File, Atomic!Archives, Archives, Atomic!Slots, Slots,
         Atomic!Mean, Mean, Atomic!Times, Times

LEMMA StepMaps ==
  ASSUME StepInv, [StepNext]_svars
  PROVE  [kills' = 0 => Atomic!Next]_(Atomic!vars)
  <1>1. CASE Commit
    <2> SUFFICES ASSUME kills' = 0 PROVE Atomic!Next
      OBVIOUS
    <2>1. kills = 0
      BY <1>1 DEF Commit
    <2>2. /\ rec.t \in Times /\ rec.v \in Values \cup {NaN}
          /\ before.lastUpdate = 0 \/ rec.t > before.lastUpdate
          /\ before' = [lastUpdate |-> rec.t,
                        acc |-> [a \in Archives |-> AccDone(before, a, rec.t, rec.v)],
                        row |-> [a \in Archives |-> RowsDone(before, a, rec.t, rec.v)]]
          /\ accepted' = [accepted EXCEPT ![rec.t] = rec.v]
      BY <1>1, <2>1, CommitFacts
    <2>3. PICK t \in Times, v \in Values \cup {NaN} : t = rec.t /\ v = rec.v
      BY <2>2
    <2>4. /\ before'.acc = [a \in Archives |-> Atomic!NextAcc(a, t, v)]
          /\ before'.row = [a \in Archives |-> Atomic!NextRows(a, t, v)]
          /\ before'.lastUpdate = t
      BY <2>2, <2>3, Mapped
    <2>5. Atomic!Record(t, v)
      BY <2>2, <2>3, <2>4 DEF Atomic!Record, Atomic!Archives, Archives
    <2> QED  BY <2>3, <2>5 DEF Atomic!Next, Atomic!Times, Times
  <1>2. CASE Kill
    <2>1. kills' # 0
      BY <1>2 DEF Kill, StepInv
    <2> QED  BY <2>1
  <1>3. ASSUME UNCHANGED <<before, accepted>> PROVE UNCHANGED Atomic!vars
    BY <1>3 DEF Atomic!vars
  <1>4. CASE Write
    BY <1>3, <1>4 DEF Write
  <1>5. ASSUME NEW t \in Times, NEW v \in Values \cup {NaN}, Begin(t, v)
        PROVE  UNCHANGED Atomic!vars
    BY <1>3, <1>5 DEF Begin
  <1>6. ASSUME NEW t \in Times, Ignore(t) PROVE UNCHANGED Atomic!vars
    BY <1>3, <1>6 DEF Ignore, Skip, vars
  <1>7. CASE UNCHANGED svars
    BY <1>3, <1>7 DEF svars
  <1> QED  BY <1>1, <1>2, <1>4, <1>5, <1>6, <1>7 DEF StepNext

(* Until a call is killed, the stores of record (finalizing a stale window, *)
(* resetting, accumulating and finalizing in place, archive by archive) add *)
(* up to one atomic Record of the file as it was when the call took the     *)
(* series' Mutex; nobody who waits for that Mutex can tell the difference.  *)
THEOREM RecordIsAtomic ==
  StepSpec => ImplementsSeries
  <1>1. StepInit => StepInv
    BY InitSteps
  <1>2. StepInv /\ [StepNext]_svars => StepInv'
    BY StepsKept
  <1>3. StepInit => Atomic!Init
    BY InitMaps
  <1>4. StepInv /\ [StepNext]_svars => [kills' = 0 => Atomic!Next]_(Atomic!vars)
    BY StepMaps
  <1> QED  BY <1>1, <1>2, <1>3, <1>4, PTL DEF StepSpec, ImplementsSeries

-----------------------------------------------------------------------------
(* What kills leave of an archive.  c and r are its accumulator and rows,   *)
(* L the newest round stored, N the newest any call wrote for, h the        *)
(* history and X the windows a killed call may have damaged.               *)

Ring(a) == Rras[a].rows * Rras[a].steps

(* Window w had a round and gets no more (Settled). *)
Closed(h, a, w, L) ==
  /\ \E t \in InWindow(a, w) : h[t] # Absent
  /\ Window(a, L) > w \/ L = w + Rras[a].steps - 1

(* The window in progress is not older than the newest round's. *)
AccPlaced(a, c, L, N) ==
  c.start # Empty =>
    /\ c.start \in Nat \ {0} /\ Window(a, c.start) = c.start
    /\ Window(a, L) <= c.start /\ c.start <= N

(* Unless a kill hit it, it is the newest round's and worth its rounds ... *)
AccTrue(h, X, a, c, L) ==
  (c.start # Empty /\ c.start \notin X) =>
    /\ L # 0 /\ c.start = Window(a, L) /\ ~Completes(a, L)
    /\ c.val \in Int \cup {NaN}
    /\ c.count = Cardinality(KnownOf(h, a, c.start))
    /\ Consolidated(h, a, c.start, c.val)

(* ... and the newest round's window is in progress until it is complete.   *)
AccThere(X, a, c, L) ==
  (L # 0 /\ ~Completes(a, L) /\ Window(a, L) \notin X) => c.start = Window(a, L)

(* Rows lie in their slots. *)
RowPlaced(a, r, N) ==
  \A s \in Slots(a) :
    /\ r[s].ts \in Nat
    /\ r[s].ts # 0 => /\ Window(a, r[s].ts) = r[s].ts /\ SlotOf(a, r[s].ts) = s
                      /\ r[s].ts <= N

RowTrue(h, X, a, r, L) ==
  \A s \in Slots(a) :
    (r[s].ts # 0 /\ r[s].ts \notin X) =>
      Closed(h, a, r[s].ts, L) /\ r[s].val = RefOf(h, a, r[s].ts)

RingFull(h, X, a, r, L, N) ==
  \A u \in Times :
    LET w == Window(a, u) IN
    (Closed(h, a, w, L) /\ w \notin X /\ w > Window(a, N) - Ring(a))
      => r[SlotOf(a, w)].ts = w

Salvaged(h, X, a, c, r, L, N) ==
  /\ AccPlaced(a, c, L, N) /\ AccTrue(h, X, a, c, L) /\ AccThere(X, a, c, L)
  /\ RowPlaced(a, r, N) /\ RowTrue(h, X, a, r, L) /\ RingFull(h, X, a, r, L, N)

(* The history goes up to the newest round stored. *)
UpTo(h, L) ==
  /\ h \in History /\ L \in Nat
  /\ L # 0 => L \in Times /\ h[L] # Absent
  /\ \A t \in Times : h[t] # Absent => t <= L

SalvageInv ==
  /\ UpTo(accepted, before.lastUpdate)
  /\ newest \in Nat /\ before.lastUpdate <= newest
  /\ rec # Idle => rec.t <= newest
  /\ \A a \in Archives :
       Salvaged(accepted, hit[a], a, before.acc[a], before.row[a], before.lastUpdate, newest)

-----------------------------------------------------------------------------
(* The windows a call writes for *)

Aims(a, c, t) == {Window(a, t), c.start} \ {Empty}

(* r2 is r but for rows of these windows. *)
Touched(a, c, t, r, r2) ==
  \A s \in Slots(a) :
    r2[s] = r[s] \/ (r2[s].ts \in Aims(a, c, t) /\ SlotOf(a, r2[s].ts) = s)

LEMMA ClosedFacts ==
  ASSUME NEW h, NEW L, UpTo(h, L), NEW a \in Archives, NEW w \in Nat, Window(a, w) = w,
         Closed(h, a, w, L)
  PROVE  /\ w <= Window(a, L)
         /\ \A t \in Times : t > L => t \notin InWindow(a, w) /\ Window(a, t) > w
  <1> DEFINE p == Rras[a].steps
             l == Window(a, L)
  <1>1. p \in Nat \ {0} /\ L \in Nat
    BY ArchiveType DEF UpTo
  <1>2. l \in Nat /\ l <= L /\ L < l + p
    BY <1>1, WindowBounds
  <1>3. l > w \/ L = w + p - 1
    BY DEF Closed
  <1>4. L = w + p - 1 => l = w
    <2> SUFFICES ASSUME L = w + p - 1 PROVE l = w
      OBVIOUS
    <2>1. w <= L /\ L < w + p
      BY <1>1
    <2> QED  BY <1>1, <2>1, WindowUnique
  <1>5. ASSUME NEW t \in Times, t > L PROVE t \notin InWindow(a, w) /\ Window(a, t) > w
    <2>1. t \in Nat /\ l <= Window(a, t) /\ Window(a, t) \in Nat
      BY <1>1, <1>5, TimesNat, WindowMonotone, WindowBounds
    <2>2. t >= w + p
      BY <1>1, <1>2, <1>3, <1>4, <1>5, <2>1, WindowUnique
    <2>3. Window(a, t) > w
      <3>1. t < Window(a, t) + p
        BY <2>1, WindowBounds
      <3> HIDE DEF p, l
      <3> QED  BY <1>1, <2>1, <2>2, <3>1
    <2> QED  BY <1>1, <2>1, <2>2, <2>3 DEF InWindow
  <1> QED  BY <1>1, <1>2, <1>3, <1>4, <1>5

LEMMA AimFacts ==
  ASSUME NEW L \in Nat, NEW N \in Nat, NEW a \in Archives, NEW c, AccPlaced(a, c, L, N),
         NEW t \in Times, L < t, t <= N, NEW d \in Aims(a, c, t)
  PROVE  /\ d \in Nat \ {0} /\ Window(a, d) = d /\ d <= N
         /\ Window(a, L) <= d /\ d <= Window(a, N)
  <1>1. t \in Nat /\ Window(a, t) \in Nat \ {0} /\ Window(a, t) <= t
    BY TimesNat, WindowPositive, WindowBounds
  <1>2. /\ d \in Nat \ {0} /\ Window(a, d) = d /\ Window(a, L) <= d /\ d <= N
    <2>1. CASE d = Window(a, t)
      BY <1>1, <2>1, WindowIdempotent, WindowMonotone
    <2>2. CASE d = c.start
      BY <2>2 DEF AccPlaced, Aims
    <2> QED  BY <2>1, <2>2 DEF Aims
  <1>3. d <= Window(a, N)
    BY <1>2, WindowMonotone
  <1> QED  BY <1>2, <1>3

(* A window of the newest ring shares its slot with no newer one. *)
LEMMA SlotIsOwn ==
  ASSUME NEW N \in Nat, NEW a \in Archives, NEW w \in Nat, NEW d \in Nat,
         Window(a, w) = w, Window(a, d) = d, w <= d, d <= Window(a, N),
         w > Window(a, N) - Ring(a), SlotOf(a, d) = SlotOf(a, w)
  PROVE  d = w
  <1> SUFFICES ASSUME w < d PROVE FALSE
    OBVIOUS
  <1>1. w + Ring(a) <= d
    BY SlotsApart DEF Ring
  <1>2. Ring(a) \in Nat
    <2>1. Rras[a].rows \in Nat /\ Rras[a].steps \in Nat
      BY ArchiveType
    <2> QED  BY <2>1 DEF Ring
  <1>3. Window(a, N) \in Nat
    BY WindowBounds
  <1> QED  BY <1>1, <1>2, <1>3

(* Rows that were only touched are still in their slots. *)
LEMMA TouchedPlaced ==
  ASSUME NEW L \in Nat, NEW N \in Nat, NEW a \in Archives, NEW c, AccPlaced(a, c, L, N),
         NEW t \in Times, L < t, t <= N, NEW r, RowPlaced(a, r, N),
         NEW r2, Touched(a, c, t, r, r2)
  PROVE  RowPlaced(a, r2, N)
  <1> SUFFICES ASSUME NEW s \in Slots(a)
               PROVE  /\ r2[s].ts \in Nat
                      /\ r2[s].ts # 0 => /\ Window(a, r2[s].ts) = r2[s].ts
                                         /\ SlotOf(a, r2[s].ts) = s /\ r2[s].ts <= N
    BY DEF RowPlaced
  <1>1. CASE r2[s] = r[s]
    BY <1>1 DEF RowPlaced
  <1>2. CASE r2[s].ts \in Aims(a, c, t) /\ SlotOf(a, r2[s].ts) = s
    BY <1>2, AimFacts
  <1> QED  BY <1>1, <1>2 DEF Touched

(* A settled window of the newest ring keeps its row. *)
LEMMA TouchedKeeps ==
  ASSUME NEW h, NEW L, UpTo(h, L), NEW N \in Nat, NEW a \in Archives, NEW c, AccPlaced(a, c, L, N),
         NEW t \in Times, L < t, t <= N, NEW r, NEW r2, Touched(a, c, t, r, r2),
         NEW w \in Nat, Window(a, w) = w, Closed(h, a, w, L), w > Window(a, N) - Ring(a),
         r[SlotOf(a, w)].ts = w
  PROVE  r2[SlotOf(a, w)].ts = w
  <1> DEFINE s == SlotOf(a, w)
             d == r2[s].ts
  <1>1. L \in Nat /\ s \in Slots(a)
    BY SlotType DEF UpTo
  <1>2. CASE r2[s] = r[s]
    BY <1>2
  <1>3. CASE d \in Aims(a, c, t) /\ SlotOf(a, d) = s
    <2>1. d \in Nat /\ Window(a, d) = d /\ Window(a, L) <= d /\ d <= Window(a, N)
      BY <1>1, <1>3, AimFacts
    <2>2. w <= Window(a, L) /\ Window(a, L) \in Nat
      BY <1>1, ClosedFacts, WindowBounds
    <2>3. w <= d
      BY <2>1, <2>2
    <2> HIDE DEF d
    <2>4. d = w
      BY <1>3, <2>1, <2>3, SlotIsOwn
    <2> QED  BY <2>4 DEF d
  <1> QED  BY <1>1, <1>2, <1>3 DEF Touched

(* A kill damages nothing but what the call was writing for. *)
LEMMA KillSalvages ==
  ASSUME NEW h, NEW X, NEW a \in Archives, NEW c, NEW r, NEW L, NEW N \in Nat,
         UpTo(h, L), Salvaged(h, X, a, c, r, L, N),
         NEW t \in Times, L < t, t <= N,
         NEW c2, c2.start \in Aims(a, c, t) \cup {Empty},
         NEW r2, Touched(a, c, t, r, r2)
  PROVE  Salvaged(h, X \cup Aims(a, c, t), a, c2, r2, L, N)
  <1> DEFINE D == Aims(a, c, t)
             Y == X \cup D
  <1>1. /\ L \in Nat /\ AccPlaced(a, c, L, N) /\ AccThere(X, a, c, L)
        /\ RowPlaced(a, r, N) /\ RowTrue(h, X, a, r, L) /\ RingFull(h, X, a, r, L, N)
    BY DEF UpTo, Salvaged
  <1>2. AccPlaced(a, c2, L, N)
    <2> SUFFICES ASSUME c2.start # Empty PROVE AccPlaced(a, c2, L, N)
      BY DEF AccPlaced
    <2>1. PICK d \in D : d = c2.start
      OBVIOUS
    <2> QED  BY <1>1, <2>1, AimFacts DEF AccPlaced
  <1>3. AccTrue(h, Y, a, c2, L)
    BY DEF AccTrue
  <1>4. AccThere(Y, a, c2, L)
    <2>1. Window(a, L) # Empty
      BY <1>1, WindowBounds, ValuesAssumption
    <2> QED  BY <1>1, <2>1 DEF AccThere, Aims
  <1>5. RowPlaced(a, r2, N)
    BY <1>1, TouchedPlaced
  <1>6. RowTrue(h, Y, a, r2, L)
    BY <1>1 DEF RowTrue, Touched
  <1>7. RingFull(h, Y, a, r2, L, N)
    <2> SUFFICES ASSUME NEW u \in Times, Closed(h, a, Window(a, u), L), Window(a, u) \notin Y,
                        Window(a, u) > Window(a, N) - Ring(a)
                 PROVE  r2[SlotOf(a, Window(a, u))].ts = Window(a, u)
      BY DEF RingFull
    <2>1. r[SlotOf(a, Window(a, u))].ts = Window(a, u)
      BY <1>1 DEF RingFull
    <2>2. Window(a, u) \in Nat /\ Window(a, Window(a, u)) = Window(a, u)
      BY TimesNat, WindowBounds, WindowIdempotent
    <2> QED  BY <1>1, <2>1, <2>2, TouchedKeeps
  <1> QED  BY <1>2, <1>3, <1>4, <1>5, <1>6, <1>7 DEF Salvaged
-----------------------------------------------------------------------------
(* What a commit leaves *)

(* h2 is h with one more round. *)
Told(h, h2, t, v) ==
  /\ h2 \in History /\ h2[t] = v
  /\ \A u \in Times \ {t} : h2[u] = h[u]

LEMMA OtherWindow ==
  ASSUME NEW h \in History, NEW t, NEW v, NEW h2, Told(h, h2, t, v), NEW a \in Archives,
         NEW w, t \notin InWindow(a, w)
  PROVE  RefOf(h2, a, w) = RefOf(h, a, w)
  <1>1. \A u \in InWindow(a, w) : h2[u] = h[u]
    BY DEF InWindow, Told
  <1>2. KnownOf(h2, a, w) = KnownOf(h, a, w) /\ \A u \in KnownOf(h, a, w) : h2[u] = h[u]
    BY <1>1 DEF KnownOf
  <1> QED  BY <1>2, SameKnown

(* Rounds a history has of a window it is not past make that window the    *)
(* newest round's.                                                         *)
LEMMA SameWindow ==
  ASSUME NEW h, NEW L, UpTo(h, L), NEW a \in Archives, NEW t \in Times, L < t,
         NEW u \in InWindow(a, Window(a, t)), h[u] # Absent
  PROVE  L # 0 /\ Window(a, L) = Window(a, t) /\ ~Completes(a, L)
  <1> DEFINE p == Rras[a].steps
             W == Window(a, t)
  <1>1. /\ p \in Nat \ {0} /\ L \in Nat /\ t \in Nat /\ u \in Nat /\ u \in Times
        /\ W \in Nat \ {0} /\ t < W + p
    BY ArchiveType, TimesNat, WindowPositive, WindowBounds DEF UpTo, InWindow
  <1>2. u <= L /\ W <= u
    BY <1>1 DEF UpTo, InWindow
  <1>3. W <= L /\ L < W + p /\ L # 0
    BY <1>1, <1>2
  <1>4. Window(a, L) = W
    BY <1>1, <1>3, WindowUnique
  <1>5. L - W # p - 1
    <2> HIDE DEF W, p
    <2> QED  BY <1>1, <1>3
  <1> QED  BY <1>3, <1>4, <1>5 DEF Completes

(* The window of the new round is worth its rounds, the new one included. *)
LEMMA AddedTrue ==
  ASSUME NEW f, Shape(f), NEW h, NEW X, NEW a \in Archives, UpTo(h, f.lastUpdate),
         AccTrue(h, X, a, f.acc[a], f.lastUpdate), AccThere(X, a, f.acc[a], f.lastUpdate),
         NEW t \in Times, f.lastUpdate < t, NEW v \in Values \cup {NaN},
         NEW h2, Told(h, h2, t, v), Window(a, t) \notin X
  PROVE  /\ Added(f, a, t, v).val \in Int \cup {NaN}
         /\ Added(f, a, t, v).count = Cardinality(KnownOf(h2, a, Window(a, t)))
         /\ Consolidated(h2, a, Window(a, t), Added(f, a, t, v).val)
  <1> DEFINE W == Window(a, t)
             r == Rolled(f, a, t)
             K == KnownOf(h, a, W)
             K2 == KnownOf(h2, a, W)
             L == f.lastUpdate
  <1>1. /\ h \in History /\ h2 \in History /\ h2[t] = v /\ L \in Nat
        /\ \A u \in Times \ {t} : h2[u] = h[u]
    BY DEF UpTo, Told
  <1>2. h[t] = Absent
    <2>1. t \in Nat
      BY TimesNat
    <2> QED  BY <1>1, <2>1 DEF UpTo
  <1>3. W \in Nat \ {0} /\ W # Empty /\ t \in InWindow(a, W)
    BY TimesNat, WindowPositive, WindowBounds, ValuesAssumption DEF InWindow
  <1>4. r.val \in Int \cup {NaN} /\ r.count = Cardinality(K) /\ Consolidated(h, a, W, r.val)
    <2>1. CASE f.acc[a].start = W
      BY <1>3, <2>1 DEF AccTrue, Rolled
    <2>2. CASE f.acc[a].start # W
      <3>1. K = {}
        <4> SUFFICES ASSUME NEW u \in K PROVE FALSE
          OBVIOUS
        <4>1. u \in InWindow(a, W) /\ h[u] # Absent
          BY DEF KnownOf
        <4>2. L # 0 /\ Window(a, L) = W /\ ~Completes(a, L)
          BY <4>1, SameWindow
        <4> QED  BY <2>2, <4>2 DEF AccThere
      <3>2. r = FreshAcc(a, W)
        BY <2>2 DEF Rolled
      <3>3. r.val \in Int \cup {NaN} /\ r.count = 0
        BY <3>2 DEF FreshAcc
      <3> QED  BY <3>1, <3>2, <3>3, FreshConsolidated, FS_EmptySet
    <2> QED  BY <2>1, <2>2
  <1>5. AccShape(r) /\ Added(f, a, t, v) = Accumulate(a, r, v)
    BY RolledShape DEF Added
  <1>6. IsFiniteSet(K) /\ Cardinality(K) \in Nat /\ t \notin K
    BY <1>1, <1>2, KnownOfType, FS_CardinalityType DEF KnownOf
  <1> HIDE DEF W, r, K, K2, L
  <1>7. CASE v = NaN
    <2>1. K2 = K
      BY <1>1, <1>2, <1>7 DEF K, K2, KnownOf, InWindow
    <2>2. \A u \in K : h2[u] = h[u]
      BY <1>1, <1>6 DEF K, KnownOf, InWindow
    <2>3. Consolidated(h2, a, W, r.val)
      BY <1>1, <1>4, <2>1, <2>2, SameKnown DEF K, K2
    <2>4. Accumulate(a, r, v) = r
      BY <1>7 DEF Accumulate
    <2> QED  BY <1>4, <1>5, <2>1, <2>3, <2>4 DEF K2, W
  <1>8. CASE v # NaN
    <2>1. v \in Values /\ v \in Int /\ v \notin {NaN, Absent}
      BY <1>8, ValuesAssumption
    <2>2. K2 = K \cup {t}
      BY <1>1, <1>3, <2>1 DEF K, K2, KnownOf, InWindow
    <2>3. Cardinality(K2) = Cardinality(K) + 1
      BY <1>6, <2>2, FS_AddElement
    <2>4. /\ Accumulate(a, r, v).val = Combine(Rras[a].cf, r.val, v)
          /\ Accumulate(a, r, v).count = r.count + 1
      BY <1>5, <1>8 DEF Accumulate, AccShape
    <2>5. Consolidated(h2, a, W, Combine(Rras[a].cf, r.val, v))
      BY <1>1, <1>2, <1>3, <1>4, <2>1, AddConsolidated
    <2>6. Combine(Rras[a].cf, r.val, v) \in Int
      BY <1>4, <2>1, ArchiveType, CombineType
    <2> QED  BY <1>4, <1>5, <2>3, <2>4, <2>5, <2>6 DEF K2, W
  <1> QED  BY <1>7, <1>8

LEMMA FinalRow ==
  ASSUME NEW a \in Archives, NEW w \in Nat, NEW r, RowShape(a, r), NEW c
  PROVE  /\ Finalize(a, r, c, w)[SlotOf(a, w)] = [ts |-> w, val |-> RowOf(a, c.val, c.count)]
         /\ \A s \in Slots(a) : s # SlotOf(a, w) => Finalize(a, r, c, w)[s] = r[s]
  <1>1. SlotOf(a, w) \in Slots(a) /\ DOMAIN r = Slots(a)
    BY SlotType DEF RowShape
  <1> QED  BY <1>1 DEF Finalize

Late(a, c, t) == c.start \notin {Window(a, t), Empty}

(* The rows a finished call leaves: those it found, the one of the window  *)
(* it closed late, and the one of the window it completed.                 *)
LEMMA DoneRows ==
  ASSUME NEW f, Shape(f), NEW a \in Archives, NEW t \in Times, NEW v
  PROVE  /\ \A s \in Slots(a) :
              \/ RowsDone(f, a, t, v)[s] = f.row[a][s]
              \/ /\ Late(a, f.acc[a], t) /\ SlotOf(a, f.acc[a].start) = s
                 /\ RowsDone(f, a, t, v)[s] =
                      [ts |-> f.acc[a].start, val |-> RowOf(a, f.acc[a].val, f.acc[a].count)]
              \/ /\ Completes(a, t) /\ SlotOf(a, Window(a, t)) = s
                 /\ RowsDone(f, a, t, v)[s] =
                      [ts  |-> Window(a, t),
                       val |-> RowOf(a, Added(f, a, t, v).val, Added(f, a, t, v).count)]
         /\ Completes(a, t) => RowsDone(f, a, t, v)[SlotOf(a, Window(a, t))].ts = Window(a, t)
         /\ Late(a, f.acc[a], t) =>
              RowsDone(f, a, t, v)[SlotOf(a, f.acc[a].start)].ts \in Aims(a, f.acc[a], t)
  <1> DEFINE c == f.acc[a]
             d == Added(f, a, t, v)
             W == Window(a, t)
             q == f.row[a]
             m == RolledOver(f, a, t)
             r == RowsDone(f, a, t, v)
  <1>1. /\ W \in Nat /\ W # Empty /\ RowShape(a, q) /\ RowShape(a, m)
        /\ c.start \in Nat \cup {Empty}
    <2>1. AccShape(c) /\ RowShape(a, q)
      BY DEF Shape
    <2>2. W \in Nat /\ W # Empty /\ RowShape(a, m)
      BY SlotsOfArchive, RolledShape, ValuesAssumption
    <2> HIDE DEF c
    <2> QED  BY <2>1, <2>2 DEF AccShape
  <1>2. IF Late(a, c, t)
        THEN /\ m[SlotOf(a, c.start)] = [ts |-> c.start, val |-> RowOf(a, c.val, c.count)]
             /\ \A s \in Slots(a) : s # SlotOf(a, c.start) => m[s] = q[s]
        ELSE m = q
    <2>1. CASE ~Late(a, c, t)
      BY <2>1 DEF RolledOver, Late
    <2>2. CASE Late(a, c, t)
      <3>1. c.start \in Nat /\ m = Finalize(a, q, c, c.start)
        BY <1>1, <2>2 DEF RolledOver, Late
      <3> HIDE DEF c, q, m
      <3>2. RowShape(a, q)
        BY <1>1
      <3>3. /\ Finalize(a, q, c, c.start)[SlotOf(a, c.start)]
                 = [ts |-> c.start, val |-> RowOf(a, c.val, c.count)]
            /\ \A s \in Slots(a) : s # SlotOf(a, c.start) => Finalize(a, q, c, c.start)[s] = q[s]
        BY <3>1, <3>2, FinalRow, SMTT(30)
      <3> QED  BY <2>2, <3>1, <3>3
    <2> QED  BY <2>1, <2>2
  <1>3. IF Completes(a, t)
        THEN /\ r[SlotOf(a, W)] = [ts |-> W, val |-> RowOf(a, d.val, d.count)]
             /\ \A s \in Slots(a) : s # SlotOf(a, W) => r[s] = m[s]
        ELSE r = m
    <2>1. CASE ~Completes(a, t)
      BY <2>1 DEF RowsDone
    <2>2. CASE Completes(a, t)
      <3>1. r = Finalize(a, m, d, W)
        BY <2>2 DEF RowsDone
      <3> HIDE DEF d, W, m, r
      <3>2. W \in Nat /\ RowShape(a, m)
        BY <1>1
      <3>3. /\ Finalize(a, m, d, W)[SlotOf(a, W)] = [ts |-> W, val |-> RowOf(a, d.val, d.count)]
            /\ \A s \in Slots(a) : s # SlotOf(a, W) => Finalize(a, m, d, W)[s] = m[s]
        BY <3>2, FinalRow
      <3> QED  BY <2>2, <3>1, <3>3
    <2> QED  BY <2>1, <2>2
  <1>4. Late(a, c, t) => SlotOf(a, c.start) \in Slots(a) /\ c.start \in Aims(a, c, t)
    BY <1>1, SlotType DEF Late, Aims
  <1>5. W \in Aims(a, c, t)
    BY <1>1 DEF Aims
  <1> HIDE DEF c, d, W, q, m, r
  <1>6. \A s \in Slots(a) :
          \/ r[s] = q[s]
          \/ /\ Late(a, c, t) /\ SlotOf(a, c.start) = s
             /\ r[s] = [ts |-> c.start, val |-> RowOf(a, c.val, c.count)]
          \/ /\ Completes(a, t) /\ SlotOf(a, W) = s
             /\ r[s] = [ts |-> W, val |-> RowOf(a, d.val, d.count)]
    BY <1>2, <1>3
  <1>7. Completes(a, t) => r[SlotOf(a, W)].ts = W
    BY <1>3
  <1>8. Late(a, c, t) => r[SlotOf(a, c.start)].ts \in Aims(a, c, t)
    <2> SUFFICES ASSUME Late(a, c, t) PROVE r[SlotOf(a, c.start)].ts \in Aims(a, c, t)
      OBVIOUS
    <2>1. r[SlotOf(a, c.start)] = m[SlotOf(a, c.start)] \/ r[SlotOf(a, c.start)].ts = W
      BY <1>3, <1>4
    <2>2. m[SlotOf(a, c.start)].ts = c.start
      BY <1>2
    <2> QED  BY <1>4, <1>5, <2>1, <2>2
  <1> QED  BY <1>6, <1>7, <1>8 DEF c, d, W, q, r

LEMMA DoneTouches ==
  ASSUME NEW f, Shape(f), NEW a \in Archives, NEW t \in Times, NEW v
  PROVE  /\ AccDone(f, a, t, v).start = IF Completes(a, t) THEN Empty ELSE Window(a, t)
         /\ AccDone(f, a, t, v).start \in Aims(a, f.acc[a], t) \cup {Empty}
         /\ Touched(a, f.acc[a], t, f.row[a], RowsDone(f, a, t, v))
  <1> DEFINE c == f.acc[a]
             r == RowsDone(f, a, t, v)
             q == f.row[a]
             d == Added(f, a, t, v)
  <1>1. Window(a, t) # Empty
    BY SlotsOfArchive, ValuesAssumption
  <1>2. AccShape(d) /\ d.start = Window(a, t)
    BY RolledShape
  <1>3. AccDone(f, a, t, v).start = IF Completes(a, t) THEN Empty ELSE Window(a, t)
    <2> HIDE DEF d
    <2>1. AccDone(f, a, t, v) = IF Completes(a, t) THEN [d EXCEPT !.start = Empty] ELSE d
      BY DEF AccDone, d
    <2> QED  BY <1>2, <2>1 DEF AccShape
  <1>4. Window(a, t) \in Aims(a, c, t) /\ (Late(a, c, t) => c.start \in Aims(a, c, t))
    BY <1>1 DEF Aims, Late
  <1>5. \A s \in Slots(a) :
          \/ r[s] = q[s]
          \/ Late(a, c, t) /\ SlotOf(a, c.start) = s /\ r[s].ts = c.start
          \/ SlotOf(a, Window(a, t)) = s /\ r[s].ts = Window(a, t)
    <2> SUFFICES ASSUME NEW s \in Slots(a)
                 PROVE  \/ r[s] = q[s]
                        \/ Late(a, c, t) /\ SlotOf(a, c.start) = s /\ r[s].ts = c.start
                        \/ SlotOf(a, Window(a, t)) = s /\ r[s].ts = Window(a, t)
      OBVIOUS
    <2>1. \/ r[s] = q[s]
          \/ /\ Late(a, c, t) /\ SlotOf(a, c.start) = s
             /\ r[s] = [ts |-> c.start, val |-> RowOf(a, c.val, c.count)]
          \/ /\ SlotOf(a, Window(a, t)) = s
             /\ r[s] = [ts |-> Window(a, t), val |-> RowOf(a, d.val, d.count)]
      BY DoneRows
    <2> HIDE DEF c, r, q, d
    <2> QED  BY <2>1
  <1> HIDE DEF c, r, q
  <1>6. Touched(a, c, t, q, r)
    BY <1>4, <1>5 DEF Touched
  <1> QED  BY <1>3, <1>4, <1>6 DEF c, r, q
(* A commit keeps what was salvaged, and adds to it. *)
LEMMA CommitSalvages ==
  ASSUME NEW f, Shape(f), NEW h, NEW X, NEW a \in Archives, NEW N \in Nat, NEW L,
         L = f.lastUpdate, UpTo(h, L), Salvaged(h, X, a, f.acc[a], f.row[a], L, N),
         NEW t \in Times, L < t, t <= N, NEW v \in Values \cup {NaN},
         NEW h2, Told(h, h2, t, v)
  PROVE  Salvaged(h2, X, a, AccDone(f, a, t, v), RowsDone(f, a, t, v), t, N)
  <1> DEFINE c == f.acc[a]
             r == f.row[a]
             d == Added(f, a, t, v)
             c2 == AccDone(f, a, t, v)
             r2 == RowsDone(f, a, t, v)
             W == Window(a, t)
  <1>1. /\ L \in Nat /\ h \in History
        /\ AccPlaced(a, c, L, N) /\ AccTrue(h, X, a, c, L) /\ AccThere(X, a, c, L)
        /\ RowPlaced(a, r, N) /\ RowTrue(h, X, a, r, L) /\ RingFull(h, X, a, r, L, N)
    BY DEF UpTo, Salvaged
  <1>2. /\ t \in Nat \ {0} /\ W \in Nat \ {0} /\ W # Empty /\ Window(a, W) = W /\ W <= t
        /\ t < W + Rras[a].steps /\ Rras[a].steps \in Nat \ {0}
    BY TimesNat, WindowPositive, WindowBounds, WindowIdempotent, ArchiveType, ValuesAssumption
  <1>3. /\ h2[t] = v /\ v # Absent /\ \A u \in Times \ {t} : h2[u] = h[u]
        /\ \A u \in Times : h[u] # Absent => h2[u] # Absent
    BY ValuesAssumption DEF Told
  <1>4. /\ c2.start = IF Completes(a, t) THEN Empty ELSE W
        /\ Touched(a, c, t, r, r2)
    BY DoneTouches
  <1>5. W \notin X =>
          /\ d.val \in Int \cup {NaN} /\ d.count = Cardinality(KnownOf(h2, a, W))
          /\ Consolidated(h2, a, W, d.val)
    BY <1>1, AddedTrue
  <1>6. ~Completes(a, t) => c2 = d
    BY DEF AccDone
  <1>7. /\ \A s \in Slots(a) :
             \/ r2[s] = r[s]
             \/ /\ Late(a, c, t) /\ SlotOf(a, c.start) = s
                /\ r2[s] = [ts |-> c.start, val |-> RowOf(a, c.val, c.count)]
             \/ /\ Completes(a, t) /\ SlotOf(a, W) = s
                /\ r2[s] = [ts |-> W, val |-> RowOf(a, d.val, d.count)]
        /\ Completes(a, t) => r2[SlotOf(a, W)].ts = W
        /\ Late(a, c, t) => r2[SlotOf(a, c.start)].ts \in Aims(a, c, t)
    BY DoneRows
  (* The rounds of a window that was settled before are as they were. *)
  <1>8. ASSUME NEW w \in Nat, Window(a, w) = w, Closed(h, a, w, L)
        PROVE  Closed(h2, a, w, t) /\ RefOf(h2, a, w) = RefOf(h, a, w)
    <2>1. t \notin InWindow(a, w) /\ W > w
      BY <1>8, ClosedFacts
    <2>2. RefOf(h2, a, w) = RefOf(h, a, w)
      BY <1>1, <2>1, OtherWindow
    <2>3. \E u \in InWindow(a, w) : h2[u] # Absent
      BY <1>3, <1>8 DEF Closed, InWindow
    <2> QED  BY <2>1, <2>2, <2>3 DEF Closed
  (* The window that is closed late. *)
  <1>9. ASSUME Late(a, c, t), c.start \notin X
        PROVE  /\ Closed(h2, a, c.start, t)
               /\ RowOf(a, c.val, c.count) = RefOf(h2, a, c.start)
    <2>1. /\ L # 0 /\ c.start = Window(a, L) /\ c.count = Cardinality(KnownOf(h, a, c.start))
          /\ Consolidated(h, a, c.start, c.val)
      BY <1>1, <1>9 DEF AccTrue, Late
    <2>2. L \in Times /\ h[L] # Absent
      BY <2>1 DEF UpTo
    <2>3. c.start \in Nat /\ L \in InWindow(a, c.start) /\ Window(a, c.start) = c.start
      BY <1>1, <2>1, <2>2, WindowBounds, WindowIdempotent DEF InWindow
    <2>4. c.start < W
      BY <1>1, <1>2, <1>9, <2>1, <2>3, WindowMonotone DEF Late
    <2>5. t \notin InWindow(a, c.start)
      <3> SUFFICES ASSUME c.start <= t, t < c.start + Rras[a].steps PROVE FALSE
        BY DEF InWindow
      <3>1. W = c.start
        BY <1>2, <2>3, WindowUnique
      <3> QED  BY <1>9, <3>1 DEF Late
    <2>6. RowOf(a, c.val, c.count) = RefOf(h, a, c.start)
      BY <1>1, <2>1, RowIsReference
    <2>7. RefOf(h2, a, c.start) = RefOf(h, a, c.start)
      BY <1>1, <2>5, OtherWindow
    <2>8. \E u \in InWindow(a, c.start) : h2[u] # Absent
      BY <1>3, <2>2, <2>3
    <2> QED  BY <2>4, <2>6, <2>7, <2>8 DEF Closed
  (* The window that is complete. *)
  <1>10. ASSUME Completes(a, t), W \notin X
         PROVE  Closed(h2, a, W, t) /\ RowOf(a, d.val, d.count) = RefOf(h2, a, W)
    <2>1. t = W + Rras[a].steps - 1
      BY <1>2, <1>10 DEF Completes
    <2>2. t \in InWindow(a, W)
      BY <1>2 DEF InWindow
    <2>3. RowOf(a, d.val, d.count) = RefOf(h2, a, W)
      BY <1>5, <1>10, RowIsReference DEF Told
    <2> QED  BY <1>3, <2>1, <2>2, <2>3 DEF Closed
  <1> HIDE DEF c, r, d, c2, r2
  <1>11. AccPlaced(a, c2, t, N)
    BY <1>2, <1>4 DEF AccPlaced
  <1>12. AccTrue(h2, X, a, c2, t)
    BY <1>2, <1>4, <1>5, <1>6 DEF AccTrue
  <1>13. AccThere(X, a, c2, t)
    BY <1>4 DEF AccThere
  <1>14. RowPlaced(a, r2, N)
    BY <1>1, <1>4, TouchedPlaced
  <1>15. RowTrue(h2, X, a, r2, t)
    <2> SUFFICES ASSUME NEW s \in Slots(a), r2[s].ts # 0, r2[s].ts \notin X
                 PROVE  /\ Closed(h2, a, r2[s].ts, t)
                        /\ r2[s].val = RefOf(h2, a, r2[s].ts)
      BY DEF RowTrue
    <2>1. CASE r2[s] = r[s]
      <3>1. r[s].ts \in Nat /\ Window(a, r[s].ts) = r[s].ts
        BY <1>1, <2>1 DEF RowPlaced
      <3>2. Closed(h, a, r[s].ts, L) /\ r[s].val = RefOf(h, a, r[s].ts)
        BY <1>1, <2>1 DEF RowTrue
      <3> QED  BY <1>8, <2>1, <3>1, <3>2
    <2>2. CASE /\ Late(a, c, t)
               /\ r2[s] = [ts |-> c.start, val |-> RowOf(a, c.val, c.count)]
      BY <1>9, <2>2
    <2>3. CASE /\ Completes(a, t)
               /\ r2[s] = [ts |-> W, val |-> RowOf(a, d.val, d.count)]
      BY <1>10, <2>3
    <2> QED  BY <1>7, <2>1, <2>2, <2>3
  <1>16. RingFull(h2, X, a, r2, t, N)
    <2> SUFFICES ASSUME NEW u \in Times, NEW w, w = Window(a, u),
                        Closed(h2, a, w, t), w \notin X, w > Window(a, N) - Ring(a)
                 PROVE  r2[SlotOf(a, w)].ts = w
      BY DEF RingFull
    <2>1. w \in Nat /\ Window(a, w) = w
      BY TimesNat, WindowBounds, WindowIdempotent
    <2>2. CASE Closed(h, a, w, L)
      <3>1. r[SlotOf(a, w)].ts = w
        BY <1>1, <2>2 DEF RingFull
      <3> QED  BY <1>1, <1>4, <2>1, <2>2, <3>1, TouchedKeeps
    <2>3. CASE ~Closed(h, a, w, L) /\ w = W
      <3>1. t = W + Rras[a].steps - 1
        BY <1>2, <2>3 DEF Closed
      <3>2. Completes(a, t)
        BY <1>2, <3>1 DEF Completes
      <3> QED  BY <1>7, <2>3, <3>2
    <2>4. CASE ~Closed(h, a, w, L) /\ w # W
      <3>1. PICK x \in InWindow(a, w) : h2[x] # Absent
        BY DEF Closed
      <3>2. /\ x \in Times /\ x \in Nat /\ w <= x /\ x < w + Rras[a].steps
            /\ Window(a, x) = w
        BY <2>1, TimesNat, WindowUnique DEF InWindow
      <3>3. x # t /\ h[x] # Absent /\ x <= L
        BY <1>3, <2>4, <3>1, <3>2 DEF UpTo
      <3>4. w <= Window(a, L) /\ Window(a, L) \in Nat
        BY <1>1, <3>2, <3>3, WindowMonotone, WindowBounds
      <3>5. w = Window(a, L) /\ L # w + Rras[a].steps - 1
        BY <2>1, <2>4, <3>1, <3>3, <3>4 DEF Closed
      <3>6. L # 0 /\ ~Completes(a, L)
        <4>1. L # 0
          BY <1>1, <3>2, <3>3, TimesNat
        <4> QED  BY <1>1, <1>2, <2>1, <3>5, <4>1 DEF Completes
      <3>7. c.start = w
        BY <1>1, <3>5, <3>6 DEF AccThere
      <3>8. Late(a, c, t)
        BY <2>1, <2>4, <3>7, ValuesAssumption DEF Late
      <3> DEFINE e == r2[SlotOf(a, w)].ts
      <3>9. e \in Aims(a, c, t)
        BY <1>7, <3>7, <3>8
      <3>10. e \in Nat /\ Window(a, e) = e /\ Window(a, L) <= e /\ e <= Window(a, N)
        BY <1>1, <3>9, AimFacts
      <3>11. SlotOf(a, e) = SlotOf(a, w)
        BY <1>14, <2>1, <3>9, <3>10, AimFacts, SlotType, <1>1 DEF RowPlaced
      <3> HIDE DEF e
      <3>12. w <= e
        BY <3>5, <3>10
      <3>13. e = w
        BY <2>1, <3>10, <3>11, <3>12, SlotIsOwn
      <3> QED  BY <3>13 DEF e
    <2> QED  BY <2>2, <2>3, <2>4
  <1> QED  BY <1>11, <1>12, <1>13, <1>14, <1>15, <1>16 DEF Salvaged, c2, r2
-----------------------------------------------------------------------------
(* What a killed call leaves *)

LEMMA TouchMore ==
  ASSUME NEW a \in Archives, NEW c, NEW t, NEW r, NEW m, Touched(a, c, t, r, m),
         NEW d \in Aims(a, c, t), NEW r2, r2[SlotOf(a, d)].ts = d,
         \A s \in Slots(a) : s # SlotOf(a, d) => r2[s] = m[s]
  PROVE  Touched(a, c, t, r, r2)
  BY DEF Touched

LEMMA TsPut ==
  ASSUME NEW a \in Archives, NEW r, RowShape(a, r), NEW w \in Nat
  PROVE  /\ [r EXCEPT ![SlotOf(a, w)].ts = w][SlotOf(a, w)].ts = w
         /\ \A s \in Slots(a) : s # SlotOf(a, w) => [r EXCEPT ![SlotOf(a, w)].ts = w][s] = r[s]
  <1> DEFINE u == SlotOf(a, w)
  <1>1. u \in Slots(a) /\ r = [s \in Slots(a) |-> [ts |-> r[s].ts, val |-> r[s].val]]
    BY SlotType DEF RowShape
  <1> HIDE DEF u
  <1>2. /\ [r EXCEPT ![u].ts = w][u].ts = w
        /\ \A s \in Slots(a) : s # u => [r EXCEPT ![u].ts = w][s] = r[s]
    BY <1>1
  <1> QED  BY <1>2 DEF u

LEMMA PartTouches ==
  ASSUME NEW f, Shape(f), NEW a \in Archives, NEW t \in Times, NEW v,
         NEW ph \in Writes, Reached(f, a, t, ph)
  PROVE  /\ PartAcc(f, a, t, v, ph).start \in Aims(a, f.acc[a], t) \cup {Empty}
         /\ Touched(a, f.acc[a], t, f.row[a], PartRows(f, a, t, v, ph))
  <1> DEFINE c == f.acc[a]
             q == f.row[a]
             m == RolledOver(f, a, t)
             W == Window(a, t)
             d == Added(f, a, t, v)
             b == Rolled(f, a, t)
             pa == PartAcc(f, a, t, v, ph)
             pr == PartRows(f, a, t, v, ph)
  <1>1. /\ AccShape(c) /\ RowShape(a, q) /\ RowShape(a, m) /\ W \in Nat /\ W # Empty
        /\ AccShape(b) /\ b.start = W /\ AccShape(d) /\ d.start = W
    BY RolledShape, SlotsOfArchive, ValuesAssumption DEF Shape
  <1>2. W \in Aims(a, c, t) /\ (c.start = Empty \/ c.start \in Aims(a, c, t))
    BY <1>1 DEF Aims
  <1>3. c.start # Empty => c.start \in Nat
    <2> HIDE DEF c
    <2> QED  BY <1>1 DEF AccShape
  <1>4. Touched(a, c, t, q, q)
    BY DEF Touched
  <1>5. Touched(a, c, t, q, m)
    <2>1. CASE ~Late(a, c, t)
      BY <1>4, <2>1 DEF Late, RolledOver
    <2>2. CASE Late(a, c, t)
      <3>1. m = Finalize(a, q, c, c.start) /\ c.start \in Nat /\ c.start \in Aims(a, c, t)
        BY <1>2, <1>3, <2>2 DEF Late, RolledOver
      <3> HIDE DEF c, q, m
      <3>2. /\ Finalize(a, q, c, c.start)[SlotOf(a, c.start)]
                 = [ts |-> c.start, val |-> RowOf(a, c.val, c.count)]
            /\ \A s \in Slots(a) : s # SlotOf(a, c.start) => Finalize(a, q, c, c.start)[s] = q[s]
        BY <1>1, <3>1, FinalRow
      <3>3. /\ m[SlotOf(a, c.start)].ts = c.start
            /\ \A s \in Slots(a) : s # SlotOf(a, c.start) => m[s] = q[s]
        BY <3>1, <3>2
      <3> QED  BY <1>4, <3>1, <3>3, TouchMore
    <2> QED  BY <2>1, <2>2
  <1>6. pa.start \in {c.start, W}
    <2>1. CASE ph \in Lates \cup {"resetVal"}
      <3>1. pa = c
        BY <2>1 DEF PartAcc, Lates, Closing
      <3> QED  BY <3>1
    <2>2. CASE ph = "resetCount"
      <3>1. pa = [c EXCEPT !.val = FreshAcc(a, 0).val]
        BY <2>2 DEF PartAcc, Lates, Closing
      <3> HIDE DEF c, pa
      <3> QED  BY <1>1, <3>1 DEF AccShape
    <2>3. CASE ph = "resetStart"
      BY <2>3 DEF PartAcc, Lates, Closing
    <2>4. CASE ph = "addVal"
      BY <1>1, <2>4, Parts
    <2>5. CASE ph = "addCount"
      <3>1. pa = [b EXCEPT !.val = d.val]
        BY <2>5 DEF PartAcc, Lates, Closing
      <3> HIDE DEF b, d, pa
      <3> QED  BY <1>1, <3>1 DEF AccShape
    <2>6. CASE ph \in Closing
      BY <1>1, <2>6, Parts
    <2> QED  BY <2>1, <2>2, <2>3, <2>4, <2>5, <2>6 DEF Writes, Resets
  <1>7. Touched(a, c, t, q, pr)
    <2>1. CASE ph = "lateTs"
      BY <1>4, <2>1, Parts
    <2>2. CASE ph = "lateVal"
      <3>1. c.start \in Nat /\ c.start \in Aims(a, c, t)
        BY <1>2, <1>3, <2>2 DEF Reached, Lates
      <3>2. pr = [q EXCEPT ![SlotOf(a, c.start)].ts = c.start]
        BY <2>2 DEF PartRows, Resets
      <3> HIDE DEF c, q, pr
      <3>3. /\ pr[SlotOf(a, c.start)].ts = c.start
            /\ \A s \in Slots(a) : s # SlotOf(a, c.start) => pr[s] = q[s]
        BY <1>1, <3>1, <3>2, TsPut
      <3> QED  BY <1>4, <3>1, <3>3, TouchMore
    <2>3. CASE ph \in Resets \cup {"addVal", "addCount", "rowTs"}
      <3>1. pr = m
        BY <2>3 DEF PartRows, Resets
      <3> HIDE DEF c, q, m, pr
      <3> QED  BY <1>5, <3>1
    <2>4. CASE ph = "rowVal"
      <3>1. pr = [m EXCEPT ![SlotOf(a, W)].ts = W]
        BY <2>4 DEF PartRows, Resets
      <3> HIDE DEF c, q, m, W, pr
      <3>2. /\ pr[SlotOf(a, W)].ts = W
            /\ \A s \in Slots(a) : s # SlotOf(a, W) => pr[s] = m[s]
        BY <1>1, <3>1, TsPut
      <3> QED  BY <1>2, <1>5, <3>2, TouchMore
    <2>5. CASE ph = "clearStart"
      <3>1. pr = Finalize(a, m, d, W)
        BY <2>5 DEF PartRows, Resets
      <3> HIDE DEF c, q, m, d, W, pr
      <3>2. /\ pr[SlotOf(a, W)].ts = W
            /\ \A s \in Slots(a) : s # SlotOf(a, W) => pr[s] = m[s]
        <4>1. /\ Finalize(a, m, d, W)[SlotOf(a, W)]
                   = [ts |-> W, val |-> RowOf(a, d.val, d.count)]
              /\ \A s \in Slots(a) : s # SlotOf(a, W) => Finalize(a, m, d, W)[s] = m[s]
          BY <1>1, FinalRow
        <4> QED  BY <3>1, <4>1
      <3> QED  BY <1>2, <1>5, <3>2, TouchMore
    <2> QED  BY <2>1, <2>2, <2>3, <2>4, <2>5 DEF Writes, Lates, Closing
  <1>8. pa.start \in Aims(a, c, t) \cup {Empty}
    BY <1>2, <1>6
  <1> QED  BY <1>7, <1>8

(* Whenever a kill comes, it finds each archive touched only where the call *)
(* was aiming.                                                             *)
LEMMA AnyTime ==
  ASSUME StepInv, rec # Idle, NEW a \in Archives
  PROVE  /\ acc[a].start \in Aims(a, before.acc[a], rec.t) \cup {Empty}
         /\ Touched(a, before.acc[a], rec.t, before.row[a], row[a])
  <1>1. Shape(before) /\ rec.t \in Times
    BY CallFacts
  <1>2. CASE Finished(a)
    BY <1>1, <1>2, DoneTouches DEF Finished
  <1>3. CASE Untouched(a)
    BY <1>3 DEF Untouched, Touched, Aims
  <1>4. CASE /\ rec.ph \in Writes /\ Reached(before, a, rec.t, rec.ph)
             /\ acc[a] = PartAcc(before, a, rec.t, rec.v, rec.ph)
             /\ row[a] = PartRows(before, a, rec.t, rec.v, rec.ph)
    BY <1>1, <1>4, PartTouches
  <1> QED  BY <1>2, <1>3, <1>4, UnderWay

-----------------------------------------------------------------------------
(* Each step keeps what was salvaged *)

LEMMA InitSalvage ==
  StepInit => SalvageInv
  <1> SUFFICES ASSUME StepInit PROVE SalvageInv
    OBVIOUS
  <1> USE DEF StepInit, Init
  <1>1. /\ before.lastUpdate = 0 /\ newest = 0 /\ rec = Idle
        /\ \A a \in Archives : before.acc[a] = [start |-> Empty, val |-> 0, count |-> 0]
        /\ \A a \in Archives : \A s \in Slots(a) : before.row[a][s].ts = 0
    BY DEF File
  <1>2. UpTo(accepted, 0)
    BY DEF UpTo, History
  <1>3. ASSUME NEW a \in Archives
        PROVE  Salvaged(accepted, hit[a], a, before.acc[a], before.row[a], 0, 0)
    <2>1. AccPlaced(a, before.acc[a], 0, 0) /\ AccTrue(accepted, hit[a], a, before.acc[a], 0)
          /\ AccThere(hit[a], a, before.acc[a], 0)
      BY <1>1 DEF AccPlaced, AccTrue, AccThere
    <2>2. RowPlaced(a, before.row[a], 0) /\ RowTrue(accepted, hit[a], a, before.row[a], 0)
      BY <1>1 DEF RowPlaced, RowTrue
    <2>3. RingFull(accepted, hit[a], a, before.row[a], 0, 0)
      BY DEF RingFull, Closed, InWindow
    <2> QED  BY <2>1, <2>2, <2>3 DEF Salvaged
  <1> QED  BY <1>1, <1>2, <1>3 DEF SalvageInv

LEMMA BeginSalvage ==
  ASSUME SalvageInv, NEW t \in Times, NEW v \in Values \cup {NaN}, Begin(t, v)
  PROVE  SalvageInv'
  <1>1. /\ UNCHANGED <<accepted, hit, before>> /\ rec'.t = t
        /\ newest' = IF t > newest THEN t ELSE newest
    BY DEF Begin
  <1>2. t \in Nat /\ newest \in Nat /\ before.lastUpdate \in Nat
    BY TimesNat DEF SalvageInv, UpTo
  <1>3. newest' \in Nat /\ newest <= newest' /\ t <= newest'
    BY <1>1, <1>2
  <1>4. PICK n \in Nat : n = newest'
    BY <1>3
  <1> DEFINE L == before.lastUpdate
  <1>5. ASSUME NEW a \in Archives, NEW c, NEW r, NEW h, NEW X, Salvaged(h, X, a, c, r, L, newest)
        PROVE  Salvaged(h, X, a, c, r, L, n)
    <2>1. AccPlaced(a, c, L, n)
      BY <1>2, <1>3, <1>4, <1>5 DEF Salvaged, AccPlaced
    <2>2. RowPlaced(a, r, n)
      BY <1>2, <1>3, <1>4, <1>5 DEF Salvaged, RowPlaced
    <2>3. Window(a, newest) <= Window(a, n) /\ Window(a, newest) \in Nat /\ Window(a, n) \in Nat
      BY <1>2, <1>3, <1>4, WindowMonotone, WindowBounds
    <2>4. Ring(a) \in Nat
      <3>1. Rras[a].rows \in Nat /\ Rras[a].steps \in Nat
        BY ArchiveType
      <3> QED  BY <3>1 DEF Ring
    <2>5. \A u \in Times : Window(a, u) > Window(a, n) - Ring(a)
                            => Window(a, u) > Window(a, newest) - Ring(a)
      <3> SUFFICES ASSUME NEW u \in Times, Window(a, u) > Window(a, n) - Ring(a)
                   PROVE  Window(a, u) > Window(a, newest) - Ring(a)
        OBVIOUS
      <3>1. Window(a, u) \in Nat
        BY WindowPositive
      <3> QED  BY <2>3, <2>4, <3>1
    <2>6. RingFull(h, X, a, r, L, n)
      BY <1>5, <2>5 DEF Salvaged, RingFull
    <2> QED  BY <1>5, <2>1, <2>2, <2>6 DEF Salvaged
  <1>6. \A a \in Archives : Salvaged(accepted, hit[a], a, before.acc[a], before.row[a], L, n)
    BY <1>5 DEF SalvageInv
  <1>7. \A a \in Archives :
          Salvaged(accepted', hit'[a], a, before'.acc[a], before'.row[a], before'.lastUpdate, newest')
    BY <1>1, <1>4, <1>6
  <1>8. /\ UpTo(accepted', before'.lastUpdate)
        /\ newest' \in Nat /\ before'.lastUpdate <= newest' /\ rec'.t <= newest'
    BY <1>1, <1>2, <1>3 DEF SalvageInv
  <1> QED  BY <1>7, <1>8 DEF SalvageInv

LEMMA CommitSalvage ==
  ASSUME StepInv, SalvageInv, Commit
  PROVE  SalvageInv'
  <1>1. rec.ph = "commit" /\ rec # Idle /\ rec' = Idle /\ UNCHANGED <<hit, newest>>
    BY DEF Commit, Idle
  <1>2. /\ rec.t \in Times /\ rec.v \in Values \cup {NaN}
        /\ before.lastUpdate = 0 \/ rec.t > before.lastUpdate
        /\ before' = [lastUpdate |-> rec.t,
                      acc |-> [a \in Archives |-> AccDone(before, a, rec.t, rec.v)],
                      row |-> [a \in Archives |-> RowsDone(before, a, rec.t, rec.v)]]
        /\ accepted' = [accepted EXCEPT ![rec.t] = rec.v]
    BY CommitFacts
  <1>3. PICK t \in Times, v \in Values \cup {NaN} : t = rec.t /\ v = rec.v
    BY <1>2
  <1> DEFINE L == before.lastUpdate
             h == accepted
             h2 == [accepted EXCEPT ![t] = v]
  <1>4. /\ UpTo(h, L) /\ newest \in Nat /\ t <= newest /\ t \in Nat \ {0} /\ L \in Nat /\ L < t
        /\ Shape(before)
    BY <1>1, <1>2, <1>3, TimesNat DEF SalvageInv, UpTo, StepInv
  <1>5. Told(h, h2, t, v) /\ v # Absent /\ h \in History
    BY <1>4, ValuesAssumption DEF Told, UpTo, History
  <1>6. UpTo(h2, t)
    <2>1. \A u \in Times : h2[u] # Absent => u <= t
      <3> SUFFICES ASSUME NEW u \in Times, h2[u] # Absent PROVE u <= t
        OBVIOUS
      <3>1. u = t \/ h[u] # Absent
        BY <1>5 DEF Told
      <3>2. u \in Nat
        BY TimesNat
      <3> QED  BY <1>4, <3>1, <3>2 DEF UpTo
    <2> QED  BY <1>4, <1>5, <2>1 DEF UpTo, Told
  <1> HIDE DEF h2
  <1>7. ASSUME NEW a \in Archives
        PROVE  Salvaged(h2, hit[a], a, AccDone(before, a, t, v), RowsDone(before, a, t, v), t, newest)
    <2>1. Salvaged(h, hit[a], a, before.acc[a], before.row[a], L, newest)
      BY DEF SalvageInv
    <2> HIDE DEF h, L
    <2>2. L = before.lastUpdate
      BY DEF L
    <2> QED  BY <1>4, <1>5, <2>1, <2>2, CommitSalvages
  <1>8. /\ before'.lastUpdate = t /\ accepted' = h2
        /\ \A a \in Archives : /\ before'.acc[a] = AccDone(before, a, t, v)
                               /\ before'.row[a] = RowsDone(before, a, t, v)
    BY <1>2, <1>3 DEF h2
  <1>9. \A a \in Archives :
          Salvaged(accepted', hit'[a], a, before'.acc[a], before'.row[a], before'.lastUpdate, newest')
    BY <1>1, <1>7, <1>8
  <1>10. /\ UpTo(accepted', before'.lastUpdate)
         /\ newest' \in Nat /\ before'.lastUpdate <= newest'
    BY <1>1, <1>4, <1>6, <1>8
  <1> QED  BY <1>1, <1>9, <1>10 DEF SalvageInv

LEMMA KillSalvage ==
  ASSUME StepInv, SalvageInv, Kill
  PROVE  SalvageInv'
  <1>1. /\ rec # Idle /\ rec' = Idle /\ UNCHANGED <<lastUpdate, acc, row, accepted, newest>>
        /\ before' = File'
        /\ hit' = [a \in Archives |-> hit[a] \cup Aims(a, before.acc[a], rec.t)]
    BY DEF Kill, file, Aims
  <1>2. PICK t \in Times : t = rec.t
    BY <1>1, CallFacts
  <1> DEFINE L == before.lastUpdate
             h == accepted
  <1>3. /\ UpTo(h, L) /\ newest \in Nat /\ L <= newest /\ t <= newest /\ t \in Nat \ {0}
        /\ L \in Nat /\ L = lastUpdate /\ (lastUpdate = 0 \/ t > lastUpdate)
    BY <1>1, <1>2, TimesNat DEF SalvageInv, UpTo, StepInv, Progress
  <1>4. L < t
    BY <1>3
  <1>5. ASSUME NEW a \in Archives
        PROVE  Salvaged(h, hit[a] \cup Aims(a, before.acc[a], t), a, acc[a], row[a], L, newest)
    <2>1. Salvaged(h, hit[a], a, before.acc[a], before.row[a], L, newest)
      BY DEF SalvageInv
    <2>2. /\ acc[a].start \in Aims(a, before.acc[a], t) \cup {Empty}
          /\ Touched(a, before.acc[a], t, before.row[a], row[a])
      BY <1>1, <1>2, AnyTime
    <2> HIDE DEF h, L
    <2> QED  BY <1>3, <1>4, <2>1, <2>2, KillSalvages
  <1>6. /\ before'.lastUpdate = L /\ accepted' = h /\ newest' = newest
        /\ \A a \in Archives : /\ before'.acc[a] = acc[a] /\ before'.row[a] = row[a]
                               /\ hit'[a] = hit[a] \cup Aims(a, before.acc[a], t)
    BY <1>1, <1>2, <1>3 DEF File
  <1>7. \A a \in Archives :
          Salvaged(accepted', hit'[a], a, before'.acc[a], before'.row[a], before'.lastUpdate, newest')
    BY <1>5, <1>6
  <1> QED  BY <1>1, <1>3, <1>6, <1>7 DEF SalvageInv

LEMMA SalvageKept ==
  ASSUME StepInv, SalvageInv, [StepNext]_svars
  PROVE  SalvageInv'
  <1>1. ASSUME UNCHANGED <<accepted, hit, before, newest>>, rec' # Idle => rec # Idle /\ rec'.t = rec.t
        PROVE  SalvageInv'
    BY <1>1 DEF SalvageInv
  <1>2. CASE Write
    <2>1. UNCHANGED <<accepted, hit, before, newest>>
      BY <1>2 DEF Write
    <2>2. rec # Idle
      BY <1>2 DEF Write, LateTs, LateVal, ResetVal, ResetCount, ResetStart, AddVal, AddCount,
                  RowTs, RowVals, ClearStart, Idle
    <2>3. rec = [ph |-> rec.ph, a |-> rec.a, t |-> rec.t, v |-> rec.v]
      BY <2>2, CallFacts
    <2>4. \/ \E ph : rec' = [rec EXCEPT !.ph = ph]
          \/ \E k, ph : rec' = [rec EXCEPT !.a = k, !.ph = ph]
      BY <1>2 DEF Write, LateTs, LateVal, ResetVal, ResetCount, ResetStart, AddVal, AddCount,
                  RowTs, RowVals, ClearStart, WriteRowTs, WriteRowVal, Goto, NextArchive
    <2>5. ASSUME NEW ph, rec' = [rec EXCEPT !.ph = ph] PROVE rec'.t = rec.t
      BY <2>3, <2>5
    <2>6. ASSUME NEW k, NEW ph, rec' = [rec EXCEPT !.a = k, !.ph = ph] PROVE rec'.t = rec.t
      BY <2>3, <2>6
    <2>7. rec'.t = rec.t
      BY <2>4, <2>5, <2>6, Zenon
    <2> QED  BY <1>1, <2>1, <2>2, <2>7, Zenon
  <1>3. ASSUME NEW t \in Times, Ignore(t) PROVE SalvageInv'
    BY <1>1, <1>3 DEF Ignore, Skip, vars
  <1>4. CASE UNCHANGED svars
    BY <1>1, <1>4 DEF svars
  <1> QED  BY <1>2, <1>3, <1>4, BeginSalvage, CommitSalvage, KillSalvage DEF StepNext
-----------------------------------------------------------------------------
(* Torn rows *)

(* No row of archive a is torn. *)
Whole(a) == \A s \in Slots(a) : ~Torn(a, s)

RowsSlotted ==
  \A a \in Archives : \A s \in Slots(a) :
    row[a][s].ts \in Nat /\ (row[a][s].ts # 0 => SlotOf(a, row[a][s].ts) = s)

WriterShape == writer = [a \in Archives |-> [s \in Slots(a) |-> writer[a][s]]]

(* The accumulator moves on only when no row is torn. *)
PhaseWhole == rec.ph \in Resets \cup {"clearStart"} => Whole(rec.a)

TornInv == WriterShape /\ RowsSlotted /\ TornRowHeals /\ PhaseWhole

LEMMA FreshWhole ==
  ASSUME TornInv, NEW a \in Archives, acc[a].start = Empty
  PROVE  Whole(a)
  BY ValuesAssumption DEF TornInv, RowsSlotted, TornRowHeals, Whole, Torn

LEMMA AccStored ==
  ASSUME StepInv, TornInv, NEW A \in Archives, NEW c, acc' = [acc EXCEPT ![A] = c],
         UNCHANGED <<row, writer>>, c.start = acc[A].start \/ Whole(A)
  PROVE  /\ WriterShape' /\ RowsSlotted' /\ TornRowHeals'
         /\ \A a \in Archives : Whole(a) => Whole(a)'
  <1>1. \A a \in Archives : \A s \in Slots(a) : Torn(a, s)' <=> Torn(a, s)
    BY DEF Torn
  <1>2. acc = [a \in Archives |-> acc[a]]
    BY DEF StepInv
  <1>3. TornRowHeals'
    <2> SUFFICES ASSUME NEW a \in Archives, NEW s \in Slots(a), Torn(a, s)
                 PROVE  acc'[a].start = row[a][s].ts
      BY <1>1 DEF TornRowHeals, Slots
    <2>1. acc[a].start = row[a][s].ts
      BY DEF TornInv, TornRowHeals
    <2>2. CASE a # A
      BY <1>2, <2>1, <2>2
    <2>3. CASE a = A
      <3>1. c.start = acc[A].start
        BY <2>3 DEF Whole
      <3> QED  BY <1>2, <2>1, <2>3, <3>1
    <2> QED  BY <2>2, <2>3
  <1>4. RowsSlotted' /\ WriterShape'
    BY DEF TornInv, RowsSlotted, WriterShape, Slots, SlotOf
  <1>5. \A a \in Archives : Whole(a) => Whole(a)'
    BY <1>1 DEF Whole, Slots
  <1> QED  BY <1>3, <1>4, <1>5

LEMMA TsStored ==
  ASSUME StepInv, TornInv, NEW A \in Archives, NEW w \in Nat, acc[A].start = w,
         row' = [row EXCEPT ![A][SlotOf(A, w)].ts = w], UNCHANGED <<acc, writer>>
  PROVE  WriterShape' /\ RowsSlotted' /\ TornRowHeals'
  <1> DEFINE u == SlotOf(A, w)
  <1>1. RowShape(A, row[A]) /\ DOMAIN row = Archives
    BY ShapeNow DEF Shape, File
  <1>2. /\ \A a \in Archives : a # A => row'[a] = row[a]
        /\ row'[A] = [row[A] EXCEPT ![u].ts = w]
    BY <1>1
  <1>3. row'[A][u].ts = w /\ \A s \in Slots(A) : s # u => row'[A][s] = row[A][s]
    BY <1>1, <1>2, TsPut
  <1>4. u \in Slots(A)
    BY SlotType
  <1>5. WriterShape'
    BY DEF TornInv, WriterShape, Slots
  <1> HIDE DEF u
  <1>6. \A a \in Archives : \A s \in Slots(a) : row'[a][s] = row[a][s] \/ (a = A /\ s = u)
    BY <1>2, <1>3
  <1>7. RowsSlotted'
    <2> SUFFICES ASSUME NEW a \in Archives, NEW s \in Slots(a)
                 PROVE  row'[a][s].ts \in Nat /\ (row'[a][s].ts # 0 => SlotOf(a, row'[a][s].ts) = s)
      BY DEF RowsSlotted, Slots, SlotOf
    <2>1. CASE row'[a][s] = row[a][s]
      BY <2>1 DEF TornInv, RowsSlotted
    <2>2. CASE a = A /\ s = u
      BY <1>3, <2>2 DEF u
    <2> QED  BY <1>6, <2>1, <2>2
  <1>8. TornRowHeals'
    <2> SUFFICES ASSUME NEW a \in Archives, NEW s \in Slots(a),
                        row'[a][s].ts # 0, writer[a][s] # row'[a][s].ts
                 PROVE  acc[a].start = row'[a][s].ts
      BY DEF TornRowHeals, Torn, Slots
    <2>1. CASE row'[a][s] = row[a][s]
      BY <2>1 DEF TornInv, TornRowHeals, Torn
    <2>2. CASE a = A /\ s = u
      BY <1>3, <2>2
    <2> QED  BY <1>6, <2>1, <2>2
  <1> QED  BY <1>5, <1>7, <1>8

LEMMA ValStored ==
  ASSUME StepInv, TornInv, NEW A \in Archives, NEW w \in Nat, acc[A].start = w,
         row[A][SlotOf(A, w)].ts = w, NEW x,
         row' = [row EXCEPT ![A][SlotOf(A, w)].val = x],
         writer' = [writer EXCEPT ![A][SlotOf(A, w)] = w], acc' = acc
  PROVE  WriterShape' /\ RowsSlotted' /\ TornRowHeals' /\ Whole(A)'
  <1> DEFINE u == SlotOf(A, w)
  <1>1. RowShape(A, row[A]) /\ DOMAIN row = Archives
    BY ShapeNow DEF Shape, File
  <1>2. u \in Slots(A) /\ writer = [a \in Archives |-> [s \in Slots(a) |-> writer[a][s]]]
    BY SlotType DEF TornInv, WriterShape
  <1>3. /\ \A a \in Archives : a # A => row'[a] = row[a] /\ writer'[a] = writer[a]
        /\ row'[A] = [row[A] EXCEPT ![u].val = x]
        /\ writer'[A] = [writer[A] EXCEPT ![u] = w]
    BY <1>1, <1>2
  <1> HIDE DEF u
  <1>4. \A s \in Slots(A) : row'[A][s].ts = row[A][s].ts
    <2>1. row[A] = [s \in Slots(A) |-> [ts |-> row[A][s].ts, val |-> row[A][s].val]]
      BY <1>1 DEF RowShape
    <2> QED  BY <1>2, <1>3, <2>1
  <1>5. \A a \in Archives : \A s \in Slots(a) : row'[a][s].ts = row[a][s].ts
    BY <1>3, <1>4
  <1>6. writer'[A][u] = w /\ \A s \in Slots(A) : s # u => writer'[A][s] = writer[A][s]
    <2>1. DOMAIN writer[A] = Slots(A)
      BY <1>2
    <2> QED  BY <1>2, <1>3, <2>1
  <1>7. WriterShape'
    <2>1. writer' = [a \in Archives |-> writer'[a]]
      BY <1>2
    <2>2. writer'[A] = [s \in Slots(A) |-> writer'[A][s]]
      <3>1. writer[A] = [s \in Slots(A) |-> writer[A][s]]
        BY <1>2
      <3> QED  BY <1>2, <1>3, <3>1
    <2>3. \A a \in Archives : writer'[a] = [s \in Slots(a) |-> writer'[a][s]]
      <3> SUFFICES ASSUME NEW a \in Archives, a # A
                   PROVE  writer'[a] = [s \in Slots(a) |-> writer'[a][s]]
        BY <2>2
      <3>1. writer'[a] = writer[a]
        BY <1>3
      <3>2. writer[a] = [s \in Slots(a) |-> writer[a][s]]
        BY <1>2
      <3> QED  BY <3>1, <3>2
    <2> QED  BY <2>1, <2>3 DEF WriterShape, Slots
  <1>8. RowsSlotted'
    <2> SUFFICES ASSUME NEW a \in Archives, NEW s \in Slots(a)
                 PROVE  row'[a][s].ts \in Nat /\ (row'[a][s].ts # 0 => SlotOf(a, row'[a][s].ts) = s)
      BY DEF RowsSlotted, Slots, SlotOf
    <2>1. row'[a][s].ts = row[a][s].ts
      BY <1>5
    <2> QED  BY <2>1 DEF TornInv, RowsSlotted
  (* A torn row is in the slot of the window in progress, which is u. *)
  <1>9. \A s \in Slots(A) : s # u => ~Torn(A, s)
    BY DEF TornInv, RowsSlotted, TornRowHeals, Torn, u
  <1>10. \A s \in Slots(A) : row'[A][s].ts = 0 \/ writer'[A][s] = row'[A][s].ts
    BY <1>4, <1>6, <1>9 DEF Torn, u
  <1>11. Whole(A)'
    BY <1>10 DEF Whole, Torn, Slots
  <1>12. TornRowHeals'
    <2> SUFFICES ASSUME NEW a \in Archives, NEW s \in Slots(a),
                        row'[a][s].ts # 0, writer'[a][s] # row'[a][s].ts
                 PROVE  acc[a].start = row'[a][s].ts
      BY DEF TornRowHeals, Torn, Slots
    <2>1. a # A
      BY <1>10
    <2> QED  BY <1>3, <2>1 DEF TornInv, TornRowHeals, Torn
  <1> QED  BY <1>7, <1>8, <1>11, <1>12

(* What opens the work on an archive finds no row torn if it resets. *)
LEMMA FirstWhole ==
  ASSUME TornInv, NEW a \in Archives, NEW t \in Times,
         FirstWrite(a, t) \in Resets \cup {"clearStart"}
  PROVE  Whole(a)
  <1>1. acc[a].start = Empty
    BY DEF FirstWrite, Resets
  <1> QED  BY <1>1, FreshWhole
LEMMA PhaseKept ==
  ASSUME NEW k, NEW q, rec'.ph = q, rec'.a = k, q \in Resets \cup {"clearStart"} => Whole(k)'
  PROVE  PhaseWhole'
  BY DEF PhaseWhole, Whole, Torn, Slots

LEMMA NoPhase ==
  ASSUME rec'.ph \notin Resets \cup {"clearStart"}
  PROVE  PhaseWhole'
  BY DEF PhaseWhole, Resets

(* Going on to the next archive. *)
LEMMA NextWhole ==
  ASSUME StepInv, TornInv, rec # Idle, NextArchive, \A a \in Archives : Whole(a) => Whole(a)'
  PROVE  PhaseWhole'
  <1>1. /\ rec.a \in Archives /\ rec.t \in Times
        /\ rec = [ph |-> rec.ph, a |-> rec.a, t |-> rec.t, v |-> rec.v]
    BY CallFacts
  <1>2. CASE rec.a = Len(Rras)
    <2>1. rec' = [rec EXCEPT !.ph = "commit"]
      BY <1>2 DEF NextArchive
    <2>2. rec'.ph = "commit"
      BY <1>1, <2>1
    <2>3. rec'.ph \notin Resets \cup {"clearStart"}
      BY <2>2 DEF Resets
    <2> QED  BY <2>3, NoPhase
  <1>3. CASE rec.a # Len(Rras)
    <2>1. Archives = 1..Len(Rras) /\ Len(Rras) \in Nat
      BY RrasAssumption DEF Archives
    <2>2. PICK k \in Archives : k = rec.a + 1
      BY <1>1, <1>3, <2>1
    <2>3. rec' = [rec EXCEPT !.a = k, !.ph = FirstWrite(k, rec.t)]
      BY <1>3, <2>2 DEF NextArchive
    <2> DEFINE q == FirstWrite(k, rec.t)
    <2>4. q \in Resets \cup {"clearStart"} => Whole(k)
      BY <1>1, FirstWhole
    <2>5. Whole(k) => Whole(k)'
      OBVIOUS
    <2> HIDE DEF q
    <2>6. rec'.ph = q /\ rec'.a = k
      BY <1>1, <2>3 DEF q
    <2> QED  BY <2>4, <2>5, <2>6, PhaseKept
  <1> QED  BY <1>2, <1>3

(* Going on with the same archive. *)
LEMMA SameWhole ==
  ASSUME NEW A, NEW q, rec = [ph |-> rec.ph, a |-> A, t |-> rec.t, v |-> rec.v],
         rec' = [rec EXCEPT !.ph = q], q \in Resets \cup {"clearStart"} => Whole(A)'
  PROVE  PhaseWhole'
  <1>1. rec'.ph = q /\ rec'.a = A
    OBVIOUS
  <1> QED  BY <1>1, PhaseKept

(* The rows half way through a row's two stores. *)
LEMMA HalfRows ==
  ASSUME NEW f, NEW a, NEW t, NEW v
  PROVE  /\ PartRows(f, a, t, v, "lateVal") = PutTs(a, f.row[a], f.acc[a].start)
         /\ PartRows(f, a, t, v, "rowVal") = PutTs(a, RolledOver(f, a, t), Window(a, t))
  BY DEF PartRows, PutTs, Resets

LEMMA PutThere ==
  ASSUME NEW a \in Archives, NEW r, RowShape(a, r), NEW w \in Nat
  PROVE  PutTs(a, r, w)[SlotOf(a, w)].ts = w
  BY TsPut DEF PutTs

LEMMA HalfAcc ==
  ASSUME NEW f, NEW a, NEW t, NEW v, NEW p
  PROVE  /\ p \in Lates => PartAcc(f, a, t, v, p) = f.acc[a]
         /\ p \in Closing => PartAcc(f, a, t, v, p) = Added(f, a, t, v)
  <1>1. p \in Lates => p \in Lates \cup {"resetVal"}
    OBVIOUS
  <1>2. /\ \A ph \in Lates \cup {"resetVal"} : PartAcc(f, a, t, v, ph) = f.acc[a]
        /\ \A ph \in Closing : PartAcc(f, a, t, v, ph) = Added(f, a, t, v)
    BY Parts, SMT
  <1> QED  BY <1>1, <1>2

(* The window in progress where a row is written. *)
LEMMA RowStart ==
  ASSUME StepInv, NEW p \in Lates \cup {"rowTs", "rowVal"}, rec.ph = p
  PROVE  /\ acc[rec.a].start \in Nat
         /\ p \in {"rowTs", "rowVal"} => acc[rec.a].start = Window(rec.a, rec.t)
         /\ p \in {"lateVal", "rowVal"} =>
              row[rec.a][SlotOf(rec.a, acc[rec.a].start)].ts = acc[rec.a].start
  <1> DEFINE a == rec.a
             t == rec.t
             v == rec.v
             f == before
             w == acc[a].start
  <1>1. p \in Writes
    BY DEF Writes, Closing
  <1>2. /\ Shape(f) /\ a \in Archives /\ t \in Times
        /\ acc[a] = PartAcc(f, a, t, v, p) /\ row[a] = PartRows(f, a, t, v, p)
        /\ Reached(f, a, t, p)
    BY <1>1, Working
  <1>3. /\ Window(a, t) \in Nat /\ Added(f, a, t, v).start = Window(a, t)
        /\ RowShape(a, RolledOver(f, a, t))
    BY <1>2, RolledShape, SlotsOfArchive
  <1>4. RowShape(a, f.row[a]) /\ AccShape(f.acc[a])
    BY <1>2 DEF Shape
  <1>5. /\ p \in Lates => PartAcc(f, a, t, v, p) = f.acc[a]
        /\ p \in Closing => PartAcc(f, a, t, v, p) = Added(f, a, t, v)
    BY HalfAcc
  <1>6. CASE p \in Lates
    <2>1. f.acc[a].start # Empty
      BY <1>2, <1>6 DEF Reached
    <2>2. acc[a] = f.acc[a]
      BY <1>2, <1>5, <1>6
    <2>3. w \in Nat
      BY <1>4, <2>1, <2>2 DEF AccShape
    <2>4. p = "lateVal" => row[a] = PutTs(a, f.row[a], w)
      BY <1>2, <2>2, HalfRows
    <2>5. p = "lateVal" => row[a][SlotOf(a, w)].ts = w
      <3>1. PutTs(a, f.row[a], w)[SlotOf(a, w)].ts = w
        BY <1>2, <1>4, <2>3, PutThere
      <3> QED  BY <2>4, <3>1
    <2>6. p \notin {"rowTs", "rowVal"}
      BY <1>6 DEF Lates
    <2> QED  BY <2>3, <2>5, <2>6
  <1>7. CASE p \in {"rowTs", "rowVal"}
    <2>1. p \in Closing
      BY <1>7 DEF Closing
    <2>2. w = Window(a, t)
      BY <1>2, <1>3, <1>5, <2>1
    <2>3. p = "rowVal" => row[a] = PutTs(a, RolledOver(f, a, t), w)
      BY <1>2, <2>2, HalfRows
    <2>4. p = "rowVal" => row[a][SlotOf(a, w)].ts = w
      <3>1. PutTs(a, RolledOver(f, a, t), w)[SlotOf(a, w)].ts = w
        BY <1>2, <1>3, <2>2, PutThere
      <3> QED  BY <2>3, <3>1
    <2> QED  BY <1>3, <1>7, <2>2, <2>4
  <1> QED  BY <1>6, <1>7

LEMMA TornWrite ==
  ASSUME StepInv, TornInv, Write
  PROVE  TornInv'
  <1>1. rec # Idle /\ rec.ph # "commit"
    BY DEF Write, LateTs, LateVal, ResetVal, ResetCount, ResetStart, AddVal, AddCount,
           RowTs, RowVals, ClearStart, Idle
  <1>2. PICK A \in Archives : A = rec.a
    BY <1>1, CallFacts
  <1>3. rec = [ph |-> rec.ph, a |-> A, t |-> rec.t, v |-> rec.v]
    BY <1>1, <1>2, CallFacts
  <1>4. acc[A] = [start |-> acc[A].start, val |-> acc[A].val, count |-> acc[A].count]
    <2>1. AccShape(acc[A])
      BY ShapeNow DEF Shape, File
    <2> QED  BY <2>1 DEF AccShape
  <1>5. CASE LateTs
    <2>1. /\ rec.ph = "lateTs" /\ rec' = [rec EXCEPT !.ph = "lateVal"] /\ UNCHANGED <<acc, writer>>
          /\ row' = [row EXCEPT ![A][SlotOf(A, acc[A].start)].ts = acc[A].start]
      BY <1>2, <1>5 DEF LateTs, WriteRowTs, Goto
    <2>2. acc[A].start \in Nat
      BY <1>2, <2>1, RowStart DEF Lates
    <2>3. WriterShape' /\ RowsSlotted' /\ TornRowHeals'
      BY <2>1, <2>2, TsStored
    <2>4. rec'.ph = "lateVal"
      BY <1>3, <2>1
    <2>5. PhaseWhole'
      BY <2>4, NoPhase DEF Resets
    <2> QED  BY <2>3, <2>5 DEF TornInv
  <1>6. CASE LateVal
    <2> DEFINE x == RowOf(A, acc[A].val, acc[A].count)
    <2>1. /\ rec.ph = "lateVal" /\ rec' = [rec EXCEPT !.ph = "resetVal"] /\ UNCHANGED acc
          /\ row' = [row EXCEPT ![A][SlotOf(A, acc[A].start)].val = x]
          /\ writer' = [writer EXCEPT ![A][SlotOf(A, acc[A].start)] = acc[A].start]
      BY <1>2, <1>6 DEF LateVal, WriteRowVal, Goto
    <2>2. acc[A].start \in Nat /\ row[A][SlotOf(A, acc[A].start)].ts = acc[A].start
      BY <1>2, <2>1, RowStart DEF Lates
    <2> HIDE DEF x
    <2>3. WriterShape' /\ RowsSlotted' /\ TornRowHeals' /\ Whole(A)'
      BY <2>1, <2>2, ValStored
    <2>4. PhaseWhole'
      BY <1>3, <2>1, <2>3, SameWhole
    <2> QED  BY <2>3, <2>4 DEF TornInv
  <1>7. ASSUME NEW c, acc' = [acc EXCEPT ![A] = c], UNCHANGED <<row, writer>>,
               c.start = acc[A].start \/ Whole(A), NEW q,
               rec' = [rec EXCEPT !.ph = q] \/ NextArchive,
               q \in Resets \cup {"clearStart"} => Whole(A)
        PROVE  TornInv'
    <2>1. /\ WriterShape' /\ RowsSlotted' /\ TornRowHeals'
          /\ \A a \in Archives : Whole(a) => Whole(a)'
      BY <1>7, AccStored
    <2>2. PhaseWhole'
      <3>1. CASE rec' = [rec EXCEPT !.ph = q]
        <4>1. q \in Resets \cup {"clearStart"} => Whole(A)'
          BY <1>7, <2>1
        <4> QED  BY <1>3, <3>1, <4>1, SameWhole
      <3>2. CASE NextArchive
        BY <1>1, <2>1, <3>2, NextWhole
      <3> QED  BY <1>7, <3>1, <3>2
    <2> QED  BY <2>1, <2>2 DEF TornInv
  <1>8. CASE ResetVal \/ ResetCount \/ ResetStart
    <2>1. Whole(A)
      BY <1>2, <1>8 DEF TornInv, PhaseWhole, ResetVal, ResetCount, ResetStart, Resets
    <2>2. \E c : acc' = [acc EXCEPT ![A] = c] /\ UNCHANGED <<row, writer>>
      BY <1>2, <1>8 DEF ResetVal, ResetCount, ResetStart, WriteAcc
    <2>3. \E q : rec' = [rec EXCEPT !.ph = q]
      BY <1>8 DEF ResetVal, ResetCount, ResetStart, Goto
    <2> QED  BY <1>7, <2>1, <2>2, <2>3
  <1>9. CASE AddVal
    <2>1. /\ acc' = [acc EXCEPT ![A] = [acc[A] EXCEPT !.val = Accumulate(A, acc[A], rec.v).val]]
          /\ UNCHANGED <<row, writer>> /\ rec' = [rec EXCEPT !.ph = "addCount"]
      BY <1>2, <1>9 DEF AddVal, WriteAcc, Goto
    <2> DEFINE c == [acc[A] EXCEPT !.val = Accumulate(A, acc[A], rec.v).val]
    <2>2. c.start = acc[A].start
      BY <1>4
    <2>3. "addCount" \notin Resets \cup {"clearStart"}
      BY DEF Resets
    <2> HIDE DEF c
    <2>4. acc' = [acc EXCEPT ![A] = c]
      BY <2>1 DEF c
    <2> QED  BY <1>7, <2>1, <2>2, <2>3, <2>4
  <1>10. CASE AddCount
    <2> DEFINE c == [acc[A] EXCEPT !.count = Accumulate(A, acc[A], rec.v).count]
    <2>1. /\ acc' = [acc EXCEPT ![A] = c] /\ UNCHANGED <<row, writer>>
          /\ rec' = [rec EXCEPT !.ph = "rowTs"] \/ NextArchive
      BY <1>2, <1>10 DEF AddCount, WriteAcc, Goto
    <2>2. c.start = acc[A].start
      BY <1>4
    <2>3. "rowTs" \notin Resets \cup {"clearStart"}
      BY DEF Resets
    <2> HIDE DEF c
    <2> QED  BY <1>7, <2>1, <2>2, <2>3
  <1>11. CASE RowTs
    <2>1. /\ rec.ph = "rowTs" /\ rec' = [rec EXCEPT !.ph = "rowVal"] /\ UNCHANGED <<acc, writer>>
          /\ row' = [row EXCEPT ![A][SlotOf(A, Window(A, rec.t))].ts = Window(A, rec.t)]
      BY <1>2, <1>11 DEF RowTs, WriteRowTs, Goto
    <2>2. acc[A].start \in Nat /\ acc[A].start = Window(A, rec.t)
      BY <1>2, <2>1, RowStart
    <2>3. WriterShape' /\ RowsSlotted' /\ TornRowHeals'
      BY <2>1, <2>2, TsStored
    <2>4. rec'.ph = "rowVal"
      BY <1>3, <2>1
    <2>5. PhaseWhole'
      BY <2>4, NoPhase DEF Resets
    <2> QED  BY <2>3, <2>5 DEF TornInv
  <1>12. CASE RowVals
    <2> DEFINE x == RowOf(A, acc[A].val, acc[A].count)
               w == Window(A, rec.t)
    <2>1. /\ rec.ph = "rowVal" /\ rec' = [rec EXCEPT !.ph = "clearStart"] /\ UNCHANGED acc
          /\ row' = [row EXCEPT ![A][SlotOf(A, w)].val = x]
          /\ writer' = [writer EXCEPT ![A][SlotOf(A, w)] = w]
      BY <1>2, <1>12 DEF RowVals, WriteRowVal, Goto
    <2>2. w \in Nat /\ acc[A].start = w /\ row[A][SlotOf(A, w)].ts = w
      BY <1>2, <2>1, RowStart
    <2> HIDE DEF x, w
    <2>3. WriterShape' /\ RowsSlotted' /\ TornRowHeals' /\ Whole(A)'
      BY <2>1, <2>2, ValStored
    <2>4. PhaseWhole'
      BY <1>3, <2>1, <2>3, SameWhole
    <2> QED  BY <2>3, <2>4 DEF TornInv
  <1>13. CASE ClearStart
    <2>1. Whole(A)
      BY <1>2, <1>13 DEF TornInv, PhaseWhole, ClearStart
    <2>2. \E c : acc' = [acc EXCEPT ![A] = c] /\ UNCHANGED <<row, writer>>
      BY <1>2, <1>13 DEF ClearStart, WriteAcc
    <2>3. NextArchive
      BY <1>13 DEF ClearStart
    <2> QED  BY <1>7, <2>1, <2>2, <2>3
  <1> QED  BY <1>5, <1>6, <1>8, <1>9, <1>10, <1>11, <1>12, <1>13 DEF Write

LEMMA InitTorn ==
  StepInit => TornInv
  BY DEF StepInit, Init, TornInv, PhaseWhole, WriterShape, RowsSlotted, TornRowHeals, Torn, Idle, Resets

LEMMA TornKept ==
  ASSUME StepInv, TornInv, [StepNext]_svars
  PROVE  TornInv'
  <1>1. ASSUME UNCHANGED <<acc, row, writer>>
        PROVE  /\ WriterShape' /\ RowsSlotted' /\ TornRowHeals'
               /\ \A a : Whole(a)' <=> Whole(a)
    BY <1>1 DEF TornInv, WriterShape, RowsSlotted, TornRowHeals, Whole, Torn, Slots, SlotOf
  <1>2. ASSUME UNCHANGED <<acc, row, writer>>, rec' = rec PROVE TornInv'
    <2>1. PhaseWhole'
      BY <1>2 DEF TornInv, PhaseWhole, Whole, Torn, Slots
    <2> QED  BY <1>1, <1>2, <2>1 DEF TornInv
  <1>3. ASSUME UNCHANGED <<acc, row, writer>>, rec' = Idle PROVE TornInv'
    <2>1. rec'.ph \notin Resets \cup {"clearStart"}
      BY <1>3 DEF Idle, Resets
    <2> QED  BY <1>1, <1>3, <2>1, NoPhase DEF TornInv
  <1>4. ASSUME NEW t \in Times, NEW v \in Values \cup {NaN}, Begin(t, v) PROVE TornInv'
    <2>1. UNCHANGED <<acc, row, writer>> /\ rec'.ph = FirstWrite(1, t) /\ rec'.a = 1
      BY <1>4 DEF Begin, file
    <2>2. 1 \in Archives
      BY RrasAssumption DEF Archives
    <2> DEFINE q == FirstWrite(1, t)
    <2>3. q \in Resets \cup {"clearStart"} => Whole(1)
      BY <2>2, FirstWhole
    <2>4. rec'.ph = q
      BY <2>1
    <2> HIDE DEF q
    <2>5. PhaseWhole'
      BY <1>1, <1>4, <2>1, <2>3, <2>4, PhaseKept
    <2> QED  BY <1>1, <2>1, <2>5 DEF TornInv
  <1>5. CASE Commit
    BY <1>3, <1>5 DEF Commit
  <1>6. CASE Kill
    BY <1>3, <1>6 DEF Kill, file
  <1>7. ASSUME NEW t \in Times, Ignore(t) PROVE TornInv'
    BY <1>2, <1>7 DEF Ignore, Skip, vars
  <1>8. CASE UNCHANGED svars
    BY <1>2, <1>8 DEF svars, file
  <1> QED  BY <1>4, <1>5, <1>6, <1>7, <1>8, TornWrite DEF StepNext

-----------------------------------------------------------------------------
(* What the next process finds *)

LEMMA SalvageSuffices ==
  ASSUME StepInv, SalvageInv, TornInv
  PROVE  KillSpoilsTwoWindows
  <1> SUFFICES ASSUME rec = Idle PROVE RowsUnspoilt /\ RingKept
    BY DEF KillSpoilsTwoWindows, TornInv
  <1>1. before.row = row /\ before.lastUpdate = lastUpdate
    BY DEF StepInv, Progress, File
  <1>2. \A a \in Archives : /\ RowPlaced(a, row[a], newest)
                            /\ RowTrue(accepted, hit[a], a, row[a], lastUpdate)
                            /\ RingFull(accepted, hit[a], a, row[a], lastUpdate, newest)
    BY <1>1 DEF SalvageInv, Salvaged
  <1>3. \A a, w : Closed(accepted, a, w, lastUpdate) <=> Settled(a, w)
    BY DEF Closed, Settled, HasRound
  <1>4. \A a, w : RefOf(accepted, a, w) = Reference(a, w)
    BY DEF Reference, RefOf, SumIn, SumOf, Sum, KnownIn, KnownOf, ValuesIn, ValuesOf
  <1>5. RowsUnspoilt
    <2> SUFFICES ASSUME NEW a \in Archives, NEW s \in Slots(a),
                        row[a][s].ts # 0, row[a][s].ts \notin hit[a]
                 PROVE  /\ SlotOf(a, row[a][s].ts) = s /\ Settled(a, row[a][s].ts)
                        /\ row[a][s].val = Reference(a, row[a][s].ts)
      BY DEF RowsUnspoilt
    <2>1. SlotOf(a, row[a][s].ts) = s
      BY <1>2 DEF RowPlaced
    <2>2. /\ Closed(accepted, a, row[a][s].ts, lastUpdate)
          /\ row[a][s].val = RefOf(accepted, a, row[a][s].ts)
      BY <1>2 DEF RowTrue
    <2> QED  BY <1>3, <1>4, <2>1, <2>2
  <1>6. RingKept
    BY <1>2, <1>3 DEF RingKept, RingFull, Ring
  <1> QED  BY <1>5, <1>6

(* A record that is killed between two of its stores spoils at most the     *)
(* window of its own round and the one in progress: every other row remains *)
(* the consolidation of its rounds, no other window leaves the ring, and a  *)
(* row that is torn is of the window in progress, so it will be written     *)
(* again.  It holds after any number of kills, whatever the archives.       *)
THEOREM KillsSpoilTwo == StepSpec => []KillSpoilsTwoWindows
  <1> DEFINE I == StepInv /\ SalvageInv /\ TornInv
  <1>1. StepInit => I
    BY InitSteps, InitSalvage, InitTorn
  <1>2. I /\ [StepNext]_svars => I'
    BY StepsKept, SalvageKept, TornKept
  <1>3. I => KillSpoilsTwoWindows
    BY SalvageSuffices
  <1> HIDE DEF I
  <1> QED  BY <1>1, <1>2, <1>3, PTL DEF StepSpec
=============================================================================
