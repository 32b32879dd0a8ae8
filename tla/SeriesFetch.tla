---------------------------- MODULE SeriesFetch ----------------------------
(***************************************************************************)
(* Reading a series back (TargetSeries::fetch, src/store/series.rs): which *)
(* archive serves a query, and what it returns, in every reachable state   *)
(* of Series; and the two views built on it, the top-N charts and the days  *)
(* of the status page.  A query's window is kept at the resolution of a     *)
(* step, as rounds are; all of this only reads, so it has no action.        *)
(***************************************************************************)
EXTENDS Series

CONSTANTS
  Budgets,         \* the max_points callers pass; 0 asks for no bound
  MaxFetchPoints,  \* MAX_FETCH_POINTS
  LookBack,        \* the steps top_targets looks back (5)
  Day,             \* a day, in steps
  DayPoints        \* the points uptime_days allows for a day (24)

ASSUME BudgetsAssumption == Budgets \subseteq Nat /\ MaxFetchPoints \in Nat \ {0}
(* MAX_FETCH_POINTS is a million. *)
ASSUME ViewsAssumption ==
  /\ LookBack \in Nat \ {0} /\ LookBack < MaxFetchPoints
  /\ Day \in Nat \ {0} /\ DayPoints \in Nat \ {0}

Query == [cf : Cfs, from : (MinTime - 1)..MaxTime, to : MinTime..(MaxTime + 1), max : Budgets]

(* The HTTP handler, the dump command and uptime_days all ask from < to. *)
Queries == {q \in Query : q.from < q.to}

-----------------------------------------------------------------------------
(* Choice of the archive *)

(* A raw archive serves every consolidation function. *)
Candidates(q) == {a \in Archives : Rras[a].cf = q.cf \/ Rras[a].steps = 1}

(* cands.sort_by_key(steps) is stable. *)
Finer(a, b) ==
  Rras[a].steps < Rras[b].steps \/ (Rras[a].steps = Rras[b].steps /\ a < b)
Finest(S)   == CHOOSE a \in S : \A b \in S \ {a} : Finer(a, b)
Coarsest(S) == CHOOSE a \in S : \A b \in S \ {a} : Finer(b, a)

Fits(q, a)   == q.max = 0 \/ (q.to - q.from) \div Rras[a].steps <= q.max
(* Mutant of Covers: a ring that has one row more. *)
CoversTooMuch(q, a) ==
  \/ lastUpdate = 0
  \/ Window(a, q.from) >= Window(a, lastUpdate) - Rras[a].rows * Rras[a].steps

Covers(q, a) ==
  \/ lastUpdate = 0
  \/ Window(a, q.from) >= Window(a, lastUpdate) - (Rras[a].rows - 1) * Rras[a].steps

Chosen(q) ==
  LET fit  == {a \in Candidates(q) : Fits(q, a)}
      best == {a \in fit : Covers(q, a)}
  IN  IF best # {} THEN Finest(best)
      ELSE IF fit # {} THEN Coarsest(fit) ELSE Coarsest(Candidates(q))

-----------------------------------------------------------------------------
(* The rows returned *)

CeilDiv(n, d) == (n + d - 1) \div d

(* Windows of archive a from the one of q.from to the one of q.to. *)
Count(q, a)  == (Window(a, q.to) - Window(a, q.from)) \div Rras[a].steps + 1
Stride(q, a) == IF q.max > 0 /\ Count(q, a) > q.max THEN CeilDiv(Count(q, a), q.max) ELSE 1

TooMany(q, a) == CeilDiv(Count(q, a), Stride(q, a)) > MaxFetchPoints
Fails(q)      == Candidates(q) = {} \/ TooMany(q, Chosen(q))

Windows(q, a) ==
  {w \in Window(a, q.from)..Window(a, q.to) :
     (w - Window(a, q.from)) % (Rras[a].steps * Stride(q, a)) = 0}

(* The point fetch returns for window w of the archive it chose. *)
PointAt(a, w) == LET r == row[a][SlotOf(a, w)] IN IF r.ts = w THEN r.val ELSE NaN

-----------------------------------------------------------------------------
(* Views *)

Average(from, to, max) == [cf |-> "average", from |-> from, to |-> to, max |-> max]

(* The points of a view's query whose value is known. *)
KnownPoints(q) ==
  IF Fails(q) THEN {}
  ELSE {w \in Windows(q, Chosen(q)) : PointAt(Chosen(q), w) # NaN}

TopQuery(t) == Average(t - LookBack, t, 0)

(* Mutant of TopPoint: the points are searched from the oldest. *)
TopPointOldest(t) ==
  LET known == KnownPoints(TopQuery(t)) IN
  IF known = {} THEN Absent ELSE PointAt(Chosen(TopQuery(t)), Min(known))

(* top_targets at time t: the newest known point, or no entry. *)
TopPoint(t) ==
  LET known == KnownPoints(TopQuery(t)) IN
  IF known = {} THEN Absent ELSE PointAt(Chosen(TopQuery(t)), Max(known))

DaysQuery(t, days) == Average(t - days * Day, t, days * DayPoints)

(* The windows uptime_days averages into day d, asked at time t. *)
DayPoint(t, days, d) == {w \in KnownPoints(DaysQuery(t, days)) : w \div Day = d}

-----------------------------------------------------------------------------
(* Properties *)

(* What a query may be told of window w: its consolidation once its row    *)
(* is written, and NaN before, or if no round came.                        *)
Truth(a, w) == IF Settled(a, w) THEN Reference(a, w) ELSE NaN

(* The windows of archive a whose point is the truth.  (Window 0, whose row *)
(* a fresh file's zeroes look like, is left out: see the README.)          *)
ExactAt(a) ==
  {0} \cup {w \in 1..(MaxTime + 1) : w = Window(a, w) /\ PointAt(a, w) = Truth(a, w)}

(* An archive that covers the query answers with the consolidation of      *)
(* every settled window and NaN for the others, across gaps and after the  *)
(* ring has wrapped; one that does not may forget a window, never report   *)
(* another's value for it.                                                 *)
FetchRight(q, a, exact) ==
  LET others == Windows(q, a) \ exact IN
  others # {} => ~Covers(q, a) /\ \A w \in others : PointAt(a, w) = NaN

(* Whatever archive serves it, a bounded query returns at most max_points   *)
(* points, and as many as the `n' that MAX_FETCH_POINTS guards.            *)
FetchBounded ==
  \A q \in Queries : \A a \in Candidates(q) :
    LET n == Cardinality(Windows(q, a)) IN
    TooMany(q, a) \/
      /\ q.max > 0 => n <= q.max
      /\ n = CeilDiv(Count(q, a), Stride(q, a)) /\ n <= MaxFetchPoints

(* (`exact' is bound, not defined, so that TLC finds it once for a state.)  *)
FetchExact ==
  /\ FetchBounded
  /\ \A exact \in {[a \in Archives |-> ExactAt(a)]} :
     \A q \in Queries : Candidates(q) # {} =>
       LET a == Chosen(q) IN TooMany(q, a) \/ FetchRight(q, a, exact[a])

(* Moments a view may be asked at. *)
Moments == {t \in Times : t >= lastUpdate}

KnownRounds(from, to) == {t \in Times : from <= t /\ t <= to /\ accepted[t] \notin {NaN, Absent}}

(* The charts rank by the newest round: if the table has a raw archive long *)
(* enough, and none coarser of no more steps, top_targets reports the       *)
(* newest known round of its window and nothing if there is none, never an  *)
(* older one, whatever was unknown or missing in between.                   *)
TopIsNewest ==
  \A t \in Moments :
    (/\ t - LookBack \in Times
     /\ \E a \in Archives : Rras[a].steps = 1 /\ Rras[a].rows > LookBack) =>
      LET known == KnownRounds(t - LookBack, t) IN
      TopPoint(t) = IF known = {} THEN Absent ELSE Mean(accepted[Max(known)], 1)

(* A day none of whose rounds is missing or unknown shows the mean of its   *)
(* rounds, although uptime_days averages the rows of whatever archive the   *)
(* budget of DayPoints a day led to (one that covers the days asked for,    *)
(* whose windows make up whole days, and whose rows are not sampled).       *)
UptimeIsMean ==
  \A t \in Moments, days \in 1..2 :
    LET q == DaysQuery(t, days)
        a == Chosen(q)
    IN  (/\ q.from \in Times /\ ~Fails(q) /\ Covers(q, a) /\ Stride(q, a) = 1
         /\ Day % Rras[a].steps = 0) =>
        \A d \in (q.from \div Day + 1)..((t + 1) \div Day - 1) :
          LET all  == {u \in Times : u \div Day = d}
              rows == DayPoint(t, days, d)
              num  == [w \in rows |-> PointAt(a, w).num]
              den  == [w \in rows |-> PointAt(a, w).den]
          IN  (/\ Cardinality(all) = Day
               /\ \A u \in all : accepted[u] \notin {NaN, Absent}) =>
                /\ rows # {}
                /\ MapThenSumSet(LAMBDA w : num[w], rows) * Day
                   = MapThenSumSet(LAMBDA u : accepted[u], all)
                     * MapThenSumSet(LAMBDA w : den[w], rows)

(* The views built on fetch say of the rounds what they mean to.           *)
ViewsExact == TopIsNewest /\ UptimeIsMean
=============================================================================
