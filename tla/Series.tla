------------------------------- MODULE Series -------------------------------
(***************************************************************************)
(* One target's on-disk series (src/store/series.rs): a fixed set of       *)
(* round-robin archives fed by one primary data point (PDP) per round.     *)
(*                                                                         *)
(* Time is counted in steps: a round that starts at second ts is the PDP   *)
(* of slot align(ts, step) / step, so two rounds started within one step   *)
(* carry the same time here.  The F fields of a PDP go through the same    *)
(* code independently of each other, so the model keeps one of them: a     *)
(* number, or NaN when the round does not know it (a median under total    *)
(* loss).  A consolidated mean is kept as the pair (sum, count).           *)
(***************************************************************************)
EXTENDS Integers, Sequences, FiniteSets, FiniteSetsExt

CONSTANTS
  Rras,       \* the [[database.rra]] table, a sequence of RraSpec records
  Values,     \* the known values a field may take
  NaN,        \* f64::NAN
  Empty,      \* EMPTY_WINDOW, no window in progress
  Absent,     \* history only: no round was accepted for this slot
  MinTime,    \* rounds start at or after this slot ...
  MaxTime     \* ... and at or before this one (bounds every run)

Cfs == {"average", "min", "max"}

(* What Config::validate accepts; xff is in percent. *)
RraSpec == [cf : Cfs, steps : Nat \ {0}, rows : Nat \ {0, 1}, xff : 0..99]

ASSUME RrasAssumption == Rras \in Seq(RraSpec) /\ Rras # <<>>

ASSUME ValuesAssumption ==
  /\ Values \subseteq Int
  /\ NaN \notin Int /\ Empty \notin Int /\ Absent \notin Int /\ Absent # NaN
  /\ NaN \notin [num : Int, den : Nat]

Archives == DOMAIN Rras
Times    == MinTime..MaxTime

(* The clock is past the epoch's first consolidated window: a fresh file   *)
(* is all zeroes, and a zero ts is a claim about the window at 0.          *)
ASSUME TimeAssumption ==
  /\ MinTime \in Nat \ {0} /\ MaxTime \in Nat
  /\ \A a \in Archives : Rras[a].steps <= MinTime

VARIABLES
  lastUpdate, \* file header: slot of the newest PDP, 0 in a fresh file
  acc,        \* acc[a]: the consolidation window in progress of archive a
  row,        \* row[a][s]: the row in slot s of archive a
  accepted    \* history: the value recorded for each slot

vars == <<lastUpdate, acc, row, accepted>>

-----------------------------------------------------------------------------
(* Geometry *)

Window(a, t) == t - (t % Rras[a].steps)
SlotOf(a, w) == (w \div Rras[a].steps) % Rras[a].rows
Slots(a)     == 0..(Rras[a].rows - 1)

Mean(sum, n) == [num |-> sum, den |-> n]
RowVal       == {NaN} \cup [num : Int, den : Nat]

-----------------------------------------------------------------------------
(* Consolidation *)

FreshAcc(a, w) ==
  [start |-> w, val |-> IF Rras[a].cf = "average" THEN 0 ELSE NaN, count |-> 0]

(* The running sum, minimum or maximum after one more known value. *)
Combine(cf, cur, v) ==
  CASE cur = NaN                    -> v
    [] cur # NaN /\ cf = "average"  -> cur + v
    [] cur # NaN /\ cf = "min"      -> IF v < cur THEN v ELSE cur
    [] cur # NaN /\ cf = "max"      -> IF v > cur THEN v ELSE cur

Accumulate(a, c, v) ==
  IF v = NaN THEN c
  ELSE [c EXCEPT !.val = Combine(Rras[a].cf, c.val, v), !.count = c.count + 1]

(* Too few known PDPs in the window make the row unknown (xff). *)
TooSparse(a, n) == n <= 0 \/ 100 * n < (100 - Rras[a].xff) * Rras[a].steps

(* Mutant of RowOf: xff is not looked at. *)
RowOfUnchecked(a, val, n) ==
  IF Rras[a].cf = "average" THEN Mean(val, n) ELSE Mean(val, 1)

RowOf(a, val, n) ==
  IF TooSparse(a, n) THEN NaN
  ELSE IF Rras[a].cf = "average" THEN Mean(val, n) ELSE Mean(val, 1)

(* finalize: the rows of archive a once window w is written from c. *)
Finalize(a, r, c, w) ==
  [r EXCEPT ![SlotOf(a, w)] = [ts |-> w, val |-> RowOf(a, c.val, c.count)]]

(* Mutant of RolledAcc: the accumulator moves on without reset_acc. *)
RolledAccKept(a, t) == [acc[a] EXCEPT !.start = Window(a, t)]

(* Mutant of RolledRows: a window that never completed is not written. *)
RolledRowsForgotten(a, t) == row[a]

(* The accumulator and rows of archive a before the PDP of slot t is added: *)
(* a window that never completed is written with what it has.               *)
RolledAcc(a, t) ==
  IF acc[a].start = Window(a, t) THEN acc[a] ELSE FreshAcc(a, Window(a, t))
RolledRows(a, t) ==
  IF acc[a].start \in {Window(a, t), Empty} THEN row[a]
  ELSE Finalize(a, row[a], acc[a], acc[a].start)

Completes(a, t) == t - Window(a, t) = Rras[a].steps - 1

NextAcc(a, t, v) ==
  LET c == Accumulate(a, RolledAcc(a, t), v)
  IN  IF Completes(a, t) THEN [c EXCEPT !.start = Empty] ELSE c
NextRows(a, t, v) ==
  LET c == Accumulate(a, RolledAcc(a, t), v)
  IN  IF Completes(a, t) THEN Finalize(a, RolledRows(a, t), c, Window(a, t))
      ELSE RolledRows(a, t)

-----------------------------------------------------------------------------
Init ==
  /\ lastUpdate = 0
  /\ acc = [a \in Archives |-> [start |-> Empty, val |-> 0, count |-> 0]]
  /\ row = [a \in Archives |-> [s \in Slots(a) |-> [ts |-> 0, val |-> Mean(0, 1)]]]
  /\ accepted = [t \in Times |-> Absent]

(* Mutant of Record: a round of the newest slot is recorded again. *)
RecordSameSlot(t, v) ==
  /\ t >= lastUpdate
  /\ acc' = [a \in Archives |-> NextAcc(a, t, v)]
  /\ row' = [a \in Archives |-> NextRows(a, t, v)]
  /\ lastUpdate' = t
  /\ accepted' = [accepted EXCEPT ![t] = v]

(* record, the round is newer than everything stored. *)
Record(t, v) ==
  /\ lastUpdate = 0 \/ t > lastUpdate
  /\ acc' = [a \in Archives |-> NextAcc(a, t, v)]
  /\ row' = [a \in Archives |-> NextRows(a, t, v)]
  /\ lastUpdate' = t
  /\ accepted' = [accepted EXCEPT ![t] = v]

(* record, a duplicate or out-of-order round: silently skipped. *)
Skip(t) ==
  /\ lastUpdate # 0 /\ t <= lastUpdate
  /\ UNCHANGED vars

Next == \E t \in Times :
          \/ \E v \in Values \cup {NaN} : Record(t, v)
          \/ Skip(t)

Spec == Init /\ [][Next]_vars

-----------------------------------------------------------------------------
(* What the archives should hold, computed from the history alone *)

InWindow(a, w)  == {t \in Times : w <= t /\ t < w + Rras[a].steps}
KnownIn(a, w)   == {t \in InWindow(a, w) : accepted[t] \notin {NaN, Absent}}
ValuesIn(a, w)  == {accepted[t] : t \in KnownIn(a, w)}
SumIn(a, w)     == MapThenSumSet(LAMBDA t : accepted[t], KnownIn(a, w))
HasRound(a, w)  == \E t \in InWindow(a, w) : accepted[t] # Absent

Reference(a, w) ==
  LET n == Cardinality(KnownIn(a, w)) IN
  CASE TooSparse(a, n)                              -> NaN
    [] ~TooSparse(a, n) /\ Rras[a].cf = "average"   -> Mean(SumIn(a, w), n)
    [] ~TooSparse(a, n) /\ Rras[a].cf = "min"       -> Mean(Min(ValuesIn(a, w)), 1)
    [] ~TooSparse(a, n) /\ Rras[a].cf = "max"       -> Mean(Max(ValuesIn(a, w)), 1)

(* Window w will receive no more rounds, and its row has been written. *)
Settled(a, w) ==
  HasRound(a, w) /\ (Window(a, lastUpdate) > w \/ lastUpdate = w + Rras[a].steps - 1)

-----------------------------------------------------------------------------
(* Properties *)

AccOK == [start : Nat \cup {Empty}, val : Int \cup {NaN}, count : Nat]
RowOK == [ts : Nat, val : RowVal]

(* Every variable has its type. *)
TypeOK ==
  /\ lastUpdate \in Nat
  /\ acc \in [Archives -> AccOK]
  /\ DOMAIN row = Archives
  /\ \A a \in Archives : row[a] \in [Slots(a) -> RowOK]
  /\ accepted \in [Times -> Values \cup {NaN, Absent}]

(* The value a row holds is exactly the consolidation of the rounds        *)
(* accepted in its window, whether the window completed (record's last     *)
(* finalize) or was closed late after a gap (the finalize of the stale     *)
(* window); no row claims a window that never had a round.                 *)
RowsFaithful ==
  \A a \in Archives : \A s \in Slots(a) :
    LET r == row[a][s] IN
    r.ts # 0 => /\ r.ts = Window(a, r.ts) /\ SlotOf(a, r.ts) = s
                /\ Settled(a, r.ts)
                /\ r.val = Reference(a, r.ts)

(* The ring keeps what it promises: the row of every settled window among  *)
(* the newest `rows' windows is there, however long the gaps were.  This   *)
(* is what fetch's `covers' test relies on.                                *)
RowsRetained ==
  \A a \in Archives : \A t \in Times :
    LET w == Window(a, t) IN
    (Settled(a, w) /\ w > Window(a, lastUpdate) - Rras[a].rows * Rras[a].steps)
      => row[a][SlotOf(a, w)].ts = w

(* A window is in progress exactly between its first round and its last.   *)
AccOpen ==
  \A a \in Archives :
    IF acc[a].start = Empty
    THEN lastUpdate = 0 \/ Completes(a, lastUpdate)
    ELSE lastUpdate # 0 /\ acc[a].start = Window(a, lastUpdate) /\ ~Completes(a, lastUpdate)

(* The window in progress is the one of the newest round, and has counted  *)
(* each of its known rounds once: a record that completes or abandons a     *)
(* window leaves nothing of it behind.                                      *)
AccFaithful ==
  /\ AccOpen
  /\ \A a \in Archives :
       acc[a].start # Empty => acc[a].count = Cardinality(KnownIn(a, acc[a].start))

(* Every row sits in the slot of its window and is older than the window   *)
(* in progress, so finalizing that window never replaces a newer row.      *)
RowsPlaced ==
  \A a \in Archives : \A s \in Slots(a) :
    LET w == row[a][s].ts IN
    w # 0 => /\ w = Window(a, w) /\ SlotOf(a, w) = s
             /\ w <= lastUpdate
             /\ acc[a].start # Empty => w < acc[a].start

(* A slot is only ever overwritten by a newer window: an old window that   *)
(* is finalized late, after a gap longer than the ring, must not replace   *)
(* a newer row.                                                            *)
RowsNeverRegress ==
  [][\A a \in Archives : \A s \in Slots(a) : row[a][s].ts <= row'[a][s].ts]_vars

(* First write wins: no later round, duplicate or out of order, changes    *)
(* what was accepted for a slot, and the series never moves back in time.  *)
FirstWriteWins ==
  [][/\ lastUpdate <= lastUpdate'
     /\ \A t \in Times : accepted[t] # Absent => accepted'[t] = accepted[t]]_vars
=============================================================================
