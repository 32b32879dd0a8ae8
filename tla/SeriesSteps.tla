----------------------------- MODULE SeriesSteps -----------------------------
(***************************************************************************)
(* The same series at the level of its stores to the memory-mapped file    *)
(* (src/store/series.rs): record is a sequence of in-place writes, made    *)
(* under the series' Mutex, and the process may be killed between any two  *)
(* of them.  What was written survives the kill (the page cache holds it)  *)
(* and the next process goes on from it; a loss of power is not modelled,  *)
(* nor a compiler that would reorder the stores.                           *)
(*                                                                         *)
(* The variables of Series are the file here.  Without kills the module    *)
(* implements Series: nobody can tell record from one atomic step.         *)
(***************************************************************************)
EXTENDS Series

CONSTANT MaxKills   \* bounds the kills of a run

ASSUME MaxKillsAssumption == MaxKills \in Nat

VARIABLES
  rec,      \* the record call under way: its round, archive and next write
  before,   \* history: the file as it was when that call took the lock
  writer,   \* history: writer[a][s] is the window whose fields row[a][s] holds
  hit,      \* history: hit[a] holds the windows a killed call may have damaged
  newest,   \* history: the newest slot any call, killed or not, wrote for
  kills     \* number of kills so far

file  == <<lastUpdate, acc, row>>
svars == <<file, accepted, rec, before, writer, hit, newest, kills>>

File == [lastUpdate |-> lastUpdate, acc |-> acc, row |-> row]

Idle == [ph |-> "idle", a |-> 1, t |-> 0, v |-> NaN]

-----------------------------------------------------------------------------
(* Mutant of FirstWrite: a window that never completed is not finalized. *)
FirstWriteForgets(a, t) == IF acc[a].start = Window(a, t) THEN "addVal" ELSE "resetVal"

(* The write that opens the work on archive a. *)
FirstWrite(a, t) ==
  IF acc[a].start = Window(a, t) THEN "addVal"
  ELSE IF acc[a].start = Empty THEN "resetVal" ELSE "lateTs"

Goto(ph) == rec' = [rec EXCEPT !.ph = ph]

NextArchive ==
  rec' = IF rec.a = Len(Rras) THEN [rec EXCEPT !.ph = "commit"]
         ELSE [rec EXCEPT !.a = @ + 1, !.ph = FirstWrite(rec.a + 1, rec.t)]

StepInit ==
  /\ Init
  /\ rec = Idle
  /\ before = File
  /\ writer = [a \in Archives |-> [s \in Slots(a) |-> 0]]
  /\ hit = [a \in Archives |-> {}]
  /\ newest = 0
  /\ kills = 0

Begin(t, v) ==
  /\ rec = Idle
  /\ lastUpdate = 0 \/ t > lastUpdate
  /\ rec' = [ph |-> FirstWrite(1, t), a |-> 1, t |-> t, v |-> v]
  /\ newest' = IF t > newest THEN t ELSE newest
  /\ UNCHANGED <<file, accepted, before, writer, hit, kills>>

(* record, a duplicate or out-of-order round. *)
Ignore(t) ==
  /\ rec = Idle /\ Skip(t)
  /\ UNCHANGED <<rec, before, writer, hit, newest, kills>>

(* The two stores of finalize: the row's ts, then its fields. *)
WriteRowTs(w, next) ==
  /\ row' = [row EXCEPT ![rec.a][SlotOf(rec.a, w)].ts = w]
  /\ Goto(next)
  /\ UNCHANGED <<lastUpdate, acc, writer>>
WriteRowVal(w) ==
  LET c == acc[rec.a] IN
  /\ row' = [row EXCEPT ![rec.a][SlotOf(rec.a, w)].val = RowOf(rec.a, c.val, c.count)]
  /\ writer' = [writer EXCEPT ![rec.a][SlotOf(rec.a, w)] = w]
  /\ UNCHANGED <<lastUpdate, acc>>

(* A store to the archive's accumulator. *)
WriteAcc(c) ==
  /\ acc' = [acc EXCEPT ![rec.a] = c]
  /\ UNCHANGED <<lastUpdate, row, writer>>

LateTs == rec.ph = "lateTs" /\ WriteRowTs(acc[rec.a].start, "lateVal")
LateVal == rec.ph = "lateVal" /\ WriteRowVal(acc[rec.a].start) /\ Goto("resetVal")

ResetVal ==
  /\ rec.ph = "resetVal"
  /\ WriteAcc([acc[rec.a] EXCEPT !.val = FreshAcc(rec.a, 0).val])
  /\ Goto("resetCount")
ResetCount ==
  /\ rec.ph = "resetCount"
  /\ WriteAcc([acc[rec.a] EXCEPT !.count = 0])
  /\ Goto("resetStart")
ResetStart ==
  /\ rec.ph = "resetStart"
  /\ WriteAcc([acc[rec.a] EXCEPT !.start = Window(rec.a, rec.t)])
  /\ Goto("addVal")

AddVal ==
  /\ rec.ph = "addVal"
  /\ WriteAcc([acc[rec.a] EXCEPT !.val = Accumulate(rec.a, acc[rec.a], rec.v).val])
  /\ Goto("addCount")
AddCount ==
  /\ rec.ph = "addCount"
  /\ WriteAcc([acc[rec.a] EXCEPT !.count = Accumulate(rec.a, acc[rec.a], rec.v).count])
  /\ IF Completes(rec.a, rec.t) THEN Goto("rowTs") ELSE NextArchive

(* Mutant of RowTs: the window is closed before its row is written. *)
RowTsClosing ==
  /\ rec.ph = "rowTs"
  /\ row' = [row EXCEPT ![rec.a][SlotOf(rec.a, Window(rec.a, rec.t))].ts = Window(rec.a, rec.t)]
  /\ acc' = [acc EXCEPT ![rec.a].start = Empty]
  /\ Goto("rowVal")
  /\ UNCHANGED <<lastUpdate, writer>>

RowTs == rec.ph = "rowTs" /\ WriteRowTs(Window(rec.a, rec.t), "rowVal")

RowVals == rec.ph = "rowVal" /\ WriteRowVal(Window(rec.a, rec.t)) /\ Goto("clearStart")
ClearStart ==
  /\ rec.ph = "clearStart"
  /\ WriteAcc([acc[rec.a] EXCEPT !.start = Empty])
  /\ NextArchive

Commit ==
  /\ rec.ph = "commit"
  /\ lastUpdate' = rec.t
  /\ accepted' = [accepted EXCEPT ![rec.t] = rec.v]
  /\ rec' = Idle
  /\ UNCHANGED <<acc, row, writer, hit, newest, kills>>
  /\ before' = File'

Write ==
  /\ \/ LateTs \/ LateVal
     \/ ResetVal \/ ResetCount \/ ResetStart
     \/ AddVal \/ AddCount
     \/ RowTs \/ RowVals \/ ClearStart
  /\ UNCHANGED <<accepted, before, hit, newest, kills>>

(* The process dies inside record; a new one opens the file as it is. *)
Kill ==
  /\ rec # Idle
  /\ kills < MaxKills
  /\ hit' = [a \in Archives |->
               hit[a] \cup ({Window(a, rec.t), before.acc[a].start} \ {Empty})]
  /\ kills' = kills + 1
  /\ rec' = Idle
  /\ UNCHANGED <<file, accepted, writer, newest>>
  /\ before' = File'

StepNext ==
  \/ \E t \in Times, v \in Values \cup {NaN} : Begin(t, v)
  \/ \E t \in Times : Ignore(t)
  \/ Write
  \/ Commit
  \/ Kill

StepSpec == StepInit /\ [][StepNext]_svars

-----------------------------------------------------------------------------
(* Properties *)

(* Series has not moved yet while a call is under way. *)
Atomic == INSTANCE Series WITH
  lastUpdate <- before.lastUpdate, acc <- before.acc, row <- before.row

(* Until a call is killed, record's sequence of stores implements one      *)
(* atomic Record: finalizing the stale window, resetting, accumulating and *)
(* finalizing in place, archive by archive, adds up to NextAcc and NextRows.*)
ImplementsSeries == Atomic!Init /\ [][kills' = 0 => Atomic!Next]_(Atomic!vars)

(* Every row no kill touched holds the consolidation of exactly the rounds *)
(* accepted in its window.                                                 *)
RowsUnspoilt ==
  \A a \in Archives : \A s \in Slots(a) :
    LET r == row[a][s] IN
    (r.ts # 0 /\ r.ts \notin hit[a]) =>
      /\ SlotOf(a, r.ts) = s /\ Settled(a, r.ts)
      /\ r.val = Reference(a, r.ts)

(* A kill loses no settled window of the ring, counted from the newest     *)
(* round any call began to write: raw rows a killed call already replaced  *)
(* are a ring's length behind that one.                                    *)
RingKept ==
  \A a \in Archives : \A t \in Times :
    LET w == Window(a, t) IN
    (/\ Settled(a, w) /\ w \notin hit[a]
     /\ w > Window(a, newest) - Rras[a].rows * Rras[a].steps)
      => row[a][SlotOf(a, w)].ts = w

Torn(a, s) == row[a][s].ts # 0 /\ writer[a][s] # row[a][s].ts

(* A row torn by a kill is not for good: its window is still the one in    *)
(* progress, so the next round of the window's end or of a later window    *)
(* finalizes it again.                                                     *)
TornRowHeals ==
  \A a \in Archives : \A s \in Slots(a) :
    Torn(a, s) => acc[a].start = row[a][s].ts

(* A killed record spoils at most the window of its own round and the one  *)
(* in progress, and that not for good, however often it happens.           *)
KillSpoilsTwoWindows == rec = Idle => RowsUnspoilt /\ RingKept /\ TornRowHeals
=============================================================================
