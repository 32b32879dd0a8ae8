------------------------------- MODULE Alerts -------------------------------
(***************************************************************************)
(* The alerter for one target (src/alert/mod.rs): each finished round is   *)
(* matched against the patterns of the alerts that watch the target, an    *)
(* edge or an overdue repeat makes a notification, and each notification   *)
(* is dispatched to its receivers in turn by a task of its own.            *)
(*                                                                         *)
(* A round is its loss and its median; a receiver's answer is whether the  *)
(* dispatch worked (src/alert/notify.rs).  Time is counted in units of the *)
(* repeat intervals and only what is left of an interval is kept.          *)
(***************************************************************************)
EXTENDS Pattern, FiniteSets

CONSTANTS
  AlertNames,
  Kind,        \* Kind[a]: "loss" or "rtt"
  Pat,         \* Pat[a]: the pattern of a
  Repeat,      \* Repeat[a]: repeat_every, or 0 for none
  NotifyClear, \* NotifyClear[a]
  Receivers,   \* Receivers[a]: how many notifiers `to' lists
  Samples,     \* the rounds there are: records of loss and median
  MinHistory,  \* rounds kept at least (8)
  MaxRounds,   \* rounds fed in a run
  MaxTasks,    \* notifications in flight at once
  MaxStarts    \* starts of the daemon: 1 + reloads and restarts

ASSUME AlertsAssumption ==
  /\ AlertNames # {} /\ IsFiniteSet(AlertNames)
  /\ \A a \in AlertNames :
       /\ Kind[a] \in {"loss", "rtt"} /\ Concrete(Pat[a]) /\ Repeat[a] \in Nat
       /\ NotifyClear[a] \in BOOLEAN /\ Receivers[a] \in Nat \ {0}
  /\ MinHistory \in Nat \ {0} /\ MaxStarts \in Nat \ {0}
  /\ {MaxRounds, MaxTasks} \subseteq Nat

VARIABLES
  history,  \* the newest rounds
  raised,   \* raised[a]
  elapsed,  \* time since a's last notification, kept up to Repeat[a]
  tasks,    \* notifications being dispatched, [alert, event, next receiver]
  starts, fed,
  full,     \* history: every round since the start
  told,     \* history: told[a][r] is the last event receiver r was told
  missed,   \* history: the <<a, r>> whose last dispatch failed or never came
  calm      \* history: no notification was made while another was in flight

vars == <<history, raised, elapsed, tasks, starts, fed, full, told, missed, calm>>

-----------------------------------------------------------------------------
SetMax(S) == CHOOSE n \in S : \A m \in S : m <= n

(* Mutant of HistoryDepth: a span counts as one round. *)
HistoryDepthFlat == SetMax({Len(Pat[a]) : a \in AlertNames} \cup {MinHistory})

HistoryDepth == SetMax({Depth(Pat[a]) : a \in AlertNames} \cup {MinHistory})

(* The values an alert of this kind sees. *)
Series(kind, rounds) ==
  [i \in DOMAIN rounds |-> IF kind = "loss" THEN rounds[i].loss ELSE rounds[i].median]

(* Mutant of Push: the oldest round goes one round too late. *)
PushOver(h, s) ==
  LET all == Append(h, s) IN
  IF Len(all) > HistoryDepth + 1 THEN Tail(all) ELSE all

Push(h, s) ==
  LET all == Append(h, s) IN
  IF Len(all) > HistoryDepth THEN SubSeq(all, Len(all) - HistoryDepth + 1, Len(all)) ELSE all

(* Mutant of EventOf: an interval that is just over is not yet over. *)
EventOfLate(a, matched) ==
  IF matched
  THEN IF ~raised[a] THEN "raised"
       ELSE IF Repeat[a] # 0 /\ elapsed[a] > Repeat[a] THEN "repeat" ELSE "none"
  ELSE IF raised[a] /\ NotifyClear[a] THEN "cleared" ELSE "none"

(* The event a round makes for alert a. *)
EventOf(a, matched) ==
  IF matched
  THEN IF ~raised[a] THEN "raised"
       ELSE IF Repeat[a] # 0 /\ elapsed[a] >= Repeat[a] THEN "repeat" ELSE "none"
  ELSE IF raised[a] /\ NotifyClear[a] THEN "cleared" ELSE "none"

-----------------------------------------------------------------------------
AlerterInit ==
  /\ history = <<>> /\ full = <<>>
  /\ raised = [a \in AlertNames |-> FALSE]
  /\ elapsed = [a \in AlertNames |-> 0]

Init ==
  /\ AlerterInit
  /\ tasks = {} /\ starts = 1 /\ fed = 0
  /\ told = [a \in AlertNames |-> [r \in 1..Receivers[a] |-> "none"]]
  /\ missed = {} /\ calm = TRUE

(* process_round and emit, which spawns a task per notification.  A task   *)
(* that is in flight with the same alert and event is a different one: the *)
(* bound on tasks leaves at most one of a kind to each alert.              *)
Round(s) ==
  LET h == Push(history, s)
      now == [a \in AlertNames |-> Matches(Pat[a], Series(Kind[a], h))]
      event == [a \in AlertNames |-> EventOf(a, now[a])]
      made == {[alert |-> a, event |-> event[a], next |-> 1] :
                 a \in {b \in AlertNames : event[b] # "none"}}
  IN
  /\ fed < MaxRounds /\ fed' = fed + 1
  /\ made \cap tasks = {} /\ Cardinality(made \cup tasks) <= MaxTasks
  /\ history' = h /\ full' = Append(full, s)
  /\ raised' = now
  /\ elapsed' = [a \in AlertNames |-> IF event[a] # "none" THEN 0 ELSE elapsed[a]]
  /\ tasks' = tasks \cup made
  /\ calm' = (calm /\ \A n \in made, m \in tasks : n.alert # m.alert)
  /\ UNCHANGED <<starts, told, missed>>

Pass ==
  /\ \E a \in AlertNames : raised[a] /\ elapsed[a] < Repeat[a]
  /\ elapsed' = [a \in AlertNames |->
                   IF elapsed[a] < Repeat[a] THEN elapsed[a] + 1 ELSE elapsed[a]]
  /\ UNCHANGED <<history, raised, tasks, starts, fed, full, told, missed, calm>>

(* Task n is done with its receiver. *)
NextReceiver(n) ==
  tasks' = (tasks \ {n}) \cup
           IF n.next < Receivers[n.alert] THEN {[n EXCEPT !.next = @ + 1]} ELSE {}

Dispatch(n) ==
  /\ told' = [told EXCEPT ![n.alert][n.next] = n.event]
  /\ missed' = missed \ {<<n.alert, n.next>>}
  /\ NextReceiver(n)
  /\ UNCHANGED <<history, raised, elapsed, starts, fed, full, calm>>

(* Mutant of DispatchFails: the error ends the task. *)
DispatchFailsEnds(n) ==
  /\ missed' = missed \cup {<<n.alert, n.next>>}
  /\ tasks' = tasks \ {n}
  /\ UNCHANGED <<history, raised, elapsed, starts, fed, full, told, calm>>

(* The error is logged and the next receiver is served. *)
DispatchFails(n) ==
  /\ missed' = missed \cup {<<n.alert, n.next>>}
  /\ NextReceiver(n)
  /\ UNCHANGED <<history, raised, elapsed, starts, fed, full, told, calm>>

(* A reload makes a new Alerter; notifications in flight go on. *)
Reload ==
  /\ starts < MaxStarts /\ starts' = starts + 1
  /\ history' = <<>> /\ full' = <<>>
  /\ raised' = [a \in AlertNames |-> FALSE]
  /\ elapsed' = [a \in AlertNames |-> 0]
  /\ UNCHANGED <<tasks, fed, told, missed, calm>>

(* When the daemon quits they are abandoned. *)
LeftOf(n) == {<<n.alert, r>> : r \in n.next..Receivers[n.alert]}
Restart ==
  /\ starts < MaxStarts /\ starts' = starts + 1
  /\ history' = <<>> /\ full' = <<>>
  /\ raised' = [a \in AlertNames |-> FALSE]
  /\ elapsed' = [a \in AlertNames |-> 0]
  /\ tasks' = {} /\ missed' = missed \cup UNION {LeftOf(n) : n \in tasks}
  /\ UNCHANGED <<fed, told, calm>>

Next ==
  \/ \E s \in Samples : Round(s)
  \/ Pass
  \/ \E n \in tasks : Dispatch(n) \/ DispatchFails(n)
  \/ Reload \/ Restart

Spec == Init /\ [][Next]_vars

-----------------------------------------------------------------------------
(* Properties *)

Events == {"raised", "repeat", "cleared"}

(* Every variable has its type, and the ring its length. *)
TypeOK ==
  /\ history \in Seq(Samples) /\ Len(history) <= HistoryDepth
  /\ full \in Seq(Samples)
  /\ raised \in [AlertNames -> BOOLEAN]
  /\ \A a \in AlertNames : elapsed[a] \in 0..Repeat[a]
  /\ tasks \subseteq UNION {[alert : {a}, event : Events, next : 1..Receivers[a]] : a \in AlertNames}
  /\ \A a \in AlertNames : told[a] \in [1..Receivers[a] -> Events \cup {"none"}]
  /\ starts \in 1..MaxStarts /\ calm \in BOOLEAN

(* An alert is raised exactly when its pattern matches all the rounds since *)
(* the start: the trimmed ring holds every round a pattern of spans can     *)
(* look back to, and the matcher's backtracking misses no way to match.     *)
RaisedIsMeant ==
  \A a \in AlertNames : raised[a] = Means(Pat[a], Series(Kind[a], full))

(* A raised alert is not forgotten: each round that finds it still raised  *)
(* leaves less than repeat_every since its last notification.               *)
StillRaisedIsRepeated ==
  [][full' # full =>
       \A a \in AlertNames : (raised'[a] /\ Repeat[a] # 0) => elapsed'[a] < Repeat[a]]_vars

(* What the receivers were told last is the truth, once nothing is in      *)
(* flight: raised or still raised, or cleared.  A receiver that fails costs *)
(* the others nothing.  It takes that no two notifications of an alert were *)
(* in flight at once and that the daemon was not reloaded.                 *)
Honest(a, r) == told[a][r] \in {"raised", "repeat"} <=> raised[a]
LastWordIsTrue ==
  (calm /\ starts = 1) =>
    \A a \in AlertNames : \A r \in 1..Receivers[a] :
      ( /\ NotifyClear[a] /\ <<a, r>> \notin missed
        /\ \A n \in tasks : n.alert # a) => Honest(a, r)
=============================================================================
