----------------------------- MODULE StoreFiles -----------------------------
(***************************************************************************)
(* Who opens, creates and locks the series files (src/store/mod.rs and     *)
(* open_or_create in src/store/series.rs).  A Store keeps a map of open    *)
(* series under one Mutex and gives each series a Mutex of its own; a      *)
(* reload makes a second Store while calls on the first still run, and the *)
(* dump and seed commands make theirs in another process.                  *)
(*                                                                         *)
(* A target's path is the sequence of the dot-separated parts of its last  *)
(* component.  What record and fetch do to an open file is module Series.   *)
(***************************************************************************)
EXTENDS Naturals, Sequences, FiniteSets, SequencesExt

CONSTANTS
  Targets,    \* target paths
  Threads,    \* callers of record and fetch
  Layouts,    \* values of step, pings and the rra table
  MaxStores,  \* Stores made in a run
  MaxFaults   \* kills of all processes and full disks in a run

ASSUME StoreAssumption ==
  /\ Targets \subseteq Seq(STRING) \ {<<>>} /\ Targets # {}
  /\ Layouts # {} /\ MaxStores \in Nat \ {0} /\ MaxFaults \in Nat

Stores == 1..MaxStores

(* target_file: Path::set_extension("dab") replaces what follows the last  *)
(* dot, unless that dot opens the name.                                    *)
FileOf(t) == IF Len(t) = 1 \/ (Len(t) = 2 /\ t[1] = "") THEN t ELSE Front(t)

Files == {FileOf(t) : t \in Targets}

VARIABLES
  alive,   \* Stores that take new calls
  layout,  \* layout[s]: the layout Store s was made with, for s <= made
  made,    \* Stores made so far
  disk,    \* disk[f]: "absent", "empty", "sized" (all zeroes) or "ready"
  shape,   \* shape[f]: the layout f was created with
  open,    \* open[s]: the series map of Store s
  call,    \* call[h]: what thread h is doing
  faults,
  opened,  \* history: opened[s][t] counts the mappings Store s made for t
  spoilt   \* history: files whose creation a fault cut short, or that two
           \* Stores created at once

vars == <<alive, layout, made, disk, shape, open, call, faults, opened, spoilt>>

Idle == [pc |-> "idle", s |-> 1, t |-> <<>>, job |-> "none", existed |-> FALSE]

Init ==
  /\ \E l \in Layouts : layout = [s \in Stores |-> l]
  /\ alive = {1} /\ made = 1
  /\ disk = [f \in Files |-> "absent"]
  /\ shape = [f \in Files |-> layout[1]]
  /\ open = [s \in Stores |-> {}]
  /\ call = [h \in Threads |-> Idle]
  /\ faults = 0
  /\ opened = [s \in Stores |-> [t \in Targets |-> 0]]
  /\ spoilt = {}

-----------------------------------------------------------------------------
(* Store::series *)

File(h)  == FileOf(call[h].t)
Goto(h, pc) == call' = [call EXCEPT ![h].pc = pc]

MapHeld == {"exists", "open", "setLen", "initHeaders", "validate"}

Call(h, s, t, job) ==
  /\ call[h] = Idle /\ s \in alive
  /\ call' = [call EXCEPT ![h] = [pc |-> "series", s |-> s, t |-> t, job |-> job,
                                  existed |-> FALSE]]
  /\ UNCHANGED <<alive, layout, made, disk, shape, open, faults, opened, spoilt>>

(* Mutant of MapFree: the series map is not kept locked while a file is    *)
(* opened.                                                                 *)
MapAlwaysFree(s) == TRUE

MapFree(s) == \A h \in Threads : call[h].pc \in MapHeld => call[h].s # s

(* Looks the series up, under the map's lock, and keeps the lock to open it. *)
LookUp(h) ==
  /\ call[h].pc = "series" /\ MapFree(call[h].s)
  /\ IF call[h].t \in open[call[h].s] THEN Goto(h, "lock")
     ELSE IF call[h].job = "fetch" /\ disk[File(h)] = "absent"
     THEN call' = [call EXCEPT ![h] = Idle]
     ELSE Goto(h, "exists")
  /\ UNCHANGED <<alive, layout, made, disk, shape, open, faults, opened, spoilt>>

-----------------------------------------------------------------------------
(* TargetSeries::open_or_create *)

Exists(h) ==
  /\ call[h].pc = "exists"
  /\ call' = [call EXCEPT ![h].pc = "open", ![h].existed = disk[File(h)] # "absent"]
  /\ UNCHANGED <<alive, layout, made, disk, shape, open, faults, opened, spoilt>>

Refuse(h) == call' = [call EXCEPT ![h] = Idle]

(* OpenOptions::create, then the size of a file that was there. *)
Open(h) ==
  /\ call[h].pc = "open"
  /\ disk' = [disk EXCEPT ![File(h)] = IF @ = "absent" THEN "empty" ELSE @]
  /\ spoilt' = IF ~call[h].existed /\ disk[File(h)] # "absent"
               THEN spoilt \cup {File(h)} ELSE spoilt
  /\ IF ~call[h].existed THEN Goto(h, "setLen")
     ELSE IF disk[File(h)] = "empty" THEN Refuse(h)
     ELSE Goto(h, "validate")
  /\ UNCHANGED <<alive, layout, made, shape, open, faults, opened>>

SetLen(h) ==
  /\ call[h].pc = "setLen"
  /\ disk' = [disk EXCEPT ![File(h)] = IF @ = "empty" THEN "sized" ELSE @]
  /\ Goto(h, "initHeaders")
  /\ UNCHANGED <<alive, layout, made, shape, open, faults, opened, spoilt>>

(* The disk is full: record fails and leaves the empty file behind. *)
SetLenFails(h) ==
  /\ call[h].pc = "setLen" /\ faults < MaxFaults
  /\ faults' = faults + 1 /\ spoilt' = spoilt \cup {File(h)}
  /\ call' = [call EXCEPT ![h] = Idle]
  /\ UNCHANGED <<alive, layout, made, disk, shape, open, opened>>

(* Mutant of Enter: the series is not put into the map. *)
EnterForgets(h) ==
  /\ Goto(h, "lock")
  /\ open' = open
  /\ opened' = [opened EXCEPT ![call[h].s][call[h].t] = @ + 1]

(* The series enters the map and its file is locked next. *)
Enter(h) ==
  /\ Goto(h, "lock")
  /\ open' = [open EXCEPT ![call[h].s] = @ \cup {call[h].t}]
  /\ opened' = [opened EXCEPT ![call[h].s][call[h].t] = @ + 1]

(* The stores of init_headers are one step: a file cut short within it does *)
(* not validate either, unless only its last fields are missing.           *)
InitHeaders(h) ==
  /\ call[h].pc = "initHeaders"
  /\ disk' = [disk EXCEPT ![File(h)] = "ready"]
  /\ shape' = [shape EXCEPT ![File(h)] = layout[call[h].s]]
  /\ Enter(h)
  /\ UNCHANGED <<alive, layout, made, faults, spoilt>>

(* Mutants of Validate: the file's layout is not compared; nothing passes. *)
ValidateMagicOnly(h) ==
  /\ call[h].pc = "validate"
  /\ IF disk[File(h)] = "ready" THEN Enter(h) ELSE Refuse(h) /\ UNCHANGED <<open, opened>>
  /\ UNCHANGED <<alive, layout, made, disk, shape, faults, spoilt>>
ValidateStrict(h) ==
  /\ call[h].pc = "validate"
  /\ Refuse(h)
  /\ UNCHANGED <<alive, layout, made, disk, shape, open, faults, opened, spoilt>>

(* The size and the headers must be those of this layout. *)
Validate(h) ==
  /\ call[h].pc = "validate"
  /\ IF disk[File(h)] = "ready" /\ shape[File(h)] = layout[call[h].s]
     THEN Enter(h)
     ELSE Refuse(h) /\ UNCHANGED <<open, opened>>
  /\ UNCHANGED <<alive, layout, made, disk, shape, faults, spoilt>>

-----------------------------------------------------------------------------
(* The series' own Mutex, around record and fetch. *)
Lock(h) ==
  /\ call[h].pc = "lock"
  /\ \A g \in Threads : call[g].pc = "work" => <<call[g].s, call[g].t>> # <<call[h].s, call[h].t>>
  /\ Goto(h, "work")
  /\ UNCHANGED <<alive, layout, made, disk, shape, open, faults, opened, spoilt>>

Unlock(h) ==
  /\ call[h].pc = "work"
  /\ call' = [call EXCEPT ![h] = Idle]
  /\ UNCHANGED <<alive, layout, made, disk, shape, open, faults, opened, spoilt>>

(* A Store of a new layout or the same: a reload, after which the old one  *)
(* takes no more calls, or another process.                                *)
MakeStore(l) ==
  /\ made < MaxStores /\ made' = made + 1
  /\ layout' = [layout EXCEPT ![made + 1] = l]
  /\ alive' \in {{made + 1}, alive \cup {made + 1}}
  /\ UNCHANGED <<disk, shape, open, call, faults, opened, spoilt>>

(* Every process is killed. *)
Kill ==
  /\ faults < MaxFaults /\ faults' = faults + 1
  /\ alive' = {} /\ call' = [h \in Threads |-> Idle]
  /\ spoilt' = spoilt \cup {File(h) : h \in {g \in Threads : call[g].pc \in {"setLen", "initHeaders"}}}
  /\ UNCHANGED <<layout, made, disk, shape, open, opened>>

Next ==
  \/ \E h \in Threads, s \in Stores, t \in Targets, job \in {"record", "fetch"} : Call(h, s, t, job)
  \/ \E h \in Threads :
       \/ LookUp(h) \/ Exists(h) \/ Open(h) \/ SetLen(h) \/ SetLenFails(h)
       \/ InitHeaders(h) \/ Validate(h) \/ Lock(h) \/ Unlock(h)
  \/ \E l \in Layouts : MakeStore(l)
  \/ Kill

Spec == Init /\ [][Next]_vars

-----------------------------------------------------------------------------
(* Properties *)

(* Every variable has its type, and a Store knows the series it mapped. *)
TypeOK ==
  /\ \A s \in Stores, t \in Targets : t \in open[s] <=> opened[s][t] > 0
  /\ alive \subseteq 1..made /\ made \in Stores /\ layout \in [Stores -> Layouts]
  /\ disk \in [Files -> {"absent", "empty", "sized", "ready"}] /\ shape \in [Files -> Layouts]
  /\ open \in [Stores -> SUBSET Targets]
  /\ \A h \in Threads : call[h].pc \in MapHeld \cup {"idle", "series", "lock", "work"}
  /\ faults \in 0..MaxFaults /\ spoilt \subseteq Files

(* A Store maps a target once, however many threads ask for it at once, so *)
(* that they all share one Mutex.                                          *)
OneMapping == \A s \in Stores : \A t \in Targets : opened[s][t] <= 1

(* Nobody records into or reads from a file that is not completely         *)
(* initialised with the layout of the caller's Store, unless two Stores    *)
(* were creating it at once.                                               *)
WorksOnReady ==
  \A h \in Threads : call[h].pc = "work" =>
    \/ disk[File(h)] = "ready" /\ shape[File(h)] = layout[call[h].s]
    \/ File(h) \in spoilt

(* A file that is turned away has another layout, or was left behind half  *)
(* created by a fault, or is being created by another Store.               *)
Refused(h) == call[h].pc \in {"open", "validate"} /\ call'[h] = Idle /\ faults' = faults
RefusalsExplained ==
  [][\A h \in Threads : Refused(h) =>
       \/ shape[File(h)] # layout[call[h].s]
       \/ File(h) \in spoilt
       \/ \E g \in Threads : call[g].pc \in {"setLen", "initHeaders"} /\ File(g) = File(h)]_vars

(* One file per target: two callers never work on one file at the same     *)
(* time, for the Mutex of its series is between them.                       *)
MappingsGuarded ==
  \A h, g \in Threads :
    (h # g /\ call[h].pc = "work" /\ call[g].pc = "work") => File(h) # File(g)
=============================================================================
