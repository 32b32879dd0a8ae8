---------------------------- MODULE StatusEngine ----------------------------
(***************************************************************************)
(* The status page's engine (src/status/mod.rs): each target's task feeds  *)
(* its finished rounds in, component severities are recomputed, and a      *)
(* change opens, updates or resolves an incident in an append-only log     *)
(* that is replayed at startup.                                            *)
(*                                                                         *)
(* Target tasks run in parallel.  One step is one critical section of the  *)
(* engine's four mutexes, and one write to the log inside the last of      *)
(* them.  A round is the severity the loss and rtt patterns give it.       *)
(***************************************************************************)
EXTENDS Naturals, Sequences, SequencesExt

CONSTANTS
  Targets,
  Components,   \* the [status.components] table, in its order
  Watches,      \* Watches[c]: the targets of component c
  IncidentAt,   \* IncidentAt[c]: the incident_at severity of component c
  Admin,        \* the HTTP handlers of manual incident updates
  Nobody,       \* no thread holds the incident log's lock
  MaxEvents,    \* no round or manual update starts once the log is this long
  MaxFaults     \* bounds the crashes and the log writes that fail

Operational == 0
Degraded    == 1
Partial     == 2
Major       == 3
Severities  == {Operational, Degraded, Partial, Major}

(* A target is never partially out: only components are. *)
TargetSeverities == {Operational, Degraded, Major}

Comps == {Components[k] : k \in DOMAIN Components}

ASSUME StatusAssumption ==
  /\ Components \in Seq(Comps) /\ IsInjective(Components)
  /\ Watches \in [Comps -> (SUBSET Targets) \ {{}}]
  /\ IncidentAt \in [Comps -> {Degraded, Partial, Major}]
  /\ Admin \notin Targets /\ Nobody \notin Targets /\ Admin # Nobody
  /\ MaxEvents \in Nat /\ MaxFaults \in Nat

VARIABLES
  up,           \* the daemon is running
  task,         \* task[t]: where process_round stands for target t
  targetState,  \* target_state; a target that has not reported is Operational
  compState,    \* comp_state
  mem,          \* incidents: the IncidentLog in memory
  log,          \* incidents.jsonl: its events, and whether a newline follows
  lock,         \* the holder of the incident log's lock and what it has to write
  reported,     \* history: the targets with a round since the start
  alone,        \* history: no two targets' rounds ever overlapped, no crash,
                \* no failed write
  cut,          \* history: what tore a line of the log, {"crash", "full"} at most
  faults

engine == <<task, targetState, compState, reported>>
vars   == <<up, engine, mem, log, lock, alone, cut, faults>>

-----------------------------------------------------------------------------
(* The incident log *)

OpenEvent(id, c) == [ev |-> "open", id |-> id, component |-> c]
UpdateEvent(id)  == [ev |-> "update", id |-> id]
ResolveEvent(id) == [ev |-> "resolve", id |-> id]

IsFirst(incidents, k, id) ==
  incidents[k].id = id /\ \A j \in 1..(k - 1) : incidents[j].id # id

Updated(incident)  == [incident EXCEPT !.updates = @ + 1]
Resolved(incident) == [incident EXCEPT !.resolved = TRUE]

Apply(m, e) ==
  CASE e.ev = "open" ->
         [incidents |-> Append(m.incidents, [id |-> e.id, component |-> e.component,
                                             resolved |-> FALSE, updates |-> 0]),
          nextId    |-> IF e.id + 1 > m.nextId THEN e.id + 1 ELSE m.nextId]
    [] e.ev = "update" ->
         [m EXCEPT !.incidents = [k \in DOMAIN @ |->
            IF IsFirst(@, k, e.id) THEN Updated(@[k]) ELSE @[k]]]
    [] e.ev = "resolve" ->
         [m EXCEPT !.incidents = [k \in DOMAIN @ |->
            IF IsFirst(@, k, e.id) THEN Resolved(@[k]) ELSE @[k]]]

EmptyLog == [incidents |-> <<>>, nextId |-> 1]
Replay(lines) == FoldLeft(LAMBDA m, line : Apply(m, line.event), EmptyLog, lines)

(* Two events on one line do not parse. *)
Loadable(lines) == \A k \in 1..(Len(lines) - 1) : lines[k].ended

OpenIncidents(c) ==
  {k \in DOMAIN mem.incidents : mem.incidents[k].component = c /\ ~mem.incidents[k].resolved}

(* open_for: the newest open incident of c, as a set of at most one id. *)
OpenFor(c) ==
  {mem.incidents[k].id : k \in {i \in OpenIncidents(c) : \A j \in OpenIncidents(c) : j <= i}}

(* Mutants of TransitionEvents: no look for an open incident; a recovery is *)
(* only noted.                                                             *)
TransitionAlwaysOpens(c, new) ==
  IF new >= IncidentAt[c] THEN <<OpenEvent(mem.nextId, c), UpdateEvent(mem.nextId)>> ELSE <<>>
TransitionNeverResolves(c, new) ==
  IF new >= IncidentAt[c] /\ OpenFor(c) = {}
  THEN <<OpenEvent(mem.nextId, c), UpdateEvent(mem.nextId)>>
  ELSE IF OpenFor(c) = {} THEN <<>> ELSE <<UpdateEvent(CHOOSE id \in OpenFor(c) : TRUE)>>

(* What incident_transition writes when component c changes to new. *)
TransitionEvents(c, new) ==
  IF new >= IncidentAt[c]
  THEN IF OpenFor(c) = {} THEN <<OpenEvent(mem.nextId, c), UpdateEvent(mem.nextId)>>
       ELSE <<UpdateEvent(CHOOSE id \in OpenFor(c) : TRUE)>>
  ELSE IF OpenFor(c) = {} THEN <<>>
       ELSE LET id == CHOOSE id \in OpenFor(c) : TRUE IN
            IF new = Operational THEN <<UpdateEvent(id), ResolveEvent(id)>>
            ELSE <<UpdateEvent(id)>>

-----------------------------------------------------------------------------
(* process_round *)

(* Mutant of ComponentSeverity: severities of targets add up. *)
ComponentSeveritySum(c) ==
  LET down == {t \in Watches[c] : targetState[t] = Major} IN
  IF \E t \in down : down # {t} THEN Major + Major
  ELSE IF down # {} THEN Major ELSE Operational

ComponentSeverity(c) ==
  LET down == {t \in Watches[c] : targetState[t] = Major} IN
  IF down = Watches[c] THEN Major
  ELSE IF down # {} THEN Partial
  ELSE IF \E t \in Watches[c] : targetState[t] = Degraded THEN Degraded
  ELSE Operational

Idle == [pc |-> "idle", todo |-> {}, new |-> Operational]
Unlocked == [by |-> Nobody, events |-> <<>>, body |-> FALSE]

EngineInit ==
  /\ task = [t \in Targets |-> Idle]
  /\ targetState = [t \in Targets |-> Operational]
  /\ compState = [c \in Comps |-> Operational]
  /\ reported = {}
  /\ lock = Unlocked

Init ==
  /\ up = TRUE
  /\ EngineInit
  /\ mem = EmptyLog /\ log = <<>>
  /\ alone = TRUE /\ cut = {} /\ faults = 0

(* by_target: the places of t's components in the table. *)
ByTarget(t) == {k \in DOMAIN Components : t \in Watches[Components[k]]}

(* The component task t is at; it goes through them in their order. *)
Current(t) == Components[Min(task[t].todo)]

(* The history lock, then target_state's: both are t's own entry. *)
Round(t, sev) ==
  /\ up /\ task[t] = Idle /\ Len(log) < MaxEvents
  /\ ByTarget(t) # {}
  /\ targetState' = [targetState EXCEPT ![t] = sev]
  /\ task' = [task EXCEPT ![t] = [pc |-> "compute", todo |-> ByTarget(t), new |-> Operational]]
  /\ alone' = (alone /\ \A u \in Targets : task[u] = Idle)
  /\ UNCHANGED <<up, compState, reported, mem, log, lock, cut, faults>>

(* component_severity, under the target_state lock. *)
Compute(t) ==
  /\ up /\ task[t].pc = "compute"
  /\ task' = [task EXCEPT ![t].pc = "swap", ![t].new = ComponentSeverity(Current(t))]
  /\ UNCHANGED <<up, targetState, compState, reported, mem, log, lock, alone, cut, faults>>

(* Task t is done with its current component. *)
NextComponent(t) ==
  LET rest == task[t].todo \ {Min(task[t].todo)} IN
  IF rest = {}
  THEN task' = [task EXCEPT ![t] = Idle] /\ reported' = reported \cup {t}
  ELSE /\ task' = [task EXCEPT ![t].pc = "compute", ![t].todo = rest]
       /\ UNCHANGED reported

(* The swap under the comp_state lock. *)
Swap(t) ==
  /\ up /\ task[t].pc = "swap"
  /\ compState' = [compState EXCEPT ![Current(t)] = task[t].new]
  /\ IF compState[Current(t)] # task[t].new
     THEN task' = [task EXCEPT ![t].pc = "log"] /\ UNCHANGED reported
     ELSE NextComponent(t)
  /\ UNCHANGED <<up, targetState, mem, log, lock, alone, cut, faults>>

(* incident_transition takes the incident lock and decides what to write. *)
Transition(t) ==
  LET events == TransitionEvents(Current(t), task[t].new) IN
  /\ up /\ task[t].pc = "log" /\ lock = Unlocked
  /\ IF events = <<>> THEN NextComponent(t) /\ UNCHANGED lock
     ELSE /\ lock' = [by |-> t, events |-> events, body |-> FALSE]
          /\ UNCHANGED <<task, reported>>
  /\ UNCHANGED <<up, targetState, compState, mem, log, alone, cut, faults>>

(* manual_update and manual_resolve. *)
ManualUpdate(id) ==
  /\ up /\ lock = Unlocked /\ Len(log) < MaxEvents
  /\ \E k \in DOMAIN mem.incidents : mem.incidents[k].id = id
  /\ lock' = [by |-> Admin, events |-> <<UpdateEvent(id)>>, body |-> FALSE]
  /\ UNCHANGED <<up, engine, mem, log, alone, cut, faults>>

ManualResolve(id) ==
  /\ up /\ lock = Unlocked /\ Len(log) < MaxEvents
  /\ \E k \in DOMAIN mem.incidents : mem.incidents[k].id = id /\ ~mem.incidents[k].resolved
  /\ lock' = [by |-> Admin, events |-> <<UpdateEvent(id), ResolveEvent(id)>>, body |-> FALSE]
  /\ UNCHANGED <<up, engine, mem, log, alone, cut, faults>>

-----------------------------------------------------------------------------
(* IncidentLog::record: writeln! writes the event, then the newline. *)

Release ==
  /\ lock' = Unlocked
  /\ IF lock.by = Admin THEN UNCHANGED <<task, reported>> ELSE NextComponent(lock.by)

WriteBody ==
  /\ up /\ lock.by # Nobody /\ ~lock.body
  /\ log' = Append(log, [event |-> Head(lock.events), ended |-> FALSE])
  /\ lock' = [lock EXCEPT !.body = TRUE]
  /\ UNCHANGED <<up, engine, mem, alone, cut, faults>>

(* Mutant of WriteNewline: write! instead of writeln!. *)
WriteNoNewline ==
  /\ up /\ lock.body
  /\ mem' = Apply(mem, Head(lock.events))
  /\ IF Len(lock.events) = 1 THEN Release
     ELSE /\ lock' = [lock EXCEPT !.events = Tail(@), !.body = FALSE]
          /\ UNCHANGED <<task, reported>>
  /\ UNCHANGED <<up, targetState, compState, log, alone, cut, faults>>

(* The newline, and the event is applied in memory. *)
WriteNewline ==
  /\ up /\ lock.body
  /\ log' = [log EXCEPT ![Len(log)].ended = TRUE]
  /\ mem' = Apply(mem, Head(lock.events))
  /\ IF Len(lock.events) = 1 THEN Release
     ELSE /\ lock' = [lock EXCEPT !.events = Tail(@), !.body = FALSE]
          /\ UNCHANGED <<task, reported>>
  /\ UNCHANGED <<up, targetState, compState, alone, cut, faults>>

(* Mutant of WriteFails: the event is applied before it is written. *)
WriteFailsApplied ==
  /\ up /\ lock.by # Nobody /\ ~lock.body
  /\ faults < MaxFaults /\ faults' = faults + 1 /\ alone' = FALSE
  /\ mem' = Apply(mem, Head(lock.events))
  /\ Release
  /\ UNCHANGED <<up, targetState, compState, log, cut>>

(* The file cannot be opened or written: record's error ends the          *)
(* transition, which is logged and not tried again.                        *)
WriteFails ==
  /\ up /\ lock.by # Nobody /\ ~lock.body
  /\ faults < MaxFaults /\ faults' = faults + 1 /\ alone' = FALSE
  /\ Release
  /\ UNCHANGED <<up, targetState, compState, mem, log, cut>>

(* The event went in, its newline did not (the disk filled up): the event  *)
(* is in the file but not in memory, and the next one will share its line. *)
NewlineFails ==
  /\ up /\ lock.body
  /\ faults < MaxFaults /\ faults' = faults + 1 /\ alone' = FALSE
  /\ cut' = cut \cup {"full"}
  /\ Release
  /\ UNCHANGED <<up, targetState, compState, mem, log>>

-----------------------------------------------------------------------------
(* The process dies, or stops or reloads between two steps of its tasks. *)
Crash ==
  /\ up /\ faults < MaxFaults
  /\ up' = FALSE /\ faults' = faults + 1 /\ alone' = FALSE
  /\ cut' = cut \cup (IF lock.body THEN {"crash"} ELSE {})
  /\ task' = [t \in Targets |-> Idle]
  /\ targetState' = [t \in Targets |-> Operational]
  /\ compState' = [c \in Comps |-> Operational]
  /\ reported' = {} /\ lock' = Unlocked /\ mem' = EmptyLog
  /\ UNCHANGED log

(* StatusEngine::new replays the log; it fails, and the daemon with it, on *)
(* a line that does not parse.                                             *)
Start ==
  /\ ~up /\ Loadable(log)
  /\ up' = TRUE
  /\ mem' = Replay(log)
  /\ UNCHANGED <<engine, log, lock, alone, cut, faults>>

Manual == \E id \in 1..MaxEvents : ManualUpdate(id) \/ ManualResolve(id)

Step(t) == Compute(t) \/ Swap(t) \/ Transition(t)

Next ==
  \/ \E t \in Targets, sev \in TargetSeverities : Round(t, sev)
  \/ \E t \in Targets : Step(t)
  \/ Manual
  \/ WriteBody \/ WriteNewline \/ WriteFails \/ NewlineFails
  \/ Crash \/ Start

Spec == Init /\ [][Next]_vars

-----------------------------------------------------------------------------
(* Properties *)

Event ==
  [ev : {"open"}, id : Nat, component : Comps] \cup [ev : {"update", "resolve"}, id : Nat]
Incident == [id : Nat, component : Comps, resolved : BOOLEAN, updates : Nat]

(* Every variable has its type. *)
TypeOK ==
  /\ up \in BOOLEAN
  /\ \A t \in Targets : task[t].pc \in {"idle", "compute", "swap", "log"}
  /\ targetState \in [Targets -> TargetSeverities]
  /\ compState \in [Comps -> Severities]
  /\ mem.incidents \in Seq(Incident) /\ mem.nextId \in Nat
  /\ log \in Seq([event : Event, ended : BOOLEAN])
  /\ lock.by \in Targets \cup {Admin, Nobody} /\ lock.events \in Seq(Event)
  /\ reported \subseteq Targets

(* Numbers name incidents: number k is the k-th that opened. *)
IdsAreNumbers ==
  LET m == Replay(log) IN
  /\ m.nextId = Len(m.incidents) + 1
  /\ \A k \in DOMAIN m.incidents : m.incidents[k].id = k

(* The memory is the replay of the log, an event whose newline is not yet  *)
(* written excepted, and the replay names incidents by their numbers: a     *)
(* restart loses no incident, invents none and renumbers none, until an    *)
(* event is left in the log whose newline could not be written.            *)
MemoryIsReplay ==
  "full" \notin cut =>
    /\ up => mem = Replay(IF lock.body THEN Front(log) ELSE log)
    /\ IdsAreNumbers

(* The daemon refuses to start on its own log only after a crash, or a     *)
(* full disk, took one event's newline and the next event was written to   *)
(* the same line.                                                          *)
StartsUnlessCut == ~Loadable(log) => cut # {}

(* The incidents the engine has, or will have when it is started again,    *)
(* never do what IncidentBook forbids: no second open incident of a        *)
(* component, none resolved twice or renumbered, whatever the interleaving *)
(* of tasks and manual updates, the writes that fail and the crashes.  An   *)
(* event whose newline could not be written ends that.                     *)
Entries(incidents) ==
  [k \in DOMAIN incidents |->
     [component |-> incidents[k].component, resolved |-> incidents[k].resolved]]

BookOfEngine == Entries(IF up THEN mem.incidents ELSE Replay(log).incidents)

Book == INSTANCE IncidentBook WITH Keys <- Comps, book <- BookOfEngine

ImplementsBook ==
  Book!BookInit /\ [][("full" \notin cut') => Book!BookNext]_BookOfEngine

Quiet == up /\ lock = Unlocked /\ \A t \in Targets : task[t] = Idle

(* Incidents are auto-resolved: once every target of a component has       *)
(* reported and the board shows it operational, no incident of it is open. *)
RecoveredIsResolved ==
  Quiet => \A c \in Comps :
    (compState[c] = Operational /\ Watches[c] \subseteq reported) => OpenIncidents(c) = {}

(* So it is as long as rounds do not overlap, the daemon does not restart  *)
(* and the log can be written, whatever an administrator does meanwhile;    *)
(* the board then also shows what the latest rounds of the targets say.    *)
ResolvedWhenAlone ==
  alone => /\ RecoveredIsResolved
           /\ Quiet => \A c \in Comps : compState[c] = ComponentSeverity(c)
=============================================================================
