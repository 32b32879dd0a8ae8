------------------------- MODULE StatusEngineProofs -------------------------
(***************************************************************************)
(* Proofs of IncidentBook, and of StatusEngine, which implements it, for   *)
(* any targets and components and any number of events and faults.  The    *)
(* invariant says what the holder of the incident log's lock may write     *)
(* (Fits), that the memory is the replay of the lines written out and a    *)
(* book of numbered incidents (BookKept), and what one task by itself      *)
(* leaves behind (InTurn).                                                 *)
(***************************************************************************)
EXTENDS StatusEngine, IncidentBook, FoldTheorems, SequenceTheorems

-----------------------------------------------------------------------------
(* The invariant *)

Line         == [event : Event, ended : BOOLEAN]
IncidentLogs == [incidents : Seq(Incident), nextId : Nat]
TaskRecords  == [pc : {"idle", "compute", "swap", "log"}, todo : SUBSET DOMAIN Components,
                 new : Severities]
LockRecords  == [by : Targets \cup {Admin, Nobody}, events : Seq(Event), body : BOOLEAN]

EngineTypes ==
  /\ up \in BOOLEAN
  /\ task \in [Targets -> TaskRecords]
  /\ targetState \in [Targets -> TargetSeverities]
  /\ compState \in [Comps -> Severities]
  /\ mem \in IncidentLogs
  /\ log \in Seq(Line)
  /\ lock \in LockRecords
  /\ reported \subseteq Targets
  /\ alone \in BOOLEAN
  /\ cut \subseteq {"crash", "full"}

(* An idle task has nothing to do, and the others have. *)
TaskOk(r, t) ==
  /\ r.pc = "idle" => r = Idle
  /\ r.pc # "idle" => r.todo # {} /\ r.todo \subseteq ByTarget(t)

TasksOk == \A t \in Targets : TaskOk(task[t], t)

(* Whoever holds the lock has something to write, and a task that holds it *)
(* waits for that.  An event without its newline is the one in hand.       *)
LockOk ==
  /\ lock.by = Nobody => lock = Unlocked
  /\ lock.by # Nobody => lock.events # <<>>
  /\ lock.by \in Targets => task[lock.by].pc = "log"
  /\ lock.body => /\ lock.by # Nobody /\ log # <<>>
                  /\ log[Len(log)].event = Head(lock.events)

DownIsBlank ==
  ~up => /\ lock = Unlocked
         /\ \A t \in Targets : task[t] = Idle

LinesEnd ==
  cut = {} => \A k \in DOMAIN log : ~log[k].ended => k = Len(log) /\ lock.body

Open(m, c) == {k \in DOMAIN m.incidents : m.incidents[k].component = c /\ ~m.incidents[k].resolved}

(* Incidents are numbered, and a component has one that is open at most.   *)
GoodLog(m) ==
  /\ m \in IncidentLogs
  /\ m.nextId = Len(m.incidents) + 1
  /\ \A k \in DOMAIN m.incidents : m.incidents[k].id = k
  /\ \A c \in Comps : \A i, j \in Open(m, c) : i = j

(* What may be written to the log m: an incident of a component that has   *)
(* none, an update, or an update and the end of one that is open.          *)
Fits(m, events) ==
  \/ \E c \in Comps : /\ Open(m, c) = {}
                      /\ events = <<OpenEvent(m.nextId, c), UpdateEvent(m.nextId)>>
  \/ \E id \in DOMAIN m.incidents : events = <<UpdateEvent(id)>>
  \/ \E id \in DOMAIN m.incidents :
       /\ ~m.incidents[id].resolved
       /\ \/ events = <<UpdateEvent(id), ResolveEvent(id)>>
          \/ events = <<ResolveEvent(id)>>

Settled == IF lock.body THEN Front(log) ELSE log

BookKept ==
  /\ Replay(log) \in IncidentLogs
  /\ "full" \notin cut =>
       /\ GoodLog(Replay(log))
       /\ up => GoodLog(mem) /\ mem = Replay(Settled)
       /\ lock.by # Nobody => Fits(mem, lock.events)

(* What a task that found c at severity new writes: it opens incidents of   *)
(* c only, and none on a recovery, which ends the one that is open.        *)
Answers(m, events, c, new) ==
  /\ Head(events).ev = "open" => Head(events).component = c /\ new # Operational
  /\ new = Operational =>
       \E id \in DOMAIN m.incidents :
         /\ \/ events = <<UpdateEvent(id), ResolveEvent(id)>>
            \/ events = <<ResolveEvent(id)>>
         /\ Open(m, c) \subseteq {id}

(* As long as rounds do not overlap, the daemon lives and the log can be   *)
(* written, one task at most is at work; the board is right but for the    *)
(* components it has yet to come to; and a component shown operational has *)
(* no open incident, but that of which it has yet to end the incident.     *)
OneAtWork ==
  \A t, u \in Targets : task[t].pc # "idle" /\ task[u].pc # "idle" => t = u

Computed ==
  \A t \in Targets :
    /\ task[t].pc \in {"swap", "log"} => task[t].new = ComponentSeverity(Current(t))
    /\ task[t].pc = "log" => compState[Current(t)] = task[t].new

BoardRight ==
  \A k \in DOMAIN Components :
    (\A t \in Targets : k \notin task[t].todo) =>
      compState[Components[k]] = ComponentSeverity(Components[k])

RecoveryTold ==
  \A k \in DOMAIN Components :
    (/\ compState[Components[k]] = Operational
     /\ \A t \in Targets : task[t].pc = "log" => k # Min(task[t].todo)) =>
      Open(mem, Components[k]) = {}

WritesAnswers ==
  /\ lock.by = Admin => Head(lock.events).ev # "open"
  /\ lock.by \in Targets => Answers(mem, lock.events, Current(lock.by), task[lock.by].new)

InTurn ==
  alone => /\ up /\ cut = {}
           /\ OneAtWork /\ Computed /\ BoardRight /\ RecoveryTold /\ WritesAnswers

EngineInv ==
  /\ EngineTypes /\ TasksOk /\ LockOk /\ DownIsBlank /\ LinesEnd
  /\ BookKept /\ InTurn

-----------------------------------------------------------------------------
(* Replay *)

(* The function Replay defines by recursion over the subsets of the log. *)
RecLog(lines, it) ==
  it = [s \in SUBSET DOMAIN lines |->
          IF s = {} THEN EmptyLog ELSE Apply(it[s \ {Max(s)}], lines[Max(s)].event)]
ItLog(lines) == CHOOSE it : RecLog(lines, it)

LEMMA ReplayIsIt ==
  ASSUME NEW lines
  PROVE  Replay(lines) = ItLog(lines)[DOMAIN lines]
  BY DEF Replay, FoldLeft, MapThenFoldSet, ItLog, RecLog

LEMMA RecLogExists ==
  ASSUME NEW S, NEW lines \in Seq(S)
  PROVE  RecLog(lines, ItLog(lines))
  <1> DEFINE D == DOMAIN lines
             Part(n, g) ==
               g = [s \in SUBSET D |-> IF s = {} \/ Cardinality(s) > n THEN EmptyLog
                                       ELSE Apply(g[s \ {Max(s)}], lines[Max(s)].event)]
             T == {n \in Nat : \E g : Part(n, g)}
  <1>0. D = 1..Len(lines) /\ Len(lines) \in Nat /\ IsFiniteSet(D)
    BY FS_Interval
  <1> HIDE DEF D
  <1>1. \A s \in SUBSET D : IsFiniteSet(s) /\ Cardinality(s) \in Nat
    BY <1>0, FS_Subset, FS_CardinalityType
  <1>2. \A s \in SUBSET D : s # {} => /\ Max(s) \in s /\ s \ {Max(s)} \in SUBSET D
                                      /\ Cardinality(s \ {Max(s)}) = Cardinality(s) - 1
    <2> SUFFICES ASSUME NEW s \in SUBSET D, s # {}
                 PROVE  /\ Max(s) \in s /\ s \ {Max(s)} \in SUBSET D
                        /\ Cardinality(s \ {Max(s)}) = Cardinality(s) - 1
      OBVIOUS
    <2>1. Max(s) \in s
      BY <1>0, MaxIn
    <2> QED  BY <1>1, <2>1, FS_RemoveElement
  <1>3. 0 \in T
    <2> DEFINE g == [s \in SUBSET D |-> EmptyLog]
    <2>1. \A s \in SUBSET D : s = {} \/ Cardinality(s) > 0
      BY <1>1, FS_EmptySet
    <2>2. Part(0, g)
      BY <2>1
    <2>3. \E k : Part(0, k)
      <3> HIDE DEF g
      <3> QED  BY <2>2
    <2> QED  BY <2>3
  <1>4. ASSUME NEW n \in T PROVE n + 1 \in T
    <2>1. PICK g : Part(n, g)
      OBVIOUS
    <2> DEFINE h == [s \in SUBSET D |-> IF s = {} \/ Cardinality(s) > n + 1 THEN EmptyLog
                                        ELSE Apply(g[s \ {Max(s)}], lines[Max(s)].event)]
    <2>2. \A s \in SUBSET D : Cardinality(s) <= n => h[s] = g[s]
      <3> SUFFICES ASSUME NEW s \in SUBSET D, Cardinality(s) <= n PROVE h[s] = g[s]
        OBVIOUS
      <3>1. ~(Cardinality(s) > n) /\ ~(Cardinality(s) > n + 1)
        BY <1>1
      <3>2. g[s] = IF s = {} THEN EmptyLog ELSE Apply(g[s \ {Max(s)}], lines[Max(s)].event)
        BY <2>1, <3>1
      <3> QED  BY <3>1, <3>2
    <2>3. \A s \in SUBSET D : s # {} /\ ~(Cardinality(s) > n + 1) =>
            h[s \ {Max(s)}] = g[s \ {Max(s)}]
      <3> HIDE DEF h
      <3>1. n \in Nat
        OBVIOUS
      <3> HIDE DEF T
      <3> SUFFICES ASSUME NEW s \in SUBSET D, s # {}, ~(Cardinality(s) > n + 1)
                   PROVE  h[s \ {Max(s)}] = g[s \ {Max(s)}]
        OBVIOUS
      <3>2. s \ {Max(s)} \in SUBSET D /\ Cardinality(s \ {Max(s)}) = Cardinality(s) - 1
        BY <1>2
      <3>3. Cardinality(s \ {Max(s)}) <= n
        <4>1. Cardinality(s) \in Nat
          BY <1>1
        <4> QED  BY <3>1, <3>2, <4>1
      <3> QED  BY <2>2, <3>2, <3>3
    <2>4. Part(n + 1, h)
      BY <2>3
    <2>5. \E k : Part(n + 1, k)
      <3> HIDE DEF h
      <3> QED  BY <2>4
    <2>6. n + 1 \in Nat
      OBVIOUS
    <2> QED  BY <2>5, <2>6
  <1>5. T = Nat
    BY <1>3, <1>4, AllNat
  <1>6. PICK g : Part(Cardinality(D), g)
    BY <1>1, <1>5
  <1>7. \A s \in SUBSET D : ~(Cardinality(s) > Cardinality(D))
    <2> SUFFICES ASSUME NEW s \in SUBSET D PROVE ~(Cardinality(s) > Cardinality(D))
      OBVIOUS
    <2>1. Cardinality(s) <= Cardinality(D)
      BY <1>0, FS_Subset
    <2>2. Cardinality(s) \in Nat /\ Cardinality(D) \in Nat
      BY <1>1
    <2> QED  BY <2>1, <2>2
  <1>8. RecLog(lines, g)
    BY <1>6, <1>7 DEF RecLog, D
  <1> QED  BY <1>8 DEF ItLog

(* Two logs that begin with the same events agree on that beginning. *)
LEMMA RecLogUnique ==
  ASSUME NEW a, NEW b, NEW i, NEW j, RecLog(a, i), RecLog(b, j), NEW n \in Nat,
         1..n \subseteq DOMAIN a, 1..n \subseteq DOMAIN b,
         \A k \in 1..n : a[k].event = b[k].event
  PROVE  i[1..n] = j[1..n]
  <1> DEFINE S == 1..n
             T == {s \in SUBSET S : i[s] = j[s]}
  <1>1. ASSUME NEW s \in SUBSET S, \A x \in s : s \ {x} \in T PROVE s \in T
    <2>1. s \in SUBSET DOMAIN a /\ s \in SUBSET DOMAIN b
      OBVIOUS
    <2>2. /\ i[s] = IF s = {} THEN EmptyLog ELSE Apply(i[s \ {Max(s)}], a[Max(s)].event)
          /\ j[s] = IF s = {} THEN EmptyLog ELSE Apply(j[s \ {Max(s)}], b[Max(s)].event)
      BY <2>1 DEF RecLog
    <2>3. CASE s = {}
      BY <2>2, <2>3
    <2>4. CASE s # {}
      <3>1. Max(s) \in s
        BY <2>4, MaxIn
      <3>2. s \ {Max(s)} \in T /\ a[Max(s)].event = b[Max(s)].event
        BY <1>1, <3>1
      <3> QED  BY <2>2, <2>4, <3>2
    <2> QED  BY <2>3, <2>4
  <1>2. IsFiniteSet(S) /\ T \in SUBSET (SUBSET S)
    BY FS_Interval
  <1> HIDE DEF T, S
  <1>3. S \in T
    BY <1>1, <1>2, AllSubsets
  <1> QED  BY <1>3 DEF T, S

LEMMA ReplayEmpty == Replay(<<>>) = EmptyLog
  <1>1. <<>> \in Seq({})
    OBVIOUS
  <1>2. RecLog(<<>>, ItLog(<<>>))
    BY <1>1, RecLogExists
  <1>3. DOMAIN <<>> = {}
    OBVIOUS
  <1> QED  BY <1>2, <1>3, ReplayIsIt DEF RecLog

(* What is replayed does not depend on newlines. *)
LEMMA ReplaySame ==
  ASSUME NEW S, NEW a \in Seq(S), NEW b \in Seq(S), Len(a) = Len(b),
         \A k \in 1..Len(a) : a[k].event = b[k].event
  PROVE  Replay(a) = Replay(b)
  <1>1. DOMAIN a = 1..Len(a) /\ DOMAIN b = 1..Len(a) /\ Len(a) \in Nat
    OBVIOUS
  <1>2. RecLog(a, ItLog(a)) /\ RecLog(b, ItLog(b))
    BY RecLogExists
  <1>3. ItLog(a)[1..Len(a)] = ItLog(b)[1..Len(a)]
    BY <1>1, <1>2, RecLogUnique
  <1> QED  BY <1>1, <1>3, ReplayIsIt

(* A line more is an event more applied. *)
LEMMA ReplayAppend ==
  ASSUME NEW S, NEW lines \in Seq(S), NEW x \in S
  PROVE  Replay(Append(lines, x)) = Apply(Replay(lines), x.event)
  <1> DEFINE n == Len(lines)
             b == Append(lines, x)
             s == 1..(n + 1)
  <1>1. /\ n \in Nat /\ b \in Seq(S) /\ DOMAIN lines = 1..n /\ DOMAIN b = s
        /\ \A k \in 1..n : b[k] = lines[k]
        /\ b[n + 1] = x
    OBVIOUS
  <1> HIDE DEF n, b
  <1>2. RecLog(lines, ItLog(lines)) /\ RecLog(b, ItLog(b))
    BY <1>1, RecLogExists
  <1>3. Max(s) = n + 1
    <2>1. Max(s) \in s /\ \A y \in s : y <= Max(s)
      <3>1. n + 1 \in Nat /\ n + 1 \in s
        BY <1>1
      <3> QED  BY <3>1, MaxIn
    <2> QED  BY <1>1, <2>1
  <1>4. n + 1 \in s /\ s \ {n + 1} = 1..n /\ 1..n \subseteq s
    <2>1. n \in Nat
      BY <1>1
    <2> QED  BY <2>1
  <1>5. ItLog(b)[s] = Apply(ItLog(b)[1..n], x.event)
    <2> HIDE DEF s
    <2>1. ItLog(b)[s] = Apply(ItLog(b)[s \ {Max(s)}], b[Max(s)].event)
      BY <1>1, <1>2, <1>4 DEF RecLog
    <2> QED  BY <2>1, <1>1, <1>3, <1>4
  <1>6. ItLog(b)[1..n] = ItLog(lines)[1..n]
    <2>1. 1..n \subseteq DOMAIN b /\ 1..n \subseteq DOMAIN lines
      BY <1>1, <1>4
    <2>2. \A k \in 1..n : b[k].event = lines[k].event
      BY <1>1
    <2> QED  BY <1>1, <1>2, <2>1, <2>2, RecLogUnique
  <1> QED  BY <1>1, <1>5, <1>6, ReplayIsIt DEF b

-----------------------------------------------------------------------------
(* Apply *)

LEMMA EventKinds ==
  ASSUME NEW e \in Event
  PROVE  /\ e.ev \in {"open", "update", "resolve"} /\ e.id \in Nat
         /\ e.ev = "open" => e.component \in Comps
  BY DEF Event

LEMMA EventTypes ==
  ASSUME NEW id \in Nat, NEW c \in Comps
  PROVE  OpenEvent(id, c) \in Event /\ UpdateEvent(id) \in Event /\ ResolveEvent(id) \in Event
  BY DEF Event, OpenEvent, UpdateEvent, ResolveEvent

LEMMA ApplyOpens ==
  ASSUME NEW m \in IncidentLogs, NEW e \in Event, e.ev = "open"
  PROVE  /\ Apply(m, e).incidents =
              Append(m.incidents, [id |-> e.id, component |-> e.component,
                                   resolved |-> FALSE, updates |-> 0])
         /\ Apply(m, e).nextId = IF e.id + 1 > m.nextId THEN e.id + 1 ELSE m.nextId
         /\ Apply(m, e) \in IncidentLogs
  <1> DEFINE i == [id |-> e.id, component |-> e.component, resolved |-> FALSE, updates |-> 0]
             n == IF e.id + 1 > m.nextId THEN e.id + 1 ELSE m.nextId
  <1>1. Apply(m, e) = [incidents |-> Append(m.incidents, i), nextId |-> n]
    BY DEF Apply
  <1>2. e.id \in Nat /\ e.component \in Comps /\ m.incidents \in Seq(Incident) /\ m.nextId \in Nat
    BY EventKinds DEF IncidentLogs
  <1>3. i \in Incident /\ n \in Nat
    BY <1>2 DEF Incident
  <1> HIDE DEF i, n
  <1>4. Append(m.incidents, i) \in Seq(Incident)
    BY <1>2, <1>3
  <1> QED  BY <1>1, <1>3, <1>4 DEF IncidentLogs, i, n

LEMMA ApplyUpdates ==
  ASSUME NEW m \in IncidentLogs, NEW e \in Event, e.ev = "update"
  PROVE  /\ Apply(m, e) \in IncidentLogs
         /\ Apply(m, e).nextId = m.nextId
         /\ Len(Apply(m, e).incidents) = Len(m.incidents)
         /\ DOMAIN Apply(m, e).incidents = DOMAIN m.incidents
         /\ \A k \in DOMAIN m.incidents :
              /\ Apply(m, e).incidents[k].id = m.incidents[k].id
              /\ Apply(m, e).incidents[k].component = m.incidents[k].component
              /\ Apply(m, e).incidents[k].resolved = m.incidents[k].resolved
  <1> DEFINE s == m.incidents
             f == [k \in DOMAIN s |-> IF IsFirst(s, k, e.id)
                                      THEN Updated(s[k]) ELSE s[k]]
  <1>1. Apply(m, e) = [m EXCEPT !.incidents = f]
    BY DEF Apply
  <1>2. s \in Seq(Incident) /\ m.nextId \in Nat
    BY DEF IncidentLogs
  <1>3. DOMAIN s = 1..Len(s) /\ Len(s) \in Nat /\ \A k \in DOMAIN s : s[k] \in Incident
    BY <1>2
  <1>4. ASSUME NEW k \in DOMAIN s
        PROVE  /\ f[k] \in Incident /\ f[k].id = s[k].id /\ f[k].component = s[k].component
               /\ f[k].resolved = s[k].resolved
    BY <1>3 DEF Incident, Updated
  <1>5. f \in Seq(Incident) /\ Len(f) = Len(s) /\ DOMAIN f = DOMAIN s
    <2>1. f \in [1..Len(s) -> Incident]
      <3>1. f = [k \in 1..Len(s) |-> f[k]]
        BY <1>3
      <3> HIDE DEF f
      <3> QED  BY <1>3, <1>4, <3>1
    <2> HIDE DEF f
    <2>2. f \in Seq(Incident) /\ Len(f) = Len(s)
      BY <1>3, <2>1
    <2> QED  BY <1>3, <2>1, <2>2
  <1>6. Apply(m, e).incidents = f /\ Apply(m, e).nextId = m.nextId /\ Apply(m, e) \in IncidentLogs
    <2> HIDE DEF f
    <2> QED  BY <1>1, <1>5 DEF IncidentLogs
  <1> HIDE DEF f
  <1> QED  BY <1>4, <1>5, <1>6

LEMMA ApplyResolves ==
  ASSUME NEW m \in IncidentLogs, NEW e \in Event, e.ev = "resolve"
  PROVE  /\ Apply(m, e) \in IncidentLogs
         /\ Apply(m, e).nextId = m.nextId
         /\ Len(Apply(m, e).incidents) = Len(m.incidents)
         /\ DOMAIN Apply(m, e).incidents = DOMAIN m.incidents
         /\ \A k \in DOMAIN m.incidents :
              /\ Apply(m, e).incidents[k].id = m.incidents[k].id
              /\ Apply(m, e).incidents[k].component = m.incidents[k].component
              /\ Apply(m, e).incidents[k].resolved =
                   (m.incidents[k].resolved \/ IsFirst(m.incidents, k, e.id))
  <1> DEFINE s == m.incidents
             f == [k \in DOMAIN s |-> IF IsFirst(s, k, e.id)
                                      THEN Resolved(s[k]) ELSE s[k]]
  <1>1. Apply(m, e) = [m EXCEPT !.incidents = f]
    BY DEF Apply
  <1>2. s \in Seq(Incident) /\ m.nextId \in Nat
    BY DEF IncidentLogs
  <1>3. DOMAIN s = 1..Len(s) /\ Len(s) \in Nat /\ \A k \in DOMAIN s : s[k] \in Incident
    BY <1>2
  <1>4. ASSUME NEW k \in DOMAIN s
        PROVE  /\ f[k] \in Incident /\ f[k].id = s[k].id /\ f[k].component = s[k].component
               /\ f[k].resolved = (s[k].resolved \/ IsFirst(s, k, e.id))
    <2>1. CASE IsFirst(s, k, e.id)
      BY <1>3, <2>1 DEF Incident, Resolved
    <2>2. CASE ~IsFirst(s, k, e.id)
      BY <1>3, <2>2 DEF Incident, Resolved
    <2> QED  BY <2>1, <2>2
  <1>5. f \in Seq(Incident) /\ Len(f) = Len(s) /\ DOMAIN f = DOMAIN s
    <2>1. f \in [1..Len(s) -> Incident]
      <3>1. f = [k \in 1..Len(s) |-> f[k]]
        BY <1>3
      <3> HIDE DEF f
      <3> QED  BY <1>3, <1>4, <3>1
    <2> HIDE DEF f
    <2>2. f \in Seq(Incident) /\ Len(f) = Len(s)
      BY <1>3, <2>1
    <2> QED  BY <1>3, <2>1, <2>2
  <1>6. Apply(m, e).incidents = f /\ Apply(m, e).nextId = m.nextId /\ Apply(m, e) \in IncidentLogs
    <2> HIDE DEF f
    <2> QED  BY <1>1, <1>5 DEF IncidentLogs
  <1> HIDE DEF f
  <1> QED  BY <1>4, <1>5, <1>6

LEMMA ApplyType ==
  ASSUME NEW m \in IncidentLogs, NEW e \in Event
  PROVE  Apply(m, e) \in IncidentLogs
  BY EventKinds, ApplyOpens, ApplyUpdates, ApplyResolves

-----------------------------------------------------------------------------
(* What an event does to a log of numbered incidents *)

LEMMA GoodFacts ==
  ASSUME NEW m, GoodLog(m)
  PROVE  /\ m \in IncidentLogs /\ m.incidents \in Seq(Incident)
         /\ DOMAIN m.incidents = 1..Len(m.incidents) /\ Len(m.incidents) \in Nat
         /\ m.nextId \in Nat /\ m.nextId = Len(m.incidents) + 1
         /\ \A k, id \in DOMAIN m.incidents : IsFirst(m.incidents, k, id) <=> k = id
  <1>1. m.incidents \in Seq(Incident) /\ m.nextId \in Nat
    BY DEF GoodLog, IncidentLogs
  <1>2. DOMAIN m.incidents = 1..Len(m.incidents) /\ Len(m.incidents) \in Nat
    BY <1>1
  <1>3. \A k, id \in DOMAIN m.incidents : IsFirst(m.incidents, k, id) <=> k = id
    BY <1>2 DEF GoodLog, IsFirst
  <1> QED  BY <1>1, <1>2, <1>3 DEF GoodLog

LEMMA OpenKeepsGood ==
  ASSUME NEW m, GoodLog(m), NEW c \in Comps, Open(m, c) = {}
  PROVE  LET a == Apply(m, OpenEvent(m.nextId, c)) IN
         /\ GoodLog(a)
         /\ m.nextId \in DOMAIN a.incidents
         /\ \A d \in Comps : Open(a, d) = IF d = c THEN {m.nextId} ELSE Open(m, d)
  <1> DEFINE e == OpenEvent(m.nextId, c)
             a == Apply(m, e)
             i == [id |-> m.nextId, component |-> c, resolved |-> FALSE, updates |-> 0]
             n == Len(m.incidents)
  <1>1. /\ m \in IncidentLogs /\ m.incidents \in Seq(Incident) /\ DOMAIN m.incidents = 1..n
        /\ n \in Nat /\ m.nextId \in Nat /\ m.nextId = n + 1
    BY GoodFacts
  <1>2. e \in Event /\ e.ev = "open" /\ e.id = m.nextId /\ e.component = c
    BY <1>1, EventTypes DEF OpenEvent
  <1>3. /\ a.incidents = Append(m.incidents, i) /\ a \in IncidentLogs
        /\ a.nextId = IF m.nextId + 1 > m.nextId THEN m.nextId + 1 ELSE m.nextId
    BY <1>1, <1>2, ApplyOpens
  <1>4. i.id = n + 1 /\ i.component = c /\ i.resolved = FALSE
    BY <1>1
  <1> HIDE DEF a, e, i, n
  <1>5. /\ Len(a.incidents) = n + 1 /\ DOMAIN a.incidents = 1..(n + 1)
        /\ \A k \in 1..n : a.incidents[k] = m.incidents[k]
        /\ a.incidents[n + 1] = i
    BY <1>1, <1>3 DEF n
  <1>6. a.nextId = Len(a.incidents) + 1 /\ m.nextId \in DOMAIN a.incidents
    BY <1>1, <1>3, <1>5
  <1>7. \A k \in DOMAIN a.incidents : a.incidents[k].id = k
    BY <1>1, <1>4, <1>5 DEF GoodLog
  <1>8. ASSUME NEW d \in Comps
        PROVE  Open(a, d) = IF d = c THEN {m.nextId} ELSE Open(m, d)
    <2>1. Open(a, d) = Open(m, d) \cup (IF d = c THEN {n + 1} ELSE {})
      BY <1>1, <1>4, <1>5 DEF Open
    <2> QED  BY <1>1, <2>1
  <1>9. \A d \in Comps : \A j, k \in Open(a, d) : j = k
    BY <1>8 DEF GoodLog
  <1> QED  BY <1>3, <1>6, <1>7, <1>8, <1>9 DEF GoodLog, a, e

LEMMA UpdateKeepsGood ==
  ASSUME NEW m, GoodLog(m), NEW id \in DOMAIN m.incidents
  PROVE  LET a == Apply(m, UpdateEvent(id)) IN
         /\ GoodLog(a)
         /\ DOMAIN a.incidents = DOMAIN m.incidents
         /\ \A k \in DOMAIN m.incidents : a.incidents[k].resolved = m.incidents[k].resolved
         /\ \A d \in Comps : Open(a, d) = Open(m, d)
  <1> DEFINE e == UpdateEvent(id)
             a == Apply(m, e)
  <1>1. m \in IncidentLogs /\ id \in Nat
    BY GoodFacts
  <1>2. e \in Event /\ e.ev = "update"
    BY <1>1 DEF UpdateEvent, Event
  <1>3. /\ a \in IncidentLogs /\ a.nextId = m.nextId
        /\ Len(a.incidents) = Len(m.incidents) /\ DOMAIN a.incidents = DOMAIN m.incidents
        /\ \A k \in DOMAIN m.incidents :
             /\ a.incidents[k].id = m.incidents[k].id
             /\ a.incidents[k].component = m.incidents[k].component
             /\ a.incidents[k].resolved = m.incidents[k].resolved
    BY <1>1, <1>2, ApplyUpdates
  <1> HIDE DEF a, e
  <1>4. \A d \in Comps : Open(a, d) = Open(m, d)
    BY <1>3 DEF Open
  <1> QED  BY <1>3, <1>4 DEF GoodLog, a, e

LEMMA ResolveKeepsGood ==
  ASSUME NEW m, GoodLog(m), NEW id \in DOMAIN m.incidents
  PROVE  LET a == Apply(m, ResolveEvent(id)) IN
         /\ GoodLog(a)
         /\ DOMAIN a.incidents = DOMAIN m.incidents
         /\ \A d \in Comps : Open(a, d) = Open(m, d) \ {id}
  <1> DEFINE e == ResolveEvent(id)
             a == Apply(m, e)
  <1>1. m \in IncidentLogs /\ id \in Nat
    BY GoodFacts
  <1>2. e \in Event /\ e.ev = "resolve" /\ e.id = id
    BY <1>1 DEF ResolveEvent, Event
  <1>3. /\ a \in IncidentLogs /\ a.nextId = m.nextId
        /\ Len(a.incidents) = Len(m.incidents) /\ DOMAIN a.incidents = DOMAIN m.incidents
        /\ \A k \in DOMAIN m.incidents :
             /\ a.incidents[k].id = m.incidents[k].id
             /\ a.incidents[k].component = m.incidents[k].component
             /\ a.incidents[k].resolved = (m.incidents[k].resolved \/ k = id)
    BY <1>1, <1>2, GoodFacts, ApplyResolves, SMTT(30)
  <1> HIDE DEF a, e
  <1>4. \A d \in Comps : Open(a, d) = Open(m, d) \ {id}
    BY <1>3 DEF Open
  <1> QED  BY <1>3, <1>4 DEF GoodLog, a, e

(* An event that fits keeps incidents numbered and one of a component open, *)
(* and what is left to write still fits.                                   *)
LEMMA ApplyFits ==
  ASSUME NEW m, GoodLog(m), NEW events, Fits(m, events)
  PROVE  /\ GoodLog(Apply(m, Head(events)))
         /\ Len(events) # 1 => Fits(Apply(m, Head(events)), Tail(events))
  <1>1. ASSUME NEW c \in Comps, Open(m, c) = {},
               events = <<OpenEvent(m.nextId, c), UpdateEvent(m.nextId)>>
        PROVE  GoodLog(Apply(m, Head(events))) /\ Fits(Apply(m, Head(events)), Tail(events))
    <2> DEFINE a == Apply(m, OpenEvent(m.nextId, c))
    <2>1. GoodLog(a) /\ m.nextId \in DOMAIN a.incidents
      BY <1>1, OpenKeepsGood
    <2>2. Head(events) = OpenEvent(m.nextId, c) /\ Tail(events) = <<UpdateEvent(m.nextId)>>
      BY <1>1
    <2> HIDE DEF a
    <2>3. Fits(a, <<UpdateEvent(m.nextId)>>)
      BY <2>1 DEF Fits
    <2> QED  BY <2>1, <2>2, <2>3 DEF a
  <1>2. ASSUME NEW id \in DOMAIN m.incidents, events = <<UpdateEvent(id)>>
        PROVE  GoodLog(Apply(m, Head(events))) /\ Len(events) = 1
    <2>1. Head(events) = UpdateEvent(id) /\ Len(events) = 1
      BY <1>2
    <2> QED  BY <2>1, UpdateKeepsGood
  <1>3. ASSUME NEW id \in DOMAIN m.incidents, ~m.incidents[id].resolved,
               events = <<UpdateEvent(id), ResolveEvent(id)>>
        PROVE  GoodLog(Apply(m, Head(events))) /\ Fits(Apply(m, Head(events)), Tail(events))
    <2> DEFINE a == Apply(m, UpdateEvent(id))
    <2>1. /\ GoodLog(a) /\ DOMAIN a.incidents = DOMAIN m.incidents
          /\ a.incidents[id].resolved = m.incidents[id].resolved
      BY UpdateKeepsGood
    <2>2. Head(events) = UpdateEvent(id) /\ Tail(events) = <<ResolveEvent(id)>>
      BY <1>3
    <2> HIDE DEF a
    <2>3. Fits(a, <<ResolveEvent(id)>>)
      BY <1>3, <2>1 DEF Fits
    <2> QED  BY <2>1, <2>2, <2>3 DEF a
  <1>4. ASSUME NEW id \in DOMAIN m.incidents, events = <<ResolveEvent(id)>>
        PROVE  GoodLog(Apply(m, Head(events))) /\ Len(events) = 1
    <2>1. Head(events) = ResolveEvent(id) /\ Len(events) = 1
      BY <1>4
    <2> QED  BY <2>1, ResolveKeepsGood
  <1> QED  BY <1>1, <1>2, <1>3, <1>4 DEF Fits

-----------------------------------------------------------------------------
(* Components, tasks and what a transition writes *)

LEMMA ComponentFacts ==
  /\ DOMAIN Components = 1..Len(Components) /\ Len(Components) \in Nat
  /\ \A k \in DOMAIN Components : k \in Nat /\ Components[k] \in Comps
  /\ \A j, k \in DOMAIN Components : Components[j] = Components[k] => j = k
  /\ \A c \in Comps : \E k \in DOMAIN Components : c = Components[k]
  <1>1. Components \in Seq(Comps) /\ IsInjective(Components)
    BY StatusAssumption
  <1>2. DOMAIN Components = 1..Len(Components) /\ Len(Components) \in Nat
    BY <1>1
  <1>3. \A j, k \in DOMAIN Components : Components[j] = Components[k] => j = k
    BY <1>1 DEF IsInjective
  <1> QED  BY <1>2, <1>3 DEF Comps

LEMMA TaskFacts ==
  ASSUME EngineTypes, TasksOk, NEW t \in Targets
  PROVE  /\ task[t] \in TaskRecords /\ TaskOk(task[t], t)
         /\ task[t].todo \subseteq DOMAIN Components /\ task[t].new \in Severities
         /\ task[t].pc # "idle" => /\ Min(task[t].todo) \in task[t].todo
                                   /\ Min(task[t].todo) \in DOMAIN Components
                                   /\ Current(t) \in Comps
  <1>1. task[t] \in TaskRecords /\ TaskOk(task[t], t)
    BY DEF EngineTypes, TasksOk
  <1>2. task[t].todo \subseteq DOMAIN Components /\ task[t].new \in Severities
    BY <1>1 DEF TaskRecords
  <1>3. task[t].pc # "idle" => Min(task[t].todo) \in task[t].todo
    BY <1>1, <1>2, ComponentFacts, MinIn DEF TaskOk
  <1>4. task[t].pc # "idle" => Current(t) \in Comps
    BY <1>2, <1>3, ComponentFacts DEF Current
  <1> QED  BY <1>1, <1>2, <1>3, <1>4

LEMMA IdleFacts ==
  /\ Idle \in TaskRecords /\ Idle.pc = "idle" /\ Idle.todo = {}
  /\ \A t \in Targets : TaskOk(Idle, t)
  BY DEF Idle, TaskRecords, TaskOk, Severities

LEMMA UnlockedFacts ==
  /\ Unlocked \in LockRecords /\ Unlocked.by = Nobody /\ Unlocked.body = FALSE
  /\ Nobody \notin Targets /\ Admin \notin Targets /\ Admin # Nobody
  BY StatusAssumption DEF Unlocked, LockRecords

LEMMA SeverityType ==
  ASSUME NEW c
  PROVE  ComponentSeverity(c) \in Severities
  BY DEF ComponentSeverity, Severities

(* A component's severity depends on its own targets only. *)
LEMMA SeverityOf ==
  ASSUME NEW c \in Comps, NEW t \in Targets \ Watches[c], NEW v,
         targetState \in [Targets -> TargetSeverities],
         targetState' = [targetState EXCEPT ![t] = v]
  PROVE  ComponentSeverity(c)' = ComponentSeverity(c)
  <1>1. Watches[c] \subseteq Targets
    BY StatusAssumption
  <1>2. \A u \in Watches[c] : targetState'[u] = targetState[u]
    BY <1>1
  <1> QED  BY <1>2 DEF ComponentSeverity

LEMMA NextComponentFacts ==
  ASSUME EngineTypes, TasksOk, NEW t \in Targets, task[t].pc # "idle", NextComponent(t)
  PROVE  /\ task' \in [Targets -> TaskRecords] /\ TasksOk'
         /\ \A u \in Targets \ {t} : task'[u] = task[u]
         /\ task'[t].pc \in {"idle", "compute"}
         /\ task'[t].todo = task[t].todo \ {Min(task[t].todo)}
         /\ reported' \subseteq Targets
  <1> DEFINE rest == task[t].todo \ {Min(task[t].todo)}
  <1>1. /\ task \in [Targets -> TaskRecords] /\ task[t] \in TaskRecords
        /\ \A u \in Targets : TaskOk(task[u], u)
        /\ reported \subseteq Targets
        /\ TaskOk(task[t], t)
    BY DEF EngineTypes, TasksOk
  <1>2. CASE rest = {}
    <2>1. task' = [task EXCEPT ![t] = Idle] /\ reported' = reported \cup {t}
      BY <1>2 DEF NextComponent
    <2>2. task'[t] = Idle /\ task' \in [Targets -> TaskRecords] /\ \A u \in Targets \ {t} : task'[u] = task[u]
      BY <1>1, <2>1, IdleFacts
    <2>3. TasksOk'
      BY <1>1, <2>2, IdleFacts DEF TasksOk, TaskOk
    <2> QED  BY <1>1, <1>2, <2>1, <2>2, <2>3, IdleFacts
  <1>3. CASE rest # {}
    <2>1. task' = [task EXCEPT ![t].pc = "compute", ![t].todo = rest] /\ reported' = reported
      BY <1>3 DEF NextComponent
    <2>2. /\ task'[t] = [pc |-> "compute", todo |-> rest, new |-> task[t].new]
          /\ \A u \in Targets \ {t} : task'[u] = task[u]
          /\ DOMAIN task' = Targets /\ task' = [u \in Targets |-> task'[u]]
      BY <1>1, <2>1 DEF TaskRecords
    <2>3. task'[t] \in TaskRecords /\ TaskOk(task'[t], t)
      BY <1>1, <1>3, <2>2 DEF TaskRecords, TaskOk
    <2>4. task' \in [Targets -> TaskRecords]
      BY <1>1, <2>2, <2>3
    <2>5. TasksOk'
      BY <1>1, <2>2, <2>3 DEF TasksOk, TaskOk
    <2> QED  BY <1>1, <2>1, <2>2, <2>4, <2>5
  <1> QED  BY <1>2, <1>3

LEMMA OpenForFacts ==
  ASSUME mem \in IncidentLogs, NEW c \in Comps
  PROVE  /\ OpenIncidents(c) = Open(mem, c)
         /\ OpenFor(c) \subseteq Nat
         /\ GoodLog(mem) => OpenFor(c) = Open(mem, c)
  <1>1. mem.incidents \in Seq(Incident) /\ OpenIncidents(c) = Open(mem, c)
    BY DEF IncidentLogs, OpenIncidents, Open
  <1>2. \A k \in DOMAIN mem.incidents : mem.incidents[k].id \in Nat
    <2>1. \A k \in DOMAIN mem.incidents : mem.incidents[k] \in Incident
      BY <1>1
    <2> QED  BY <2>1 DEF Incident
  <1>3. OpenFor(c) \subseteq Nat
    BY <1>2 DEF OpenFor, OpenIncidents
  <1>4. ASSUME GoodLog(mem) PROVE OpenFor(c) = Open(mem, c)
    <2>1. /\ \A k \in Open(mem, c) : k \in DOMAIN mem.incidents /\ mem.incidents[k].id = k /\ k <= k
          /\ \A i, j \in Open(mem, c) : i = j
      BY <1>4, GoodFacts DEF GoodLog, Open
    <2>2. OpenFor(c) = {mem.incidents[k].id : k \in {i \in Open(mem, c) : \A j \in Open(mem, c) : j <= i}}
      BY <1>1 DEF OpenFor
    <2>3. {i \in Open(mem, c) : \A j \in Open(mem, c) : j <= i} = Open(mem, c)
      BY <2>1
    <2> HIDE DEF Open
    <2> QED  BY <2>1, <2>2, <2>3
  <1> QED  BY <1>1, <1>3, <1>4

(* incident_transition's decision: nothing where no incident is open and    *)
(* none is due, else something that fits and is an answer.                 *)
LEMMA TransitionWrites ==
  ASSUME mem \in IncidentLogs, NEW c \in Comps, NEW new \in Severities
  PROVE  /\ TransitionEvents(c, new) \in Seq(Event)
         /\ GoodLog(mem) =>
              IF TransitionEvents(c, new) = <<>> THEN Open(mem, c) = {}
              ELSE /\ Fits(mem, TransitionEvents(c, new))
                   /\ Answers(mem, TransitionEvents(c, new), c, new)
  <1>1. IncidentAt[c] \in {1, 2, 3} /\ new \in {0, 1, 2, 3} /\ Operational = 0
    BY StatusAssumption DEF Severities, Operational, Degraded, Partial, Major
  <1> DEFINE id == CHOOSE id \in OpenFor(c) : TRUE
             events == TransitionEvents(c, new)
  <1>2. mem.nextId \in Nat /\ OpenFor(c) \subseteq Nat
    BY OpenForFacts DEF IncidentLogs
  <1>3. OpenFor(c) # {} => id \in OpenFor(c) /\ id \in Nat
    BY <1>2
  <1>4. GoodLog(mem) => OpenFor(c) = Open(mem, c)
    BY OpenForFacts
  <1>5. GoodLog(mem) /\ OpenFor(c) # {} =>
          id \in DOMAIN mem.incidents /\ ~mem.incidents[id].resolved /\ Open(mem, c) \subseteq {id}
    BY <1>3, <1>4 DEF GoodLog, Open
  <1> HIDE DEF id
  <1>6. CASE new >= IncidentAt[c] /\ OpenFor(c) = {}
    <2>1. events = <<OpenEvent(mem.nextId, c), UpdateEvent(mem.nextId)>> /\ new # Operational
      BY <1>1, <1>6 DEF TransitionEvents
    <2>2. OpenEvent(mem.nextId, c) \in Event /\ UpdateEvent(mem.nextId) \in Event
      BY <1>2, EventTypes
    <2>3. Head(events) = OpenEvent(mem.nextId, c) /\ events # <<>> /\ events \in Seq(Event)
      BY <2>1, <2>2
    <2>4. Head(events).component = c
      BY <2>3 DEF OpenEvent
    <2> HIDE DEF events
    <2> QED  BY <1>4, <1>6, <2>1, <2>3, <2>4 DEF Fits, Answers, events
  <1>7. CASE (new >= IncidentAt[c] \/ new # Operational) /\ OpenFor(c) # {}
    <2>1. events = <<UpdateEvent(id)>> /\ new # Operational
      BY <1>1, <1>7 DEF TransitionEvents, id
    <2>2. UpdateEvent(id) \in Event
      BY <1>3, <1>7 DEF Event, UpdateEvent
    <2>3. Head(events) = UpdateEvent(id) /\ events # <<>> /\ events \in Seq(Event)
      BY <2>1, <2>2
    <2>4. Head(events).ev # "open"
      BY <2>3 DEF UpdateEvent
    <2> HIDE DEF events
    <2>5. GoodLog(mem) => Fits(mem, events)
      BY <1>5, <1>7, <2>1 DEF Fits
    <2> QED  BY <2>1, <2>3, <2>4, <2>5 DEF Answers, events
  <1>8. CASE ~(new >= IncidentAt[c]) /\ OpenFor(c) = {}
    BY <1>4, <1>8 DEF TransitionEvents
  <1>9. CASE new = Operational /\ OpenFor(c) # {}
    <2>1. events = <<UpdateEvent(id), ResolveEvent(id)>>
      BY <1>1, <1>9 DEF TransitionEvents, id
    <2>2. UpdateEvent(id) \in Event /\ ResolveEvent(id) \in Event
      BY <1>3, <1>9 DEF Event, UpdateEvent, ResolveEvent
    <2>3. Head(events) = UpdateEvent(id) /\ events # <<>> /\ events \in Seq(Event)
      BY <2>1, <2>2
    <2>4. Head(events).ev # "open"
      BY <2>3 DEF UpdateEvent
    <2> HIDE DEF events
    <2>5. GoodLog(mem) => Fits(mem, events)
      BY <1>5, <1>9, <2>1 DEF Fits
    <2>6. GoodLog(mem) => Answers(mem, events, c, new)
      BY <1>5, <1>9, <2>1, <2>4 DEF Answers
    <2> QED  BY <2>3, <2>5, <2>6 DEF events
  <1> QED  BY <1>6, <1>7, <1>8, <1>9

-----------------------------------------------------------------------------
(* Types, locks and lines *)

StateInv == EngineTypes /\ TasksOk /\ LockOk /\ DownIsBlank /\ LinesEnd

(* A step of task t that does not hold the lock, and leaves lock and log.   *)
LEMMA TaskKeepsState ==
  ASSUME StateInv, up, NEW t \in Targets, lock.by # t,
         task' \in [Targets -> TaskRecords], TasksOk',
         \A u \in Targets \ {t} : task'[u] = task[u],
         targetState' \in [Targets -> TargetSeverities], compState' \in [Comps -> Severities],
         reported' \subseteq Targets, alone' \in BOOLEAN,
         UNCHANGED <<up, mem, log, lock, cut>>
  PROVE  StateInv'
  <1>1. EngineTypes' /\ TasksOk' /\ DownIsBlank' /\ LinesEnd'
    BY DEF StateInv, EngineTypes, DownIsBlank, LinesEnd
  <1>2. LockOk'
    BY DEF StateInv, LockOk
  <1> QED  BY <1>1, <1>2 DEF StateInv

LEMMA RoundState ==
  ASSUME StateInv, NEW t \in Targets, NEW sev \in TargetSeverities, Round(t, sev)
  PROVE  StateInv'
  <1> DEFINE new == [pc |-> "compute", todo |-> ByTarget(t), new |-> Operational]
  <1>1. new \in TaskRecords /\ TaskOk(new, t)
    BY DEF Round, TaskRecords, TaskOk, ByTarget, Severities
  <1>2. task' = [task EXCEPT ![t] = new] /\ task \in [Targets -> TaskRecords]
    BY DEF Round, StateInv, EngineTypes
  <1>3. lock.by # t
    BY IdleFacts DEF StateInv, LockOk, Round
  <1> HIDE DEF new
  <1>4. task'[t] = new /\ task' \in [Targets -> TaskRecords] /\ \A u \in Targets \ {t} : task'[u] = task[u]
    BY <1>1, <1>2
  <1>5. TasksOk'
    BY <1>1, <1>4 DEF StateInv, TasksOk
  <1>6. /\ targetState' \in [Targets -> TargetSeverities] /\ compState' \in [Comps -> Severities]
        /\ reported' \subseteq Targets /\ alone' \in BOOLEAN
    BY DEF Round, StateInv, EngineTypes
  <1>7. up /\ UNCHANGED <<up, mem, log, lock, cut>>
    BY DEF Round
  <1> QED  BY <1>3, <1>4, <1>5, <1>6, <1>7, TaskKeepsState

LEMMA ComputeState ==
  ASSUME StateInv, NEW t \in Targets, Compute(t)
  PROVE  StateInv'
  <1> DEFINE sev == ComponentSeverity(Current(t))
             new == [pc |-> "swap", todo |-> task[t].todo, new |-> sev]
  <1>1. task \in [Targets -> TaskRecords] /\ task[t] \in TaskRecords /\ TaskOk(task[t], t)
    BY TaskFacts DEF StateInv, EngineTypes
  <1>2. new \in TaskRecords /\ TaskOk(new, t)
    BY <1>1, SeverityType DEF Compute, TaskRecords, TaskOk
  <1>3. /\ task'[t] = new /\ task' = [u \in Targets |-> task'[u]]
        /\ \A u \in Targets \ {t} : task'[u] = task[u]
    <2>1. task' = [task EXCEPT ![t].pc = "swap", ![t].new = sev]
      BY DEF Compute
    <2> HIDE DEF sev
    <2> QED  BY <1>1, <2>1 DEF TaskRecords
  <1>4. lock.by # t
    BY DEF StateInv, LockOk, Compute
  <1> HIDE DEF new
  <1>5. task'[t] = new /\ task' \in [Targets -> TaskRecords] /\ \A u \in Targets \ {t} : task'[u] = task[u]
    BY <1>1, <1>2, <1>3
  <1>6. TasksOk'
    BY <1>2, <1>5 DEF StateInv, TasksOk
  <1>7. /\ targetState' \in [Targets -> TargetSeverities] /\ compState' \in [Comps -> Severities]
        /\ reported' \subseteq Targets /\ alone' \in BOOLEAN
    BY DEF Compute, StateInv, EngineTypes
  <1>8. up /\ UNCHANGED <<up, mem, log, lock, cut>>
    BY DEF Compute
  <1> QED  BY <1>4, <1>5, <1>6, <1>7, <1>8, TaskKeepsState

LEMMA SwapState ==
  ASSUME StateInv, NEW t \in Targets, Swap(t)
  PROVE  StateInv'
  <1>1. task \in [Targets -> TaskRecords] /\ task[t] \in TaskRecords /\ TaskOk(task[t], t)
        /\ task[t].pc = "swap" /\ Current(t) \in Comps /\ task[t].new \in Severities
    BY TaskFacts DEF StateInv, EngineTypes, Swap
  <1>2. lock.by # t
    BY <1>1 DEF StateInv, LockOk
  <1>3. /\ targetState' \in [Targets -> TargetSeverities] /\ compState' \in [Comps -> Severities]
        /\ alone' \in BOOLEAN
    BY <1>1 DEF Swap, StateInv, EngineTypes
  <1>4. /\ task' \in [Targets -> TaskRecords] /\ TasksOk' /\ reported' \subseteq Targets
        /\ \A u \in Targets \ {t} : task'[u] = task[u]
    <2>1. CASE compState[Current(t)] # task[t].new
      <3> DEFINE new == [pc |-> "log", todo |-> task[t].todo, new |-> task[t].new]
      <3>1. task' = [task EXCEPT ![t] = new] /\ reported' = reported
        BY <1>1, <2>1 DEF Swap, TaskRecords
      <3>2. new \in TaskRecords /\ TaskOk(new, t)
        BY <1>1 DEF TaskRecords, TaskOk
      <3> HIDE DEF new
      <3>3. task'[t] = new /\ task' \in [Targets -> TaskRecords] /\ \A u \in Targets \ {t} : task'[u] = task[u]
        BY <1>1, <3>1, <3>2
      <3>4. TasksOk'
        BY <3>2, <3>3 DEF StateInv, TasksOk
      <3> QED  BY <3>1, <3>3, <3>4 DEF StateInv, EngineTypes
    <2>2. CASE compState[Current(t)] = task[t].new
      <3>1. NextComponent(t) /\ task[t].pc # "idle"
        BY <1>1, <2>2 DEF Swap
      <3> QED  BY <3>1, NextComponentFacts DEF StateInv
    <2> QED  BY <2>1, <2>2
  <1>5. up /\ UNCHANGED <<up, mem, log, lock, cut>>
    BY DEF Swap
  <1> QED  BY <1>2, <1>3, <1>4, <1>5, TaskKeepsState

LEMMA TransitionState ==
  ASSUME StateInv, NEW t \in Targets, Transition(t)
  PROVE  StateInv'
  <1> DEFINE events == TransitionEvents(Current(t), task[t].new)
  <1>1. /\ task[t].pc = "log" /\ Current(t) \in Comps /\ task[t].new \in Severities
        /\ mem \in IncidentLogs /\ events \in Seq(Event) /\ lock = Unlocked
        /\ up /\ UNCHANGED <<up, targetState, compState, mem, log, alone, cut, faults>>
    BY TaskFacts, TransitionWrites DEF StateInv, EngineTypes, Transition
  <1>2. lock.by = Nobody /\ lock.by # t /\ lock.body = FALSE
    BY <1>1, UnlockedFacts
  <1>3. CASE events = <<>>
    <2>1. NextComponent(t) /\ lock' = lock
      BY <1>3 DEF Transition
    <2>2. /\ task' \in [Targets -> TaskRecords] /\ TasksOk' /\ reported' \subseteq Targets
          /\ \A u \in Targets \ {t} : task'[u] = task[u]
      BY <1>1, <2>1, NextComponentFacts DEF StateInv
    <2>3. targetState' \in [Targets -> TargetSeverities] /\ compState' \in [Comps -> Severities] /\ alone' \in BOOLEAN
      BY <1>1 DEF StateInv, EngineTypes
    <2> QED  BY <1>1, <1>2, <2>1, <2>2, <2>3, TaskKeepsState
  <1>4. CASE events # <<>>
    <2> HIDE DEF events
    <2>1. lock' = [by |-> t, events |-> events, body |-> FALSE] /\ UNCHANGED <<task, reported>>
      BY <1>4 DEF Transition, events
    <2>2. lock' \in LockRecords /\ lock'.by = t /\ lock'.body = FALSE /\ lock'.events = events
      BY <1>1, <2>1 DEF LockRecords
    <2>3. EngineTypes'
      BY <1>1, <2>1, <2>2 DEF StateInv, EngineTypes
    <2>4. TasksOk'
      BY <2>1 DEF StateInv, TasksOk
    <2>5. LockOk'
      BY <1>1, <1>4, <2>1, <2>2, UnlockedFacts DEF LockOk
    <2>6. DownIsBlank' /\ LinesEnd'
      BY <1>1, <1>2, <2>2 DEF StateInv, DownIsBlank, LinesEnd
    <2> QED  BY <2>3, <2>4, <2>5, <2>6 DEF StateInv
  <1> QED  BY <1>3, <1>4

LEMMA ManualState ==
  ASSUME StateInv, NEW id \in Nat, ManualUpdate(id) \/ ManualResolve(id)
  PROVE  StateInv'
  <1>1. /\ up /\ lock = Unlocked /\ UNCHANGED <<up, engine, mem, log, alone, cut, faults>>
        /\ lock'.by = Admin /\ lock'.body = FALSE /\ lock'.events # <<>>
        /\ lock' \in LockRecords
    <2>1. UpdateEvent(id) \in Event /\ ResolveEvent(id) \in Event
      BY DEF Event, UpdateEvent, ResolveEvent
    <2>2. <<UpdateEvent(id)>> \in Seq(Event) /\ <<UpdateEvent(id), ResolveEvent(id)>> \in Seq(Event)
      BY <2>1
    <2>3. PICK events \in Seq(Event) : /\ lock' = [by |-> Admin, events |-> events, body |-> FALSE]
                                       /\ events # <<>>
      <3>1. CASE ManualUpdate(id)
        BY <2>2, <3>1 DEF ManualUpdate
      <3>2. CASE ManualResolve(id)
        BY <2>2, <3>2 DEF ManualResolve
      <3> QED  BY <3>1, <3>2
    <2>4. up /\ lock = Unlocked /\ UNCHANGED <<up, engine, mem, log, alone, cut, faults>>
      BY DEF ManualUpdate, ManualResolve
    <2> QED  BY <2>3, <2>4 DEF LockRecords
  <1>2. EngineTypes' /\ TasksOk'
    BY <1>1 DEF StateInv, EngineTypes, TasksOk, engine
  <1>3. LockOk'
    BY <1>1, UnlockedFacts DEF LockOk
  <1>4. DownIsBlank' /\ LinesEnd'
    BY <1>1, UnlockedFacts DEF StateInv, DownIsBlank, LinesEnd
  <1> QED  BY <1>2, <1>3, <1>4 DEF StateInv

LEMMA LockFacts ==
  ASSUME StateInv
  PROVE  /\ lock \in LockRecords /\ lock.events \in Seq(Event)
         /\ lock.by # Nobody => Head(lock.events) \in Event
         /\ lock.body => lock.by # Nobody
         /\ lock.by # Nobody /\ lock.by # Admin => lock.by \in Targets /\ task[lock.by].pc = "log"
  <1>1. lock \in LockRecords /\ lock.events \in Seq(Event)
    BY DEF StateInv, EngineTypes, LockRecords
  <1>2. lock.by # Nobody /\ lock.by # Admin => lock.by \in Targets /\ task[lock.by].pc = "log"
    BY <1>1 DEF StateInv, LockOk, LockRecords
  <1>3. lock.by # Nobody => Head(lock.events) \in Event
    BY <1>1 DEF StateInv, LockOk
  <1>4. lock.body => lock.by # Nobody
    BY DEF StateInv, LockOk
  <1> QED  BY <1>1, <1>2, <1>3, <1>4

(* The line WriteBody adds. *)
LEMMA WriteBodyFacts ==
  ASSUME StateInv, WriteBody
  PROVE  LET line == [event |-> Head(lock.events), ended |-> FALSE] IN
         /\ line \in Line /\ log \in Seq(Line) /\ log' = Append(log, line)
         /\ lock.by # Nobody /\ lock.body = FALSE
         /\ lock' = [by |-> lock.by, events |-> lock.events, body |-> TRUE]
         /\ lock' \in LockRecords
         /\ lock'.by = lock.by /\ lock'.events = lock.events /\ lock'.body = TRUE
         /\ up /\ UNCHANGED <<up, engine, mem, alone, cut, faults>>
  <1> DEFINE line == [event |-> Head(lock.events), ended |-> FALSE]
  <1>1. lock.by # Nobody /\ lock.body = FALSE /\ lock \in LockRecords
    BY LockFacts DEF WriteBody, LockRecords
  <1>2. line \in Line /\ log \in Seq(Line) /\ log' = Append(log, line)
    BY <1>1, LockFacts DEF StateInv, EngineTypes, WriteBody, Line
  <1>3. /\ lock' = [by |-> lock.by, events |-> lock.events, body |-> TRUE]
        /\ lock' \in LockRecords
        /\ lock'.by = lock.by /\ lock'.events = lock.events /\ lock'.body = TRUE
    BY <1>1 DEF WriteBody, LockRecords
  <1>4. up /\ UNCHANGED <<up, engine, mem, alone, cut, faults>>
    BY DEF WriteBody
  <1> QED  BY <1>1, <1>2, <1>3, <1>4

LEMMA WriteBodyState ==
  ASSUME StateInv, WriteBody
  PROVE  StateInv'
  <1> DEFINE line == [event |-> Head(lock.events), ended |-> FALSE]
  <1>1. /\ line \in Line /\ log \in Seq(Line) /\ log' = Append(log, line)
        /\ lock.by # Nobody /\ lock.body = FALSE /\ lock' \in LockRecords
        /\ lock'.by = lock.by /\ lock'.events = lock.events /\ lock'.body = TRUE
        /\ up /\ UNCHANGED <<up, engine, mem, alone, cut, faults>>
    BY WriteBodyFacts
  <1>2. line.event = Head(lock.events) /\ line.ended = FALSE
    OBVIOUS
  <1> HIDE DEF line
  <1>3. /\ log' \in Seq(Line) /\ Len(log') = Len(log) + 1 /\ log' # <<>>
        /\ log'[Len(log')] = line /\ Len(log) \in Nat
        /\ DOMAIN log' = 1..(Len(log) + 1) /\ DOMAIN log = 1..Len(log)
        /\ \A k \in DOMAIN log : log'[k] = log[k]
    BY <1>1
  <1>4. EngineTypes' /\ TasksOk' /\ DownIsBlank'
    BY <1>1, <1>3 DEF StateInv, EngineTypes, TasksOk, DownIsBlank, engine
  <1>5. LockOk'
    BY <1>1, <1>2, <1>3 DEF StateInv, LockOk, engine
  <1>6. LinesEnd'
    <2> SUFFICES ASSUME cut = {}, NEW k \in DOMAIN log', ~log'[k].ended PROVE k = Len(log')
      BY <1>1 DEF LinesEnd
    <2>1. k \in DOMAIN log => log[k].ended
      BY <1>1 DEF StateInv, LinesEnd
    <2> QED  BY <1>3, <2>1
  <1> QED  BY <1>4, <1>5, <1>6 DEF StateInv

LEMMA ReleaseFacts ==
  ASSUME StateInv, lock.by # Nobody, Release
  PROVE  /\ lock' = Unlocked
         /\ task' \in [Targets -> TaskRecords] /\ TasksOk'
         /\ reported' \subseteq Targets
  <1>1. CASE lock.by = Admin
    BY <1>1 DEF Release, StateInv, EngineTypes, TasksOk
  <1>2. CASE lock.by # Admin
    <2>1. lock.by \in Targets /\ task[lock.by].pc # "idle" /\ NextComponent(lock.by)
      BY <1>2, LockFacts DEF Release
    <2> QED  BY <2>1, NextComponentFacts DEF Release, StateInv
  <1> QED  BY <1>1, <1>2

LEMMA WriteNewlineFacts ==
  ASSUME StateInv, WriteNewline
  PROVE  /\ up /\ lock.body /\ lock.by # Nobody
         /\ Head(lock.events) \in Event /\ Len(log) \in Nat /\ Len(log) \in DOMAIN log
         /\ log' \in Seq(Line) /\ Len(log') = Len(log) /\ DOMAIN log' = DOMAIN log
         /\ \A k \in DOMAIN log : /\ log'[k].event = log[k].event
                                  /\ k # Len(log) => log'[k] = log[k]
         /\ log'[Len(log)].ended
         /\ mem' = Apply(mem, Head(lock.events)) /\ mem' \in IncidentLogs
         /\ UNCHANGED <<up, targetState, compState, alone, cut, faults>>
         /\ Len(lock.events) = 1 => Release
         /\ Len(lock.events) # 1 =>
              /\ UNCHANGED <<task, reported>>
              /\ lock' \in LockRecords /\ lock'.by = lock.by /\ lock'.body = FALSE
              /\ lock'.events = Tail(lock.events) /\ lock'.events # <<>>
  <1>1. /\ up /\ lock.body /\ lock.by # Nobody /\ lock \in LockRecords
        /\ lock.events \in Seq(Event) /\ lock.events # <<>> /\ Head(lock.events) \in Event
        /\ log \in Seq(Line) /\ log # <<>> /\ mem \in IncidentLogs
    BY LockFacts DEF WriteNewline, StateInv, EngineTypes, LockOk
  <1>2. mem' = Apply(mem, Head(lock.events)) /\ mem' \in IncidentLogs
    BY <1>1, ApplyType DEF WriteNewline
  <1>3. DOMAIN log = 1..Len(log) /\ Len(log) \in Nat /\ Len(log) \in DOMAIN log /\ log[Len(log)] \in Line
    BY <1>1
  <1>4. /\ log' \in Seq(Line) /\ Len(log') = Len(log) /\ DOMAIN log' = DOMAIN log
        /\ \A k \in DOMAIN log : /\ log'[k].event = log[k].event
                                 /\ k # Len(log) => log'[k] = log[k]
        /\ log'[Len(log)].ended
    <2> DEFINE last == [log[Len(log)] EXCEPT !.ended = TRUE]
    <2>1. last \in Line /\ last.event = log[Len(log)].event /\ last.ended
      BY <1>3 DEF Line
    <2>2. log' = [log EXCEPT ![Len(log)] = last]
      BY DEF WriteNewline
    <2> HIDE DEF last
    <2>3. log' \in Seq(Line) /\ Len(log') = Len(log) /\ DOMAIN log' = DOMAIN log
      BY <1>1, <1>3, <2>1, <2>2
    <2> QED  BY <1>3, <2>1, <2>2, <2>3
  <1>5. ASSUME Len(lock.events) # 1
        PROVE  /\ UNCHANGED <<task, reported>>
               /\ lock' \in LockRecords /\ lock'.by = lock.by /\ lock'.body = FALSE
               /\ lock'.events = Tail(lock.events) /\ lock'.events # <<>>
    <2>1. Tail(lock.events) \in Seq(Event) /\ Tail(lock.events) # <<>>
      <3> DEFINE q == lock.events
      <3>1. q \in Seq(Event) /\ q # <<>> /\ Len(q) # 1
        BY <1>1, <1>5
      <3> HIDE DEF q
      <3>2. Len(q) \in Nat \ {0} /\ Len(q) # 1
        BY <3>1, EmptySeq
      <3>3. Tail(q) \in Seq(Event) /\ Len(Tail(q)) = Len(q) - 1
        BY <3>1, HeadTailProperties
      <3>4. Len(Tail(q)) # 0
        BY <3>2, <3>3
      <3>5. Len(<<>>) = 0
        OBVIOUS
      <3>6. Tail(q) # <<>>
        BY <3>4, <3>5
      <3> QED  BY <3>3, <3>6 DEF q
    <2>2. /\ UNCHANGED <<task, reported>>
          /\ lock' = [lock EXCEPT !.events = Tail(lock.events), !.body = FALSE]
      BY <1>5 DEF WriteNewline
    <2> QED  BY <1>1, <2>1, <2>2 DEF LockRecords
  <1>6. /\ UNCHANGED <<up, targetState, compState, alone, cut, faults>>
        /\ Len(lock.events) = 1 => Release
    BY DEF WriteNewline
  <1> QED  BY <1>1, <1>2, <1>3, <1>4, <1>5, <1>6

LEMMA WriteNewlineState ==
  ASSUME StateInv, WriteNewline
  PROVE  StateInv'
  <1>1. /\ up /\ lock.body /\ lock.by # Nobody /\ DOMAIN log = 1..Len(log) /\ Len(log) \in DOMAIN log
        /\ log' \in Seq(Line) /\ Len(log') = Len(log) /\ DOMAIN log' = DOMAIN log
        /\ \A k \in DOMAIN log : k # Len(log) => log'[k] = log[k]
        /\ log'[Len(log)].ended
        /\ mem' \in IncidentLogs
        /\ UNCHANGED <<up, targetState, compState, alone, cut, faults>>
    <2>1. log \in Seq(Line)
      BY DEF StateInv, EngineTypes
    <2>2. DOMAIN log = 1..Len(log)
      BY <2>1
    <2> QED  BY <2>2, WriteNewlineFacts
  <1>2. /\ task' \in [Targets -> TaskRecords] /\ TasksOk' /\ reported' \subseteq Targets
        /\ lock' \in LockRecords /\ lock'.body = FALSE
        /\ \/ lock' = Unlocked
           \/ lock'.by = lock.by /\ lock'.events # <<>> /\ task' = task
    <2>1. CASE Len(lock.events) = 1
      BY <2>1, WriteNewlineFacts, ReleaseFacts, UnlockedFacts
    <2>2. CASE Len(lock.events) # 1
      BY <2>2, WriteNewlineFacts DEF StateInv, EngineTypes, TasksOk
    <2> QED  BY <2>1, <2>2
  <1>3. EngineTypes' /\ DownIsBlank'
    BY <1>1, <1>2 DEF StateInv, EngineTypes, DownIsBlank
  <1>4. LockOk'
    BY <1>1, <1>2, UnlockedFacts DEF StateInv, LockOk
  <1>5. LinesEnd'
    BY <1>1, <1>2 DEF StateInv, LinesEnd
  <1> QED  BY <1>2, <1>3, <1>4, <1>5 DEF StateInv

(* A write that fails, at either half. *)
LEMMA FailsState ==
  ASSUME StateInv, WriteFails \/ NewlineFails
  PROVE  StateInv'
  <1>1. /\ up /\ lock.by # Nobody /\ Release /\ alone' = FALSE
        /\ UNCHANGED <<up, targetState, compState, mem, log>>
        /\ (cut' = cut /\ ~lock.body) \/ cut' = cut \cup {"full"}
    BY LockFacts DEF WriteFails, NewlineFails
  <1>2. /\ lock' = Unlocked /\ task' \in [Targets -> TaskRecords] /\ TasksOk' /\ reported' \subseteq Targets
        /\ lock' \in LockRecords /\ lock'.by = Nobody /\ lock'.body = FALSE
    BY <1>1, ReleaseFacts, UnlockedFacts
  <1>3. EngineTypes' /\ DownIsBlank'
    BY <1>1, <1>2 DEF StateInv, EngineTypes, DownIsBlank
  <1>4. LockOk'
    BY <1>2, UnlockedFacts DEF LockOk
  <1>5. LinesEnd'
    BY <1>1, <1>2 DEF StateInv, LinesEnd
  <1> QED  BY <1>2, <1>3, <1>4, <1>5 DEF StateInv

LEMMA EmptyLogFacts ==
  EmptyLog \in IncidentLogs /\ GoodLog(EmptyLog) /\ \A c \in Comps : Open(EmptyLog, c) = {}
  <1>1. EmptyLog.incidents = <<>> /\ EmptyLog.nextId = 1 /\ EmptyLog \in IncidentLogs
    BY DEF EmptyLog, IncidentLogs
  <1> QED  BY <1>1 DEF GoodLog, Open

LEMMA CrashState ==
  ASSUME StateInv, Crash
  PROVE  StateInv'
  <1>1. /\ up' = FALSE /\ alone' = FALSE /\ cut' \subseteq {"crash", "full"}
        /\ cut' = {} => cut = {} /\ ~lock.body
        /\ task' = [t \in Targets |-> Idle] /\ targetState' = [t \in Targets |-> Operational]
        /\ compState' = [c \in Comps |-> Operational] /\ reported' = {} /\ lock' = Unlocked
        /\ mem' = EmptyLog /\ log' = log
    BY DEF Crash, StateInv, EngineTypes
  <1>2. EngineTypes'
    BY <1>1, IdleFacts, UnlockedFacts, EmptyLogFacts
    DEF StateInv, EngineTypes, TargetSeverities, Severities
  <1>3. TasksOk' /\ DownIsBlank'
    BY <1>1, IdleFacts DEF TasksOk, DownIsBlank
  <1>4. LockOk'
    BY <1>1, UnlockedFacts DEF LockOk
  <1>5. LinesEnd'
    BY <1>1, UnlockedFacts DEF StateInv, LinesEnd
  <1> QED  BY <1>2, <1>3, <1>4, <1>5 DEF StateInv

LEMMA StartState ==
  ASSUME StateInv, BookKept, Start
  PROVE  StateInv'
  <1>1. /\ up' = TRUE /\ mem' = Replay(log) /\ mem' \in IncidentLogs
        /\ UNCHANGED <<engine, log, lock, alone, cut, faults>>
    BY DEF Start, BookKept
  <1> QED
    BY <1>1 DEF StateInv, EngineTypes, TasksOk, LockOk, DownIsBlank, LinesEnd, engine

-----------------------------------------------------------------------------
(* The memory is the replay, and the replay a log of numbered incidents *)

LEMMA FrontFacts ==
  ASSUME NEW S, NEW s \in Seq(S), s # <<>>
  PROVE  /\ Front(s) \in Seq(S) /\ s[Len(s)] \in S
         /\ s = Append(Front(s), s[Len(s)])
  <1>1. Len(s) \in Nat \ {0} /\ \A k \in 1..Len(s) : s[k] \in S
    BY EmptySeq
  <1> DEFINE n == Len(s)
             f == SubSeq(s, 1, n - 1)
  <1>2. /\ f \in Seq(S) /\ Len(f) = n - 1
        /\ \A k \in 1..(n - 1) : f[k] = s[k]
    <2>1. n \in Nat \ {0} /\ n - 1 \in Int /\ \A k \in 1..(n - 1) : s[k] \in S
      BY <1>1
    <2> HIDE DEF n
    <2>2. /\ f \in Seq(S) /\ Len(f) = IF 1 <= n - 1 THEN (n - 1) - 1 + 1 ELSE 0
          /\ \A k \in 1..((n - 1) - 1 + 1) : f[k] = s[1 + k - 1]
      BY <2>1, SubSeqProperties
    <2> HIDE DEF f
    <2> QED  BY <2>1, <2>2
  <1> HIDE DEF f
  <1>3. Append(f, s[n]) \in Seq(S) /\ Len(Append(f, s[n])) = n
        /\ \A k \in 1..n : Append(f, s[n])[k] = s[k]
    BY <1>1, <1>2, AppendProperties
  <1>4. Append(f, s[n]) = s
    BY <1>1, <1>3, SeqEqual
  <1> QED  BY <1>1, <1>2, <1>4 DEF Front, f

LEMMA FrontOfAppend ==
  ASSUME NEW S, NEW s \in Seq(S), NEW x \in S
  PROVE  Front(Append(s, x)) = s
  <1> DEFINE a == Append(s, x)
             f == SubSeq(a, 1, Len(a) - 1)
  <1>1. /\ a \in Seq(S) /\ Len(a) = Len(s) + 1 /\ Len(s) \in Nat
        /\ \A k \in 1..Len(s) : a[k] = s[k]
    BY AppendProperties
  <1>2. \A k \in 1..(Len(a) - 1) : a[k] \in S
    BY <1>1
  <1> HIDE DEF a
  <1>3. f \in Seq(S) /\ Len(f) = Len(s) /\ \A k \in 1..Len(s) : f[k] = a[k]
    BY <1>1, <1>2, SubSeqProperties
  <1> HIDE DEF f
  <1>4. f = s
    BY <1>1, <1>3, SeqEqual
  <1> QED  BY <1>4 DEF f, a, Front

(* A step that leaves memory and log alone, and releases the lock if it     *)
(* had no half-written line.                                               *)
LEMMA BookLeft ==
  ASSUME BookKept, UNCHANGED <<mem, log, up>>, "full" \notin cut' => "full" \notin cut,
         \/ UNCHANGED lock
         \/ lock.body = FALSE /\ lock' = Unlocked
  PROVE  BookKept'
  <1>1. Replay(log)' = Replay(log)
    OBVIOUS
  <1>2. CASE lock' = lock
    BY <1>1, <1>2 DEF BookKept, Settled
  <1>3. CASE lock.body = FALSE /\ lock' = Unlocked
    <2>1. lock'.by = Nobody /\ lock'.body = FALSE
      BY <1>3, UnlockedFacts
    <2> QED  BY <1>1, <1>3, <2>1 DEF BookKept, Settled
  <1> QED  BY <1>2, <1>3

LEMMA TransitionBook ==
  ASSUME StateInv, BookKept, NEW t \in Targets, Transition(t)
  PROVE  BookKept'
  <1> DEFINE events == TransitionEvents(Current(t), task[t].new)
  <1>1. /\ mem \in IncidentLogs /\ Current(t) \in Comps /\ task[t].new \in Severities
        /\ up /\ UNCHANGED <<up, mem, log, cut>> /\ lock = Unlocked
        /\ lock.body = FALSE
    BY TaskFacts, UnlockedFacts DEF StateInv, EngineTypes, Transition
  <1>2. CASE events = <<>>
    <2>1. UNCHANGED lock
      BY <1>2 DEF Transition
    <2> QED  BY <1>1, <2>1, BookLeft
  <1>3. CASE events # <<>>
    <2>1. GoodLog(mem) => Fits(mem, events)
      BY <1>1, <1>3, TransitionWrites
    <2> HIDE DEF events
    <2>2. lock' = [by |-> t, events |-> events, body |-> FALSE]
      BY <1>3 DEF Transition, events
    <2>3. lock'.events = events /\ lock'.body = FALSE
      BY <2>2
    <2> QED  BY <1>1, <2>1, <2>3 DEF BookKept, Settled
  <1> QED  BY <1>2, <1>3

LEMMA ManualBook ==
  ASSUME StateInv, BookKept, NEW id \in Nat, ManualUpdate(id) \/ ManualResolve(id)
  PROVE  BookKept'
  <1>1. /\ up /\ UNCHANGED <<up, mem, log, cut>> /\ lock = Unlocked /\ lock.body = FALSE
    BY UnlockedFacts DEF ManualUpdate, ManualResolve
  <1>2. GoodLog(mem) => lock'.body = FALSE /\ Fits(mem, lock'.events)
    <2> SUFFICES ASSUME GoodLog(mem) PROVE lock'.body = FALSE /\ Fits(mem, lock'.events)
      OBVIOUS
    <2>1. \A k \in DOMAIN mem.incidents : mem.incidents[k].id = k
      BY DEF GoodLog
    <2>2. CASE ManualUpdate(id)
      <3>1. id \in DOMAIN mem.incidents
        BY <2>1, <2>2 DEF ManualUpdate
      <3>2. lock'.events = <<UpdateEvent(id)>> /\ lock'.body = FALSE
        BY <2>2 DEF ManualUpdate
      <3> QED  BY <3>1, <3>2 DEF Fits
    <2>3. CASE ManualResolve(id)
      <3>1. id \in DOMAIN mem.incidents /\ ~mem.incidents[id].resolved
        BY <2>1, <2>3 DEF ManualResolve
      <3>2. lock'.events = <<UpdateEvent(id), ResolveEvent(id)>> /\ lock'.body = FALSE
        BY <2>3 DEF ManualResolve
      <3> QED  BY <3>1, <3>2 DEF Fits
    <2> QED  BY <2>2, <2>3
  <1>3. lock'.body = FALSE
    BY DEF ManualUpdate, ManualResolve
  <1> QED  BY <1>1, <1>2, <1>3 DEF BookKept, Settled

LEMMA WriteBodyBook ==
  ASSUME StateInv, BookKept, WriteBody
  PROVE  BookKept'
  <1> DEFINE line == [event |-> Head(lock.events), ended |-> FALSE]
  <1>1. /\ line \in Line /\ log \in Seq(Line) /\ log' = Append(log, line)
        /\ lock.by # Nobody /\ lock.body = FALSE
        /\ lock'.by = lock.by /\ lock'.events = lock.events /\ lock'.body = TRUE
        /\ up /\ UNCHANGED <<up, engine, mem, alone, cut, faults>>
    BY WriteBodyFacts
  <1>2. line.event = Head(lock.events) /\ Head(lock.events) \in Event
    BY <1>1, LockFacts
  <1> HIDE DEF line
  <1>3. Replay(log') = Apply(Replay(log), Head(lock.events)) /\ Front(log') = log
    BY <1>1, <1>2, ReplayAppend, FrontOfAppend
  <1>4. Replay(log') \in IncidentLogs
    BY <1>2, <1>3, ApplyType DEF BookKept
  <1>5. "full" \notin cut => mem = Replay(log) /\ GoodLog(mem) /\ Fits(mem, lock.events)
    BY <1>1 DEF BookKept, Settled
  <1>6. "full" \notin cut => GoodLog(Replay(log'))
    BY <1>3, <1>5, ApplyFits
  <1> QED  BY <1>1, <1>3, <1>4, <1>5, <1>6 DEF BookKept, Settled

LEMMA WriteNewlineBook ==
  ASSUME StateInv, BookKept, WriteNewline
  PROVE  BookKept'
  <1>1. /\ up /\ lock.body /\ lock.by # Nobody /\ Len(log) \in Nat
        /\ log' \in Seq(Line) /\ Len(log') = Len(log) /\ DOMAIN log' = DOMAIN log
        /\ \A k \in DOMAIN log : log'[k].event = log[k].event
        /\ mem' = Apply(mem, Head(lock.events))
        /\ UNCHANGED <<up, targetState, compState, alone, cut, faults>>
    BY WriteNewlineFacts
  <1>2. log \in Seq(Line) /\ log # <<>> /\ log[Len(log)].event = Head(lock.events)
    BY <1>1 DEF StateInv, EngineTypes, LockOk
  <1>3. Replay(log') = Replay(log)
    <2>1. DOMAIN log = 1..Len(log)
      BY <1>2
    <2> QED  BY <1>1, <1>2, <2>1, ReplaySame
  <1>4. Replay(log) = Apply(Replay(Front(log)), Head(lock.events))
    <2>1. Front(log) \in Seq(Line) /\ log[Len(log)] \in Line /\ log = Append(Front(log), log[Len(log)])
      BY <1>2, FrontFacts
    <2> QED  BY <1>2, <2>1, ReplayAppend
  <1>5. lock'.body = FALSE /\ (lock'.by = Nobody \/ (Len(lock.events) # 1 /\ lock'.events = Tail(lock.events)))
    <2>1. CASE Len(lock.events) = 1
      BY <1>1, <2>1, WriteNewlineFacts, ReleaseFacts, UnlockedFacts
    <2>2. CASE Len(lock.events) # 1
      BY <2>2, WriteNewlineFacts
    <2> QED  BY <2>1, <2>2
  <1>6. ASSUME "full" \notin cut
        PROVE  /\ mem' = Replay(log') /\ GoodLog(mem')
               /\ lock'.by # Nobody => Fits(mem', lock'.events)
    <2>1. GoodLog(mem) /\ mem = Replay(Front(log)) /\ Fits(mem, lock.events)
      BY <1>1, <1>6 DEF BookKept, Settled
    <2>2. /\ GoodLog(Apply(mem, Head(lock.events)))
          /\ Len(lock.events) # 1 => Fits(Apply(mem, Head(lock.events)), Tail(lock.events))
      BY <2>1, ApplyFits
    <2> QED  BY <1>1, <1>3, <1>4, <1>5, <2>1, <2>2
  <1> QED  BY <1>1, <1>3, <1>5, <1>6 DEF BookKept, Settled

LEMMA FailsBook ==
  ASSUME StateInv, BookKept, WriteFails \/ NewlineFails
  PROVE  BookKept'
  <1>1. CASE WriteFails
    <2>1. /\ UNCHANGED <<mem, log, up, cut>> /\ lock' = Unlocked /\ ~lock.body
      BY <1>1 DEF WriteFails, Release
    <2>2. lock.body = FALSE
      BY <2>1, LockFacts DEF LockRecords
    <2> QED  BY <2>1, <2>2, BookLeft
  <1>2. CASE NewlineFails
    BY <1>2 DEF NewlineFails, BookKept
  <1> QED  BY <1>1, <1>2

LEMMA CrashBook ==
  ASSUME StateInv, BookKept, Crash
  PROVE  BookKept'
  <1>1. up' = FALSE /\ log' = log /\ lock' = Unlocked /\ ("full" \notin cut' => "full" \notin cut)
    BY DEF Crash
  <1> QED  BY <1>1, UnlockedFacts DEF BookKept

LEMMA StartBook ==
  ASSUME StateInv, BookKept, Start
  PROVE  BookKept'
  <1>1. /\ up' = TRUE /\ mem' = Replay(log) /\ UNCHANGED <<log, lock, cut>>
        /\ lock = Unlocked
    BY DEF Start, StateInv, DownIsBlank
  <1> QED  BY <1>1, UnlockedFacts DEF BookKept, Settled

-----------------------------------------------------------------------------
(* One task at work *)

LEMMA RoundTurn ==
  ASSUME StateInv, InTurn, NEW t \in Targets, NEW sev \in TargetSeverities, Round(t, sev)
  PROVE  InTurn'
  <1> SUFFICES ASSUME alone' PROVE InTurn'
    BY DEF InTurn
  <1>1. /\ alone /\ up /\ cut = {} /\ \A u \in Targets : task[u] = Idle
        /\ UNCHANGED <<up, compState, mem, lock, cut>>
        /\ targetState' = [targetState EXCEPT ![t] = sev]
        /\ OneAtWork /\ Computed /\ BoardRight /\ RecoveryTold /\ WritesAnswers
    BY DEF Round, InTurn
  <1>2. /\ task' = [task EXCEPT ![t] = [pc |-> "compute", todo |-> ByTarget(t), new |-> Operational]]
        /\ task \in [Targets -> TaskRecords] /\ targetState \in [Targets -> TargetSeverities]
    BY DEF Round, StateInv, EngineTypes
  <1>3. /\ task'[t].pc = "compute" /\ task'[t].todo = ByTarget(t)
        /\ \A u \in Targets \ {t} : task'[u] = Idle
    BY <1>1, <1>2
  <1>4. \A u \in Targets : task[u].pc = "idle" /\ task[u].todo = {} /\ task'[u].pc \in {"idle", "compute"}
    BY <1>1, <1>3, IdleFacts
  <1>5. OneAtWork' /\ Computed'
    BY <1>3, <1>4, IdleFacts DEF OneAtWork, Computed
  <1>6. BoardRight'
    <2> SUFFICES ASSUME NEW k \in DOMAIN Components, \A u \in Targets : k \notin task'[u].todo
                 PROVE  compState'[Components[k]] = ComponentSeverity(Components[k])'
      BY DEF BoardRight
    <2>1. Components[k] \in Comps /\ t \in Targets \ Watches[Components[k]]
      BY <1>3, ComponentFacts DEF ByTarget
    <2>2. ComponentSeverity(Components[k])' = ComponentSeverity(Components[k])
      BY <1>1, <1>2, <2>1, SeverityOf
    <2>3. compState[Components[k]] = ComponentSeverity(Components[k])
      BY <1>1, <1>4 DEF BoardRight
    <2> QED  BY <1>1, <2>2, <2>3
  <1>7. RecoveryTold'
    BY <1>1, <1>4 DEF RecoveryTold
  <1>8. lock.by \notin Targets
    BY <1>4 DEF StateInv, LockOk
  <1>9. WritesAnswers'
    BY <1>1, <1>8 DEF WritesAnswers
  <1> QED  BY <1>1, <1>5, <1>6, <1>7, <1>9 DEF InTurn

LEMMA ComputeTurn ==
  ASSUME StateInv, InTurn, NEW t \in Targets, Compute(t)
  PROVE  InTurn'
  <1> SUFFICES ASSUME alone' PROVE InTurn'
    BY DEF InTurn
  <1>1. /\ alone /\ up /\ cut = {} /\ task[t].pc = "compute"
        /\ UNCHANGED <<up, targetState, compState, mem, lock, cut>>
        /\ OneAtWork /\ Computed /\ BoardRight /\ RecoveryTold /\ WritesAnswers
    BY DEF Compute, InTurn
  <1> DEFINE sev == ComponentSeverity(Current(t))
  <1>2. task' = [task EXCEPT ![t].pc = "swap", ![t].new = sev] /\ task \in [Targets -> TaskRecords]
    BY DEF Compute, StateInv, EngineTypes
  <1>3. /\ task'[t].pc = "swap" /\ task'[t].todo = task[t].todo /\ task'[t].new = sev
        /\ \A u \in Targets \ {t} : task'[u] = task[u]
    <2> HIDE DEF sev
    <2> QED  BY <1>2 DEF TaskRecords
  <1>4. /\ \A c : ComponentSeverity(c)' = ComponentSeverity(c)
        /\ \A u \in Targets : Current(u)' = Current(u) /\ task'[u].todo = task[u].todo
    BY <1>1, <1>3 DEF ComponentSeverity, Current
  <1>5. \A u \in Targets \ {t} : task[u].pc = "idle"
    BY <1>1 DEF OneAtWork
  <1>6. OneAtWork'
    BY <1>3, <1>5 DEF OneAtWork
  <1>7. Computed'
    BY <1>1, <1>3, <1>4, <1>5 DEF Computed
  <1>8. BoardRight' /\ RecoveryTold'
    BY <1>1, <1>3, <1>4 DEF BoardRight, RecoveryTold
  <1>9. WritesAnswers'
    <2>1. lock.by # t
      BY <1>1 DEF StateInv, LockOk
    <2> QED  BY <1>1, <1>3, <1>4, <2>1 DEF WritesAnswers
  <1> QED  BY <1>1, <1>6, <1>7, <1>8, <1>9 DEF InTurn

(* The task at work is done with its component. *)
LEMMA NextTurn ==
  ASSUME StateInv, alone, InTurn, NEW t \in Targets, task[t].pc \in {"swap", "log"},
         NextComponent(t), UNCHANGED <<up, targetState, compState, cut>>,
         compState[Current(t)] = task[t].new,
         \A k \in DOMAIN Components : Open(mem', Components[k]) \subseteq Open(mem, Components[k]),
         task[t].pc = "log" /\ task[t].new = Operational => Open(mem', Current(t)) = {},
         lock'.by \notin Targets, lock'.by = Admin => Head(lock'.events).ev # "open"
  PROVE  InTurn'
  <1>1. up /\ cut = {} /\ OneAtWork /\ Computed /\ BoardRight /\ RecoveryTold
    BY DEF InTurn
  <1>2. /\ \A u \in Targets \ {t} : task'[u] = task[u] /\ task[u].pc = "idle"
        /\ task'[t].pc \in {"idle", "compute"}
        /\ task'[t].todo = task[t].todo \ {Min(task[t].todo)}
    BY <1>1, NextComponentFacts DEF OneAtWork, StateInv
  <1>3. \A c : ComponentSeverity(c)' = ComponentSeverity(c)
    BY DEF ComponentSeverity
  <1>4. OneAtWork' /\ Computed'
    BY <1>2 DEF OneAtWork, Computed
  <1>5. BoardRight'
    <2> SUFFICES ASSUME NEW k \in DOMAIN Components, \A u \in Targets : k \notin task'[u].todo
                 PROVE  compState[Components[k]] = ComponentSeverity(Components[k])
      BY <1>3 DEF BoardRight
    <2>1. CASE k = Min(task[t].todo)
      BY <1>1, <2>1 DEF Computed, Current
    <2>2. CASE k # Min(task[t].todo)
      <3>1. \A u \in Targets : k \notin task[u].todo
        BY <1>2, <2>2
      <3> QED  BY <1>1, <3>1 DEF BoardRight
    <2> QED  BY <2>1, <2>2
  <1>6. RecoveryTold'
    <2> SUFFICES ASSUME NEW k \in DOMAIN Components, compState[Components[k]] = Operational
                 PROVE  Open(mem', Components[k]) = {}
      BY DEF RecoveryTold
    <2>1. CASE task[t].pc = "log" /\ k = Min(task[t].todo)
      BY <2>1 DEF Current
    <2>2. CASE ~(task[t].pc = "log" /\ k = Min(task[t].todo))
      <3>1. \A u \in Targets : task[u].pc = "log" => k # Min(task[u].todo)
        BY <1>2, <2>2
      <3>2. Open(mem, Components[k]) = {}
        BY <1>1, <3>1 DEF RecoveryTold
      <3> QED  BY <3>2
    <2> QED  BY <2>1, <2>2
  <1>7. WritesAnswers'
    BY DEF WritesAnswers
  <1> QED  BY <1>1, <1>4, <1>5, <1>6, <1>7 DEF InTurn

LEMMA SwapTurn ==
  ASSUME StateInv, InTurn, NEW t \in Targets, Swap(t)
  PROVE  InTurn'
  <1> SUFFICES ASSUME alone' PROVE InTurn'
    BY DEF InTurn
  <1> DEFINE c == Current(t)
             m == Min(task[t].todo)
  <1>1. /\ alone /\ up /\ cut = {} /\ task[t].pc = "swap"
        /\ UNCHANGED <<up, targetState, mem, log, lock, alone, cut>>
        /\ OneAtWork /\ Computed /\ BoardRight /\ RecoveryTold /\ WritesAnswers
        /\ compState' = [compState EXCEPT ![c] = task[t].new]
    BY DEF Swap, InTurn
  <1>2. /\ compState \in [Comps -> Severities] /\ task \in [Targets -> TaskRecords]
        /\ c \in Comps /\ m \in DOMAIN Components /\ m \in task[t].todo /\ c = Components[m]
        /\ task[t].new = ComponentSeverity(c)
        /\ task[t] \in TaskRecords
    BY <1>1, TaskFacts DEF StateInv, EngineTypes, Computed, Current
  <1>3. lock.by \notin Targets
    BY <1>1 DEF StateInv, LockOk, OneAtWork
  <1>4. CASE compState[c] = task[t].new
    <2>1. NextComponent(t)
      BY <1>4 DEF Swap
    <2>2. compState' = compState
      BY <1>1, <1>2, <1>4
    <2> QED  BY <1>1, <1>3, <1>4, <2>1, <2>2, NextTurn DEF WritesAnswers
  <1>5. CASE compState[c] # task[t].new
    <2>1. task' = [task EXCEPT ![t].pc = "log"]
      BY <1>5 DEF Swap
    <2>2. /\ task'[t].pc = "log" /\ task'[t].todo = task[t].todo /\ task'[t].new = task[t].new
          /\ \A u \in Targets \ {t} : task'[u] = task[u] /\ task[u].pc = "idle"
      BY <1>1, <1>2, <2>1 DEF TaskRecords, OneAtWork
    <2>3. /\ \A d : ComponentSeverity(d)' = ComponentSeverity(d)
          /\ \A u \in Targets : Current(u)' = Current(u) /\ task'[u].todo = task[u].todo
      BY <1>1, <2>2 DEF ComponentSeverity, Current
    <2>4. OneAtWork'
      BY <2>2 DEF OneAtWork
    <2> HIDE DEF c, m
    <2>5. compState'[c] = task[t].new /\ \A d \in Comps \ {c} : compState'[d] = compState[d]
      BY <1>1, <1>2
    <2>6. \A k \in DOMAIN Components \ {m} : compState'[Components[k]] = compState[Components[k]]
      BY <1>2, <2>5, ComponentFacts
    <2>7. Computed'
      BY <1>2, <2>2, <2>3, <2>5 DEF Computed, c
    <2>8. BoardRight'
      BY <1>1, <1>2, <2>3, <2>6 DEF BoardRight
    <2>9. RecoveryTold'
      <3> SUFFICES ASSUME NEW k \in DOMAIN Components, k # m, compState'[Components[k]] = Operational
                   PROVE  Open(mem, Components[k]) = {}
        BY <1>1, <2>2 DEF RecoveryTold, m
      <3>1. \A u \in Targets : task[u].pc # "log"
        BY <1>1, <2>2
      <3> QED  BY <1>1, <2>6, <3>1 DEF RecoveryTold
    <2>10. WritesAnswers'
      BY <1>1, <1>3 DEF WritesAnswers
    <2> QED  BY <1>1, <2>4, <2>7, <2>8, <2>9, <2>10 DEF InTurn
  <1> QED  BY <1>4, <1>5

LEMMA TransitionTurn ==
  ASSUME StateInv, BookKept, InTurn, NEW t \in Targets, Transition(t)
  PROVE  InTurn'
  <1> SUFFICES ASSUME alone' PROVE InTurn'
    BY DEF InTurn
  <1> DEFINE c == Current(t)
             new == task[t].new
             events == TransitionEvents(c, new)
  <1>1. /\ alone /\ up /\ cut = {} /\ task[t].pc = "log" /\ lock = Unlocked
        /\ UNCHANGED <<up, targetState, compState, mem, log, alone, cut>>
        /\ OneAtWork /\ Computed /\ BoardRight /\ RecoveryTold
    BY DEF Transition, InTurn
  <1>2. mem \in IncidentLogs /\ c \in Comps /\ new \in Severities /\ GoodLog(mem)
    BY <1>1, TaskFacts DEF StateInv, EngineTypes, BookKept
  <1>3. IF events = <<>> THEN Open(mem, c) = {} ELSE Answers(mem, events, c, new)
    BY <1>2, TransitionWrites
  <1>4. compState[c] = new
    BY <1>1 DEF Computed
  <1>5. CASE events = <<>>
    <2>1. NextComponent(t) /\ lock' = lock
      BY <1>5 DEF Transition
    <2>2. lock'.by = Nobody
      BY <1>1, <2>1, UnlockedFacts
    <2> QED  BY <1>1, <1>3, <1>4, <1>5, <2>1, <2>2, UnlockedFacts, NextTurn
  <1>6. CASE events # <<>>
    <2> HIDE DEF events
    <2>1. lock' = [by |-> t, events |-> events, body |-> FALSE] /\ UNCHANGED task
      BY <1>6 DEF Transition, events
    <2>2. lock'.by = t /\ lock'.events = events
      BY <2>1
    <2>3. WritesAnswers'
      BY <1>1, <1>3, <1>6, <2>1, <2>2, UnlockedFacts DEF WritesAnswers, Current
    <2> QED  BY <1>1, <2>1, <2>3
             DEF InTurn, OneAtWork, Computed, BoardRight, RecoveryTold, ComponentSeverity, Current
  <1> QED  BY <1>5, <1>6

LEMMA ManualTurn ==
  ASSUME StateInv, InTurn, NEW id \in Nat, ManualUpdate(id) \/ ManualResolve(id)
  PROVE  InTurn'
  <1> SUFFICES ASSUME alone' PROVE InTurn'
    BY DEF InTurn
  <1>1. /\ alone /\ up /\ cut = {} /\ UNCHANGED <<up, engine, mem, log, alone, cut>>
        /\ OneAtWork /\ Computed /\ BoardRight /\ RecoveryTold
    BY DEF ManualUpdate, ManualResolve, InTurn
  <1>2. lock'.by = Admin /\ Head(lock'.events) = UpdateEvent(id)
    <2>1. CASE ManualUpdate(id)
      <3>1. lock'.by = Admin /\ lock'.events = <<UpdateEvent(id)>>
        BY <2>1 DEF ManualUpdate
      <3> QED  BY <3>1
    <2>2. CASE ManualResolve(id)
      <3>1. lock'.by = Admin /\ lock'.events = <<UpdateEvent(id), ResolveEvent(id)>>
        BY <2>2 DEF ManualResolve
      <3> QED  BY <3>1
    <2> QED  BY <2>1, <2>2
  <1>3. WritesAnswers'
    BY <1>2, UnlockedFacts DEF WritesAnswers, UpdateEvent
  <1> QED  BY <1>1, <1>3
           DEF InTurn, OneAtWork, Computed, BoardRight, RecoveryTold, ComponentSeverity, Current, engine

LEMMA WriteBodyTurn ==
  ASSUME StateInv, InTurn, WriteBody
  PROVE  InTurn'
  <1>1. /\ lock'.by = lock.by /\ lock'.events = lock.events
        /\ UNCHANGED <<up, engine, mem, alone, cut>>
    BY WriteBodyFacts
  <1> QED  BY <1>1 DEF InTurn, OneAtWork, Computed, BoardRight, RecoveryTold, WritesAnswers,
                       ComponentSeverity, Current, engine

(* What an event and those behind it do to the incidents that are open.    *)
LEMMA FitsFacts ==
  ASSUME NEW m, GoodLog(m), NEW events, Fits(m, events)
  PROVE  LET e == Head(events)
             a == Apply(m, e) IN
         /\ e.ev # "open" => \A d \in Comps : Open(a, d) \subseteq Open(m, d)
         /\ e.ev = "open" => \A d \in Comps : d # e.component => Open(a, d) = Open(m, d)
         /\ Len(events) = 1 => e.ev # "open"
         /\ Len(events) # 1 => Head(Tail(events)).ev # "open"
         /\ \A id \in DOMAIN m.incidents :
              events = <<UpdateEvent(id), ResolveEvent(id)>> =>
                /\ Tail(events) = <<ResolveEvent(id)>> /\ id \in DOMAIN a.incidents
                /\ \A d \in Comps : Open(a, d) = Open(m, d)
         /\ \A id \in DOMAIN m.incidents :
              events = <<ResolveEvent(id)>> => \A d \in Comps : Open(a, d) = Open(m, d) \ {id}
  <1>1. ASSUME NEW id
        PROVE  UpdateEvent(id).ev = "update" /\ ResolveEvent(id).ev = "resolve"
    BY DEF UpdateEvent, ResolveEvent
  <1>2. ASSUME NEW c \in Comps, Open(m, c) = {},
               events = <<OpenEvent(m.nextId, c), UpdateEvent(m.nextId)>>
        PROVE  /\ Head(events).ev = "open" /\ Head(events).component = c /\ Len(events) = 2
               /\ Head(Tail(events)).ev = "update"
               /\ \A d \in Comps : d # c => Open(Apply(m, Head(events)), d) = Open(m, d)
    <2>1. /\ Head(events) = OpenEvent(m.nextId, c) /\ Len(events) = 2
          /\ Head(Tail(events)) = UpdateEvent(m.nextId)
      BY <1>2
    <2>2. \A d \in Comps : d # c => Open(Apply(m, OpenEvent(m.nextId, c)), d) = Open(m, d)
      BY <1>2, OpenKeepsGood
    <2>3. OpenEvent(m.nextId, c).ev = "open" /\ OpenEvent(m.nextId, c).component = c
      BY DEF OpenEvent
    <2> QED  BY <1>1, <2>1, <2>2, <2>3
  <1>3. ASSUME NEW id \in DOMAIN m.incidents, events = <<UpdateEvent(id)>>
        PROVE  /\ Head(events).ev = "update" /\ Len(events) = 1
               /\ \A d \in Comps : Open(Apply(m, Head(events)), d) = Open(m, d)
    <2>1. Head(events) = UpdateEvent(id) /\ Len(events) = 1
      BY <1>3
    <2> QED  BY <1>1, <2>1, UpdateKeepsGood
  <1>4. ASSUME NEW id \in DOMAIN m.incidents, events = <<UpdateEvent(id), ResolveEvent(id)>>
        PROVE  /\ Head(events).ev = "update" /\ Len(events) = 2
               /\ Head(Tail(events)).ev = "resolve" /\ Tail(events) = <<ResolveEvent(id)>>
               /\ id \in DOMAIN Apply(m, Head(events)).incidents
               /\ \A d \in Comps : Open(Apply(m, Head(events)), d) = Open(m, d)
    <2>1. /\ Head(events) = UpdateEvent(id) /\ Len(events) = 2 /\ Tail(events) = <<ResolveEvent(id)>>
          /\ Head(Tail(events)) = ResolveEvent(id)
      BY <1>4
    <2> QED  BY <1>1, <2>1, UpdateKeepsGood
  <1>5. ASSUME NEW id \in DOMAIN m.incidents, events = <<ResolveEvent(id)>>
        PROVE  /\ Head(events).ev = "resolve" /\ Len(events) = 1
               /\ \A d \in Comps : Open(Apply(m, Head(events)), d) = Open(m, d) \ {id}
    <2>1. Head(events) = ResolveEvent(id) /\ Len(events) = 1
      BY <1>5
    <2> QED  BY <1>1, <2>1, ResolveKeepsGood
  <1>6. CASE \E c \in Comps : /\ Open(m, c) = {}
                              /\ events = <<OpenEvent(m.nextId, c), UpdateEvent(m.nextId)>>
    <2>1. \A id : events # <<UpdateEvent(id), ResolveEvent(id)>> /\ events # <<ResolveEvent(id)>>
      BY <1>1, <1>2, <1>6
    <2> QED  BY <1>2, <1>6, <2>1
  <1>7. CASE \E id \in DOMAIN m.incidents : events = <<UpdateEvent(id)>>
    <2>1. \A id : events # <<UpdateEvent(id), ResolveEvent(id)>> /\ events # <<ResolveEvent(id)>>
      BY <1>1, <1>7
    <2> QED  BY <1>3, <1>7, <2>1
  <1>8. CASE \E id \in DOMAIN m.incidents : events = <<UpdateEvent(id), ResolveEvent(id)>>
    <2>1. \A id : events # <<ResolveEvent(id)>>
      BY <1>8
    <2> QED  BY <1>4, <1>8, <2>1
  <1>9. CASE \E id \in DOMAIN m.incidents : events = <<ResolveEvent(id)>>
    <2>1. \A id : events # <<UpdateEvent(id), ResolveEvent(id)>>
      BY <1>9
    <2> QED  BY <1>5, <1>9, <2>1
  <1> QED  BY <1>6, <1>7, <1>8, <1>9 DEF Fits

LEMMA WriteNewlineTurn ==
  ASSUME StateInv, BookKept, InTurn, WriteNewline
  PROVE  InTurn'
  <1> SUFFICES ASSUME alone' PROVE InTurn'
    BY DEF InTurn
  <1> DEFINE events == lock.events
             e == Head(events)
  <1>1. /\ lock.by # Nobody /\ mem' = Apply(mem, e)
        /\ UNCHANGED <<up, targetState, compState, alone, cut, faults>>
        /\ Len(events) = 1 => Release
        /\ Len(events) # 1 => /\ UNCHANGED <<task, reported>>
                              /\ lock'.by = lock.by /\ lock'.events = Tail(events)
    BY WriteNewlineFacts
  <1>2. /\ alone /\ up /\ cut = {}
        /\ OneAtWork /\ Computed /\ BoardRight /\ RecoveryTold /\ WritesAnswers
    BY <1>1 DEF InTurn
  <1>3. GoodLog(mem) /\ Fits(mem, events)
    BY <1>1, <1>2 DEF BookKept
  <1>4. /\ e.ev # "open" => \A d \in Comps : Open(mem', d) \subseteq Open(mem, d)
        /\ e.ev = "open" => \A d \in Comps : d # e.component => Open(mem', d) = Open(mem, d)
        /\ Len(events) = 1 => e.ev # "open"
        /\ Len(events) # 1 => Head(Tail(events)).ev # "open"
        /\ \A id \in DOMAIN mem.incidents :
             events = <<UpdateEvent(id), ResolveEvent(id)>> =>
               /\ Tail(events) = <<ResolveEvent(id)>> /\ id \in DOMAIN mem'.incidents
               /\ \A d \in Comps : Open(mem', d) = Open(mem, d)
        /\ \A id \in DOMAIN mem.incidents :
             events = <<ResolveEvent(id)>> => \A d \in Comps : Open(mem', d) = Open(mem, d) \ {id}
    <2> DEFINE a == Apply(mem, e)
    <2>1. /\ e.ev # "open" => \A d \in Comps : Open(a, d) \subseteq Open(mem, d)
          /\ e.ev = "open" => \A d \in Comps : d # e.component => Open(a, d) = Open(mem, d)
          /\ Len(events) = 1 => e.ev # "open"
          /\ Len(events) # 1 => Head(Tail(events)).ev # "open"
      BY <1>3, FitsFacts
    <2>2. /\ \A id \in DOMAIN mem.incidents :
               events = <<UpdateEvent(id), ResolveEvent(id)>> =>
                 /\ Tail(events) = <<ResolveEvent(id)>> /\ id \in DOMAIN a.incidents
                 /\ \A d \in Comps : Open(a, d) = Open(mem, d)
          /\ \A id \in DOMAIN mem.incidents :
               events = <<ResolveEvent(id)>> => \A d \in Comps : Open(a, d) = Open(mem, d) \ {id}
      BY <1>3, FitsFacts, ZenonT(40)
    <2>3. mem' = a
      BY <1>1
    <2> HIDE DEF a, e, events
    <2> QED  BY <2>1, <2>2, <2>3
  <1>5. \A k \in DOMAIN Components : Components[k] \in Comps
    BY ComponentFacts
  <1>6. CASE lock.by = Admin
    <2>1. \A d \in Comps : Open(mem', d) \subseteq Open(mem, d)
      BY <1>2, <1>4, <1>6 DEF WritesAnswers
    <2>2. UNCHANGED task
      BY <1>1, <1>6 DEF Release
    <2>3. OneAtWork' /\ Computed' /\ BoardRight'
      BY <1>1, <1>2, <2>2 DEF OneAtWork, Computed, BoardRight, ComponentSeverity, Current
    <2>4. RecoveryTold'
      BY <1>1, <1>2, <1>5, <2>1, <2>2 DEF RecoveryTold
    <2>5. WritesAnswers'
      <3>1. CASE Len(events) = 1
        <4>1. lock'.by = Nobody
          BY <1>1, <3>1, UnlockedFacts DEF Release
        <4> QED  BY <4>1, UnlockedFacts DEF WritesAnswers
      <3>2. CASE Len(events) # 1
        BY <1>1, <1>4, <1>6, <3>2, UnlockedFacts DEF WritesAnswers
      <3> QED  BY <3>1, <3>2
    <2> QED  BY <1>1, <1>2, <2>3, <2>4, <2>5 DEF InTurn
  <1>7. CASE lock.by # Admin
    <2> DEFINE t == lock.by
               c == Current(t)
               new == task[t].new
    <2>1. t \in Targets /\ task[t].pc = "log"
      BY <1>1, <1>7, LockFacts
    <2>2. /\ c \in Comps /\ Min(task[t].todo) \in DOMAIN Components
          /\ c = Components[Min(task[t].todo)]
          /\ compState[c] = new /\ Answers(mem, events, c, new)
      BY <1>2, <2>1, TaskFacts DEF StateInv, Computed, WritesAnswers, Current
    <2>3. CASE Len(events) = 1
      <3>1. NextComponent(t) /\ lock'.by = Nobody
        BY <1>1, <1>7, <2>3, UnlockedFacts DEF Release
      <3>2. \A k \in DOMAIN Components : Open(mem', Components[k]) \subseteq Open(mem, Components[k])
        BY <1>4, <1>5, <2>3
      <3>3. ASSUME new = Operational PROVE Open(mem', c) = {}
        <4>1. PICK id \in DOMAIN mem.incidents :
                /\ \/ events = <<UpdateEvent(id), ResolveEvent(id)>>
                   \/ events = <<ResolveEvent(id)>>
                /\ Open(mem, c) \subseteq {id}
          BY <2>2, <3>3 DEF Answers
        <4>2. events = <<ResolveEvent(id)>>
          <5>1. events = <<UpdateEvent(id), ResolveEvent(id)>> => Len(events) = 2
            OBVIOUS
          <5> QED  BY <2>3, <4>1, <5>1
        <4>3. Open(mem', c) = Open(mem, c) \ {id}
          BY <1>4, <2>2, <4>2
        <4> QED  BY <4>1, <4>3
      <3> QED  BY <1>1, <1>2, <2>1, <2>2, <3>1, <3>2, <3>3, UnlockedFacts, NextTurn
    <2>4. CASE Len(events) # 1
      <3>1. UNCHANGED task /\ lock'.by = t /\ lock'.events = Tail(events) /\ Head(Tail(events)).ev # "open"
        BY <1>1, <1>4, <2>4
      <3>2. OneAtWork' /\ Computed' /\ BoardRight'
        BY <1>1, <1>2, <3>1 DEF OneAtWork, Computed, BoardRight, ComponentSeverity, Current
      <3>3. RecoveryTold'
        <4> SUFFICES ASSUME NEW k \in DOMAIN Components, compState[Components[k]] = Operational,
                            \A u \in Targets : task[u].pc = "log" => k # Min(task[u].todo)
                     PROVE  Open(mem', Components[k]) = {}
          BY <1>1, <3>1 DEF RecoveryTold
        <4>1. Open(mem, Components[k]) = {}
          BY <1>2 DEF RecoveryTold
        <4>2. Components[k] # c /\ Components[k] \in Comps
          BY <2>1, <2>2, ComponentFacts
        <4>3. e.ev = "open" => e.component = c
          BY <2>2 DEF Answers
        <4> QED  BY <1>4, <4>1, <4>2, <4>3
      <3>4. Answers(mem', Tail(events), c, new)
        <4>1. CASE new = Operational
          <5>1. PICK id \in DOMAIN mem.incidents :
                  /\ \/ events = <<UpdateEvent(id), ResolveEvent(id)>>
                     \/ events = <<ResolveEvent(id)>>
                  /\ Open(mem, c) \subseteq {id}
            BY <2>2, <4>1 DEF Answers
          <5>2. events = <<UpdateEvent(id), ResolveEvent(id)>>
            <6>1. events = <<ResolveEvent(id)>> => Len(events) = 1
              OBVIOUS
            <6> QED  BY <2>4, <5>1, <6>1
          <5>3. Tail(events) = <<ResolveEvent(id)>> /\ id \in DOMAIN mem'.incidents /\ Open(mem', c) = Open(mem, c)
            BY <1>4, <2>2, <5>2
          <5> QED  BY <3>1, <5>1, <5>3 DEF Answers
        <4>2. CASE new # Operational
          BY <3>1, <4>2 DEF Answers
        <4> QED  BY <4>1, <4>2
      <3>5. Current(t)' = c /\ task'[t].new = new /\ lock'.by # Admin
        BY <1>7, <3>1 DEF Current
      <3>6. WritesAnswers'
        BY <3>1, <3>4, <3>5 DEF WritesAnswers
      <3> QED  BY <1>1, <1>2, <3>2, <3>3, <3>6 DEF InTurn
    <2> QED  BY <2>3, <2>4
  <1> QED  BY <1>6, <1>7

LEMMA FaultTurn ==
  ASSUME InTurn, WriteFails \/ NewlineFails \/ Crash \/ Start
  PROVE  InTurn'
  BY DEF InTurn, WriteFails, NewlineFails, Crash, Start

-----------------------------------------------------------------------------
(* The invariant holds *)

LEMMA EngineInit0 == Init => EngineInv
  <1> SUFFICES ASSUME Init PROVE EngineInv
    OBVIOUS
  <1>1. /\ up = TRUE /\ task = [t \in Targets |-> Idle]
        /\ targetState = [t \in Targets |-> Operational] /\ compState = [c \in Comps |-> Operational]
        /\ reported = {} /\ lock = Unlocked /\ mem = EmptyLog /\ log = <<>>
        /\ alone = TRUE /\ cut = {}
    BY DEF Init, EngineInit
  <1>2. EngineTypes
    BY <1>1, IdleFacts, UnlockedFacts, EmptyLogFacts DEF EngineTypes, TargetSeverities, Severities
  <1>3. \A t \in Targets : task[t] = Idle /\ task[t].pc = "idle" /\ task[t].todo = {}
    BY <1>1, IdleFacts
  <1>4. TasksOk /\ LockOk /\ DownIsBlank /\ LinesEnd
    BY <1>1, <1>3, IdleFacts, UnlockedFacts DEF TasksOk, LockOk, DownIsBlank, LinesEnd
  <1>5. BookKept
    BY <1>1, UnlockedFacts, EmptyLogFacts, ReplayEmpty DEF BookKept, Settled
  <1>6. \A c \in Comps : ComponentSeverity(c) = Operational
    <2> SUFFICES ASSUME NEW c \in Comps PROVE ComponentSeverity(c) = Operational
      OBVIOUS
    <2>1. Watches[c] # {} /\ Watches[c] \subseteq Targets
      BY StatusAssumption
    <2>2. \A t \in Watches[c] : targetState[t] = 0
      BY <1>1, <2>1 DEF Operational
    <2> QED  BY <2>1, <2>2 DEF ComponentSeverity, Operational, Degraded, Partial, Major
  <1>7. BoardRight
    BY <1>1, <1>6, ComponentFacts DEF BoardRight
  <1>8. InTurn
    BY <1>1, <1>3, <1>7, UnlockedFacts, EmptyLogFacts, ComponentFacts
    DEF InTurn, OneAtWork, Computed, RecoveryTold, WritesAnswers
  <1> QED  BY <1>2, <1>4, <1>5, <1>8 DEF EngineInv

LEMMA TaskStep ==
  ASSUME EngineInv, NEW t \in Targets,
         Step(t) \/ \E sev \in TargetSeverities : Round(t, sev)
  PROVE  EngineInv'
  <1>1. StateInv /\ BookKept /\ InTurn
    BY DEF EngineInv, StateInv
  <1>2. StateInv' /\ InTurn'
    BY <1>1, RoundState, ComputeState, SwapState, TransitionState,
       RoundTurn, ComputeTurn, SwapTurn, TransitionTurn DEF Step
  <1>3. BookKept'
    <2>1. CASE Transition(t)
      BY <1>1, <2>1, TransitionBook
    <2>2. CASE ~Transition(t)
      <3>1. UNCHANGED <<mem, log, up, cut, lock>>
        BY <2>2 DEF Step, Round, Compute, Swap
      <3> QED  BY <1>1, <3>1, BookLeft
    <2> QED  BY <2>1, <2>2
  <1> QED  BY <1>2, <1>3 DEF EngineInv, StateInv

LEMMA LogStep ==
  ASSUME EngineInv, Manual \/ WriteBody \/ WriteNewline \/ WriteFails \/ NewlineFails \/ Crash \/ Start
  PROVE  EngineInv'
  <1>1. StateInv /\ BookKept /\ InTurn
    BY DEF EngineInv, StateInv
  <1>2. CASE Manual
    <2>1. PICK id \in 1..MaxEvents : ManualUpdate(id) \/ ManualResolve(id)
      BY <1>2 DEF Manual
    <2>2. id \in Nat
      BY <2>1, StatusAssumption
    <2> QED  BY <1>1, <2>1, <2>2, ManualState, ManualBook, ManualTurn DEF EngineInv, StateInv
  <1>3. CASE WriteBody
    BY <1>1, <1>3, WriteBodyState, WriteBodyBook, WriteBodyTurn DEF EngineInv, StateInv
  <1>4. CASE WriteNewline
    BY <1>1, <1>4, WriteNewlineState, WriteNewlineBook, WriteNewlineTurn DEF EngineInv, StateInv
  <1>5. CASE WriteFails \/ NewlineFails
    BY <1>1, <1>5, FailsState, FailsBook, FaultTurn DEF EngineInv, StateInv
  <1>6. CASE Crash
    BY <1>1, <1>6, CrashState, CrashBook, FaultTurn DEF EngineInv, StateInv
  <1>7. CASE Start
    BY <1>1, <1>7, StartState, StartBook, FaultTurn DEF EngineInv, StateInv
  <1> QED  BY <1>2, <1>3, <1>4, <1>5, <1>6, <1>7

LEMMA EngineStep == EngineInv /\ [Next]_vars => EngineInv'
  <1> SUFFICES ASSUME EngineInv, [Next]_vars PROVE EngineInv'
    OBVIOUS
  <1>1. CASE UNCHANGED vars
    BY <1>1 DEF vars, engine, EngineInv, EngineTypes, TasksOk, LockOk, DownIsBlank, LinesEnd, BookKept,
                Settled, InTurn, OneAtWork, Computed, BoardRight, RecoveryTold, WritesAnswers,
                ComponentSeverity, Current
  <1> QED  BY <1>1, TaskStep, LogStep DEF Next

(* Tasks, lock, log and board hang together in every state. *)
THEOREM EngineInvariant == Spec => []EngineInv
  BY EngineInit0, EngineStep, PTL DEF Spec

(* Every variable has its type: severities do not add up beyond major, and  *)
(* what is logged are events.                                              *)
THEOREM EngineIsTyped == Spec => []TypeOK
  <1>1. EngineInv => TypeOK
    BY DEF EngineInv, EngineTypes, TypeOK, TaskRecords, IncidentLogs, Line, LockRecords
  <1> QED  BY <1>1, EngineInvariant, PTL

(* The memory is the replay of the log but for the event being written, and *)
(* incidents are named by their numbers, until a newline could not be       *)
(* written.                                                                *)
THEOREM MemoryReplays == Spec => []MemoryIsReplay
  <1>1. EngineInv => MemoryIsReplay
    BY DEF EngineInv, BookKept, Settled, GoodLog, MemoryIsReplay, IdsAreNumbers
  <1> QED  BY <1>1, EngineInvariant, PTL

(* The daemon refuses its own log only if a crash or a full disk took an   *)
(* event's newline.                                                        *)
THEOREM RefusedOnlyIfCut == Spec => []StartsUnlessCut
  <1>1. EngineInv => StartsUnlessCut
    <2> SUFFICES ASSUME EngineInv, cut = {}, NEW k \in 1..(Len(log) - 1) PROVE log[k].ended
      BY DEF StartsUnlessCut, Loadable
    <2>1. log \in Seq(Line)
      BY DEF EngineInv, EngineTypes
    <2>2. k \in DOMAIN log /\ k # Len(log)
      BY <2>1
    <2> QED  BY <2>2 DEF EngineInv, LinesEnd
  <1> QED  BY <1>1, EngineInvariant, PTL

(* As long as rounds do not overlap, the daemon lives and the log can be   *)
(* written, a component that recovered has no open incident, and the board *)
(* says what the latest rounds say.                                        *)
THEOREM RecoveriesResolve == Spec => []ResolvedWhenAlone
  <1>1. EngineInv => ResolvedWhenAlone
    <2> SUFFICES ASSUME EngineInv, alone, Quiet, NEW c \in Comps
                 PROVE  /\ compState[c] = Operational => OpenIncidents(c) = {}
                        /\ compState[c] = ComponentSeverity(c)
      BY DEF ResolvedWhenAlone, RecoveredIsResolved
    <2>1. BoardRight /\ RecoveryTold /\ mem \in IncidentLogs
      BY DEF EngineInv, InTurn, EngineTypes
    <2>2. \A t \in Targets : task[t].pc = "idle" /\ task[t].todo = {}
      BY IdleFacts DEF Quiet
    <2>3. PICK k \in DOMAIN Components : c = Components[k]
      BY ComponentFacts
    <2>4. OpenIncidents(c) = Open(mem, c)
      BY <2>1, OpenForFacts
    <2> QED  BY <2>1, <2>2, <2>3, <2>4 DEF BoardRight, RecoveryTold
  <1> QED  BY <1>1, EngineInvariant, PTL

-----------------------------------------------------------------------------
(* The book of IncidentBook, by itself, for every set of components *)

BookInv == BookType /\ OneOpen

LEMMA OpenKeeps ==
  ASSUME BookInv, NEW c \in Keys, OpenEntry(c)
  PROVE  BookInv'
  <1> DEFINE e == [component |-> c, resolved |-> FALSE]
  <1>1. e \in Entry /\ book' = Append(book, e) /\ book \in Seq(Entry)
    BY DEF BookInv, BookType, Entry, OpenEntry
  <1>2. BookType'
    BY <1>1 DEF BookType
  <1>3. /\ DOMAIN book = 1..Len(book) /\ Len(book) \in Nat
        /\ DOMAIN book' = 1..(Len(book) + 1)
        /\ \A i \in DOMAIN book : book'[i] = book[i]
        /\ book'[Len(book) + 1] = e
    BY <1>1
  <1>4. \A i \in DOMAIN book : book[i].component = c => book[i].resolved
    BY DEF OpenEntry, OpenOf
  <1>5. e.component = c
    OBVIOUS
  <1> HIDE DEF e
  <1>6. OneOpen'
    <2> SUFFICES ASSUME NEW i \in DOMAIN book', NEW j \in DOMAIN book',
                        book'[i].component = book'[j].component,
                        ~book'[i].resolved, ~book'[j].resolved
                 PROVE  i = j
      BY DEF OneOpen
    <2>1. CASE i \in DOMAIN book /\ j \in DOMAIN book
      BY <1>3, <2>1 DEF BookInv, OneOpen
    <2>2. CASE i \notin DOMAIN book \/ j \notin DOMAIN book
      <3>1. book'[i].component = c /\ book'[j].component = c
        BY <1>3, <1>5, <2>2
      <3>2. i \notin DOMAIN book /\ j \notin DOMAIN book
        BY <1>3, <1>4, <3>1
      <3> QED  BY <1>3, <3>2
    <2> QED  BY <2>1, <2>2
  <1> QED  BY <1>2, <1>6 DEF BookInv

LEMMA ResolveKeeps ==
  ASSUME BookInv, NEW i \in DOMAIN book, ResolveEntry(i)
  PROVE  BookInv'
  <1>1. book \in Seq(Entry) /\ book' = [book EXCEPT ![i].resolved = TRUE]
    BY DEF BookInv, BookType, ResolveEntry
  <1>2. DOMAIN book = 1..Len(book) /\ book[i] \in Entry
    BY <1>1
  <1>3. [book[i] EXCEPT !.resolved = TRUE] \in Entry
    BY <1>2 DEF Entry
  <1>4. BookType'
    BY <1>1, <1>2, <1>3 DEF BookType
  <1>5. DOMAIN book' = DOMAIN book
    BY <1>1
  <1>6. \A j \in DOMAIN book : /\ book'[j].component = book[j].component
                               /\ ~book'[j].resolved => ~book[j].resolved
    BY <1>1, <1>2 DEF Entry
  <1>7. OneOpen'
    BY <1>5, <1>6 DEF BookInv, OneOpen
  <1> QED  BY <1>4, <1>7 DEF BookInv

LEMMA BookStep == BookInv /\ [BookNext]_book => BookInv'
  <1> SUFFICES ASSUME BookInv, [BookNext]_book PROVE BookInv'
    OBVIOUS
  <1>1. CASE UNCHANGED book
    BY <1>1 DEF BookInv, BookType, OneOpen
  <1> QED  BY <1>1, OpenKeeps, ResolveKeeps DEF BookNext

(* No component ever has two open incidents, for any set of components. *)
THEOREM OneOpenIncident == BookSpec => []OneOpen
  <1>1. BookInit => BookInv
    BY DEF BookInit, BookInv, BookType, OneOpen
  <1>2. BookInv => OneOpen
    BY DEF BookInv
  <1> QED  BY <1>1, <1>2, BookStep, PTL DEF BookSpec

(* Incidents are never renumbered, dropped or reopened: an id that was      *)
(* handed out goes on naming the same incident.                            *)
THEOREM Permanent == BookSpec => BookGrows
  <1> DEFINE Grows == /\ Len(book) <= Len(book')
                      /\ \A i \in DOMAIN book : /\ book'[i].component = book[i].component
                                                /\ book[i].resolved => book'[i].resolved
  <1>1. BookInit => BookInv
    BY DEF BookInit, BookInv, BookType, OneOpen
  <1>2. BookInv /\ [BookNext]_book => [Grows]_book
    <2> SUFFICES ASSUME BookInv, BookNext PROVE Grows
      OBVIOUS
    <2>1. book \in Seq(Entry) /\ DOMAIN book = 1..Len(book) /\ Len(book) \in Nat
      BY DEF BookInv, BookType
    <2>2. ASSUME NEW c \in Keys, OpenEntry(c) PROVE Grows
      BY <2>1, <2>2 DEF OpenEntry
    <2>3. ASSUME NEW i \in DOMAIN book, ResolveEntry(i) PROVE Grows
      <3>1. book' = [book EXCEPT ![i].resolved = TRUE] /\ book[i] \in Entry
        BY <2>1, <2>3 DEF ResolveEntry
      <3>2. Len(book') = Len(book)
        BY <2>1, <3>1
      <3> QED  BY <2>1, <3>1, <3>2 DEF Entry
    <2> QED  BY <2>2, <2>3 DEF BookNext
  <1> QED  BY <1>1, <1>2, BookStep, PTL DEF BookSpec, BookGrows

-----------------------------------------------------------------------------
(* The engine implements IncidentBook *)

BookEntry == [component : Comps, resolved : BOOLEAN]

(* A step of the book a, or none. *)
Moves(a, b) ==
  \/ b = a
  \/ \E c \in Comps : /\ {i \in DOMAIN a : a[i].component = c /\ ~a[i].resolved} = {}
                      /\ b = Append(a, [component |-> c, resolved |-> FALSE])
  \/ \E i \in DOMAIN a : ~a[i].resolved /\ b = [a EXCEPT ![i].resolved = TRUE]

LEMMA EntriesFacts ==
  ASSUME NEW m \in IncidentLogs
  PROVE  /\ Entries(m.incidents) \in Seq(BookEntry)
         /\ Len(Entries(m.incidents)) = Len(m.incidents)
         /\ DOMAIN Entries(m.incidents) = DOMAIN m.incidents
         /\ \A k \in DOMAIN m.incidents :
              /\ Entries(m.incidents)[k].component = m.incidents[k].component
              /\ Entries(m.incidents)[k].resolved = m.incidents[k].resolved
  <1> DEFINE s == m.incidents
             f == [k \in DOMAIN s |-> [component |-> s[k].component, resolved |-> s[k].resolved]]
  <1>1. s \in Seq(Incident) /\ DOMAIN s = 1..Len(s) /\ Len(s) \in Nat
    BY DEF IncidentLogs
  <1>2. \A k \in DOMAIN s : s[k].component \in Comps /\ s[k].resolved \in BOOLEAN
    <2>1. \A k \in DOMAIN s : s[k] \in Incident
      BY <1>1
    <2> QED  BY <2>1 DEF Incident
  <1>3. \A k \in DOMAIN s : f[k] \in BookEntry /\ f[k].component = s[k].component /\ f[k].resolved = s[k].resolved
    BY <1>2 DEF BookEntry
  <1>4. f \in [1..Len(s) -> BookEntry]
    <2>1. f = [k \in 1..Len(s) |-> f[k]]
      BY <1>1
    <2> HIDE DEF f
    <2> QED  BY <1>1, <1>3, <2>1
  <1> HIDE DEF f
  <1>5. f \in Seq(BookEntry) /\ Len(f) = Len(s) /\ DOMAIN f = DOMAIN s
    BY <1>1, <1>4
  <1> QED  BY <1>3, <1>5 DEF Entries, f

(* An event that fits is a step of the book, or none. *)
LEMMA ApplyMoves ==
  ASSUME NEW m, GoodLog(m), NEW events, Fits(m, events)
  PROVE  Moves(Entries(m.incidents), Entries(Apply(m, Head(events)).incidents))
  <1> DEFINE a == Entries(m.incidents)
             n == Apply(m, Head(events))
             b == Entries(n.incidents)
  <1>1. GoodLog(n) /\ m \in IncidentLogs /\ n \in IncidentLogs
    BY ApplyFits DEF GoodLog
  <1>2. /\ a \in Seq(BookEntry) /\ DOMAIN a = DOMAIN m.incidents /\ Len(a) = Len(m.incidents)
        /\ \A k \in DOMAIN m.incidents : /\ a[k].component = m.incidents[k].component
                                         /\ a[k].resolved = m.incidents[k].resolved
    BY <1>1, EntriesFacts
  <1>3. /\ b \in Seq(BookEntry) /\ DOMAIN b = DOMAIN n.incidents /\ Len(b) = Len(n.incidents)
        /\ \A k \in DOMAIN n.incidents : /\ b[k].component = n.incidents[k].component
                                         /\ b[k].resolved = n.incidents[k].resolved
    BY <1>1, EntriesFacts
  <1>4. \A x, y \in BookEntry : x.component = y.component /\ x.resolved = y.resolved => x = y
    BY DEF BookEntry
  <1>5. /\ m.nextId \in Nat /\ m.nextId = Len(m.incidents) + 1 /\ Len(m.incidents) \in Nat
        /\ m.incidents \in Seq(Incident) /\ DOMAIN m.incidents = 1..Len(m.incidents)
        /\ \A k, id \in DOMAIN m.incidents : IsFirst(m.incidents, k, id) <=> k = id
    BY GoodFacts
  <1>6. ASSUME NEW c \in Comps, Open(m, c) = {}, Head(events) = OpenEvent(m.nextId, c)
        PROVE  Moves(a, b)
    <2> DEFINE e == Head(events)
               i == [id |-> e.id, component |-> e.component, resolved |-> FALSE, updates |-> 0]
               x == [component |-> c, resolved |-> FALSE]
    <2>1. e \in Event /\ e.ev = "open" /\ e.component = c
      <3>1. OpenEvent(m.nextId, c) \in Event
        BY <1>5, EventTypes
      <3>2. OpenEvent(m.nextId, c).ev = "open" /\ OpenEvent(m.nextId, c).component = c
        BY DEF OpenEvent
      <3> QED  BY <1>6, <3>1, <3>2
    <2>2. n.incidents = Append(m.incidents, i) /\ i.component = c /\ i.resolved = FALSE
      BY <1>1, <2>1, ApplyOpens
    <2>3. x \in BookEntry /\ x.component = c /\ x.resolved = FALSE
      BY DEF BookEntry
    <2> HIDE DEF i, x, e, a, b, n
    <2>4. /\ Len(n.incidents) = Len(m.incidents) + 1 /\ n.incidents[Len(m.incidents) + 1] = i
          /\ DOMAIN n.incidents = 1..(Len(m.incidents) + 1)
          /\ \A k \in 1..Len(m.incidents) : n.incidents[k] = m.incidents[k]
      BY <1>5, <2>2
    <2>5. /\ Append(a, x) \in Seq(BookEntry) /\ Len(Append(a, x)) = Len(a) + 1
          /\ \A k \in 1..Len(a) : Append(a, x)[k] = a[k]
          /\ Append(a, x)[Len(a) + 1] = x
      BY <1>2, <2>3, AppendProperties
    <2>6. \A k \in 1..Len(b) : b[k] \in BookEntry /\ Append(a, x)[k] \in BookEntry
      BY <1>2, <1>3, <1>5, <2>4, <2>5
    <2>7. ASSUME NEW k \in 1..Len(b) PROVE b[k] = Append(a, x)[k]
      <3>1. CASE k = Len(m.incidents) + 1
        <4>1. b[k].component = c /\ b[k].resolved = FALSE /\ Append(a, x)[k] = x
          BY <1>2, <1>3, <1>5, <2>2, <2>4, <2>5, <3>1
        <4> QED  BY <1>4, <2>3, <2>6, <4>1
      <3>2. CASE k # Len(m.incidents) + 1
        <4>1. k \in 1..Len(m.incidents) /\ k \in 1..Len(a) /\ k \in DOMAIN n.incidents
          BY <1>2, <1>3, <1>5, <2>4, <3>2
        <4>2. b[k].component = a[k].component /\ b[k].resolved = a[k].resolved /\ Append(a, x)[k] = a[k]
          BY <1>2, <1>3, <1>5, <2>4, <2>5, <4>1
        <4> QED  BY <1>4, <2>6, <4>2
      <3> QED  BY <3>1, <3>2
    <2>8. b = Append(a, x)
      <3>1. Len(b) = Len(Append(a, x))
        BY <1>2, <1>3, <2>4, <2>5
      <3> QED  BY <1>3, <2>5, <2>7, <3>1, SeqEqual
    <2>9. {k \in DOMAIN a : a[k].component = c /\ ~a[k].resolved} = {}
      BY <1>2, <1>6 DEF Open
    <2> QED  BY <2>8, <2>9 DEF Moves, x
  <1>7. ASSUME NEW id \in DOMAIN m.incidents, Head(events) = UpdateEvent(id)
        PROVE  Moves(a, b)
    <2>1. Head(events) \in Event /\ Head(events).ev = "update"
      <3>1. UpdateEvent(id) \in Event
        BY <1>5 DEF Event, UpdateEvent
      <3>2. UpdateEvent(id).ev = "update"
        BY DEF UpdateEvent
      <3> QED  BY <1>7, <3>1, <3>2
    <2>2. /\ Len(n.incidents) = Len(m.incidents) /\ DOMAIN n.incidents = DOMAIN m.incidents
          /\ \A k \in DOMAIN m.incidents :
               /\ n.incidents[k].component = m.incidents[k].component
               /\ n.incidents[k].resolved = m.incidents[k].resolved
      BY <1>1, <2>1, ApplyUpdates
    <2> HIDE DEF a, b, n
    <2>3. \A k \in 1..Len(b) : b[k] = a[k]
      BY <1>2, <1>3, <1>4, <1>5, <2>2
    <2>4. b = a
      BY <1>2, <1>3, <2>2, <2>3, SeqEqual
    <2> QED  BY <2>4 DEF Moves
  <1>8. ASSUME NEW id \in DOMAIN m.incidents, ~m.incidents[id].resolved, Head(events) = ResolveEvent(id)
        PROVE  Moves(a, b)
    <2>1. Head(events) \in Event /\ Head(events).ev = "resolve" /\ Head(events).id = id
      <3>1. ResolveEvent(id) \in Event
        BY <1>5 DEF Event, ResolveEvent
      <3>2. ResolveEvent(id).ev = "resolve" /\ ResolveEvent(id).id = id
        BY DEF ResolveEvent
      <3> QED  BY <1>8, <3>1, <3>2
    <2>2. /\ Len(n.incidents) = Len(m.incidents) /\ DOMAIN n.incidents = DOMAIN m.incidents
          /\ \A k \in DOMAIN m.incidents :
               /\ n.incidents[k].component = m.incidents[k].component
               /\ n.incidents[k].resolved = (m.incidents[k].resolved \/ k = id)
      BY <1>1, <1>5, <2>1, ApplyResolves
    <2> DEFINE x == [a[id] EXCEPT !.resolved = TRUE]
               d == [a EXCEPT ![id] = x]
    <2> HIDE DEF a, b, n
    <2>3. a[id] \in BookEntry /\ id \in 1..Len(a)
      BY <1>2, <1>5
    <2>4. x \in BookEntry /\ x.component = a[id].component /\ x.resolved = TRUE
      BY <2>3 DEF BookEntry
    <2> HIDE DEF x
    <2>5. /\ d \in Seq(BookEntry) /\ Len(d) = Len(a)
          /\ \A k \in 1..Len(a) : d[k] = IF k = id THEN x ELSE a[k]
      BY <1>2, <2>3, <2>4
    <2> HIDE DEF d
    <2>6. ASSUME NEW k \in 1..Len(b) PROVE b[k] = d[k]
      <3>1. k \in DOMAIN m.incidents /\ k \in DOMAIN n.incidents /\ k \in 1..Len(a) /\ b[k] \in BookEntry /\ d[k] \in BookEntry
        BY <1>2, <1>3, <1>5, <2>2, <2>5
      <3>2. b[k].component = a[k].component /\ b[k].resolved = (m.incidents[k].resolved \/ k = id)
        BY <1>2, <1>3, <2>2, <3>1
      <3>3. CASE k = id
        BY <1>4, <2>4, <2>5, <3>1, <3>2, <3>3
      <3>4. CASE k # id
        <4>1. d[k] = a[k]
          BY <2>5, <3>1, <3>4
        <4>2. m.incidents[k].resolved \in BOOLEAN
          <5>1. m.incidents[k] \in Incident
            BY <1>5, <3>1
          <5> QED  BY <5>1 DEF Incident
        <4>3. b[k].resolved = m.incidents[k].resolved
          BY <3>2, <3>4, <4>2
        <4> QED  BY <1>2, <1>4, <3>1, <3>2, <4>1, <4>3
      <3> QED  BY <3>3, <3>4
    <2>7. b = d
      BY <1>2, <1>3, <2>2, <2>5, <2>6, SeqEqual
    <2>8. id \in DOMAIN a /\ ~a[id].resolved
      BY <1>2, <1>8
    <2> QED  BY <2>7, <2>8 DEF Moves, d, x
  <1>9. CASE \E c \in Comps : /\ Open(m, c) = {}
                              /\ events = <<OpenEvent(m.nextId, c), UpdateEvent(m.nextId)>>
    BY <1>6, <1>9
  <1>10. CASE \E id \in DOMAIN m.incidents : events = <<UpdateEvent(id)>>
    BY <1>7, <1>10
  <1>11. CASE \E id \in DOMAIN m.incidents : events = <<UpdateEvent(id), ResolveEvent(id)>>
    BY <1>7, <1>11
  <1>12. CASE \E id \in DOMAIN m.incidents : ~m.incidents[id].resolved /\ events = <<ResolveEvent(id)>>
    BY <1>8, <1>12
  <1> HIDE DEF a, b, n
  <1> QED  BY <1>9, <1>10, <1>11, <1>12 DEF Fits

(* A half-written event is in the replay of the file. *)
LEMMA HalfWritten ==
  ASSUME StateInv, BookKept, lock.body, up, "full" \notin cut
  PROVE  Replay(log) = Apply(mem, Head(lock.events))
  <1>1. log \in Seq(Line) /\ log # <<>> /\ log[Len(log)].event = Head(lock.events)
    BY DEF StateInv, EngineTypes, LockOk
  <1>2. Front(log) \in Seq(Line) /\ log[Len(log)] \in Line /\ log = Append(Front(log), log[Len(log)])
    BY <1>1, FrontFacts
  <1>3. Replay(log) = Apply(Replay(Front(log)), Head(lock.events))
    BY <1>1, <1>2, ReplayAppend
  <1> QED  BY <1>3 DEF BookKept, Settled

LEMMA EngineMoves ==
  ASSUME EngineInv, [Next]_vars, "full" \notin cut'
  PROVE  Moves(BookOfEngine, BookOfEngine')
  <1>1. StateInv /\ BookKept
    BY DEF EngineInv, StateInv
  <1>2. CASE UNCHANGED <<up, mem>> /\ up
    <2>1. BookOfEngine' = BookOfEngine
      BY <1>2 DEF BookOfEngine
    <2> QED  BY <2>1 DEF Moves
  <1>3. CASE UNCHANGED vars
    <2>1. BookOfEngine' = BookOfEngine
      BY <1>3 DEF BookOfEngine, vars
    <2> QED  BY <2>1 DEF Moves
  <1>4. CASE WriteNewline
    <2>1. /\ up /\ up' = up /\ cut' = cut /\ lock.by # Nobody /\ mem' = Apply(mem, Head(lock.events))
      BY <1>1, <1>4, WriteNewlineFacts
    <2>2. GoodLog(mem) /\ Fits(mem, lock.events)
      BY <1>1, <2>1 DEF BookKept
    <2>3. /\ BookOfEngine = Entries(mem.incidents)
          /\ BookOfEngine' = Entries(Apply(mem, Head(lock.events)).incidents)
      BY <2>1 DEF BookOfEngine
    <2> QED  BY <2>2, <2>3, ApplyMoves
  <1>5. CASE Crash
    <2>1. up /\ up' = FALSE /\ log' = log /\ "full" \notin cut
      BY <1>5 DEF Crash
    <2>2. BookOfEngine = Entries(mem.incidents) /\ BookOfEngine' = Entries(Replay(log).incidents)
      BY <2>1 DEF BookOfEngine
    <2>3. CASE lock.body
      <3>1. Replay(log) = Apply(mem, Head(lock.events)) /\ lock.by # Nobody
        BY <1>1, <2>1, <2>3, HalfWritten, LockFacts
      <3>2. GoodLog(mem) /\ Fits(mem, lock.events)
        BY <1>1, <2>1, <3>1 DEF BookKept
      <3> QED  BY <2>2, <3>1, <3>2, ApplyMoves
    <2>4. CASE ~lock.body
      <3>1. mem = Replay(log)
        BY <1>1, <2>1, <2>4 DEF BookKept, Settled
      <3> QED  BY <2>2, <3>1 DEF Moves
    <2> QED  BY <2>3, <2>4
  <1>6. CASE Start
    <2>1. BookOfEngine' = BookOfEngine
      BY <1>6 DEF Start, BookOfEngine
    <2> QED  BY <2>1 DEF Moves
  <1>7. ASSUME NEW t \in Targets, Step(t) \/ \E sev \in TargetSeverities : Round(t, sev)
        PROVE  UNCHANGED <<up, mem>> /\ up
    BY <1>7 DEF Step, Round, Compute, Swap, Transition
  <1>8. ASSUME Manual \/ WriteBody \/ WriteFails \/ NewlineFails
        PROVE  UNCHANGED <<up, mem>> /\ up
    BY <1>8 DEF Manual, ManualUpdate, ManualResolve, WriteBody, WriteFails, NewlineFails
  <1> QED  BY <1>2, <1>3, <1>4, <1>5, <1>6, <1>7, <1>8 DEF Next

LEMMA MovesAreBook ==
  Moves(BookOfEngine, BookOfEngine') => [Book!BookNext]_BookOfEngine
  BY DEF Moves, Book!BookNext, Book!OpenEntry, Book!OpenOf, Book!ResolveEntry

(* The engine's incidents are a book of incidents: whatever tasks, manual   *)
(* updates, failed writes, crashes and restarts do, none is lost, invented *)
(* or renumbered, no component has two that are open, and none is resolved *)
(* twice, until a newline could not be written.                            *)
THEOREM EngineIsBook == Spec => ImplementsBook
  <1>1. Init => Book!BookInit
    <2> SUFFICES ASSUME Init PROVE BookOfEngine = <<>>
      BY DEF Book!BookInit
    <2>1. mem.incidents = <<>> /\ up /\ mem \in IncidentLogs
      BY EmptyLogFacts DEF Init, EmptyLog
    <2>2. Entries(mem.incidents) \in Seq(BookEntry) /\ Len(Entries(mem.incidents)) = 0
      BY <2>1, EntriesFacts, EmptySeq
    <2>3. Entries(mem.incidents) = <<>>
      BY <2>2, EmptySeq
    <2> QED  BY <2>1, <2>3 DEF BookOfEngine
  <1>2. EngineInv /\ [Next]_vars => [("full" \notin cut') => Book!BookNext]_BookOfEngine
    BY EngineMoves, MovesAreBook
  <1> QED  BY <1>1, <1>2, EngineInvariant, PTL DEF Spec, ImplementsBook

(* A component has one open incident at most, in every state in which the   *)
(* engine runs.                                                            *)
THEOREM OneOpenInEngine ==
  Spec => [](up /\ "full" \notin cut =>
               \A c \in Comps : \A i, j \in OpenIncidents(c) : i = j)
  <1>1. EngineInv => (up /\ "full" \notin cut =>
                        \A c \in Comps : \A i, j \in OpenIncidents(c) : i = j)
    <2> SUFFICES ASSUME EngineInv, up, "full" \notin cut, NEW c \in Comps
                 PROVE  \A i, j \in OpenIncidents(c) : i = j
      OBVIOUS
    <2>1. GoodLog(mem)
      BY DEF EngineInv, BookKept
    <2>2. OpenIncidents(c) = Open(mem, c)
      BY <2>1, OpenForFacts DEF GoodLog
    <2> QED  BY <2>1, <2>2 DEF GoodLog
  <1> QED  BY <1>1, EngineInvariant, PTL

=============================================================================
