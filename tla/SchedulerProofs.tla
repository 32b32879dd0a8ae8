-------------------------- MODULE SchedulerProofs --------------------------
(***************************************************************************)
(* Proofs of the two modules of the scheduler.                             *)
(*                                                                         *)
(* Probing, for every setup, number of pings and step: a round's samples    *)
(* are its own, a ping counts as lost only when no reply reached the socket *)
(* in time, a round takes no longer than its timeouts, and the slots two    *)
(* rounds of a target fall into are explained.                             *)
(*                                                                         *)
(* Lifecycle, for every set of configurations and targets and any number of *)
(* edits and faults: a daemon has the tasks of one generation only, and no  *)
(* reload costs the probing that goes on.                                  *)
(***************************************************************************)
EXTENDS Probing, Lifecycle, SequenceTheorems, TLAPS

-----------------------------------------------------------------------------
(* Probing *)

SampleOf(s) == [of : [task : DOMAIN s.kinds, round : Nat, seq : 0..(Pings - 1)],
                seq : 0..(Pings - 1), rtt : Nat]

TaskType(s) ==
  [ph : Phases, due : Nat, tick : Nat, at : Nat, wait : Nat, round : Nat, seq : 0..(Pings - 1),
   t0 : Nat, rtts : Seq(SampleOf(s)), heard : SUBSET Nat, errors : SUBSET Nat, ok : BOOLEAN]

PacketType(s) == [task : DOMAIN s.kinds, round : Nat, seq : 0..(Pings - 1), at : Nat]

LastType == [tick : Nat, at : Nat, wait : Nat, end : Nat]

ProbeTypes ==
  /\ setup \in Setups /\ now \in Nat /\ dups \in 0..setup.dups
  /\ task \in [Tasks -> TaskType(setup)] /\ inbox \in [Tasks -> Seq(PacketType(setup))]
  /\ flying \subseteq PacketType(setup) /\ last \in [Tasks -> LastType]
  /\ \A q \in flying : q.at <= now

(* What holds of one task: s is the setup, t the task, r its record, b its  *)
(* socket's queue, f the replies on their way, l its last round, n the time.*)

Early == {"lookup", "connect", "run"}
Open  == {"send", "await", "pace"}

Slow(s) == IF s.timeout > s.interval THEN s.timeout ELSE s.interval

(* What a round may have taken beside its pings. *)
Extra(s, k) == (IF k \in {"phoenix", "exec"} THEN s.timeout ELSE 0)
               + (IF k = "exec" THEN s.lookup ELSE 0)

(* When ping r.seq of a round is sent at the latest. *)
Budget(s, k, r) == r.at + Extra(s, k) + r.seq * Slow(s)

Timely(s, k, r, n) ==
  /\ r.at = r.tick + r.wait /\ r.wait <= s.lookup /\ r.round <= s.rounds
  /\ r.ph \in Early => r.seq = 0
  /\ r.ph = "lookup" => r.wait = 0 /\ r.tick <= n /\ n <= r.tick + s.lookup
  /\ r.ph = "connect" => k = "phoenix" /\ r.t0 = r.at
  /\ r.ph = "run" => k = "exec" /\ r.t0 <= r.at + s.lookup
  /\ r.ph \in {"connect", "run", "await"} => r.t0 <= n /\ n <= r.t0 + s.timeout
  /\ r.ph = "send" => n <= Budget(s, k, r)
  /\ r.ph = "await" => r.t0 <= Budget(s, k, r)
  /\ r.ph = "pace" => r.t0 + Slow(s) <= Budget(s, k, r) /\ r.t0 <= n /\ n <= r.t0 + Slow(s)

Spaced(s, r, l, n) ==
  /\ l.at = l.tick + l.wait
  /\ r.ph \in Early \cup Open => r.round >= 1
  /\ (r.ph \in Early \cup Open \cup {"idle"} /\ r.round >= 1) => r.due = r.tick + Step
  /\ (r.ph = "idle" /\ r.round >= 1) =>
       /\ l.tick = r.tick /\ l.at = r.at /\ l.wait = r.wait
       /\ r.round < s.rounds => n <= r.due \/ n <= l.end
  /\ (r.ph \in Early \cup Open /\ r.round > 1) =>
       r.tick >= l.tick + Step /\ (l.end > l.tick + Step \/ r.tick = l.tick + Step)

(* A sample of round g of task t, and a packet its socket takes. *)
OwnSample(s, t, g, x) ==
  /\ x.of.seq = x.seq /\ x.rtt <= s.timeout
  /\ (x.of.task = t /\ x.of.round = g) \/ (s.kinds[t] \in Raw /\ s.kinds[x.of.task] \in Raw)

OwnPacket(s, t, g, p) ==
  (p.task = t /\ p.round = g) \/ (s.kinds[t] \in Raw /\ s.kinds[p.task] \in Raw)

Rising(rtts) == \A i, j \in DOMAIN rtts : i < j => rtts[i].seq < rtts[j].seq
Below(rtts, m) == Len(rtts) <= m /\ \A i \in DOMAIN rtts : rtts[i].seq < m

Own(s, t, r, b, n) ==
  /\ Rising(r.rtts) /\ Below(r.rtts, Pings)
  /\ \A i \in DOMAIN r.rtts : OwnSample(s, t, r.round, r.rtts[i])
  /\ r.ph \in Early \cup Open => Below(r.rtts, r.seq)
  /\ r.ph \notin Open => b = <<>>
  /\ \A i \in DOMAIN b : b[i].at <= n /\ OwnPacket(s, t, r.round, b[i])

Sampled(rtts) == {rtts[i].seq : i \in DOMAIN rtts}
Queued(b) == {b[i].seq : i \in DOMAIN b}

(* The replies on their way to round g of t. *)
Coming(t, g, f) == {q \in f : q.task = t /\ q.round = g}

Counted(s, t, r, b, f, n) ==
  /\ \A q \in f : q.task = t => q.round <= r.round
  /\ r.ph \in Early => Coming(t, r.round, f) = {} /\ r.heard = {} /\ r.errors = {}
  /\ r.ph \in {"send", "pace"} => \A q \in Coming(t, r.round, f) : q.seq < r.seq
  /\ r.ph = "await" => \A q \in Coming(t, r.round, f) : 
       q.seq < r.seq \/ (q.seq = r.seq /\ q.at = r.t0)
  /\ r.ph \in Open =>
       /\ \A x \in r.heard : x < r.seq \/ (x = r.seq /\ r.ph = "await")
       /\ \A x \in 0..(r.seq - 1) :
            \/ x \in r.errors \cup Sampled(r.rtts)
            \/ /\ x \notin r.heard
               /\ \A q \in Coming(t, r.round, f) : q.seq = x => n >= q.at + s.timeout
       /\ s.kinds[t] = "phoenix" => r.errors = {}
  /\ (r.ph = "await" /\ r.seq \in r.heard) => n < r.t0 + s.timeout /\ r.seq \in Queued(b)
  /\ (r.ph = "idle" /\ r.ok) => r.heard \subseteq r.errors \cup Sampled(r.rtts)

TaskOk(s, t, r, b, f, l, n) ==
  /\ Timely(s, s.kinds[t], r, n) /\ Spaced(s, r, l, n)
  /\ Own(s, t, r, b, n) /\ Counted(s, t, r, b, f, n)

ProbeInv ==
  ProbeTypes /\ \A t \in Tasks : TaskOk(setup, t, task[t], inbox[t], flying, last[t], now)

-----------------------------------------------------------------------------
(* Constants and records *)

LEMMA SetupFacts ==
  ASSUME NEW s \in Setups
  PROVE  /\ s.timeout \in Nat \ {0} /\ s.interval \in Nat /\ s.lookup \in Nat
         /\ s.rounds \in Nat /\ s.dups \in Nat /\ s.offsets \subseteq 0..(Step - 1)
         /\ s.kinds \in Seq(Kinds) /\ \A t \in DOMAIN s.kinds : s.kinds[t] \in Kinds
         /\ Slow(s) \in Nat /\ s.timeout <= Slow(s) /\ s.interval <= Slow(s)
  <1>1. s \in SetupType /\ s.offsets \subseteq 0..(Step - 1)
    BY SetupsAssumption
  <1>2. /\ s.timeout \in Nat \ {0} /\ s.interval \in Nat /\ s.lookup \in Nat
        /\ s.rounds \in Nat /\ s.dups \in Nat /\ s.kinds \in Seq(Kinds)
    BY <1>1 DEF SetupType
  <1> QED  BY <1>1, <1>2 DEF Slow

LEMMA PingsNat == Pings \in Nat /\ Pings >= 3 /\ Step \in Nat \ {0} /\ 0 \in 0..(Pings - 1)
  BY PingsAssumption, SMTT(30)

LEMMA RecordFacts ==
  ASSUME NEW s \in Setups, NEW r \in TaskType(s)
  PROVE  /\ r.ph \in Phases /\ r.due \in Nat /\ r.tick \in Nat /\ r.at \in Nat /\ r.wait \in Nat
         /\ r.round \in Nat /\ r.seq \in 0..(Pings - 1) /\ r.seq \in Nat /\ r.t0 \in Nat
         /\ r.rtts \in Seq(SampleOf(s)) /\ r.heard \subseteq Nat /\ r.errors \subseteq Nat
         /\ r.ok \in BOOLEAN
  BY PingsNat DEF TaskType

LEMMA Times ==
  ASSUME NEW m \in Nat, NEW w \in Nat
  PROVE  m * w \in Nat /\ (m + 1) * w = m * w + w /\ 0 * w = 0
  OBVIOUS

LEMMA BudgetNat ==
  ASSUME NEW s \in Setups, NEW k, NEW r, r.at \in Nat, r.seq \in Nat
  PROVE  /\ Budget(s, k, r) \in Nat /\ r.at + Extra(s, k) <= Budget(s, k, r)
         /\ Extra(s, k) \in Nat
         /\ k \in {"phoenix", "exec"} => s.timeout <= Extra(s, k)
  <1>1. /\ Extra(s, k) \in Nat
        /\ k \in {"phoenix", "exec"} => s.timeout <= Extra(s, k)
    BY SetupFacts DEF Extra
  <1>2. r.seq * Slow(s) \in Nat
    BY Times, SetupFacts
  <1> QED  BY <1>1, <1>2 DEF Budget

LEMMA SameBudget ==
  ASSUME NEW s, NEW k, NEW r, NEW c, c.at = r.at, c.seq = r.seq
  PROVE  Budget(s, k, c) = Budget(s, k, r)
  BY DEF Budget

LEMMA NextBudget ==
  ASSUME NEW s \in Setups, NEW k, NEW r, NEW c, r.at \in Nat, r.seq \in Nat,
         c.at = r.at, c.seq = r.seq + 1
  PROVE  Budget(s, k, c) = Budget(s, k, r) + Slow(s)
  <1>1. /\ Extra(s, k) \in Nat /\ r.seq * Slow(s) \in Nat /\ Slow(s) \in Nat
        /\ (r.seq + 1) * Slow(s) = r.seq * Slow(s) + Slow(s)
    BY Times, SetupFacts, BudgetNat
  <1> QED  BY <1>1 DEF Budget

-----------------------------------------------------------------------------
(* Samples and queues *)

LEMMA SampleFacts ==
  ASSUME NEW s, NEW rtts \in Seq(SampleOf(s)), NEW x \in SampleOf(s), NEW m \in Nat,
         Rising(rtts), Below(rtts, m), x.seq = m
  PROVE  LET a == Append(rtts, x) IN
         /\ a \in Seq(SampleOf(s)) /\ Rising(a) /\ Below(a, m + 1)
         /\ Sampled(a) = Sampled(rtts) \cup {m}
         /\ \A i \in DOMAIN a : (i \in DOMAIN rtts /\ a[i] = rtts[i]) \/ a[i] = x
  <1> DEFINE a == Append(rtts, x)
  <1>1. /\ a \in Seq(SampleOf(s)) /\ Len(a) = Len(rtts) + 1 /\ Len(rtts) \in Nat
        /\ DOMAIN rtts = 1..Len(rtts) /\ DOMAIN a = 1..(Len(rtts) + 1)
        /\ \A i \in 1..Len(rtts) : a[i] = rtts[i]
        /\ a[Len(rtts) + 1] = x
    BY AppendProperties
  <1> HIDE DEF a
  <1>2. \A i \in DOMAIN a : (i \in DOMAIN rtts /\ a[i] = rtts[i]) \/ (i = Len(rtts) + 1 /\ a[i] = x)
    BY <1>1
  <1>3. \A i \in DOMAIN rtts : rtts[i].seq \in Int /\ rtts[i].seq < m
    <2>1. \A y \in SampleOf(s) : y.seq \in Int
      BY PingsNat DEF SampleOf
    <2>2. \A i \in DOMAIN rtts : rtts[i] \in SampleOf(s)
      OBVIOUS
    <2> QED  BY <2>1, <2>2 DEF Below
  <1>4. Rising(a)
    <2> SUFFICES ASSUME NEW i \in DOMAIN a, NEW j \in DOMAIN a, i < j PROVE a[i].seq < a[j].seq
      BY DEF Rising
    <2>1. i \in DOMAIN rtts /\ a[i] = rtts[i]
      BY <1>1
    <2>2. CASE j \in DOMAIN rtts
      BY <1>1, <2>1, <2>2 DEF Rising
    <2>3. CASE j = Len(rtts) + 1
      BY <1>1, <1>3, <2>1, <2>3
    <2> QED  BY <1>2, <2>2, <2>3
  <1>5. Below(a, m + 1)
    <2>1. \A i \in DOMAIN a : a[i].seq < m + 1
      BY <1>2, <1>3
    <2> QED  BY <1>1, <2>1 DEF Below
  <1>6. Sampled(a) = Sampled(rtts) \cup {m}
    <2>1. \A i \in DOMAIN a : a[i].seq \in Sampled(rtts) \cup {m}
      BY <1>2 DEF Sampled
    <2>2. \A i \in DOMAIN rtts : i \in DOMAIN a /\ a[i].seq = rtts[i].seq
      BY <1>1
    <2>3. Len(rtts) + 1 \in DOMAIN a /\ a[Len(rtts) + 1].seq = m
      BY <1>1
    <2> QED  BY <2>1, <2>2, <2>3 DEF Sampled
  <1> QED  BY <1>1, <1>2, <1>4, <1>5, <1>6 DEF a

(* What a tail keeps of a queue. *)
LEMMA TailQueue ==
  ASSUME NEW S, NEW b \in Seq(S), b # <<>>
  PROVE  /\ Head(b) \in S /\ 1 \in DOMAIN b /\ Head(b) = b[1] /\ Tail(b) \in Seq(S)
         /\ \A i \in DOMAIN Tail(b) : i + 1 \in DOMAIN b /\ Tail(b)[i] = b[i + 1]
         /\ \A i \in DOMAIN b : i = 1 \/ (i - 1 \in DOMAIN Tail(b) /\ Tail(b)[i - 1] = b[i])
  <1>1. /\ Head(b) \in S /\ Tail(b) \in Seq(S) /\ Len(Tail(b)) = Len(b) - 1 /\ Len(b) \in Nat \ {0}
        /\ \A i \in 1..Len(Tail(b)) : Tail(b)[i] = b[i + 1]
        /\ Head(b) = b[1]
    BY HeadTailProperties, EmptySeq
  <1>2. DOMAIN b = 1..Len(b) /\ DOMAIN Tail(b) = 1..(Len(b) - 1)
    BY <1>1
  <1>3. \A i \in DOMAIN Tail(b) : i + 1 \in DOMAIN b
    BY <1>1, <1>2
  <1>4. \A i \in DOMAIN b : i = 1 \/ i - 1 \in DOMAIN Tail(b)
    BY <1>1, <1>2
  <1>5. \A i \in DOMAIN b : i - 1 \in DOMAIN Tail(b) => Tail(b)[i - 1] = b[i]
    BY <1>1, <1>2
  <1> QED  BY <1>1, <1>2, <1>3, <1>4, <1>5

LEMMA NoSamples ==
  ASSUME NEW S
  PROVE  /\ <<>> \in Seq(S) /\ Rising(<<>>) /\ Sampled(<<>>) = {} /\ DOMAIN <<>> = {}
         /\ \A m \in Nat : Below(<<>>, m)
  BY DEF Rising, Sampled, Below

LEMMA UnstartedFacts ==
  /\ \A s : Unstarted \in TaskType(s)
  /\ Unstarted.ph = "idle" /\ Unstarted.due = 0 /\ Unstarted.tick = 0 /\ Unstarted.at = 0
  /\ Unstarted.wait = 0 /\ Unstarted.round = 0 /\ Unstarted.seq = 0 /\ Unstarted.rtts = <<>>
  /\ Unstarted.heard = {} /\ Unstarted.errors = {} /\ Unstarted.ok = TRUE
  <1>1. ASSUME NEW s PROVE Unstarted \in TaskType(s)
    BY NoSamples, PingsNat DEF Unstarted, TaskType, Phases
  <1> QED  BY <1>1 DEF Unstarted

-----------------------------------------------------------------------------
(* One task's steps, on its record *)

(* Fewer replies on their way never hurt. *)
LEMMA FewerReplies ==
  ASSUME NEW s, NEW t, NEW r, NEW b, NEW f, NEW g, NEW n, Counted(s, t, r, b, f, n),
         \A q \in g : q.task = t => q \in f
  PROVE  Counted(s, t, r, b, g, n)
  <1>1. \A m : Coming(t, m, g) \subseteq Coming(t, m, f)
    BY DEF Coming
  <1>2. Coming(t, r.round, g) \subseteq Coming(t, r.round, f)
    BY <1>1
  <1> QED  BY <1>2 DEF Counted

(* Close: the round ends with these samples and errors. *)
LEMMA CloseOk ==
  ASSUME NEW s \in Setups, NEW t \in DOMAIN s.kinds, NEW r \in TaskType(s), NEW b, NEW f,
         NEW l \in LastType, NEW n \in Nat, TaskOk(s, t, r, b, f, l, n), r.ph \in Early \cup Open,
         NEW rtts \in Seq(SampleOf(s)), NEW errors \in SUBSET Nat, NEW ok \in BOOLEAN,
         Rising(rtts), Below(rtts, Pings),
         \A i \in DOMAIN rtts : OwnSample(s, t, r.round, rtts[i]),
         ok => r.heard \subseteq errors \cup Sampled(rtts),
         NEW g \in SUBSET f
  PROVE  LET c == [r EXCEPT !.ph = "idle", !.rtts = rtts, !.errors = errors, !.ok = ok]
             m == [tick |-> r.tick, at |-> r.at, wait |-> r.wait, end |-> n]
         IN  c \in TaskType(s) /\ m \in LastType /\ TaskOk(s, t, c, <<>>, g, m, n)
  <1> DEFINE c == [r EXCEPT !.ph = "idle", !.rtts = rtts, !.errors = errors, !.ok = ok]
             m == [tick |-> r.tick, at |-> r.at, wait |-> r.wait, end |-> n]
  <1>1. /\ c \in TaskType(s) /\ c.ph = "idle" /\ c.rtts = rtts /\ c.errors = errors /\ c.ok = ok
        /\ c.heard = r.heard /\ c.tick = r.tick /\ c.at = r.at /\ c.wait = r.wait /\ c.due = r.due
        /\ c.round = r.round
    BY DEF TaskType, Phases
  <1>2. m \in LastType /\ m.tick = r.tick /\ m.at = r.at /\ m.wait = r.wait /\ m.end = n
    BY RecordFacts DEF LastType
  <1>3. "idle" \notin Early \cup Open
    BY DEF Early, Open
  <1> HIDE DEF c, m
  <1>4. Timely(s, s.kinds[t], c, n)
    BY <1>1, <1>3 DEF Timely, TaskOk, Early
  <1>5. Spaced(s, c, m, n)
    BY <1>1, <1>2, <1>3 DEF Spaced, Timely, TaskOk
  <1>6. Own(s, t, c, <<>>, n)
    BY <1>1, <1>3 DEF Own
  <1>7. Counted(s, t, c, <<>>, g, n)
    BY <1>1, <1>3 DEF Counted, TaskOk, Open
  <1> QED  BY <1>1, <1>2, <1>4, <1>5, <1>6, <1>7 DEF TaskOk, c, m

(* PingDone: ping r.seq is answered, failed, or lost for good. *)
LEMMA PingOver ==
  ASSUME NEW s \in Setups, NEW t \in DOMAIN s.kinds, NEW r \in TaskType(s), NEW b,
         NEW f \in SUBSET PacketType(s),
         NEW l \in LastType, NEW n \in Nat, TaskOk(s, t, r, b, f, l, n), r.ph = "await",
         NEW rtts \in Seq(SampleOf(s)), NEW errors \in SUBSET Nat, NEW u,
         Rising(rtts), Below(rtts, r.seq + 1), Sampled(r.rtts) \subseteq Sampled(rtts),
         \A i \in DOMAIN rtts : OwnSample(s, t, r.round, rtts[i]),
         r.errors \subseteq errors, s.kinds[t] = "phoenix" => errors = {},
         \/ r.seq \in errors \cup Sampled(rtts)
         \/ r.seq \notin r.heard /\ n >= r.t0 + s.timeout,
         \A i \in DOMAIN u : \E j \in DOMAIN b : u[i] = b[j]
  PROVE  /\ r.seq + 1 = Pings => r.heard \subseteq errors \cup Sampled(rtts)
         /\ r.seq + 1 # Pings =>
              LET c == [r EXCEPT !.ph = "pace", !.seq = r.seq + 1, !.rtts = rtts, !.errors = errors]
              IN  c \in TaskType(s) /\ TaskOk(s, t, c, u, f, l, n)
  <1> DEFINE c == [r EXCEPT !.ph = "pace", !.seq = r.seq + 1, !.rtts = rtts, !.errors = errors]
  <1>1. /\ r.seq \in Nat /\ r.seq + 1 <= Pings /\ r.t0 \in Nat /\ r.at \in Nat /\ r.heard \subseteq Nat
        /\ s.timeout \in Nat /\ Slow(s) \in Nat /\ s.timeout <= Slow(s)
    BY RecordFacts, PingsNat, SetupFacts
  <1>2. \A x \in r.heard : x < r.seq \/ x = r.seq
    BY DEF TaskOk, Counted, Open
  (* The pings before this one stay accounted for. *)
  <1>3. \A x \in 0..(r.seq - 1) :
          \/ x \in errors \cup Sampled(rtts)
          \/ /\ x \notin r.heard
             /\ \A q \in Coming(t, r.round, f) : q.seq = x => n >= q.at + s.timeout
    BY DEF TaskOk, Counted, Open
  <1>4. \/ r.seq \in errors \cup Sampled(rtts)
        \/ /\ r.seq \notin r.heard
           /\ \A q \in Coming(t, r.round, f) : q.seq = r.seq => n >= q.at + s.timeout
    BY <1>1 DEF TaskOk, Counted
  <1>5. r.heard \subseteq errors \cup Sampled(rtts)
    <2> SUFFICES ASSUME NEW x \in r.heard PROVE x \in errors \cup Sampled(rtts)
      OBVIOUS
    <2>1. x \in Nat /\ (x \in 0..(r.seq - 1) \/ x = r.seq)
      BY <1>1, <1>2
    <2> QED  BY <1>3, <1>4, <2>1
  <1>6. ASSUME r.seq + 1 # Pings PROVE c \in TaskType(s) /\ TaskOk(s, t, c, u, f, l, n)
    <2>1. r.seq + 1 \in 0..(Pings - 1)
      BY <1>1, <1>6, PingsNat
    <2>2. /\ c \in TaskType(s) /\ c.ph = "pace" /\ c.rtts = rtts /\ c.errors = errors
          /\ c.seq = r.seq + 1 /\ c.heard = r.heard /\ c.tick = r.tick /\ c.at = r.at
          /\ c.wait = r.wait /\ c.due = r.due /\ c.round = r.round /\ c.t0 = r.t0
      BY <2>1 DEF TaskType, Phases
    <2>3. "pace" \notin Early /\ "pace" \in Open
      BY DEF Early, Open
    <2>4. Budget(s, s.kinds[t], c) = Budget(s, s.kinds[t], r) + Slow(s)
          /\ Budget(s, s.kinds[t], r) \in Nat
      <3> HIDE DEF c
      <3> QED  BY <1>1, <2>2, NextBudget, BudgetNat
    <2> HIDE DEF c
    <2>5. Timely(s, s.kinds[t], c, n)
      BY <1>1, <2>2, <2>3, <2>4 DEF Timely, TaskOk
    <2>6. Spaced(s, c, l, n)
      BY <2>2, <2>3 DEF Spaced, TaskOk, Open
    <2>7. Own(s, t, c, u, n)
      <3>1. Below(rtts, Pings)
        <4>1. \A y \in SampleOf(s) : y.seq \in Int
          BY PingsNat DEF SampleOf
        <4>2. \A i \in DOMAIN rtts : rtts[i].seq \in Int
          BY <4>1
        <4>3. Len(rtts) \in Nat
          OBVIOUS
        <4> QED  BY <1>1, <4>2, <4>3, PingsNat DEF Below
      <3>2. \A i \in DOMAIN u : u[i].at <= n /\ OwnPacket(s, t, r.round, u[i])
        BY DEF TaskOk, Own
      <3> QED  BY <2>2, <2>3, <3>1, <3>2 DEF Own
    <2>8. Counted(s, t, c, u, f, n)
      <3>1. \A q \in f : q.task = t => q.round <= c.round
        BY <2>2 DEF TaskOk, Counted
      <3>2. \A q \in Coming(t, r.round, f) : q.seq < r.seq + 1
        <4>1. \A q \in Coming(t, r.round, f) : q.seq < r.seq \/ q.seq = r.seq
          BY DEF TaskOk, Counted
        <4>2. \A q \in Coming(t, r.round, f) : q.seq \in Int
          BY PingsNat DEF Coming, PacketType
        <4> QED  BY <1>1, <4>1, <4>2
      <3>3. \A x \in 0..((r.seq + 1) - 1) : x \in 0..(r.seq - 1) \/ x = r.seq
        BY <1>1
      <3>4. \A x \in r.heard : x < r.seq + 1
        BY <1>1, <1>2
      <3>5. \A x \in 0..(c.seq - 1) :
              \/ x \in errors \cup Sampled(rtts)
              \/ /\ x \notin r.heard
                 /\ \A q \in Coming(t, r.round, f) : q.seq = x => n >= q.at + s.timeout
        BY <1>3, <1>4, <2>2, <3>3
      <3> QED  BY <2>2, <2>3, <3>1, <3>2, <3>4, <3>5 DEF Counted
    <2> QED  BY <2>2, <2>5, <2>6, <2>7, <2>8 DEF TaskOk
  <1> QED  BY <1>5, <1>6 DEF c


(* Wake: a round begins, a step or more after the one before. *)
LEMMA WakeOk ==
  ASSUME NEW s \in Setups, NEW t \in DOMAIN s.kinds, NEW r \in TaskType(s), NEW b,
         NEW f \in SUBSET PacketType(s), NEW l \in LastType, NEW n \in Nat, TaskOk(s, t, r, b, f, l, n),
         r.ph = "idle", n >= r.due, r.round < s.rounds
  PROVE  LET c == [Unstarted EXCEPT !.ph = "lookup", !.due = n + Step, !.tick = n, !.at = n,
                                    !.round = r.round + 1]
         IN  c \in TaskType(s) /\ TaskOk(s, t, c, b, f, l, n)
  <1> DEFINE c == [Unstarted EXCEPT !.ph = "lookup", !.due = n + Step, !.tick = n, !.at = n,
                                    !.round = r.round + 1]
  <1>1. /\ r.round \in Nat /\ r.due \in Nat /\ r.tick \in Nat /\ s.lookup \in Nat /\ s.rounds \in Nat
        /\ Step \in Nat
    BY RecordFacts, SetupFacts, PingsNat
  <1>2. /\ c \in TaskType(s) /\ c.ph = "lookup" /\ c.rtts = <<>> /\ c.errors = {} /\ c.heard = {}
        /\ c.seq = 0 /\ c.tick = n /\ c.at = n /\ c.wait = 0 /\ c.due = n + Step
        /\ c.round = r.round + 1
    <2>1. n + Step \in Nat /\ r.round + 1 \in Nat /\ <<>> \in Seq(SampleOf(s))
          /\ 0 \in 0..(Pings - 1) /\ "lookup" \in Phases
      BY <1>1, PingsNat, NoSamples DEF Phases
    <2>2. c \in TaskType(s)
      BY <2>1, UnstartedFacts DEF TaskType
    <2>3. /\ c.ph = "lookup" /\ c.due = n + Step /\ c.tick = n /\ c.at = n /\ c.round = r.round + 1
          /\ c.rtts = Unstarted.rtts /\ c.errors = Unstarted.errors /\ c.heard = Unstarted.heard
          /\ c.seq = Unstarted.seq /\ c.wait = Unstarted.wait
      BY <2>1, UnstartedFacts DEF TaskType
    <2> HIDE DEF c
    <2> QED  BY <2>2, <2>3, UnstartedFacts
  <1>3. "lookup" \in Early /\ "lookup" \notin Open
    BY DEF Early, Open
  <1>4. l.end \in Nat /\ l.tick \in Nat
    BY DEF LastType
  <1> HIDE DEF c
  <1>5. Timely(s, s.kinds[t], c, n)
    BY <1>1, <1>2 DEF Timely
  <1>6. Spaced(s, c, l, n)
    <2>1. Spaced(s, r, l, n)
      BY DEF TaskOk
    <2>2. l.at = l.tick + l.wait
      BY <2>1 DEF Spaced
    <2>3. r.round >= 1 =>
            /\ r.due = r.tick + Step /\ l.tick = r.tick /\ (n <= r.due \/ n <= l.end)
      BY <2>1 DEF Spaced
    <2>4. r.round >= 1 => n >= l.tick + Step /\ (l.end > l.tick + Step \/ n = l.tick + Step)
      BY <1>1, <1>4, <2>3
    <2> QED  BY <1>1, <1>2, <1>3, <2>2, <2>4 DEF Spaced
  <1>7. Own(s, t, c, b, n)
    <2>1. b = <<>>
      BY DEF TaskOk, Own, Open
    <2> QED  BY <1>2, <1>3, <2>1, PingsNat, NoSamples DEF Own
  <1>8. Counted(s, t, c, b, f, n)
    <2>1. \A q \in f : q.task = t => q.round <= r.round
      BY DEF TaskOk, Counted
    <2>2. \A q \in f : q.task = t => q.round <= r.round + 1 /\ q.round # r.round + 1
      <3>1. \A q \in f : q.round \in Nat
        BY DEF PacketType
      <3> QED  BY <1>1, <2>1, <3>1
    <2>3. Coming(t, r.round + 1, f) = {}
      BY <2>2 DEF Coming
    <2> QED  BY <1>2, <1>3, <2>2, <2>3 DEF Counted
  <1> QED  BY <1>2, <1>5, <1>6, <1>7, <1>8 DEF TaskOk, c

(* Prepare: the address is known. *)
LEMMA PrepareOk ==
  ASSUME NEW s \in Setups, NEW t \in DOMAIN s.kinds, NEW r \in TaskType(s), NEW b,
         NEW f \in SUBSET PacketType(s), NEW l \in LastType, NEW n \in Nat, TaskOk(s, t, r, b, f, l, n), r.ph = "lookup"
  PROVE  LET k == s.kinds[t]
             c == [r EXCEPT !.ph = Opening(k), !.t0 = n,
                            !.at = IF k = "exec" THEN r.at ELSE n,
                            !.wait = IF k = "exec" THEN 0 ELSE n - r.tick]
         IN  c \in TaskType(s) /\ TaskOk(s, t, c, b, f, l, n)
  <1> DEFINE k == s.kinds[t]
             a == IF k = "exec" THEN r.at ELSE n
             w == IF k = "exec" THEN 0 ELSE n - r.tick
             c == [r EXCEPT !.ph = Opening(k), !.t0 = n, !.at = a, !.wait = w]
  <1>1. /\ r.tick \in Nat /\ r.at \in Nat /\ s.lookup \in Nat /\ s.timeout \in Nat
        /\ r.at = r.tick /\ r.tick <= n /\ n <= r.tick + s.lookup /\ r.seq = 0 /\ r.round <= s.rounds
    BY RecordFacts, SetupFacts DEF TaskOk, Timely, Early
  <1>2. a \in Nat /\ w \in Nat /\ a = r.tick + w /\ w <= s.lookup /\ n <= a + s.lookup
        /\ (k # "exec" => a = n)
    BY <1>1
  <1>3. Opening(k) \in {"connect", "run", "send"} /\ (Opening(k) = "connect" => k = "phoenix")
        /\ (Opening(k) = "run" => k = "exec") /\ (k = "exec" => Opening(k) = "run")
    BY DEF Opening
  <1> HIDE DEF a, w
  <1>4. /\ c \in TaskType(s) /\ c.ph = Opening(k) /\ c.rtts = r.rtts /\ c.errors = r.errors
        /\ c.heard = r.heard /\ c.seq = r.seq /\ c.tick = r.tick /\ c.at = a /\ c.wait = w
        /\ c.due = r.due /\ c.round = r.round /\ c.t0 = n
    BY <1>2, <1>3 DEF TaskType, Phases
  <1>5. r.ph \in Early /\ Opening(k) \in Early \cup Open
    BY <1>3 DEF Early, Open
  <1>6. /\ r.rtts = <<>> /\ b = <<>> /\ Coming(t, r.round, f) = {} /\ r.heard = {} /\ r.errors = {}
        /\ \A q \in f : q.task = t => q.round <= r.round
    <2>1. r.rtts = <<>>
      <3>1. Below(r.rtts, 0) /\ r.rtts \in Seq(SampleOf(s))
        BY <1>1, <1>5, RecordFacts DEF TaskOk, Own
      <3> QED  BY <3>1, EmptySeq DEF Below
    <2> QED  BY <1>5, <2>1 DEF TaskOk, Own, Counted, Early, Open
  <1> HIDE DEF c
  <1>7. Budget(s, k, c) \in Nat /\ a <= Budget(s, k, c)
    <2>1. c.at \in Nat /\ c.seq \in Nat
      BY <1>1, <1>2, <1>4
    <2>2. Budget(s, k, c) \in Nat /\ c.at + Extra(s, k) <= Budget(s, k, c) /\ Extra(s, k) \in Nat
      BY <2>1, BudgetNat
    <2> QED  BY <1>4, <2>1, <2>2
  <1> HIDE DEF k
  <1>8. Timely(s, k, c, n)
    BY <1>1, <1>2, <1>3, <1>4, <1>7 DEF Timely
  <1>9. Spaced(s, c, l, n)
    BY <1>4, <1>5, <1>3 DEF TaskOk, Spaced
  <1>10. Own(s, t, c, b, n)
    BY <1>1, <1>4, <1>6, PingsNat, NoSamples DEF Own
  <1>11. Counted(s, t, c, b, f, n)
    BY <1>1, <1>3, <1>4, <1>6 DEF Counted
  <1> QED  BY <1>4, <1>8, <1>9, <1>10, <1>11 DEF TaskOk, c, k, a, w

(* Connect and Paced: the next request can go out. *)
LEMMA ReadyOk ==
  ASSUME NEW s \in Setups, NEW t \in DOMAIN s.kinds, NEW r \in TaskType(s), NEW b,
         NEW f \in SUBSET PacketType(s), NEW l \in LastType, NEW n \in Nat, TaskOk(s, t, r, b, f, l, n), r.ph \in {"connect", "pace"}
  PROVE  LET c == [r EXCEPT !.ph = "send"] IN c \in TaskType(s) /\ TaskOk(s, t, c, b, f, l, n)
  <1> DEFINE c == [r EXCEPT !.ph = "send"]
             k == s.kinds[t]
  <1>1. /\ c \in TaskType(s) /\ c.ph = "send" /\ c.rtts = r.rtts /\ c.errors = r.errors
        /\ c.heard = r.heard /\ c.seq = r.seq /\ c.tick = r.tick /\ c.at = r.at /\ c.wait = r.wait
        /\ c.due = r.due /\ c.round = r.round /\ c.t0 = r.t0
    BY DEF TaskType, Phases
  <1>2. "send" \in Open /\ "send" \notin Early /\ r.ph \in Early \cup Open /\ r.ph # "idle"
        /\ (r.ph = "connect" => r.ph \in Early) /\ (r.ph = "pace" => r.ph \in Open)
    BY DEF Early, Open
  <1> HIDE DEF c
  <1>3. /\ r.at \in Nat /\ r.seq \in Nat /\ r.t0 \in Nat /\ s.timeout \in Nat /\ Slow(s) \in Nat
        /\ s.timeout <= Slow(s)
    BY RecordFacts, SetupFacts
  <1>4. /\ Budget(s, k, c) = Budget(s, k, r) /\ Budget(s, k, r) \in Nat
        /\ r.at + Extra(s, k) <= Budget(s, k, r) /\ Extra(s, k) \in Nat
        /\ (k = "phoenix" => s.timeout <= Extra(s, k))
    BY <1>1, <1>3, SameBudget, BudgetNat
  <1> HIDE DEF k
  <1>5. Timely(s, k, r, n)
    BY DEF TaskOk, k
  <1>6. n <= Budget(s, k, r)
    <2>1. CASE r.ph = "connect"
      BY <1>3, <1>4, <1>5, <2>1 DEF Timely
    <2>2. CASE r.ph = "pace"
      BY <1>3, <1>4, <1>5, <2>2 DEF Timely
    <2> QED  BY <2>1, <2>2
  <1>7. Timely(s, k, c, n)
    BY <1>1, <1>2, <1>4, <1>5, <1>6 DEF Timely
  <1>8. Spaced(s, c, l, n)
    BY <1>1, <1>2 DEF TaskOk, Spaced
  <1>9. Own(s, t, c, b, n)
    BY <1>1, <1>2 DEF TaskOk, Own
  <1>10. Counted(s, t, c, b, f, n)
    <2>1. CASE r.ph = "connect"
      <3>1. r.seq = 0 /\ 0..(0 - 1) = {}
        BY <1>2, <2>1 DEF TaskOk, Timely
      <3> QED  BY <1>1, <1>2, <2>1, <3>1 DEF TaskOk, Counted
    <2>2. CASE r.ph = "pace"
      BY <1>1, <1>2, <2>2 DEF TaskOk, Counted
    <2> QED  BY <2>1, <2>2
  <1> QED  BY <1>1, <1>7, <1>8, <1>9, <1>10 DEF TaskOk, c, k

(* Send: the request is on its way. *)
LEMMA SendOk ==
  ASSUME NEW s \in Setups, NEW t \in DOMAIN s.kinds, NEW r \in TaskType(s), NEW b,
         NEW f \in SUBSET PacketType(s), NEW l \in LastType, NEW n \in Nat, TaskOk(s, t, r, b, f, l, n), r.ph = "send"
  PROVE  LET c == [r EXCEPT !.ph = "await", !.t0 = n]
             q == [task |-> t, round |-> r.round, seq |-> r.seq, at |-> n]
         IN  /\ c \in TaskType(s) /\ q \in PacketType(s) /\ q.at = n /\ q.task = t
             /\ TaskOk(s, t, c, b, f \cup {q}, l, n)
  <1> DEFINE c == [r EXCEPT !.ph = "await", !.t0 = n]
             q == [task |-> t, round |-> r.round, seq |-> r.seq, at |-> n]
             k == s.kinds[t]
  <1>1. /\ c \in TaskType(s) /\ c.ph = "await" /\ c.rtts = r.rtts /\ c.errors = r.errors
        /\ c.heard = r.heard /\ c.seq = r.seq /\ c.tick = r.tick /\ c.at = r.at /\ c.wait = r.wait
        /\ c.due = r.due /\ c.round = r.round /\ c.t0 = n
    BY DEF TaskType, Phases
  <1>2. q \in PacketType(s) /\ q.at = n /\ q.task = t /\ q.round = r.round /\ q.seq = r.seq
    BY RecordFacts DEF PacketType
  <1>3. "await" \in Open /\ "await" \notin Early /\ r.ph \in Open
    BY DEF Early, Open
  <1> HIDE DEF c, q
  <1>4. r.at \in Nat /\ r.seq \in Nat /\ r.round \in Nat /\ s.timeout \in Nat \ {0}
    BY RecordFacts, SetupFacts
  <1>5. Budget(s, k, c) = Budget(s, k, r) /\ Budget(s, k, r) \in Nat
    BY <1>1, <1>4, SameBudget, BudgetNat
  <1>6. Timely(s, k, c, n)
    <2> HIDE DEF k
    <2>1. Timely(s, k, r, n)
      BY DEF TaskOk, k
    <2> QED  BY <1>1, <1>3, <1>4, <1>5, <2>1 DEF Timely
  <1>7. Spaced(s, c, l, n)
    BY <1>1, <1>3 DEF TaskOk, Spaced
  <1>8. Own(s, t, c, b, n)
    BY <1>1, <1>3 DEF TaskOk, Own
  <1>9. Counted(s, t, c, b, f \cup {q}, n)
    <2>1. Coming(t, r.round, f \cup {q}) = Coming(t, r.round, f) \cup {q}
      BY <1>2 DEF Coming
    <2>2. /\ \A p \in Coming(t, r.round, f) : p.seq < r.seq
          /\ \A x \in r.heard : x < r.seq
          /\ \A x \in 0..(r.seq - 1) :
               \/ x \in r.errors \cup Sampled(r.rtts)
               \/ /\ x \notin r.heard
                  /\ \A p \in Coming(t, r.round, f) : p.seq = x => n >= p.at + s.timeout
          /\ (s.kinds[t] = "phoenix" => r.errors = {})
          /\ \A p \in f : p.task = t => p.round <= r.round
      BY <1>3 DEF TaskOk, Counted
    <2>3. r.seq \notin r.heard /\ r.seq \notin 0..(r.seq - 1) /\ r.round <= r.round
      BY <1>4, <2>2
    <2> QED  BY <1>1, <1>2, <1>3, <2>1, <2>2, <2>3 DEF Counted
  <1> QED  BY <1>1, <1>2, <1>6, <1>7, <1>8, <1>9 DEF TaskOk, c, q

(* Read passes a packet over that is not the reply awaited. *)
LEMMA IgnoreOk ==
  ASSUME NEW s, NEW t, NEW r, NEW b \in Seq(PacketType(s)), NEW f, NEW l, NEW n,
         TaskOk(s, t, r, b, f, l, n), r.ph = "await", b # <<>>, Head(b).seq # r.seq
  PROVE  TaskOk(s, t, r, Tail(b), f, l, n)
  <1> DEFINE u == Tail(b)
  <1>1. /\ Head(b) = b[1]
        /\ \A i \in DOMAIN u : i + 1 \in DOMAIN b /\ u[i] = b[i + 1]
        /\ \A i \in DOMAIN b : i = 1 \/ (i - 1 \in DOMAIN u /\ u[i - 1] = b[i])
    BY TailQueue
  <1> HIDE DEF u
  <1>2. r.ph \in Open
    BY DEF Open
  <1>3. Own(s, t, r, u, n)
    <2>1. \A i \in DOMAIN u : u[i].at <= n /\ OwnPacket(s, t, r.round, u[i])
      BY <1>1 DEF TaskOk, Own
    <2> QED  BY <1>2, <2>1 DEF TaskOk, Own
  <1>4. r.seq \in Queued(b) => r.seq \in Queued(u)
    <2> SUFFICES ASSUME NEW i \in DOMAIN b, b[i].seq = r.seq PROVE \E j \in DOMAIN u : u[j].seq = r.seq
      BY DEF Queued
    <2> QED  BY <1>1
  <1>5. Counted(s, t, r, u, f, n)
    BY <1>4 DEF TaskOk, Counted
  <1> QED  BY <1>3, <1>5 DEF TaskOk, u

(* Arrive: a reply comes in, and counts as heard when it is in time. *)
LEMMA HearOk ==
  ASSUME NEW s \in Setups, NEW t \in DOMAIN s.kinds, NEW r \in TaskType(s),
         NEW b \in Seq(PacketType(s)), NEW f \in SUBSET PacketType(s), NEW l, NEW n \in Nat,
         TaskOk(s, t, r, b, f, l, n), r.ph \in Open, NEW q \in f, q.at <= n,
         OwnPacket(s, t, r.round, q), NEW on \in BOOLEAN,
         on = (q.task = t /\ q.round = r.round /\ n < q.at + s.timeout)
  PROVE  LET c == IF on THEN [r EXCEPT !.heard = r.heard \cup {q.seq}] ELSE r
         IN  c \in TaskType(s) /\ TaskOk(s, t, c, Append(b, q), f, l, n)
  <1> DEFINE c == IF on THEN [r EXCEPT !.heard = r.heard \cup {q.seq}] ELSE r
             a == Append(b, q)
  <1>1. q.seq \in Nat /\ q.at \in Nat /\ r.seq \in Nat /\ s.timeout \in Nat /\ q.seq \in 0..(Pings - 1)
    BY RecordFacts, SetupFacts, PingsNat DEF PacketType
  <1>2. /\ c \in TaskType(s) /\ c.ph = r.ph /\ c.rtts = r.rtts /\ c.errors = r.errors
        /\ c.seq = r.seq /\ c.tick = r.tick /\ c.at = r.at /\ c.wait = r.wait /\ c.due = r.due
        /\ c.round = r.round /\ c.t0 = r.t0 /\ c.ok = r.ok
        /\ r.heard \subseteq c.heard /\ \A x \in c.heard : x \in r.heard \/ (on /\ x = q.seq)
    BY <1>1 DEF TaskType
  <1>3. /\ \A i \in DOMAIN a : (i \in DOMAIN b /\ a[i] = b[i]) \/ a[i] = q
        /\ Queued(a) = Queued(b) \cup {q.seq}
    <2>1. /\ Len(a) = Len(b) + 1 /\ Len(b) \in Nat
          /\ DOMAIN b = 1..Len(b) /\ DOMAIN a = 1..(Len(b) + 1)
          /\ \A i \in 1..Len(b) : a[i] = b[i]
          /\ a[Len(b) + 1] = q
      BY AppendProperties
    <2> HIDE DEF a
    <2>2. \A i \in DOMAIN a : (i \in DOMAIN b /\ a[i] = b[i]) \/ a[i] = q
      BY <2>1
    <2>3. \A i \in DOMAIN b : i \in DOMAIN a /\ a[i] = b[i]
      BY <2>1
    <2>4. Len(b) + 1 \in DOMAIN a
      BY <2>1
    <2> QED  BY <2>1, <2>2, <2>3, <2>4 DEF Queued
  <1>4. "idle" \notin Open /\ Early \cap Open = {}
    BY DEF Open, Early
  <1> HIDE DEF c, a
  <1>5. Timely(s, s.kinds[t], c, n)
    <2>1. Budget(s, s.kinds[t], c) = Budget(s, s.kinds[t], r)
      BY <1>2, SameBudget
    <2> QED  BY <1>2, <2>1 DEF TaskOk, Timely
  <1>6. Spaced(s, c, l, n)
    BY <1>2 DEF TaskOk, Spaced
  <1>7. Own(s, t, c, a, n)
    BY <1>2, <1>3 DEF TaskOk, Own
  <1>8. Counted(s, t, c, a, f, n)
    <2>1. on => q \in Coming(t, r.round, f) /\ n < q.at + s.timeout
      BY DEF Coming
    <2>2. on => q.seq < r.seq \/ (r.ph = "await" /\ q.seq = r.seq /\ q.at = r.t0)
      BY <2>1 DEF TaskOk, Counted, Open
    <2>3. \A x \in c.heard : x < r.seq \/ (x = r.seq /\ r.ph = "await")
      <3>1. \A x \in r.heard : x < r.seq \/ (x = r.seq /\ r.ph = "await")
        BY DEF TaskOk, Counted
      <3> QED  BY <1>2, <2>2, <3>1
    <2>4. ASSUME NEW x \in 0..(r.seq - 1)
          PROVE  \/ x \in r.errors \cup Sampled(r.rtts)
                 \/ /\ x \notin c.heard
                    /\ \A p \in Coming(t, r.round, f) : p.seq = x => n >= p.at + s.timeout
      <3>1. \/ x \in r.errors \cup Sampled(r.rtts)
            \/ /\ x \notin r.heard
               /\ \A p \in Coming(t, r.round, f) : p.seq = x => n >= p.at + s.timeout
        BY DEF TaskOk, Counted
      <3>2. CASE x \in r.errors \cup Sampled(r.rtts)
        BY <3>2
      <3>3. CASE /\ x \notin r.heard
                 /\ \A p \in Coming(t, r.round, f) : p.seq = x => n >= p.at + s.timeout
        <4>1. on => q.seq # x
          BY <1>1, <2>1, <3>3
        <4> QED  BY <1>2, <3>3, <4>1
      <3> QED  BY <3>1, <3>2, <3>3
    <2>5. (r.ph = "await" /\ r.seq \in c.heard) => n < r.t0 + s.timeout /\ r.seq \in Queued(a)
      <3> SUFFICES ASSUME r.ph = "await", r.seq \in c.heard
                   PROVE  n < r.t0 + s.timeout /\ r.seq \in Queued(a)
        OBVIOUS
      <3>1. CASE r.seq \in r.heard
        BY <1>3, <3>1 DEF TaskOk, Counted
      <3>2. CASE on /\ q.seq = r.seq
        BY <1>1, <1>3, <2>1, <2>2, <3>2
      <3> QED  BY <1>2, <3>1, <3>2
    <2>6. \A p \in f : p.task = t => p.round <= r.round
      BY DEF TaskOk, Counted
    <2>7. /\ r.ph \in {"send", "pace"} => \A p \in Coming(t, r.round, f) : p.seq < r.seq
          /\ r.ph = "await" => \A p \in Coming(t, r.round, f) :
               p.seq < r.seq \/ (p.seq = r.seq /\ p.at = r.t0)
          /\ s.kinds[t] = "phoenix" => r.errors = {}
      BY DEF TaskOk, Counted
    <2> QED  BY <1>2, <1>4, <2>3, <2>4, <2>5, <2>6, <2>7 DEF Counted
  <1> QED  BY <1>2, <1>5, <1>6, <1>7, <1>8 DEF TaskOk, c, a

(* Tick: time passes, where nothing is due. *)
LEMMA TickOk ==
  ASSUME NEW s \in Setups, NEW t \in DOMAIN s.kinds, NEW r \in TaskType(s),
         NEW b \in Seq(PacketType(s)), NEW f \in SUBSET PacketType(s), NEW l \in LastType,
         NEW n \in Nat, TaskOk(s, t, r, b, f, l, n),
         (r.ph = "idle" /\ r.round < s.rounds) => n < r.due,
         r.ph = "lookup" => n < r.tick + s.lookup,
         r.ph \in {"connect", "run", "await"} => n < r.t0 + s.timeout,
         r.ph # "send", r.ph = "await" => b = <<>>, r.ph = "pace" => n < r.t0 + s.interval
  PROVE  TaskOk(s, t, r, b, f, l, n + 1)
  <1>1. /\ r.tick \in Nat /\ r.t0 \in Nat /\ r.due \in Nat /\ s.timeout \in Nat /\ s.lookup \in Nat
        /\ s.interval \in Nat /\ Slow(s) \in Nat /\ s.interval <= Slow(s)
    BY RecordFacts, SetupFacts
  <1>2. Timely(s, s.kinds[t], r, n + 1)
    <2> DEFINE k == s.kinds[t]
    <2>1. Timely(s, k, r, n)
      BY DEF TaskOk
    <2> HIDE DEF k
    <2>2. Timely(s, k, r, n + 1)
      BY <1>1, <2>1 DEF Timely
    <2> QED  BY <2>2 DEF k
  <1>3. Spaced(s, r, l, n + 1)
    <2>1. l.end \in Nat
      BY DEF LastType
    <2> QED  BY <1>1, <2>1 DEF TaskOk, Spaced
  <1>4. Own(s, t, r, b, n + 1)
    <2>1. \A i \in DOMAIN b : b[i].at \in Nat
      <3>1. \A y \in PacketType(s) : y.at \in Nat
        BY DEF PacketType
      <3> QED  BY <3>1
    <2>2. \A i \in DOMAIN b : b[i].at <= n + 1 /\ OwnPacket(s, t, r.round, b[i])
      BY <2>1 DEF TaskOk, Own
    <2> QED  BY <2>2 DEF TaskOk, Own
  <1>5. Counted(s, t, r, b, f, n + 1)
    <2>1. \A q \in Coming(t, r.round, f) : q.at \in Nat
      BY DEF Coming, PacketType
    <2>2. \A q \in Coming(t, r.round, f) : n >= q.at + s.timeout => n + 1 >= q.at + s.timeout
      BY <1>1, <2>1
    <2>3. ~(r.ph = "await" /\ r.seq \in r.heard)
      <3> SUFFICES ASSUME r.ph = "await", r.seq \in r.heard PROVE FALSE
        OBVIOUS
      <3>1. b = <<>> /\ r.seq \in Queued(b)
        BY DEF TaskOk, Counted
      <3> QED  BY <3>1 DEF Queued
    <2> QED  BY <2>2, <2>3 DEF TaskOk, Counted
  <1> QED  BY <1>2, <1>3, <1>4, <1>5 DEF TaskOk

-----------------------------------------------------------------------------
(* The actions *)

LEMMA TaskAt ==
  ASSUME ProbeInv, NEW t \in Tasks
  PROVE  /\ setup \in Setups /\ now \in Nat /\ t \in DOMAIN setup.kinds /\ Kind(t) = setup.kinds[t]
         /\ task[t] \in TaskType(setup) /\ inbox[t] \in Seq(PacketType(setup)) /\ last[t] \in LastType
         /\ flying \in SUBSET PacketType(setup)
         /\ TaskOk(setup, t, task[t], inbox[t], flying, last[t], now)
  BY DEF ProbeInv, ProbeTypes, Tasks, Kind

(* One task moves; of the replies only its own are touched. *)
LEMMA TaskMoves ==
  ASSUME ProbeInv, NEW t \in Tasks, UNCHANGED <<setup, now, dups>>,
         NEW r \in TaskType(setup), NEW b \in Seq(PacketType(setup)), NEW l \in LastType,
         task' = [task EXCEPT ![t] = r], inbox' = [inbox EXCEPT ![t] = b],
         last' = [last EXCEPT ![t] = l],
         flying' \in SUBSET PacketType(setup),
         \A q \in flying' : q.at <= now /\ (q \in flying \/ q.task = t),
         TaskOk(setup, t, r, b, flying', l, now)
  PROVE  ProbeInv'
  <1>1. Tasks' = Tasks
    BY DEF Tasks
  <1>2. ProbeTypes'
    BY <1>1 DEF ProbeInv, ProbeTypes
  <1>3. ASSUME NEW h \in Tasks
        PROVE  TaskOk(setup, h, task'[h], inbox'[h], flying', last'[h], now)
    <2>1. CASE h = t
      BY <2>1 DEF ProbeInv, ProbeTypes
    <2>2. CASE h # t
      <3>1. task'[h] = task[h] /\ inbox'[h] = inbox[h] /\ last'[h] = last[h]
        BY <2>2 DEF ProbeInv, ProbeTypes
      <3>2. TaskOk(setup, h, task[h], inbox[h], flying, last[h], now)
        BY DEF ProbeInv
      <3>3. Counted(setup, h, task[h], inbox[h], flying', now)
        BY <2>2, <3>2, FewerReplies DEF TaskOk
      <3> QED  BY <3>1, <3>2, <3>3 DEF TaskOk
    <2> QED  BY <2>1, <2>2
  <1> QED  BY <1>1, <1>2, <1>3 DEF ProbeInv

(* A task whose record alone changes. *)
LEMMA RecordMoves ==
  ASSUME ProbeInv, NEW t \in Tasks, UNCHANGED <<setup, now, inbox, flying, dups, last>>,
         NEW r \in TaskType(setup), task' = [task EXCEPT ![t] = r],
         TaskOk(setup, t, r, inbox[t], flying, last[t], now)
  PROVE  ProbeInv'
  <1>1. inbox' = [inbox EXCEPT ![t] = inbox[t]] /\ last' = [last EXCEPT ![t] = last[t]]
    BY DEF ProbeInv, ProbeTypes
  <1>2. \A q \in flying' : q.at <= now /\ (q \in flying \/ q.task = t)
    BY DEF ProbeInv, ProbeTypes
  <1>3. /\ inbox[t] \in Seq(PacketType(setup)) /\ last[t] \in LastType
        /\ flying' \in SUBSET PacketType(setup) /\ UNCHANGED <<setup, now, dups>>
    BY TaskAt
  <1>4. TaskOk(setup, t, r, inbox[t], flying', last[t], now)
    OBVIOUS
  <1> QED  BY <1>1, <1>2, <1>3, <1>4, TaskMoves

LEMMA CloseKeeps ==
  ASSUME ProbeInv, NEW t \in Tasks, task[t].ph \in Early \cup Open,
         NEW rtts \in Seq(SampleOf(setup)), NEW errors \in SUBSET Nat, NEW ok \in BOOLEAN,
         Close(t, rtts, errors, ok), Rising(rtts), Below(rtts, Pings),
         \A i \in DOMAIN rtts : OwnSample(setup, t, task[t].round, rtts[i]),
         ok => task[t].heard \subseteq errors \cup Sampled(rtts)
  PROVE  ProbeInv'
  <1> DEFINE r == task[t]
             c == [r EXCEPT !.ph = "idle", !.rtts = rtts, !.errors = errors, !.ok = ok]
             m == [tick |-> r.tick, at |-> r.at, wait |-> r.wait, end |-> now]
  <1>1. /\ task' = [task EXCEPT ![t] = c] /\ inbox' = [inbox EXCEPT ![t] = <<>>]
        /\ last' = [last EXCEPT ![t] = m] /\ flying' \in SUBSET flying
        /\ UNCHANGED <<setup, now, dups>>
    BY TaskAt DEF Close, ProbeInv, ProbeTypes
  <1>2. c \in TaskType(setup) /\ m \in LastType /\ TaskOk(setup, t, c, <<>>, flying', m, now)
    BY <1>1, TaskAt, CloseOk
  <1>3. \A q \in flying' : q.at <= now /\ q \in flying
    BY <1>1 DEF ProbeInv, ProbeTypes
  <1>4. <<>> \in Seq(PacketType(setup)) /\ flying' \in SUBSET PacketType(setup)
    BY <1>1, TaskAt
  <1> HIDE DEF c, m
  <1> QED  BY <1>1, <1>2, <1>3, <1>4, TaskMoves

(* Err, from wherever the round is. *)
LEMMA FailKeeps ==
  ASSUME ProbeInv, NEW t \in Tasks, task[t].ph \in Early \cup Open, Fail(t)
  PROVE  ProbeInv'
  <1>1. Rising(<<>>) /\ Below(<<>>, Pings) /\ DOMAIN <<>> = {}
    BY NoSamples, PingsNat
  <1>2. <<>> \in Seq(SampleOf(setup)) /\ {} \in SUBSET Nat /\ FALSE \in BOOLEAN
    OBVIOUS
  <1>3. Close(t, <<>>, {}, FALSE)
    BY DEF Fail
  <1> QED  BY <1>1, <1>2, <1>3, CloseKeeps

(* phoenix gives the rest of a round up, with what it has. *)
LEMMA GiveUpKeeps ==
  ASSUME ProbeInv, NEW t \in Tasks, Kind(t) = "phoenix", Finish(t, task[t].rtts, {}),
         \/ task[t].ph = "send"
         \/ task[t].ph = "await" /\ inbox[t] = <<>>
  PROVE  ProbeInv'
  <1> DEFINE r == task[t]
  <1>1. TaskOk(setup, t, r, inbox[t], flying, last[t], now) /\ r.ph \in Open /\ r \in TaskType(setup)
    BY TaskAt DEF Open
  <1>2. r.errors = {}
    BY <1>1, TaskAt DEF TaskOk, Counted
  <1>3. r.seq \notin r.heard
    <2>1. r.seq \in r.heard => r.ph = "await" /\ r.seq \in Queued(inbox[t])
      BY <1>1, RecordFacts, TaskAt DEF TaskOk, Counted
    <2>2. inbox[t] = <<>> => Queued(inbox[t]) = {}
      BY DEF Queued
    <2> QED  BY <2>1, <2>2
  <1>4. r.heard \subseteq {} \cup Sampled(r.rtts)
    <2> SUFFICES ASSUME NEW x \in r.heard PROVE x \in Sampled(r.rtts)
      OBVIOUS
    <2>1. x < r.seq /\ x \in Nat /\ r.seq \in Nat
      BY <1>1, <1>3, TaskAt, RecordFacts DEF TaskOk, Counted
    <2>2. x \in 0..(r.seq - 1)
      BY <2>1
    <2> QED  BY <1>1, <1>2, <2>2 DEF TaskOk, Counted
  <1>5. /\ Rising(r.rtts) /\ Below(r.rtts, Pings)
        /\ \A i \in DOMAIN r.rtts : OwnSample(setup, t, r.round, r.rtts[i])
    BY <1>1 DEF TaskOk, Own
  <1>6. r.rtts \in Seq(SampleOf(setup)) /\ {} \in SUBSET Nat /\ TRUE \in BOOLEAN
    BY <1>1, TaskAt, RecordFacts
  <1>7. Close(t, r.rtts, {}, TRUE)
    BY DEF Finish
  <1> QED  BY <1>1, <1>4, <1>5, <1>6, <1>7, CloseKeeps

(* PingDone, for the ways Read, TimeOut and RecvFails come to it. *)
LEMMA PingDoneKeeps ==
  ASSUME ProbeInv, NEW t \in Tasks, task[t].ph = "await",
         NEW rtts \in Seq(SampleOf(setup)), NEW errors \in SUBSET Nat,
         NEW u \in Seq(PacketType(setup)), PingDone(t, rtts, errors, u),
         Rising(rtts), Below(rtts, task[t].seq + 1), Sampled(task[t].rtts) \subseteq Sampled(rtts),
         \A i \in DOMAIN rtts : OwnSample(setup, t, task[t].round, rtts[i]),
         task[t].errors \subseteq errors, Kind(t) = "phoenix" => errors = {},
         \/ task[t].seq \in errors \cup Sampled(rtts)
         \/ task[t].seq \notin task[t].heard /\ now >= task[t].t0 + setup.timeout,
         \A i \in DOMAIN u : \E j \in DOMAIN inbox[t] : u[i] = inbox[t][j]
  PROVE  ProbeInv'
  <1> DEFINE r == task[t]
             c == [r EXCEPT !.ph = "pace", !.seq = r.seq + 1, !.rtts = rtts, !.errors = errors]
  <1>1. /\ r.seq + 1 = Pings => r.heard \subseteq errors \cup Sampled(rtts)
        /\ r.seq + 1 # Pings => c \in TaskType(setup) /\ TaskOk(setup, t, c, u, flying, last[t], now)
    <2>1. /\ setup \in Setups /\ now \in Nat /\ t \in DOMAIN setup.kinds
          /\ r \in TaskType(setup) /\ last[t] \in LastType
          /\ flying \in SUBSET PacketType(setup)
          /\ TaskOk(setup, t, r, inbox[t], flying, last[t], now)
          /\ setup.kinds[t] = "phoenix" => errors = {}
      BY TaskAt
    <2> HIDE DEF r
    <2>2. /\ r.ph = "await" /\ Below(rtts, r.seq + 1) /\ Sampled(r.rtts) \subseteq Sampled(rtts)
          /\ \A i \in DOMAIN rtts : OwnSample(setup, t, r.round, rtts[i])
          /\ r.errors \subseteq errors
          /\ \/ r.seq \in errors \cup Sampled(rtts)
             \/ r.seq \notin r.heard /\ now >= r.t0 + setup.timeout
      BY DEF r
    <2> QED  BY <2>1, <2>2, PingOver
  <1>2. CASE r.seq + 1 = Pings
    <2>1. Close(t, rtts, errors, TRUE)
      BY <1>2 DEF PingDone, Finish
    <2>2. Below(rtts, Pings) /\ r.ph \in Early \cup Open /\ TRUE \in BOOLEAN
      BY <1>2 DEF Open
    <2> QED  BY <1>1, <1>2, <2>1, <2>2, CloseKeeps
  <1>3. CASE r.seq + 1 # Pings
    <2>1. NextPing(t, rtts, errors, u)
      BY <1>3 DEF PingDone
    <2>2. /\ task' = [task EXCEPT ![t] = c] /\ inbox' = [inbox EXCEPT ![t] = u]
          /\ UNCHANGED <<setup, now, flying, dups, last>>
      BY <2>1, TaskAt DEF NextPing, ProbeInv, ProbeTypes
    <2>3. last' = [last EXCEPT ![t] = last[t]] /\ \A q \in flying' : q.at <= now /\ q \in flying
      BY <2>2 DEF ProbeInv, ProbeTypes
    <2>4. flying' \in SUBSET PacketType(setup) /\ last[t] \in LastType
      BY <2>2, TaskAt
    <2>5. c \in TaskType(setup) /\ TaskOk(setup, t, c, u, flying', last[t], now)
      BY <1>1, <1>3, <2>2
    <2> HIDE DEF c
    <2> QED  BY <2>2, <2>3, <2>4, <2>5, TaskMoves
  <1> QED  BY <1>2, <1>3

LEMMA BeginKeeps ==
  ASSUME ProbeInv, NEW t \in Tasks, Wake(t) \/ Prepare(t) \/ Connect(t) \/ Paced(t)
  PROVE  ProbeInv'
  <1> DEFINE r == task[t]
             k == setup.kinds[t]
  <1>1. CASE Wake(t)
    <2> DEFINE c == [Unstarted EXCEPT !.ph = "lookup", !.due = now + Step, !.tick = now, !.at = now,
                                      !.round = r.round + 1]
    <2>1. r.ph = "idle" /\ now >= r.due /\ r.round < setup.rounds
      BY <1>1 DEF Wake, At
    <2>2. NextDue(r.due) = now + Step
      <3>1. r.due \in Nat /\ now \in Nat
        BY TaskAt, RecordFacts
      <3> QED  BY <2>1, <3>1 DEF NextDue
    <2>3. task' = [task EXCEPT ![t] = c] /\ UNCHANGED <<setup, now, inbox, flying, dups, last>>
      BY <1>1, <2>2 DEF Wake
    <2>4. c \in TaskType(setup) /\ TaskOk(setup, t, c, inbox[t], flying, last[t], now)
      BY <2>1, TaskAt, WakeOk
    <2> HIDE DEF c
    <2> QED  BY <2>3, <2>4, RecordMoves
  <1>2. CASE Prepare(t)
    <2> DEFINE c == [r EXCEPT !.ph = Opening(k), !.t0 = now,
                              !.at = IF k = "exec" THEN r.at ELSE now,
                              !.wait = IF k = "exec" THEN 0 ELSE now - r.tick]
    <2>1. r.ph = "lookup"
      BY <1>2 DEF Prepare, At
    <2>2. task' = [task EXCEPT ![t] = c] /\ UNCHANGED <<setup, now, inbox, flying, dups, last>>
      BY <1>2, TaskAt DEF Prepare, ProbeInv, ProbeTypes
    <2>3. c \in TaskType(setup) /\ TaskOk(setup, t, c, inbox[t], flying, last[t], now)
      BY <2>1, TaskAt, PrepareOk
    <2> HIDE DEF c
    <2> QED  BY <2>2, <2>3, RecordMoves
  <1>3. CASE Connect(t) \/ Paced(t)
    <2> DEFINE c == [r EXCEPT !.ph = "send"]
    <2>1. r.ph \in {"connect", "pace"}
      BY <1>3 DEF Connect, Paced, At
    <2>2. task' = [task EXCEPT ![t] = c] /\ UNCHANGED <<setup, now, inbox, flying, dups, last>>
      BY <1>3, TaskAt DEF Connect, Paced, ProbeInv, ProbeTypes
    <2>3. c \in TaskType(setup) /\ TaskOk(setup, t, c, inbox[t], flying, last[t], now)
      BY <2>1, TaskAt, ReadyOk
    <2> HIDE DEF c
    <2> QED  BY <2>2, <2>3, RecordMoves
  <1> QED  BY <1>1, <1>2, <1>3

LEMMA SendKeeps ==
  ASSUME ProbeInv, NEW t \in Tasks, Send(t)
  PROVE  ProbeInv'
  <1> DEFINE r == task[t]
             c == [r EXCEPT !.ph = "await", !.t0 = now]
             q == [task |-> t, round |-> r.round, seq |-> r.seq, at |-> now]
  <1>1. r.ph = "send"
    BY DEF Send, At
  <1>2. /\ task' = [task EXCEPT ![t] = c] /\ flying' = flying \cup {q}
        /\ UNCHANGED <<setup, now, inbox, dups, last>>
    BY TaskAt DEF Send, ProbeInv, ProbeTypes
  <1>3. /\ c \in TaskType(setup) /\ q \in PacketType(setup) /\ q.at = now /\ q.task = t
        /\ TaskOk(setup, t, c, inbox[t], flying \cup {q}, last[t], now)
    BY <1>1, TaskAt, SendOk
  <1> HIDE DEF c, q
  <1>4. inbox' = [inbox EXCEPT ![t] = inbox[t]] /\ last' = [last EXCEPT ![t] = last[t]]
    BY <1>2 DEF ProbeInv, ProbeTypes
  <1>5. /\ \A p \in flying' : p.at <= now /\ (p \in flying \/ p.task = t)
        /\ flying' \in SUBSET PacketType(setup)
    BY <1>2, <1>3, TaskAt DEF ProbeInv, ProbeTypes
  <1>6. inbox[t] \in Seq(PacketType(setup)) /\ last[t] \in LastType
    BY TaskAt
  <1> QED  BY <1>2, <1>3, <1>4, <1>5, <1>6, TaskMoves

(* A round that fails, or ends where its probe knows the rest is lost. *)
LEMMA FailuresKeep ==
  ASSUME ProbeInv, NEW t \in Tasks,
         PrepareFails(t) \/ ConnectFails(t) \/ SendFails(t) \/ RunFails(t)
  PROVE  ProbeInv'
  <1>1. CASE PrepareFails(t)
    <2>1. Fail(t) /\ task[t].ph \in Early \cup Open
      BY <1>1 DEF PrepareFails, At, Early
    <2> QED  BY <2>1, FailKeeps
  <1>2. CASE RunFails(t)
    <2>1. Fail(t) /\ task[t].ph \in Early \cup Open
      BY <1>2 DEF RunFails, At, Early
    <2> QED  BY <2>1, FailKeeps
  <1>3. CASE SendFails(t)
    <2>1. task[t].ph = "send" /\ task[t].ph \in Early \cup Open
      BY <1>3 DEF SendFails, At, Open
    <2>2. Fail(t) \/ (Kind(t) = "phoenix" /\ Finish(t, task[t].rtts, {}))
      BY <1>3 DEF SendFails
    <2> QED  BY <2>1, <2>2, FailKeeps, GiveUpKeeps
  <1>4. CASE ConnectFails(t)
    <2>1. Close(t, <<>>, {}, TRUE) /\ task[t].ph \in Early
      BY <1>4 DEF ConnectFails, Finish, At, Early
    <2>2. task[t].heard = {}
      BY <2>1, TaskAt DEF TaskOk, Counted
    <2>3. Rising(<<>>) /\ Below(<<>>, Pings) /\ DOMAIN <<>> = {}
      BY NoSamples, PingsNat
    <2>4. <<>> \in Seq(SampleOf(setup)) /\ {} \in SUBSET Nat /\ TRUE \in BOOLEAN
      OBVIOUS
    <2> QED  BY <2>1, <2>2, <2>3, <2>4, CloseKeeps
  <1> QED  BY <1>1, <1>2, <1>3, <1>4

(* exec takes at most Pings of the numbers that were printed. *)
LEMMA RunEndsKeeps ==
  ASSUME ProbeInv, NEW t \in Tasks, RunEnds(t)
  PROVE  ProbeInv'
  <1> DEFINE r == task[t]
             sample(i) == [of |-> [Request(t) EXCEPT !.seq = i - 1], seq |-> i - 1, rtt |-> 0]
             rtts(m) == [i \in 1..m |-> sample(i)]
  <1>1. PICK n \in 0..(Pings + 1) : Finish(t, rtts(IF n > Pings THEN Pings ELSE n), {})
    BY DEF RunEnds
  <1> DEFINE m == IF n > Pings THEN Pings ELSE n
  <1>2. m \in Nat /\ m <= Pings
    BY PingsNat
  <1>3. r.ph \in Early \cup Open /\ r.heard = {} /\ r.round \in Nat /\ setup.timeout \in Nat
        /\ t \in DOMAIN setup.kinds
    <2>1. r.ph \in Early
      BY DEF RunEnds, At, Early
    <2> QED  BY <2>1, TaskAt, RecordFacts, SetupFacts DEF TaskOk, Counted
  <1> HIDE DEF m
  <1>4. ASSUME NEW i \in 1..m
        PROVE  /\ sample(i) \in SampleOf(setup) /\ sample(i).seq = i - 1
               /\ OwnSample(setup, t, r.round, sample(i))
    <2>1. i - 1 \in 0..(Pings - 1)
      BY <1>2, PingsNat
    <2>2. [Request(t) EXCEPT !.seq = i - 1] = [task |-> t, round |-> r.round, seq |-> i - 1]
      BY DEF Request
    <2> QED  BY <1>3, <2>1, <2>2 DEF SampleOf, OwnSample
  <1> HIDE DEF sample
  <1>5. /\ rtts(m) \in Seq(SampleOf(setup)) /\ Len(rtts(m)) = m /\ DOMAIN rtts(m) = 1..m
        /\ \A i \in 1..m : rtts(m)[i] = sample(i)
    <2>1. rtts(m) \in [1..m -> SampleOf(setup)]
      BY <1>4
    <2>2. rtts(m) \in Seq(SampleOf(setup))
      BY <1>2, <2>1
    <2> QED  BY <1>2, <2>1, <2>2, LenProperties
  <1>6. Close(t, rtts(m), {}, TRUE)
    BY <1>1 DEF Finish, m
  <1> HIDE DEF rtts
  <1>7. Rising(rtts(m)) /\ Below(rtts(m), Pings)
    <2>1. \A i \in 1..m : rtts(m)[i].seq = i - 1 /\ i - 1 < Pings
      BY <1>2, <1>4, <1>5, PingsNat
    <2> QED  BY <1>2, <1>5, <2>1 DEF Rising, Below
  <1>8. \A i \in DOMAIN rtts(m) : OwnSample(setup, t, r.round, rtts(m)[i])
    BY <1>4, <1>5
  <1>9. {} \in SUBSET Nat /\ TRUE \in BOOLEAN
    OBVIOUS
  <1> QED  BY <1>3, <1>5, <1>6, <1>7, <1>8, <1>9, CloseKeeps

LEMMA PanicKeeps ==
  ASSUME ProbeInv, NEW t \in Tasks, RunPanics(t)
  PROVE  ProbeInv'
  <1> DEFINE r == task[t]
             c == [r EXCEPT !.ph = "dead", !.ok = FALSE]
  <1>1. r.ph = "run" /\ TaskOk(setup, t, r, inbox[t], flying, last[t], now) /\ r \in TaskType(setup)
    BY TaskAt DEF RunPanics, At
  <1>2. task' = [task EXCEPT ![t] = c] /\ UNCHANGED <<setup, now, inbox, flying, dups, last>>
    BY TaskAt DEF RunPanics, ProbeInv, ProbeTypes
  <1>3. /\ c \in TaskType(setup) /\ c.ph = "dead" /\ c.rtts = r.rtts /\ c.tick = r.tick
        /\ c.at = r.at /\ c.wait = r.wait /\ c.round = r.round
    BY <1>1 DEF TaskType, Phases
  <1>4. "dead" \notin Early \cup Open \cup {"idle"} /\ r.ph \notin Open
    BY <1>1 DEF Early, Open
  <1> HIDE DEF c
  <1>5. Timely(setup, setup.kinds[t], c, now) /\ Spaced(setup, c, last[t], now)
    BY <1>1, <1>3, <1>4 DEF TaskOk, Timely, Spaced
  <1>6. Own(setup, t, c, inbox[t], now)
    BY <1>1, <1>3, <1>4 DEF TaskOk, Own
  <1>7. Counted(setup, t, c, inbox[t], flying, now)
    BY <1>1, <1>3, <1>4 DEF TaskOk, Counted
  <1>8. TaskOk(setup, t, c, inbox[t], flying, last[t], now)
    BY <1>5, <1>6, <1>7 DEF TaskOk
  <1> QED  BY <1>2, <1>3, <1>8, RecordMoves

LEMMA ReadKeeps ==
  ASSUME ProbeInv, NEW t \in Tasks, Read(t)
  PROVE  ProbeInv'
  <1> DEFINE r == task[t]
             b == inbox[t]
             p == Head(b)
             x == Sample(t, p)
  <1>1. /\ r.ph = "await" /\ r.ph \in Open /\ b # <<>>
        /\ TaskOk(setup, t, r, b, flying, last[t], now)
        /\ r \in TaskType(setup) /\ b \in Seq(PacketType(setup)) /\ setup \in Setups
    BY TaskAt DEF Read, At, Open
  <1>2. /\ p \in PacketType(setup) /\ 1 \in DOMAIN b /\ p = b[1] /\ Tail(b) \in Seq(PacketType(setup))
        /\ \A i \in DOMAIN Tail(b) : \E j \in DOMAIN b : Tail(b)[i] = b[j]
    BY <1>1, TailQueue
  <1>3. CASE p.seq = r.seq
    <2>1. PingDone(t, Append(r.rtts, x), r.errors, Tail(b))
      BY <1>3 DEF Read, Accepted, Answered
    <2>2. /\ now \in Nat /\ r.t0 \in Nat /\ r.seq \in Nat /\ r.seq \in 0..(Pings - 1)
          /\ r.rtts \in Seq(SampleOf(setup)) /\ r.errors \in SUBSET Nat
      BY TaskAt, RecordFacts
    <2>3. r.t0 <= now /\ now <= r.t0 + setup.timeout /\ setup.timeout \in Nat
      BY <1>1, SetupFacts DEF TaskOk, Timely
    <2>4. /\ x \in SampleOf(setup) /\ x.seq = r.seq /\ x.of.seq = r.seq /\ x.of.task = p.task
          /\ x.of.round = p.round /\ x.rtt = now - r.t0
      <3>1. now - r.t0 \in Nat
        BY <2>2, <2>3
      <3>2. p.task \in DOMAIN setup.kinds /\ p.round \in Nat /\ p.seq \in 0..(Pings - 1)
        BY <1>2 DEF PacketType
      <3> QED  BY <1>3, <2>2, <3>1, <3>2 DEF Sample, SampleOf
    <2>5. OwnSample(setup, t, r.round, x)
      <3>1. OwnPacket(setup, t, r.round, p)
        BY <1>1, <1>2 DEF TaskOk, Own
      <3>2. x.rtt <= setup.timeout
        BY <2>2, <2>3, <2>4
      <3> QED  BY <2>4, <3>1, <3>2 DEF OwnSample, OwnPacket
    <2> HIDE DEF x, p
    <2>6. Rising(r.rtts) /\ Below(r.rtts, r.seq)
          /\ \A i \in DOMAIN r.rtts : OwnSample(setup, t, r.round, r.rtts[i])
      BY <1>1 DEF TaskOk, Own
    <2> DEFINE a == Append(r.rtts, x)
    <2>7. /\ a \in Seq(SampleOf(setup)) /\ Rising(a) /\ Below(a, r.seq + 1)
          /\ Sampled(a) = Sampled(r.rtts) \cup {r.seq}
          /\ \A i \in DOMAIN a : (i \in DOMAIN r.rtts /\ a[i] = r.rtts[i]) \/ a[i] = x
      BY <2>2, <2>4, <2>6, SampleFacts
    <2>8. PingDone(t, a, r.errors, Tail(b))
      BY <2>1
    <2> HIDE DEF a
    <2>9. \A i \in DOMAIN a : OwnSample(setup, t, r.round, a[i])
      BY <2>5, <2>6, <2>7
    <2>10. Kind(t) = "phoenix" => r.errors = {}
      BY <1>1, TaskAt DEF TaskOk, Counted
    <2> QED  BY <1>1, <1>2, <2>2, <2>7, <2>8, <2>9, <2>10, PingDoneKeeps
  <1>4. CASE p.seq # r.seq
    <2>1. inbox' = [inbox EXCEPT ![t] = Tail(b)] /\ UNCHANGED <<setup, now, task, flying, dups, last>>
      BY <1>4 DEF Read, Accepted, Ignore
    <2>2. TaskOk(setup, t, r, Tail(b), flying, last[t], now)
      BY <1>1, <1>4, IgnoreOk
    <2>3. /\ task' = [task EXCEPT ![t] = r] /\ last' = [last EXCEPT ![t] = last[t]]
          /\ \A q \in flying' : q.at <= now /\ (q \in flying \/ q.task = t)
      BY <2>1 DEF ProbeInv, ProbeTypes
    <2>4. flying' \in SUBSET PacketType(setup) /\ last[t] \in LastType
      BY <2>1, TaskAt
    <2>5. TaskOk(setup, t, r, Tail(b), flying', last[t], now) /\ UNCHANGED <<setup, now, dups>>
      BY <2>1, <2>2
    <2> DEFINE u == Tail(b)
    <2>6. /\ inbox' = [inbox EXCEPT ![t] = u] /\ u \in Seq(PacketType(setup))
          /\ TaskOk(setup, t, r, u, flying', last[t], now) /\ r \in TaskType(setup)
      BY <1>1, <1>2, <2>1, <2>5
    <2> HIDE DEF u
    <2> QED  BY <2>3, <2>4, <2>5, <2>6, TaskMoves
  <1> QED  BY <1>3, <1>4

(* What a ping that is given up leaves as it was. *)
LEMMA AwaitFacts ==
  ASSUME ProbeInv, NEW t \in Tasks, task[t].ph = "await"
  PROVE  /\ task[t].rtts \in Seq(SampleOf(setup)) /\ task[t].errors \in SUBSET Nat
         /\ inbox[t] \in Seq(PacketType(setup)) /\ task[t].seq \in Nat
         /\ Rising(task[t].rtts) /\ Below(task[t].rtts, task[t].seq + 1)
         /\ \A i \in DOMAIN task[t].rtts : OwnSample(setup, t, task[t].round, task[t].rtts[i])
         /\ Kind(t) = "phoenix" => task[t].errors = {}
         /\ task[t].seq \in task[t].heard =>
              now < task[t].t0 + setup.timeout /\ task[t].seq \in Queued(inbox[t])
         /\ task[t].t0 \in Nat /\ now \in Nat /\ setup.timeout \in Nat
  <1> DEFINE r == task[t]
  <1>1. TaskOk(setup, t, r, inbox[t], flying, last[t], now) /\ r \in TaskType(setup) /\ r.ph \in Open
    BY TaskAt DEF Open
  <1>2. r.rtts \in Seq(SampleOf(setup)) /\ r.errors \in SUBSET Nat /\ r.seq \in Nat /\ r.t0 \in Nat
        /\ setup.timeout \in Nat
    BY <1>1, TaskAt, RecordFacts, SetupFacts
  <1>3. Below(r.rtts, r.seq + 1)
    <2>1. \A y \in SampleOf(setup) : y.seq \in Int
      BY PingsNat DEF SampleOf
    <2>2. \A i \in DOMAIN r.rtts : r.rtts[i].seq \in Int
      BY <1>2, <2>1
    <2>3. Len(r.rtts) \in Nat /\ Below(r.rtts, r.seq)
      BY <1>1, <1>2 DEF TaskOk, Own
    <2> QED  BY <1>2, <2>2, <2>3 DEF Below
  <1>4. Rising(r.rtts) /\ \A i \in DOMAIN r.rtts : OwnSample(setup, t, r.round, r.rtts[i])
    BY <1>1 DEF TaskOk, Own
  <1>5. /\ Kind(t) = "phoenix" => r.errors = {}
        /\ r.seq \in r.heard => now < r.t0 + setup.timeout /\ r.seq \in Queued(inbox[t])
    BY <1>1, TaskAt DEF TaskOk, Counted
  <1> QED  BY <1>2, <1>3, <1>4, <1>5, TaskAt

LEMMA TimeOutKeeps ==
  ASSUME ProbeInv, NEW t \in Tasks, TimeOut(t)
  PROVE  ProbeInv'
  <1>1. task[t].ph = "await" /\ now >= task[t].t0 + setup.timeout
        /\ PingDone(t, task[t].rtts, task[t].errors, inbox[t])
    BY DEF TimeOut, At
  <1>2. task[t].seq \notin task[t].heard
    BY <1>1, AwaitFacts
  <1>3. \A i \in DOMAIN inbox[t] : \E j \in DOMAIN inbox[t] : inbox[t][i] = inbox[t][j]
    OBVIOUS
  <1> QED  BY <1>1, <1>2, <1>3, AwaitFacts, PingDoneKeeps

LEMMA RecvFailsKeeps ==
  ASSUME ProbeInv, NEW t \in Tasks, RecvFails(t)
  PROVE  ProbeInv'
  <1> DEFINE r == task[t]
  <1>1. r.ph = "await" /\ inbox[t] = <<>> /\ r.ph \in Early \cup Open
    BY DEF RecvFails, At, Open
  <1>2. CASE Fail(t)
    BY <1>1, <1>2, FailKeeps
  <1>3. CASE Kind(t) = "phoenix" /\ Finish(t, r.rtts, {})
    BY <1>1, <1>3, GiveUpKeeps
  <1>4. CASE Kind(t) \in {"dns", "tcp", "http"} /\ PingDone(t, r.rtts, r.errors \cup {r.seq}, <<>>)
    <2>1. r.errors \cup {r.seq} \in SUBSET Nat /\ Kind(t) # "phoenix"
      BY <1>1, <1>4, AwaitFacts
    <2>2. <<>> \in Seq(PacketType(setup)) /\ DOMAIN <<>> = {}
      OBVIOUS
    <2>3. r.seq \in (r.errors \cup {r.seq}) \cup Sampled(r.rtts)
      OBVIOUS
    <2> QED  BY <1>1, <1>4, <2>1, <2>2, <2>3, AwaitFacts, PingDoneKeeps
  <1> QED  BY <1>2, <1>3, <1>4 DEF RecvFails

LEMMA ArriveKeeps ==
  ASSUME ProbeInv, NEW q \in flying, Arrive(q)
  PROVE  ProbeInv'
  <1> DEFINE on(h) == q.task = h /\ q.round = task[h].round /\ now < q.at + setup.timeout
             c(h) == IF on(h) THEN [task[h] EXCEPT !.heard = task[h].heard \cup {q.seq}] ELSE task[h]
  <1>1. /\ inbox' = [h \in Tasks |-> IF Hears(h, q) THEN Append(inbox[h], q) ELSE inbox[h]]
        /\ task' = [h \in Tasks |-> IF Hears(h, q) THEN c(h) ELSE task[h]]
        /\ flying' \in SUBSET flying /\ dups' \in 0..setup.dups
        /\ UNCHANGED <<setup, now, last>>
    <2>1. task' = [h \in Tasks |-> IF Hears(h, q) THEN c(h) ELSE task[h]]
      BY DEF Arrive, OnTime
    <2>2. dups' \in 0..setup.dups
      <3>1. setup.dups \in Nat /\ dups \in 0..setup.dups
        BY SetupFacts DEF ProbeInv, ProbeTypes
      <3> QED  BY <3>1 DEF Arrive
    <2> QED  BY <2>1, <2>2 DEF Arrive
  <1>2. ASSUME NEW h \in Tasks, Hears(h, q)
        PROVE  c(h) \in TaskType(setup) /\ TaskOk(setup, h, c(h), Append(inbox[h], q), flying, last[h], now)
    <2>1. task[h].ph \in Open /\ q.at <= now
      BY <1>2 DEF Hears, SocketOpen, Open, ProbeInv, ProbeTypes
    <2>2. OwnPacket(setup, h, task[h].round, q)
      <3>1. CASE Kind(h) \in Raw
        BY <1>2, <3>1, TaskAt DEF Hears, OwnPacket, Kind
      <3>2. CASE Kind(h) \in Numbered \ Raw
        <4>1. Kind(h) \notin Raw
          BY <3>2
        <4> QED  BY <1>2, <3>2, <4>1 DEF Hears, OwnPacket
      <3>3. CASE Kind(h) \notin Numbered /\ Kind(h) \notin Raw
        <4>1. [task |-> q.task, round |-> q.round, seq |-> q.seq] = Request(h)
          BY <1>2, <3>3 DEF Hears
        <4>2. q.task = h /\ q.round = task[h].round
          BY <4>1 DEF Request
        <4> QED  BY <4>2 DEF OwnPacket
      <3> QED  BY <3>1, <3>2, <3>3
    <2>3. on(h) \in BOOLEAN
      OBVIOUS
    <2> QED  BY <2>1, <2>2, <2>3, TaskAt, HearOk
  <1> HIDE DEF c
  <1>3. Tasks' = Tasks
    BY <1>1 DEF Tasks
  <1>4. ASSUME NEW h \in Tasks
        PROVE  /\ task'[h] \in TaskType(setup) /\ inbox'[h] \in Seq(PacketType(setup))
               /\ TaskOk(setup, h, task'[h], inbox'[h], flying', last[h], now)
    <2>1. TaskOk(setup, h, task'[h], inbox'[h], flying, last[h], now) /\ task'[h] \in TaskType(setup)
          /\ inbox'[h] \in Seq(PacketType(setup))
      <3>1. CASE Hears(h, q)
        <4>1. q \in PacketType(setup)
          BY TaskAt
        <4> QED  BY <1>1, <1>2, <3>1, <4>1, TaskAt, AppendProperties
      <3>2. CASE ~Hears(h, q)
        BY <1>1, <3>2, TaskAt
      <3> QED  BY <3>1, <3>2
    <2>2. Counted(setup, h, task'[h], inbox'[h], flying', now)
      <3>1. \A p \in flying' : p \in flying
        BY <1>1
      <3> QED  BY <2>1, <3>1, FewerReplies DEF TaskOk
    <2> QED  BY <2>1, <2>2 DEF TaskOk
  <1>5. ProbeTypes'
    <2>1. task' \in [Tasks -> TaskType(setup)] /\ inbox' \in [Tasks -> Seq(PacketType(setup))]
      BY <1>1, <1>4
    <2>2. \A p \in flying' : p \in flying
      BY <1>1
    <2>3. flying' \subseteq PacketType(setup) /\ \A p \in flying' : p.at <= now
      BY <2>2 DEF ProbeInv, ProbeTypes
    <2> QED  BY <1>1, <1>3, <2>1, <2>3 DEF ProbeInv, ProbeTypes
  <1> QED  BY <1>1, <1>3, <1>4, <1>5 DEF ProbeInv

LEMMA TickKeeps ==
  ASSUME ProbeInv, Tick
  PROVE  ProbeInv'
  <1>1. now' = now + 1 /\ UNCHANGED <<setup, task, inbox, flying, dups, last>>
        /\ \A t \in Tasks : ~MustRun(t)
    BY DEF Tick
  <1>2. Tasks' = Tasks /\ now \in Nat
    BY <1>1 DEF Tasks, ProbeInv, ProbeTypes
  <1>3. ProbeTypes'
    <2>1. \A q \in flying : q.at \in Nat /\ q.at <= now
      BY DEF ProbeInv, ProbeTypes, PacketType
    <2>2. \A q \in flying : q.at <= now + 1
      BY <1>2, <2>1
    <2>3. now + 1 \in Nat
      BY <1>2
    <2> QED  BY <1>1, <1>2, <2>2, <2>3 DEF ProbeInv, ProbeTypes
  <1>4. ASSUME NEW t \in Tasks PROVE TaskOk(setup, t, task[t], inbox[t], flying, last[t], now + 1)
    <2> DEFINE r == task[t]
    <2>1. /\ ~MustRun(t)
          /\ now \in Nat /\ r.due \in Nat /\ r.round \in Nat /\ r.tick \in Nat /\ r.t0 \in Nat
          /\ setup.rounds \in Nat /\ setup.lookup \in Nat /\ setup.timeout \in Nat
          /\ setup.interval \in Nat
      BY <1>1, TaskAt, RecordFacts, SetupFacts
    <2>2. (r.ph = "idle" /\ r.round < setup.rounds) => now < r.due
      BY <2>1 DEF MustRun
    <2>3. r.ph = "lookup" => now < r.tick + setup.lookup
      BY <2>1 DEF MustRun
    <2>4. r.ph \in {"connect", "run", "await"} => now < r.t0 + setup.timeout
      <3>1. r.ph = "connect" => now < r.t0 + setup.timeout
        BY <2>1 DEF MustRun
      <3>2. r.ph = "run" => now < r.t0 + setup.timeout
        BY <2>1 DEF MustRun
      <3>3. r.ph = "await" => now < r.t0 + setup.timeout
        BY <2>1 DEF MustRun
      <3> QED  BY <3>1, <3>2, <3>3
    <2>5. r.ph # "send" /\ (r.ph = "await" => inbox[t] = <<>>)
      BY <2>1 DEF MustRun
    <2>6. r.ph = "pace" => now < r.t0 + setup.interval
      BY <2>1 DEF MustRun
    <2> QED  BY <2>2, <2>3, <2>4, <2>5, <2>6, TaskAt, TickOk
  <1> QED  BY <1>1, <1>2, <1>3, <1>4 DEF ProbeInv

(* A task before its first round, and one that was stopped. *)
Resting(c) ==
  c.ph \in {"idle", "stopped"} /\ c.rtts = <<>> /\ c.heard = {} /\ c.tick = 0 /\ c.at = 0
  /\ c.wait = 0 /\ c.round = 0

LEMMA RestOk ==
  ASSUME NEW s \in Setups, NEW t \in DOMAIN s.kinds, NEW l \in LastType, NEW n \in Nat,
         NEW c, Resting(c), l.at = l.tick + l.wait
  PROVE  TaskOk(s, t, c, <<>>, {}, l, n)
  <1>1. c.ph \notin Early \cup Open /\ s.lookup \in Nat /\ s.rounds \in Nat
    BY SetupFacts DEF Early, Open, Resting
  <1>2. Timely(s, s.kinds[t], c, n)
    BY <1>1 DEF Timely, Open, Early, Resting
  <1>3. Spaced(s, c, l, n)
    BY <1>1 DEF Spaced, Resting
  <1>4. Own(s, t, c, <<>>, n)
    BY <1>1, NoSamples, PingsNat DEF Own, Resting
  <1>5. Counted(s, t, c, <<>>, {}, n)
    BY <1>1 DEF Counted, Open, Resting
  <1> QED  BY <1>2, <1>3, <1>4, <1>5 DEF TaskOk

LEMMA StopKeeps ==
  ASSUME ProbeInv, Stop
  PROVE  ProbeInv'
  <1> DEFINE c == [Unstarted EXCEPT !.ph = "stopped"]
  <1>1. Resting(c) /\ c \in TaskType(setup)
    <2>1. "stopped" \in Phases
      BY DEF Phases
    <2>2. /\ c \in TaskType(setup) /\ c.ph = "stopped" /\ c.rtts = Unstarted.rtts
          /\ c.heard = Unstarted.heard /\ c.tick = Unstarted.tick /\ c.at = Unstarted.at
          /\ c.wait = Unstarted.wait /\ c.round = Unstarted.round
      BY <2>1, UnstartedFacts DEF TaskType
    <2> HIDE DEF c
    <2> QED  BY <2>2, UnstartedFacts DEF Resting
  <1>2. /\ task' = [t \in Tasks |-> c] /\ inbox' = [t \in Tasks |-> <<>>] /\ flying' = {}
        /\ UNCHANGED <<setup, now, dups, last>>
    BY DEF Stop
  <1>3. Tasks' = Tasks
    BY <1>2 DEF Tasks
  <1>4. ASSUME NEW t \in Tasks
        PROVE  TaskOk(setup, t, c, <<>>, {}, last[t], now)
    <2>1. last[t].at = last[t].tick + last[t].wait
      BY TaskAt DEF TaskOk, Spaced
    <2> HIDE DEF c
    <2> QED  BY <1>1, <2>1, TaskAt, RestOk
  <1> HIDE DEF c
  <1>5. task' \in [Tasks -> TaskType(setup)] /\ inbox' \in [Tasks -> Seq(PacketType(setup))]
    BY <1>1, <1>2
  <1>6. ProbeTypes'
    BY <1>2, <1>3, <1>5 DEF ProbeInv, ProbeTypes
  <1> QED  BY <1>2, <1>3, <1>4, <1>6 DEF ProbeInv

LEMMA ProbeInit == Init => ProbeInv
  <1> SUFFICES ASSUME Init PROVE ProbeInv
    OBVIOUS
  <1>1. PICK offset \in [Tasks -> setup.offsets] :
          task = [t \in Tasks |-> [Unstarted EXCEPT !.due = offset[t]]]
    BY DEF Init
  <1>2. /\ setup \in Setups /\ now = 0 /\ inbox = [t \in Tasks |-> <<>>] /\ flying = {} /\ dups = 0
        /\ last = [t \in Tasks |-> NoRound]
    BY DEF Init
  <1>3. NoRound \in LastType /\ NoRound.at = NoRound.tick + NoRound.wait
    BY DEF NoRound, LastType
  <1> DEFINE c(d) == [Unstarted EXCEPT !.due = d]
  <1>4. ASSUME NEW d \in Nat PROVE c(d) \in TaskType(setup) /\ Resting(c(d))
    <2>1. /\ c(d) \in TaskType(setup) /\ c(d).ph = Unstarted.ph /\ c(d).rtts = Unstarted.rtts
          /\ c(d).heard = Unstarted.heard /\ c(d).tick = Unstarted.tick /\ c(d).at = Unstarted.at
          /\ c(d).wait = Unstarted.wait /\ c(d).round = Unstarted.round
      BY UnstartedFacts DEF TaskType
    <2> HIDE DEF c
    <2> QED  BY <2>1, UnstartedFacts DEF Resting
  <1>5. task = [t \in Tasks |-> c(offset[t])]
    BY <1>1
  <1> HIDE DEF c
  <1>6. ASSUME NEW t \in Tasks
        PROVE  /\ c(offset[t]) \in TaskType(setup)
               /\ TaskOk(setup, t, c(offset[t]), <<>>, {}, NoRound, 0)
    <2>1. offset[t] \in Nat /\ t \in DOMAIN setup.kinds
      <3>1. offset[t] \in setup.offsets /\ setup.offsets \subseteq 0..(Step - 1)
        BY <1>1, <1>2, SetupFacts
      <3> QED  BY <3>1 DEF Tasks
    <2>2. 0 \in Nat
      OBVIOUS
    <2> QED  BY <1>2, <1>3, <1>4, <2>1, <2>2, RestOk
  <1>7. ProbeTypes
    <2>1. setup.dups \in Nat /\ dups \in 0..setup.dups
      BY <1>2, SetupFacts
    <2>2. task \in [Tasks -> TaskType(setup)] /\ inbox \in [Tasks -> Seq(PacketType(setup))]
          /\ last \in [Tasks -> LastType]
      BY <1>2, <1>3, <1>5, <1>6
    <2> QED  BY <1>2, <2>1, <2>2 DEF ProbeTypes
  <1> QED  BY <1>2, <1>5, <1>6, <1>7 DEF ProbeInv

LEMMA ProbeStep == ProbeInv /\ [Next]_vars => ProbeInv'
  <1> SUFFICES ASSUME ProbeInv, [Next]_vars PROVE ProbeInv'
    OBVIOUS
  <1>1. ASSUME NEW t \in Tasks,
               \/ Wake(t) \/ Prepare(t) \/ PrepareFails(t)
               \/ Connect(t) \/ ConnectFails(t)
               \/ Send(t) \/ SendFails(t)
               \/ Read(t) \/ TimeOut(t) \/ RecvFails(t) \/ Paced(t)
               \/ RunEnds(t) \/ RunFails(t) \/ RunPanics(t)
        PROVE  ProbeInv'
    BY <1>1, BeginKeeps, FailuresKeep, SendKeeps, ReadKeeps, TimeOutKeeps, RecvFailsKeeps,
       RunEndsKeeps, PanicKeeps
  <1>2. CASE UNCHANGED vars
    BY <1>2 DEF vars, ProbeInv, ProbeTypes, Tasks
  <1> QED  BY <1>1, <1>2, ArriveKeeps, TickKeeps, StopKeeps DEF Next

(* What each task, its socket and the network hold, in every state. *)
THEOREM ProbeInvariant == Spec => []ProbeInv
  BY ProbeInit, ProbeStep, PTL DEF Spec

-----------------------------------------------------------------------------
(* The properties *)

(* Every variable has its type, and no round has more samples than it sent  *)
(* pings: the subtraction in loss_pct cannot underflow.                    *)
THEOREM ProbingTypes == Spec => []TypeOK
  <1>1. ProbeInv => TypeOK
    <2> SUFFICES ASSUME ProbeInv PROVE TypeOK
      OBVIOUS
    <2>1. ASSUME NEW t \in Tasks
          PROVE  /\ task[t].ph \in Phases
                 /\ task[t].round \in 0..setup.rounds /\ task[t].seq \in 0..(Pings - 1)
                 /\ task[t].at - task[t].tick \in 0..setup.lookup
                 /\ Len(task[t].rtts) <= Pings
                 /\ \A i \in DOMAIN task[t].rtts : task[t].rtts[i] \in SampleType
                 /\ \A i \in DOMAIN inbox[t] : inbox[t][i].at \in 0..now
      <3> DEFINE r == task[t]
      <3>1. /\ r \in TaskType(setup) /\ setup.rounds \in Nat /\ setup.lookup \in Nat
            /\ TaskOk(setup, t, r, inbox[t], flying, last[t], now) /\ now \in Nat
        BY TaskAt, SetupFacts
      <3>2. /\ r.ph \in Phases /\ r.round \in Nat /\ r.seq \in 0..(Pings - 1) /\ r.at \in Nat
            /\ r.tick \in Nat /\ r.wait \in Nat /\ r.rtts \in Seq(SampleOf(setup))
        BY <3>1, TaskAt, RecordFacts
      <3>3. r.round <= setup.rounds /\ r.at = r.tick + r.wait /\ r.wait <= setup.lookup
        BY <3>1 DEF TaskOk, Timely
      <3>4. Len(r.rtts) <= Pings
        BY <3>1 DEF TaskOk, Own, Below
      <3>5. \A i \in DOMAIN r.rtts : r.rtts[i] \in SampleType
        <4>1. SampleType = SampleOf(setup)
          BY DEF SampleType, Req, SampleOf, Tasks
        <4> QED  BY <3>2, <4>1
      <3>6. \A i \in DOMAIN inbox[t] : inbox[t][i].at \in 0..now
        <4>1. \A y \in PacketType(setup) : y.at \in Nat
          BY DEF PacketType
        <4>2. \A i \in DOMAIN inbox[t] : inbox[t][i].at \in Nat
          BY <4>1, TaskAt
        <4> QED  BY <3>1, <4>2 DEF TaskOk, Own
      <3> QED  BY <3>1, <3>2, <3>3, <3>4, <3>5, <3>6
    <2> QED  BY <2>1 DEF TypeOK, ProbeInv, ProbeTypes
  <1> QED  BY <1>1, ProbeInvariant, PTL

(* Every sample of a round is the answer to a ping of its own, counted      *)
(* once and no older than the timeout; only raw sockets mix hosts' rounds.  *)
THEOREM SamplesAreOwn == Spec => []SampleIsOwn
  <1>1. ProbeInv => SampleIsOwn
    <2> SUFFICES ASSUME ProbeInv, NEW t \in Tasks
                 PROVE  LET rtts == task[t].rtts IN
                        /\ \A i, j \in DOMAIN rtts : i < j => rtts[i].seq < rtts[j].seq
                        /\ \A i \in DOMAIN rtts :
                             LET s == rtts[i] IN
                             /\ s.of.seq = s.seq /\ s.rtt <= setup.timeout
                             /\ \/ s.of.task = t /\ s.of.round = task[t].round
                                \/ Kind(t) \in Raw /\ Kind(s.of.task) \in Raw
      BY DEF SampleIsOwn
    <2>1. Own(setup, t, task[t], inbox[t], now)
      BY TaskAt DEF TaskOk
    <2> QED  BY <2>1 DEF Own, Rising, OwnSample, Kind
  <1> QED  BY <1>1, ProbeInvariant, PTL

(* A ping is counted as lost only when no reply reached the socket in time  *)
(* or the socket failed: packets ahead of the reply never cost it.         *)
THEOREM LossesAreReal == Spec => []LossIsReal
  <1>1. ProbeInv => LossIsReal
    <2> SUFFICES ASSUME ProbeInv, NEW t \in Tasks, task[t].ph = "idle", task[t].ok
                 PROVE  task[t].heard \subseteq task[t].errors \cup
                          {task[t].rtts[i].seq : i \in DOMAIN task[t].rtts}
      BY DEF LossIsReal, At
    <2>1. Counted(setup, t, task[t], inbox[t], flying, now)
      BY TaskAt DEF TaskOk
    <2> QED  BY <2>1 DEF Counted, Sampled
  <1> QED  BY <1>1, ProbeInvariant, PTL

(* However many packets come in, a round takes no longer than its pings'    *)
(* timeouts and intervals.                                                 *)
THEOREM RoundsAreBounded == Spec => []RoundBounded
  <1>1. ProbeInv => RoundBounded
    <2> SUFFICES ASSUME ProbeInv, NEW t \in Tasks, InRound(t)
                 PROVE  now - (task[t].tick + task[t].wait) <=
                          (IF Kind(t) \in {"phoenix", "exec"} THEN setup.timeout ELSE 0)
                          + (IF Kind(t) = "exec" THEN setup.lookup ELSE 0)
                          + task[t].seq * Slowest + (IF At("pace", t) THEN 0 ELSE setup.timeout)
      BY DEF RoundBounded
    <2> DEFINE r == task[t]
               k == Kind(t)
    <2>1. /\ Timely(setup, k, r, now) /\ r \in TaskType(setup) /\ k = setup.kinds[t]
          /\ now \in Nat /\ setup.timeout \in Nat /\ setup.lookup \in Nat /\ Slow(setup) \in Nat
          /\ setup.timeout <= Slow(setup)
      BY TaskAt, SetupFacts DEF TaskOk
    <2>2. r.at \in Nat /\ r.tick \in Nat /\ r.wait \in Nat /\ r.seq \in Nat /\ r.t0 \in Nat
          /\ r.at = r.tick + r.wait
      BY <2>1, TaskAt, RecordFacts DEF Timely
    <2>3. /\ Budget(setup, k, r) \in Nat /\ Extra(setup, k) \in Nat
          /\ Budget(setup, k, r) = r.at + Extra(setup, k) + r.seq * Slow(setup)
          /\ r.at + Extra(setup, k) <= Budget(setup, k, r)
      BY <2>2, TaskAt, BudgetNat DEF Budget
    <2>4. k = "exec" => Extra(setup, k) = setup.timeout + setup.lookup
      BY <2>1 DEF Extra
    <2> HIDE DEF k, r
    <2>5. now <= Budget(setup, k, r) + (IF r.ph = "pace" THEN 0 ELSE setup.timeout)
      <3>1. CASE r.ph \in {"connect", "send"}
        BY <2>1, <2>2, <2>3, <3>1 DEF Timely
      <3>2. CASE r.ph = "run"
        BY <2>1, <2>2, <2>3, <2>4, <3>2 DEF Timely
      <3>3. CASE r.ph = "await"
        BY <2>1, <2>2, <2>3, <3>3 DEF Timely
      <3>4. CASE r.ph = "pace"
        BY <2>1, <2>2, <2>3, <3>4 DEF Timely
      <3> QED  BY <3>1, <3>2, <3>3, <3>4 DEF InRound, r
    <2>6. Slow(setup) = Slowest /\ (At("pace", t) <=> r.ph = "pace")
      BY DEF Slow, Slowest, At, r
    <2>7. now - (r.tick + r.wait) <= Extra(setup, k) + r.seq * Slow(setup)
                                     + (IF r.ph = "pace" THEN 0 ELSE setup.timeout)
      <3> DEFINE x == r.seq * Slow(setup)
      <3>1. x \in Nat /\ Budget(setup, k, r) = r.at + Extra(setup, k) + x
        BY <2>1, <2>2, <2>3, Times
      <3> HIDE DEF x
      <3>2. now - (r.tick + r.wait) <= Extra(setup, k) + x
                                       + (IF r.ph = "pace" THEN 0 ELSE setup.timeout)
        BY <2>1, <2>2, <2>3, <2>5, <3>1
      <3> QED  BY <3>2 DEF x
    <2> QED  BY <2>6, <2>7 DEF Extra, k, r
  <1> QED  BY <1>1, ProbeInvariant, PTL

LEMMA SlotFacts ==
  ASSUME NEW a \in Nat, NEW b \in Nat
  PROVE  /\ Slot(a + Step) = Slot(a) + 1
         /\ b >= a + Step => Slot(b) # Slot(a)
  <1>1. Step \in Nat \ {0}
    BY PingsNat
  <1>2. ASSUME NEW x \in Nat, NEW y \in Int, y * Step <= x, x < y * Step + Step PROVE Slot(x) = y
    BY <1>1, <1>2 DEF Slot
  <1>3. ASSUME NEW x \in Nat
        PROVE  Slot(x) \in Nat /\ Slot(x) * Step <= x /\ x < Slot(x) * Step + Step
    BY <1>1, <1>3 DEF Slot
  <1> DEFINE y == Slot(a)
  <1>4. (y + 1) * Step = y * Step + Step /\ y * Step \in Nat
    BY <1>1, <1>3, Times
  <1>5. Slot(a + Step) = y + 1
    BY <1>1, <1>2, <1>3, <1>4
  <1> QED  BY <1>1, <1>3, <1>5

(* Two rounds of a target share a slot of the store, or leave one empty,    *)
(* only after a slow lookup or a round longer than the step.               *)
THEOREM SlotsAreExplained == Spec => []SlotsExplained
  <1>1. ProbeInv => SlotsExplained
    <2> SUFFICES ASSUME ProbeInv, NEW t \in Tasks, InRound(t), task[t].round > 1
                 PROVE  LET one == last[t]
                            two == task[t]
                        IN  /\ two.tick - one.tick >= Step
                            /\ Slot(two.at) = Slot(one.at) => one.wait > two.wait
                            /\ Slot(two.at) # Slot(one.at) + 1 =>
                                 one.end > one.tick + Step \/ one.wait # two.wait
      BY DEF SlotsExplained
    <2> DEFINE one == last[t]
               two == task[t]
    <2>1. two.ph \in Early \cup Open
      BY DEF InRound, Early, Open
    <2>2. /\ two.tick >= one.tick + Step /\ (one.end > one.tick + Step \/ two.tick = one.tick + Step)
          /\ one.at = one.tick + one.wait /\ two.at = two.tick + two.wait
      BY <2>1, TaskAt DEF TaskOk, Spaced, Timely
    <2>3. /\ one.at \in Nat /\ one.tick \in Nat /\ one.wait \in Nat /\ one.end \in Nat
          /\ two.at \in Nat /\ two.tick \in Nat /\ two.wait \in Nat /\ Step \in Nat
      BY TaskAt, RecordFacts, PingsNat DEF LastType
    <2> HIDE DEF one, two
    <2>4. one.wait <= two.wait => two.at >= one.at + Step
      BY <2>2, <2>3
    <2>5. Slot(two.at) = Slot(one.at) => one.wait > two.wait
      BY <2>3, <2>4, SlotFacts
    <2>6. Slot(two.at) # Slot(one.at) + 1 => one.end > one.tick + Step \/ one.wait # two.wait
      <3>1. (two.tick = one.tick + Step /\ one.wait = two.wait) => two.at = one.at + Step
        BY <2>2, <2>3
      <3> QED  BY <2>2, <2>3, <3>1, SlotFacts
    <2>7. two.tick - one.tick >= Step
      BY <2>2, <2>3
    <2> QED  BY <2>5, <2>6, <2>7 DEF one, two
  <1> QED  BY <1>1, ProbeInvariant, PTL

-----------------------------------------------------------------------------
(* Lifecycle *)

(* What holds besides between two generations: only the daemon checks a     *)
(* file before it reloads, a round is open only where tasks run, and what   *)
(* was vouched for loads as long as it is not edited.                      *)
LifeInv ==
  /\ LifecycleTypeOK
  /\ pc = "check" => role = "master"
  /\ emitting # {} => Probing \/ Ended \/ pc = "stopping"
  /\ role = "master" => old = {}
  /\ vouched => source # "invalid"

LEMMA BoundsNat == MaxEdits \in Nat /\ MaxFaults \in Nat
  BY LifecycleAssumption

(* What the daemon's file can be. *)
LEMMA MasterSource ==
  ASSUME LifeInv, role = "master"
  PROVE  source \notin {"unreachable", "garbage", "unauthorized"}
  <1>1. source \in Configs \cup {"unbuildable"} \cup {"invalid"}
    BY DEF LifeInv, LifecycleTypeOK, Sources
  <1> QED  BY <1>1, LifecycleAssumption

LEMMA LifeInit == LifecycleInit => LifeInv
  <1> SUFFICES ASSUME LifecycleInit PROVE LifeInv
    OBVIOUS
  <1>1. 0 \in 0..MaxEdits /\ 0 \in 0..MaxFaults
    BY BoundsNat
  <1>2. LifecycleTypeOK
    BY <1>1 DEF LifecycleInit, LifecycleTypeOK
  <1> QED  BY <1>2 DEF LifecycleInit, LifeInv

(* The steps of run and run_once. *)
LEMMA GenerationKeeps ==
  ASSUME LifeInv, Load \/ LoadFails \/ Build \/ BindFails \/ Shutdown
  PROVE  LifeInv'
  <1> USE DEF LifeInv, LifecycleTypeOK, Probing, Ended, sigs, Sources
  <1>1. CASE Load
    BY <1>1 DEF Load
  <1>2. CASE LoadFails
    BY <1>2 DEF LoadFails
  <1>3. CASE Build
    BY <1>3 DEF Build
  <1>4. CASE BindFails
    BY <1>4, BoundsNat DEF BindFails
  <1>5. CASE Shutdown
    BY <1>5 DEF Shutdown, AfterStop
  <1> QED  BY <1>1, <1>2, <1>3, <1>4, <1>5

(* The steps of a task. *)
LEMMA TaskKeeps ==
  ASSUME LifeInv, NEW t \in Targets, RoundStarts(t) \/ RoundEnds(t) \/ OldRoundEnds(t)
  PROVE  LifeInv'
  <1> USE DEF LifeInv, LifecycleTypeOK, Probing, Ended, sigs
  <1>1. CASE RoundStarts(t)
    BY <1>1 DEF RoundStarts
  <1>2. CASE RoundEnds(t)
    BY <1>2 DEF RoundEnds
  <1>3. CASE OldRoundEnds(t)
    BY <1>3 DEF OldRoundEnds
  <1> QED  BY <1>1, <1>2, <1>3

(* The steps of wait_for_signal. *)
LEMMA WaitKeeps ==
  ASSUME LifeInv, ListenTerm \/ ListenHup \/ ListenInt \/ Quit \/ Hup \/ Check
  PROVE  LifeInv'
  <1> USE DEF LifeInv, LifecycleTypeOK, Probing, Ended, sigs, Signals
  <1>1. CASE ListenTerm
    BY <1>1 DEF ListenTerm, Listen
  <1>2. CASE ListenHup
    BY <1>2 DEF ListenHup, Listen
  <1>3. CASE ListenInt
    BY <1>3 DEF ListenInt, Listen
  <1>4. CASE Quit
    BY <1>4 DEF Quit, Return
  <1>5. CASE Hup
    BY <1>5 DEF Hup, Return
  <1>6. CASE Check
    BY <1>6 DEF Check, Return
  <1> QED  BY <1>1, <1>2, <1>3, <1>4, <1>5, <1>6

(* The agent's refresh and what the operator does. *)
LEMMA OutsideKeeps ==
  ASSUME LifeInv,
         \/ Refresh
         \/ \E c \in Sources(role) : Edit(c)
         \/ \E s \in Signals : Heard(s) \/ Kills(s)
  PROVE  LifeInv'
  <1> USE DEF LifeInv, LifecycleTypeOK, Probing, Ended, sigs
  <1>1. CASE Refresh
    BY <1>1 DEF Refresh, RefreshTo
  <1>2. ASSUME NEW c \in Sources(role), Edit(c) PROVE LifeInv'
    <2>1. edits' \in 0..MaxEdits
      BY <1>2, BoundsNat DEF Edit
    <2>2. source' \in Sources(role') /\ config' \in Sources(role') \cup {"none"}
      BY <1>2 DEF Edit
    <2> QED  BY <1>2, <2>1, <2>2 DEF Edit
  <1>3. ASSUME NEW s \in Signals, Heard(s) PROVE LifeInv'
    BY <1>3 DEF Heard
  <1>4. ASSUME NEW s \in Signals, Kills(s) PROVE LifeInv'
    BY <1>4 DEF Kills
  <1> QED  BY <1>1, <1>2, <1>3, <1>4

LEMMA LifeStep == LifeInv /\ [LifecycleNext]_lifecycleVars => LifeInv'
  <1> SUFFICES ASSUME LifeInv, [LifecycleNext]_lifecycleVars PROVE LifeInv'
    OBVIOUS
  <1>1. CASE UNCHANGED lifecycleVars
    BY <1>1 DEF lifecycleVars, sigs, LifeInv, LifecycleTypeOK, Probing, Ended
  <1> QED  BY <1>1, GenerationKeeps, TaskKeeps, WaitKeeps, OutsideKeeps DEF LifecycleNext

(* What waits for a signal, listens and probes hangs together, in every state. *)
THEOREM LifeInvariant == LifecycleSpec => []LifeInv
  BY LifeInit, LifeStep, PTL DEF LifecycleSpec

(* What a process listens to has a handler and what waits has a receiver,   *)
(* wherever edits, signals, reloads and failed loads fall.                 *)
THEOREM LifeTypes == LifecycleSpec => []LifecycleTypeOK
  <1>1. LifeInv => LifecycleTypeOK
    BY DEF LifeInv
  <1> QED  BY <1>1, LifeInvariant, PTL

(* The daemon's tasks are those of one generation: shutdown is awaited on   *)
(* every way from one generation to the next.                              *)
THEOREM OneGenerationOnly == LifecycleSpec => []OneGeneration
  <1>1. LifeInv => OneGeneration
    BY DEF LifeInv, OneGeneration
  <1> QED  BY <1>1, LifeInvariant, PTL

-----------------------------------------------------------------------------
(* A step that ends the probing for a reload was checked, or asked for. *)
LEMMA ReloadIsMeant ==
  ASSUME LifeInv, [LifecycleNext]_lifecycleVars, Probing, ~Probing', outcome' = "reload", ~Ended'
  PROVE  \/ source \notin {"invalid", "unreachable", "unauthorized"}
         \/ role = "agent" /\ "HUP" \in pending
  <1> USE DEF Probing, Ended, sigs
  <1>1. CASE Check
    BY <1>1, MasterSource DEF Check, Return, LifeInv
  <1>2. CASE Hup
    BY <1>2 DEF Hup, Return
  <1>3. CASE Refresh
    BY <1>3, LifecycleAssumption DEF Refresh, RefreshTo
  <1> QED
    BY <1>1, <1>2, <1>3 DEF LifecycleNext, lifecycleVars, Load, LoadFails, Build, BindFails, RoundStarts, RoundEnds,
       OldRoundEnds, ListenTerm, ListenHup, ListenInt, Listen, Quit, Return, Shutdown, Edit, Heard, Kills

(* A daemon that was reloaded fails where it may. *)
LEMMA FailureIsExplained ==
  ASSUME LifeInv, [LifecycleNext]_lifecycleVars, role = "master", outcome = "reload", pc # "failed", pc' = "failed"
  PROVE  ~vouched \/ config = "unbuildable" \/ faults' > faults
  <1> USE DEF sigs
  <1>1. CASE LoadFails
    BY <1>1, MasterSource DEF LoadFails, LifeInv
  <1>2. CASE Build
    BY <1>2 DEF Build
  <1>3. CASE BindFails
    BY <1>3, BoundsNat DEF BindFails, LifeInv, LifecycleTypeOK
  <1> QED
    BY <1>1, <1>2, <1>3 DEF LifecycleNext, lifecycleVars, Load, RoundStarts, RoundEnds, OldRoundEnds, ListenTerm,
       ListenHup, ListenInt, Listen, Quit, Hup, Check, Return, Shutdown, AfterStop, Refresh, RefreshTo,
       Edit, Heard, Kills

(* No reload, refresh or failed load ends probing that could have gone on,  *)
(* but in the ways ReloadsAreSafe lists.                                   *)
THEOREM ReloadsSafe == LifecycleSpec => ReloadsAreSafe
  <1>1. LifeInv /\ [LifecycleNext]_lifecycleVars =>
          [ /\ (Probing /\ ~Probing' /\ outcome' = "reload" /\ ~Ended') =>
                 \/ source \notin {"invalid", "unreachable", "unauthorized"}
                 \/ role = "agent" /\ "HUP" \in pending
            /\ (role = "master" /\ outcome = "reload" /\ pc # "failed" /\ pc' = "failed") =>
                 ~vouched \/ config = "unbuildable" \/ faults' > faults ]_lifecycleVars
    BY ReloadIsMeant, FailureIsExplained
  <1> QED  BY <1>1, LifeInvariant, PTL DEF LifecycleSpec, ReloadsAreSafe
=============================================================================
