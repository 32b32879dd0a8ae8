-------------------------- MODULE AgentPushProofs --------------------------
(***************************************************************************)
(* Proofs of AgentPush, for every capacity, limit and number of reloads:    *)
(* no round vanishes on its way from the agent to the master's store, and   *)
(* the retries of one push loop never make the store skip a round.  The     *)
(* inductive invariant says what a push loop and the requests on their way  *)
(* hold: rounds in the order they were made, and of the rounds that are not *)
(* settled yet all that are older than the newest they hold.               *)
(***************************************************************************)
EXTENDS AgentPush, SequenceTheorems, TLAPS

Ascending(s) == \A i, j \in DOMAIN s : i < j => s[i] < s[j]

LoopType == [st : {"none", "run", "wait", "last"}, chan : Seq(Rounds), buffer : Seq(Rounds),
             req : Seq(Rounds), closed : BOOLEAN]

Bounded(s) == Ascending(s) /\ Len(s) <= MaxBuffer

(* What holds of one push loop when e rounds have been made. *)
LoopOk(l, e) ==
  /\ Bounded(l.buffer) /\ Bounded(l.req) /\ Ascending(l.chan) /\ Len(l.chan) <= ChanCap
  /\ \A x \in ToSet(l.buffer), y \in ToSet(l.chan) : x < y
  /\ ToSet(l.chan) \subseteq 1..e /\ ToSet(l.buffer) \subseteq 1..e /\ ToSet(l.req) \subseteq 1..e
  /\ l.st \in {"wait", "last"} => l.req = l.buffer
  /\ l.st = "last" => l.closed /\ l.chan = <<>>

PushInv ==
  /\ emitted \in 0..MaxRounds /\ started \in Loops /\ cur \in 0..started
  /\ cur = 0 => started < MaxLoops
  /\ loop \in [Loops -> LoopType] /\ \A g \in Loops : LoopOk(loop[g], emitted)
  /\ \A g \in Loops : (g > started => loop[g] = NoLoop) /\ (loop[g].closed => g # cur)
  /\ \A b \in late : b \in Seq(Rounds) /\ Bounded(b) /\ ToSet(b) \subseteq 1..emitted
  /\ stored \subseteq 1..emitted /\ up \in BOOLEAN /\ assigned \in BOOLEAN

(* The rounds the master has not seen and nobody has given up. *)
Unsettled == (1..emitted) \ (stored \cup Lost)

(* The requests that may still reach the master. *)
Flying(b) == b \in late \/ \E g \in Loops : b = loop[g].req

(* The rounds the store skipped as too old. *)
Skipped == LostBy("out of order")

(* While there is one push loop: the store has nothing newer than a round   *)
(* that is not settled, and a request leaves none of those out.            *)
RetryInv ==
  started = 1 =>
    /\ Skipped = {}
    /\ \A n \in Unsettled, m \in stored : m < n
    /\ \A b : Flying(b) => \A n \in Unsettled, m \in ToSet(b) : n < m => n \in ToSet(b)

-----------------------------------------------------------------------------
(* Queues of rounds *)

LEMMA RoundsNat == Rounds \subseteq Nat /\ Loops \subseteq Nat /\ MaxRounds \in Nat
                   /\ ChanCap \in Nat \ {0} /\ MaxBuffer \in Nat \ {0} /\ MaxLoops \in Nat \ {0}
  BY AgentAssumption DEF Rounds, Loops

LEMMA EmptyQueue == <<>> \in Seq(Rounds) /\ ToSet(<<>>) = {} /\ Len(<<>>) = 0 /\ Ascending(<<>>)
  BY DEF ToSet, Ascending

LEMMA InQueue ==
  ASSUME NEW s \in Seq(Rounds), NEW x
  PROVE  x \in ToSet(s) <=> \E i \in 1..Len(s) : s[i] = x
  BY DEF ToSet

LEMMA AppendFacts ==
  ASSUME NEW s \in Seq(Rounds), NEW e \in Rounds
  PROVE  LET t == Append(s, e) IN
         /\ t \in Seq(Rounds) /\ Len(t) = Len(s) + 1 /\ ToSet(t) = ToSet(s) \cup {e}
         /\ (Ascending(s) /\ \A x \in ToSet(s) : x < e) => Ascending(t)
  <1> DEFINE t == Append(s, e)
  <1>1. /\ t \in Seq(Rounds) /\ Len(t) = Len(s) + 1 /\ Len(s) \in Nat
        /\ \A i \in 1..Len(s) : t[i] = s[i]
        /\ t[Len(s) + 1] = e
    BY AppendProperties
  <1> HIDE DEF t
  <1>2. \A x : x \in ToSet(t) <=> x \in ToSet(s) \cup {e}
    <2> TAKE x
    <2>1. x \in ToSet(t) <=> \E i \in 1..(Len(s) + 1) : t[i] = x
      BY <1>1, InQueue
    <2>2. x \in ToSet(s) <=> \E i \in 1..Len(s) : s[i] = x
      BY InQueue
    <2> QED  BY <1>1, <2>1, <2>2
  <1>3. ASSUME Ascending(s), \A x \in ToSet(s) : x < e PROVE Ascending(t)
    <2> SUFFICES ASSUME NEW i \in DOMAIN t, NEW j \in DOMAIN t, i < j PROVE t[i] < t[j]
      BY DEF Ascending
    <2>1. i \in 1..Len(s) /\ j \in 1..(Len(s) + 1)
      BY <1>1
    <2>2. CASE j = Len(s) + 1
      BY <1>1, <1>3, <2>1, <2>2, InQueue
    <2>3. CASE j \in 1..Len(s)
      BY <1>1, <1>3, <2>1, <2>3 DEF Ascending
    <2> QED  BY <2>1, <2>2, <2>3
  <1> QED  BY <1>1, <1>2, <1>3 DEF t

LEMMA TailFacts ==
  ASSUME NEW s \in Seq(Rounds), s # <<>>
  PROVE  LET h == Head(s)
             t == Tail(s)
         IN
         /\ h \in Rounds /\ t \in Seq(Rounds) /\ Len(t) = Len(s) - 1 /\ ToSet(s) = {h} \cup ToSet(t)
         /\ Ascending(s) => Ascending(t) /\ \A x \in ToSet(t) : h < x
  <1> DEFINE h == Head(s)
             t == Tail(s)
  <1>1. /\ h \in Rounds /\ t \in Seq(Rounds) /\ Len(t) = Len(s) - 1 /\ Len(s) \in Nat \ {0}
        /\ \A i \in 1..Len(t) : t[i] = s[i + 1]
        /\ h = s[1] /\ Len(t) \in Nat
    BY HeadTailProperties, EmptySeq
  <1> HIDE DEF h, t
  <1>2. \A x : x \in ToSet(s) <=> x \in {h} \cup ToSet(t)
    <2> TAKE x
    <2>1. x \in ToSet(t) <=> \E i \in 1..Len(t) : s[i + 1] = x
      BY <1>1, InQueue
    <2>2. x \in ToSet(s) <=> \E i \in 1..Len(s) : s[i] = x
      BY InQueue
    <2>3. ASSUME NEW i \in 1..Len(s) PROVE i = 1 \/ (i - 1 \in 1..Len(t) /\ s[i] = s[(i - 1) + 1])
      BY <1>1
    <2>4. ASSUME NEW i \in 1..Len(t) PROVE i + 1 \in 1..Len(s)
      BY <1>1
    <2>5. 1 \in 1..Len(s)
      BY <1>1
    <2> QED  BY <1>1, <2>1, <2>2, <2>3, <2>4, <2>5
  <1>3. ASSUME Ascending(s) PROVE Ascending(t) /\ \A x \in ToSet(t) : h < x
    <2>1. DOMAIN s = 1..Len(s) /\ DOMAIN t = 1..Len(t)
      BY <1>1
    <2>2. ASSUME NEW i \in 1..Len(t), NEW j \in 1..Len(t), i < j PROVE t[i] < t[j]
      <3>1. i + 1 \in DOMAIN s /\ j + 1 \in DOMAIN s /\ i + 1 < j + 1
        BY <1>1, <2>1, <2>2
      <3> QED  BY <1>1, <1>3, <3>1 DEF Ascending
    <2>3. ASSUME NEW i \in 1..Len(t) PROVE h < t[i]
      <3>1. i + 1 \in DOMAIN s /\ 1 \in DOMAIN s /\ 1 < i + 1
        BY <1>1, <2>1
      <3> QED  BY <1>1, <1>3, <3>1 DEF Ascending
    <2>4. \A x \in ToSet(t) : h < x
      BY <1>1, <2>3, InQueue
    <2> QED  BY <2>1, <2>2, <2>4 DEF Ascending
  <1> QED  BY <1>1, <1>2, <1>3 DEF h, t

(* A queue cut in two. *)
LEMMA CutFacts ==
  ASSUME NEW s \in Seq(Rounds), NEW n \in 0..Len(s)
  PROVE  LET a == SubSeq(s, 1, n)
             b == SubSeq(s, n + 1, Len(s))
         IN
         /\ a \in Seq(Rounds) /\ b \in Seq(Rounds) /\ Len(b) = Len(s) - n
         /\ ToSet(s) = ToSet(a) \cup ToSet(b)
         /\ Ascending(s) => Ascending(b) /\ \A x \in ToSet(a), y \in ToSet(b) : x < y
  <1> DEFINE a == SubSeq(s, 1, n)
             b == SubSeq(s, n + 1, Len(s))
  <1>1. Len(s) \in Nat /\ n \in Nat /\ n <= Len(s) /\ \A i \in 1..Len(s) : s[i] \in Rounds
    BY LenProperties
  <1>2. a \in Seq(Rounds) /\ Len(a) = n /\ \A i \in 1..n : a[i] = s[i]
    <2>1. \A i \in 1..n : s[i] \in Rounds
      BY <1>1
    <2>2. /\ a \in Seq(Rounds) /\ Len(a) = IF 1 <= n THEN n - 1 + 1 ELSE 0
          /\ \A i \in 1..(n - 1 + 1) : a[i] = s[1 + i - 1]
      BY <1>1, <2>1, SubSeqProperties
    <2> QED  BY <1>1, <2>2
  <1>3. b \in Seq(Rounds) /\ Len(b) = Len(s) - n /\ \A i \in 1..(Len(s) - n) : b[i] = s[n + i]
    <2>1. \A i \in (n + 1)..Len(s) : s[i] \in Rounds
      BY <1>1
    <2>2. /\ b \in Seq(Rounds) /\ Len(b) = IF n + 1 <= Len(s) THEN Len(s) - (n + 1) + 1 ELSE 0
          /\ \A i \in 1..(Len(s) - (n + 1) + 1) : b[i] = s[(n + 1) + i - 1]
      BY <1>1, <2>1, SubSeqProperties
    <2> QED  BY <1>1, <2>2
  <1> HIDE DEF a, b
  <1>4. \A x : x \in ToSet(s) <=> x \in ToSet(a) \cup ToSet(b)
    <2> TAKE x
    <2>1. x \in ToSet(a) <=> \E i \in 1..n : s[i] = x
      BY <1>2, InQueue
    <2>2. x \in ToSet(b) <=> \E i \in 1..(Len(s) - n) : s[n + i] = x
      BY <1>3, InQueue
    <2>3. x \in ToSet(s) <=> \E i \in 1..Len(s) : s[i] = x
      BY InQueue
    <2>4. ASSUME NEW i \in 1..Len(s)
          PROVE  i \in 1..n \/ (i - n \in 1..(Len(s) - n) /\ s[i] = s[n + (i - n)])
      BY <1>1
    <2>5. (\A i \in 1..n : i \in 1..Len(s)) /\ \A i \in 1..(Len(s) - n) : n + i \in 1..Len(s)
      BY <1>1
    <2> QED  BY <2>1, <2>2, <2>3, <2>4, <2>5
  <1>5. ASSUME Ascending(s) PROVE Ascending(b) /\ \A x \in ToSet(a), y \in ToSet(b) : x < y
    <2>1. DOMAIN s = 1..Len(s) /\ DOMAIN b = 1..(Len(s) - n)
      BY <1>3
    <2>2. ASSUME NEW i \in 1..(Len(s) - n), NEW j \in 1..(Len(s) - n), i < j PROVE b[i] < b[j]
      <3>1. n + i \in DOMAIN s /\ n + j \in DOMAIN s /\ n + i < n + j
        BY <1>1, <2>1, <2>2
      <3> QED  BY <1>3, <1>5, <3>1 DEF Ascending
    <2>3. ASSUME NEW i \in 1..n, NEW j \in 1..(Len(s) - n) PROVE a[i] < b[j]
      <3>1. i \in DOMAIN s /\ n + j \in DOMAIN s /\ i < n + j
        BY <1>1, <2>1
      <3> QED  BY <1>2, <1>3, <1>5, <3>1 DEF Ascending
    <2>4. \A x \in ToSet(a), y \in ToSet(b) : x < y
      BY <1>2, <1>3, <2>3, InQueue
    <2> QED  BY <2>1, <2>2, <2>4 DEF Ascending
  <1> QED  BY <1>2, <1>3, <1>4, <1>5 DEF a, b
-----------------------------------------------------------------------------
(* One push loop *)

LEMMA NoLoopOk == ASSUME NEW e PROVE NoLoop \in LoopType /\ LoopOk(NoLoop, e)
  BY EmptyQueue, RoundsNat DEF NoLoop, LoopType, LoopOk, Bounded

LEMMA LaterOk == ASSUME NEW l, NEW e \in Nat, LoopOk(l, e) PROVE LoopOk(l, e + 1)
  <1>1. 1..e \subseteq 1..(e + 1)
    OBVIOUS
  <1> QED  BY <1>1 DEF LoopOk

(* A step that changes one push loop, and is not a reload. *)
LEMMA LoopKeeps ==
  ASSUME PushInv, NEW g \in Loops, NEW l \in LoopType, LoopOk(l, emitted),
         loop' = [loop EXCEPT ![g] = l], g > started => l = NoLoop, l.closed => loop[g].closed,
         UNCHANGED <<emitted, cur, started>>,
         \A b \in late' : b \in late \/ (b \in Seq(Rounds) /\ Bounded(b) /\ ToSet(b) \subseteq 1..emitted),
         stored' \subseteq 1..emitted, up' \in BOOLEAN, assigned' \in BOOLEAN
  PROVE  PushInv'
  <1>1. loop' \in [Loops -> LoopType] /\ loop'[g] = l /\ \A h \in Loops : h # g => loop'[h] = loop[h]
    BY DEF PushInv
  <1>2. \A h \in Loops : /\ LoopOk(loop'[h], emitted) /\ (h > started => loop'[h] = NoLoop)
                         /\ (loop'[h].closed => h # cur)
    BY <1>1 DEF PushInv
  <1> QED  BY <1>1, <1>2 DEF PushInv

(* One that changes none. *)
LEMMA MasterKeeps ==
  ASSUME PushInv, UNCHANGED agent, late' \subseteq late,
         stored' \subseteq 1..emitted, up' \in BOOLEAN, assigned' \in BOOLEAN
  PROVE  PushInv'
  BY DEF PushInv, agent

LEMMA LoopAt ==
  ASSUME PushInv, NEW g \in Loops
  PROVE  /\ loop[g] \in LoopType /\ LoopOk(loop[g], emitted) /\ g \in Nat
         /\ loop[g].chan \in Seq(Rounds) /\ loop[g].buffer \in Seq(Rounds) /\ loop[g].req \in Seq(Rounds)
         /\ loop[g].closed \in BOOLEAN /\ (g > started => loop[g].st = "none")
  BY RoundsNat DEF PushInv, LoopType, NoLoop

LEMMA AnswerLoop ==
  ASSUME PushInv, NEW g \in Loops, NEW ok \in BOOLEAN, Answer(g, ok)
  PROVE  \E l \in LoopType :
           /\ LoopOk(l, emitted) /\ loop' = [loop EXCEPT ![g] = l] /\ (l.closed => loop[g].closed)
           /\ l.req = <<>>
           /\ IF loop[g].st = "last" THEN l = NoLoop
              ELSE l.chan = loop[g].chan /\ l.buffer = IF ok THEN <<>> ELSE loop[g].buffer
  <1> DEFINE m == [loop[g] EXCEPT !.st = "run", !.req = <<>>, !.buffer = IF ok THEN <<>> ELSE @]
  <1>1. CASE loop[g].st = "last"
    <2>1. loop' = [loop EXCEPT ![g] = NoLoop] /\ NoLoop.req = <<>> /\ NoLoop.closed = FALSE
      BY <1>1 DEF Answer, NoLoop
    <2> QED  BY <1>1, <2>1, NoLoopOk
  <1>2. CASE loop[g].st # "last"
    <2>1. loop' = [loop EXCEPT ![g] = m]
      <3>1. loop' = [loop EXCEPT ![g] = IF loop[g].st = "last" THEN NoLoop ELSE m]
        BY Zenon DEF Answer
      <3> HIDE DEF m
      <3> QED  BY <1>2, <3>1
    <2>2. /\ m \in LoopType /\ m.st = "run" /\ m.req = <<>> /\ m.chan = loop[g].chan
          /\ m.buffer = (IF ok THEN <<>> ELSE loop[g].buffer) /\ m.closed = loop[g].closed
      BY LoopAt, EmptyQueue DEF LoopType
    <2> HIDE DEF m
    <2>3. LoopOk(m, emitted)
      BY <2>2, LoopAt, EmptyQueue, RoundsNat DEF LoopOk, Bounded
    <2> QED  BY <1>2, <2>1, <2>2, <2>3
  <1> QED  BY <1>1, <1>2

(* The store takes rounds of the batch it is handed. *)
LEMMA StoredFrom ==
  ASSUME PushInv, NEW batch \in Seq(Rounds), ToSet(batch) \subseteq 1..emitted, Handle(batch)
  PROVE  stored' \subseteq 1..emitted
  BY DEF Handle, Newer, PushInv

LEMMA PushInit == Init => PushInv
  <1> SUFFICES ASSUME Init PROVE PushInv
    OBVIOUS
  <1> DEFINE l == [NoLoop EXCEPT !.st = "run"]
  <1>1. l \in LoopType /\ LoopOk(l, 0) /\ l.closed = FALSE
    <2>1. /\ l.st = "run" /\ l.chan = <<>> /\ l.buffer = <<>> /\ l.req = <<>> /\ l.closed = FALSE
          /\ l \in LoopType
      BY EmptyQueue DEF NoLoop, LoopType
    <2> HIDE DEF l
    <2> QED  BY <2>1, EmptyQueue, RoundsNat DEF LoopOk, Bounded
  <1>2. NoLoop \in LoopType /\ LoopOk(NoLoop, 0) /\ NoLoop.closed = FALSE
    BY NoLoopOk DEF NoLoop
  <1>3. 1 \in Loops
    BY RoundsNat DEF Loops
  <1> HIDE DEF l
  <1>4. loop = [g \in Loops |-> IF g = 1 THEN l ELSE NoLoop] /\ started = 1
    BY DEF Init, l
  <1>5. \A g \in Loops : /\ loop[g] \in LoopType /\ LoopOk(loop[g], 0) /\ loop[g].closed = FALSE
                         /\ (g > started => loop[g] = NoLoop)
    BY <1>1, <1>2, <1>4
  <1>6. loop \in [Loops -> LoopType]
    BY <1>4, <1>5
  <1> QED  BY <1>3, <1>5, <1>6, RoundsNat DEF Init, PushInv

-----------------------------------------------------------------------------
(* The steps *)

LEMMA EmitFacts ==
  ASSUME PushInv, Emit
  PROVE  /\ cur \in Loops /\ emitted + 1 \in Rounds /\ emitted \in Nat /\ emitted' = emitted + 1
         /\ emitted + 1 \in 0..MaxRounds /\ UNCHANGED <<cur, started, late, stored, up, assigned>>
  <1> DEFINE e == emitted + 1
  <1>1. cur # 0 /\ emitted < MaxRounds /\ emitted' = e /\ UNCHANGED <<cur, started, late, stored, up, assigned>>
    BY DEF Emit, master
  <1>2. emitted \in 0..MaxRounds /\ started \in Loops /\ cur \in 0..started
    BY DEF PushInv
  <1>3. started \in Nat /\ cur \in Loops
    BY <1>1, <1>2, RoundsNat DEF Loops
  <1>4. e \in Rounds /\ emitted \in Nat /\ e \in 0..MaxRounds
    BY <1>1, <1>2, RoundsNat DEF Rounds
  <1> QED  BY <1>1, <1>3, <1>4

LEMMA EmitKeeps ==
  ASSUME PushInv, Emit
  PROVE  PushInv'
  <1> DEFINE e == emitted + 1
             q == Append(loop[cur].chan, e)
             l == [loop[cur] EXCEPT !.chan = q]
  <1>1. /\ cur \in Loops /\ e \in Rounds /\ emitted \in Nat /\ emitted' = e /\ e \in 0..MaxRounds
        /\ UNCHANGED <<cur, started, late, stored, up, assigned>>
    BY EmitFacts
  <1>2. 1..emitted \subseteq 1..e
    BY <1>1
  <1>3. \A g \in Loops : LoopOk(loop[g], e)
    BY <1>1, LaterOk DEF PushInv
  <1>4. CASE UNCHANGED loop
    BY <1>1, <1>2, <1>3, <1>4 DEF PushInv
  <1>5. CASE Len(loop[cur].chan) < ChanCap /\ loop' = [loop EXCEPT ![cur].chan = Append(@, emitted + 1)]
    <2>1. \A x \in ToSet(loop[cur].chan) \cup ToSet(loop[cur].buffer) : x < e
      <3>1. ToSet(loop[cur].chan) \subseteq 1..emitted /\ ToSet(loop[cur].buffer) \subseteq 1..emitted
        BY <1>1, LoopAt DEF LoopOk
      <3>2. \A x \in 1..emitted : x < e
        BY <1>1
      <3> QED  BY <3>1, <3>2
    <2>2. /\ q \in Seq(Rounds) /\ Len(q) = Len(loop[cur].chan) + 1 /\ ToSet(q) = ToSet(loop[cur].chan) \cup {e}
          /\ Ascending(q)
      <3>1. Ascending(loop[cur].chan)
        BY <1>1, LoopAt DEF LoopOk
      <3> HIDE DEF e
      <3> QED  BY <1>1, <2>1, <3>1, LoopAt, AppendFacts
    <2> HIDE DEF q, e
    <2>3. /\ l \in LoopType /\ l.chan = q /\ l.buffer = loop[cur].buffer /\ l.req = loop[cur].req
          /\ l.st = loop[cur].st /\ l.closed = loop[cur].closed
      BY <1>1, <2>2, LoopAt DEF LoopType
    <2>4. loop' = [loop EXCEPT ![cur] = l]
      BY <1>5 DEF q, e
    <2>5. loop[cur].closed = FALSE
      BY <1>1, LoopAt DEF PushInv
    <2> HIDE DEF l
    <2>6. LoopOk(l, e)
      <3>1. Len(q) <= ChanCap
        BY <1>1, <1>5, <2>2, RoundsNat, LoopAt, LenProperties
      <3>2. ToSet(q) \subseteq 1..e
        BY <1>1, <1>3, <2>2 DEF LoopOk, e
      <3> QED  BY <1>1, <1>3, <2>1, <2>2, <2>3, <2>5, <3>1, <3>2 DEF LoopOk
    <2>7. loop' \in [Loops -> LoopType] /\ loop'[cur] = l /\ \A h \in Loops : h # cur => loop'[h] = loop[h]
      BY <1>1, <2>3, <2>4 DEF PushInv
    <2>8. cur <= started
      BY DEF PushInv
    <2>9. \A h \in Loops : /\ LoopOk(loop'[h], e) /\ (h > started => loop'[h] = NoLoop)
                           /\ (loop'[h].closed => h # cur)
      BY <1>1, <1>3, <2>3, <2>5, <2>6, <2>7, <2>8, RoundsNat DEF PushInv
    <2>10. stored \subseteq 1..e /\ \A b \in late : b \in Seq(Rounds) /\ Bounded(b) /\ ToSet(b) \subseteq 1..e
      BY <1>2 DEF PushInv, e
    <2> QED  BY <1>1, <2>7, <2>9, <2>10 DEF PushInv
  <1> QED  BY <1>4, <1>5 DEF Emit

LEMMA RecvKeeps ==
  ASSUME PushInv, NEW g \in Loops, Recv(g)
  PROVE  PushInv' /\ \E l \in LoopType :
           /\ loop' = [loop EXCEPT ![g] = l] /\ l.req = loop[g].req
           /\ \A x \in HeldBy(g) : x \in ToSet(l.chan) \/ x \in ToSet(l.buffer) \/ x \in Lost'
  <1> DEFINE c == loop[g].chan
             o == loop[g].buffer
             h == Head(c)
             t == Tail(c)
             b == Append(o, h)
             n == IF Len(b) > MaxBuffer THEN Len(b) - MaxBuffer ELSE 0
             k == SubSeq(b, n + 1, Len(b))
             a == SubSeq(b, 1, n)
             l == [loop[g] EXCEPT !.chan = t, !.buffer = k]
  <1>1. /\ loop[g].st = "run" /\ c # <<>> /\ loop' = [loop EXCEPT ![g] = l]
        /\ Drop(ToSet(a), "buffer full") /\ UNCHANGED <<emitted, cur, started, late, stored, up, assigned>>
    BY DEF Recv, master
  <1>2. /\ c \in Seq(Rounds) /\ o \in Seq(Rounds) /\ LoopOk(loop[g], emitted) /\ loop[g] \in LoopType
    BY LoopAt
  <1>3. Ascending(c) /\ Ascending(o) /\ (\A x \in ToSet(o), y \in ToSet(c) : x < y)
        /\ ToSet(c) \subseteq 1..emitted /\ ToSet(o) \subseteq 1..emitted /\ Len(c) <= ChanCap
        /\ Bounded(loop[g].req) /\ ToSet(loop[g].req) \subseteq 1..emitted
    BY <1>2 DEF LoopOk, Bounded
  <1> HIDE DEF c, o
  <1>4. /\ h \in Rounds /\ t \in Seq(Rounds) /\ Len(t) = Len(c) - 1 /\ ToSet(c) = {h} \cup ToSet(t)
        /\ Ascending(t) /\ \A x \in ToSet(t) : h < x
    BY <1>1, <1>2, <1>3, TailFacts
  <1> HIDE DEF h, t
  <1>5. /\ b \in Seq(Rounds) /\ Len(b) = Len(o) + 1 /\ ToSet(b) = ToSet(o) \cup {h} /\ Ascending(b)
        /\ Len(b) \in Nat
    BY <1>2, <1>3, <1>4, AppendFacts, LenProperties
  <1> HIDE DEF b
  <1>6. n \in 0..Len(b) /\ Len(b) - n <= MaxBuffer
    BY <1>5, RoundsNat
  <1> HIDE DEF n
  <1>7. /\ a \in Seq(Rounds) /\ k \in Seq(Rounds) /\ Len(k) = Len(b) - n
        /\ ToSet(b) = ToSet(a) \cup ToSet(k) /\ Ascending(k)
    BY <1>5, <1>6, CutFacts
  <1> HIDE DEF a, k
  <1>8. /\ l \in LoopType /\ l.chan = t /\ l.buffer = k /\ l.req = loop[g].req
        /\ l.st = "run" /\ l.closed = loop[g].closed
    BY <1>1, <1>2, <1>4, <1>7 DEF LoopType
  <1> HIDE DEF l
  <1>9. LoopOk(l, emitted)
    <2>1. Bounded(k)
      BY <1>6, <1>7 DEF Bounded
    <2>2. Len(t) <= ChanCap
      BY <1>2, <1>3, <1>4, RoundsNat, LenProperties
    <2>3. \A x \in ToSet(k), y \in ToSet(t) : x < y
      BY <1>3, <1>4, <1>5, <1>7
    <2>4. ToSet(t) \subseteq 1..emitted /\ ToSet(k) \subseteq 1..emitted
      BY <1>3, <1>4, <1>5, <1>7
    <2> QED  BY <1>3, <1>4, <1>8, <2>1, <2>2, <2>3, <2>4 DEF LoopOk
  <1>10. PushInv'
    <2>1. ~(g > started)
      BY <1>1, LoopAt
    <2>2. stored \subseteq 1..emitted /\ up \in BOOLEAN /\ assigned \in BOOLEAN
      BY DEF PushInv
    <2> QED  BY <1>1, <1>8, <1>9, <2>1, <2>2, LoopKeeps
  <1>11. \A x \in HeldBy(g) : x \in ToSet(t) \/ x \in ToSet(k) \/ x \in Lost'
    <2>1. \A x \in ToSet(a) : x \in Lost'
      <3> SUFFICES ASSUME NEW x \in ToSet(a) PROVE x \in Lost'
        OBVIOUS
      <3>1. <<x, "buffer full">> \in dropped' /\ <<x, "buffer full">>[1] = x
        BY <1>1 DEF Drop
      <3> QED  BY <3>1 DEF Lost
    <2> QED  BY <1>4, <1>5, <1>7, <2>1 DEF HeldBy, c, o
  <1> QED  BY <1>1, <1>8, <1>10, <1>11
-----------------------------------------------------------------------------
(* What becomes of the rounds *)

(* A place that gives rounds up and is not the store's record. *)
Elsewhere(how) == how # "out of order"

LEMMA DropFacts ==
  ASSUME NEW R, NEW how, Drop(R, how)
  PROVE  /\ Lost' = Lost \cup R
         /\ Elsewhere(how) => Skipped' = Skipped
  <1>1. dropped' = dropped \cup (R \X {how})
    BY DEF Drop
  <1>2. \A r \in R : <<r, how>> \in dropped' /\ <<r, how>>[1] = r /\ <<r, how>>[2] = how
    BY <1>1
  <1>3. \A d \in R \X {how} : d[1] \in R /\ d[2] = how
    OBVIOUS
  <1>4. Lost' = Lost \cup R
    <2>1. \A x \in R : x \in Lost'
      BY <1>2 DEF Lost
    <2>2. \A x \in Lost : x \in Lost'
      BY <1>1 DEF Lost
    <2>3. \A x \in Lost' : x \in Lost \/ x \in R
      BY <1>1, <1>3 DEF Lost
    <2> QED  BY <2>1, <2>2, <2>3
  <1>5. ASSUME Elsewhere(how) PROVE Skipped' = Skipped
    <2>1. \A x : x \in Skipped <=> \E d \in dropped : d[2] = "out of order" /\ x = d[1]
      BY DEF LostBy, Skipped
    <2>2. \A x : x \in Skipped' <=> \E d \in dropped' : d[2] = "out of order" /\ x = d[1]
      BY DEF LostBy, Skipped
    <2>3. \A d \in dropped' : d[2] = "out of order" => d \in dropped
      BY <1>1, <1>3, <1>5 DEF Elsewhere
    <2>4. dropped \subseteq dropped'
      BY <1>1
    <2> QED  BY <2>1, <2>2, <2>3, <2>4
  <1> QED  BY <1>4, <1>5

LEMMA NothingDropped ==
  ASSUME UNCHANGED dropped
  PROVE  Lost' = Lost /\ Skipped' = Skipped
  BY DEF Lost, LostBy, Skipped

(* The rounds of one push loop go where they may. *)
LEMMA HeldKept ==
  ASSUME PushInv, NothingVanishes, NEW g \in Loops, NEW l, loop' = [loop EXCEPT ![g] = l],
         stored \subseteq stored', Lost \subseteq Lost',
         \A x \in HeldBy(g) :
           x \in ToSet(l.chan) \/ x \in ToSet(l.buffer) \/ x \in stored' \/ x \in Lost'
  PROVE  \A n \in 1..emitted : n \in stored' \cup Held' \cup Lost'
  <1>1. loop'[g] = l /\ \A h \in Loops : h # g => loop'[h] = loop[h]
    BY DEF PushInv
  <1>2. ASSUME NEW n \in 1..emitted PROVE n \in stored' \cup Held' \cup Lost'
    <2>1. CASE n \in stored \/ n \in Lost
      BY <2>1
    <2>2. CASE n \in Held
      <3>1. PICK h \in Loops : n \in HeldBy(h)
        BY <2>2 DEF Held
      <3>2. CASE h = g
        <4>1. n \in stored' \/ n \in Lost' \/ n \in HeldBy(g)'
          BY <1>1, <3>1, <3>2 DEF HeldBy
        <4> QED  BY <4>1 DEF Held
      <3>3. CASE h # g
        <4>1. n \in HeldBy(h)'
          BY <1>1, <3>1, <3>3 DEF HeldBy
        <4> QED  BY <4>1 DEF Held
      <3> QED  BY <3>2, <3>3
    <2> QED  BY <2>1, <2>2 DEF NothingVanishes
  <1> QED  BY <1>2

LEMMA AllHeld ==
  ASSUME NothingVanishes, UNCHANGED <<emitted, loop>>, stored \subseteq stored', Lost \subseteq Lost'
  PROVE  NothingVanishes'
  <1>1. Held' = Held
    BY DEF Held, HeldBy
  <1> QED  BY <1>1 DEF NothingVanishes

(* No request is on its way that was not before. *)
NothingSent == \A b : Flying(b)' => Flying(b) \/ ToSet(b) = {}

(* The first rounds of a request, and what the store takes of them. *)
StartOf(part, batch) ==
  /\ part \subseteq ToSet(batch) /\ ToSet(batch) \subseteq Nat
  /\ \A x \in ToSet(batch), y \in part : x < y => x \in part
Takes(part) == stored' = stored \cup {n \in part : \A m \in stored : n > m}

(* A step that stores nothing and sends nothing new. *)
LEMMA RetryStays ==
  ASSUME RetryInv, UNCHANGED <<emitted, stored>>, started' = 1 => started = 1,
         Lost \subseteq Lost', Skipped' = Skipped,
         NothingSent
  PROVE  RetryInv'
  <1> SUFFICES ASSUME started' = 1
               PROVE  /\ Skipped' = {}
                      /\ \A n \in Unsettled', m \in stored' : m < n
                      /\ \A b : Flying(b)' => \A n \in Unsettled', m \in ToSet(b) : n < m => n \in ToSet(b)
    BY DEF RetryInv
  <1>1. Unsettled' \subseteq Unsettled
    BY DEF Unsettled
  <1> QED  BY <1>1 DEF RetryInv, NothingSent

LEMMA NatOrder ==
  /\ \A e \in Nat : \A n \in 1..e : n \in Nat
  /\ \A m \in Nat, n \in Nat : m = n \/ m < n \/ n < m
  OBVIOUS

(* The store takes, of a request that may reach it, the rounds up to some   *)
(* place that are newer than all it has.                                   *)
LEMMA RetryStores ==
  ASSUME RetryInv, UNCHANGED <<emitted, started>>, emitted \in Nat,
         NEW batch, Flying(batch), NEW part, StartOf(part, batch), stored \subseteq Nat, Takes(part),
         Lost \subseteq Lost', started = 1 => Skipped' = {},
         NothingSent
  PROVE  RetryInv'
  <1> SUFFICES ASSUME started = 1
               PROVE  /\ Skipped' = {}
                      /\ \A n \in Unsettled', m \in stored' : m < n
                      /\ \A b : Flying(b)' => \A n \in Unsettled', m \in ToSet(b) : n < m => n \in ToSet(b)
    BY DEF RetryInv
  <1>1. Unsettled' \subseteq Unsettled /\ \A n \in Unsettled' : n \notin stored' /\ n \in Nat
    <2>1. stored \subseteq stored'
      BY DEF Takes
    <2>2. \A n \in 1..emitted : n \in Nat
      BY NatOrder, Zenon
    <2> QED  BY <2>1, <2>2 DEF Unsettled
  <1>2. ASSUME NEW n \in Unsettled', NEW m \in stored' PROVE m < n
    <2>1. n \in Unsettled /\ n \notin stored' /\ n \in Nat
      BY <1>1
    <2>2. CASE m \in stored
      BY <2>1, <2>2 DEF RetryInv
    <2>3. CASE m \in part
      <3>1. m \in ToSet(batch) /\ m \in Nat /\ m # n
        BY <2>1, <2>3 DEF StartOf
      <3>2. ASSUME n < m PROVE FALSE
        <4>1. n \in ToSet(batch)
          <5>1. \A b : Flying(b) => \A k \in Unsettled, j \in ToSet(b) : k < j => k \in ToSet(b)
            BY DEF RetryInv
          <5> QED  BY <2>1, <3>1, <3>2, <5>1
        <4>2. n \in part
          BY <2>1, <2>3, <3>1, <3>2, <4>1 DEF StartOf
        <4>3. \A k \in stored : n > k
          BY <2>1 DEF RetryInv
        <4> QED  BY <2>1, <4>2, <4>3 DEF Takes
      <3> QED  BY <2>1, <3>1, <3>2, NatOrder, Zenon
    <2> QED  BY <2>2, <2>3 DEF Takes
  <1> QED  BY <1>1, <1>2 DEF RetryInv, NothingSent

(* agent_results handles a request that may reach it. *)
LEMMA HandleSettles ==
  ASSUME PushInv, RetryInv, NEW batch \in Seq(Rounds), Flying(batch), Handle(batch),
         ToSet(batch) \subseteq 1..emitted, UNCHANGED <<emitted, started>>,
         NothingSent
  PROVE  /\ RetryInv' /\ stored \subseteq stored' /\ Lost \subseteq Lost'
         /\ \A x \in ToSet(batch) : x \in stored' \/ x \in Lost'
  <1> DEFINE kept == IF assigned THEN Newer(batch) ELSE {}
             how == IF assigned THEN "out of order" ELSE "not assigned"
             rest == ToSet(batch) \ (stored \cup kept \cup Lost)
  <1>1. stored' = stored \cup kept /\ Drop(rest, how)
    BY DEF Handle
  <1>2. Lost' = Lost \cup rest
    <2> HIDE DEF rest, how
    <2> QED  BY <1>1, DropFacts
  <1>3. \A x \in ToSet(batch) : x \in Nat
    OBVIOUS
  <1>4. stored \subseteq Nat
    BY DEF PushInv
  (* While there is one push loop, the store skips nothing it does not have. *)
  <1>5. started = 1 => Skipped' = {}
    <2> SUFFICES ASSUME started = 1 PROVE Skipped' = {}
      OBVIOUS
    <2>1. Skipped = {}
      BY DEF RetryInv
    <2>2. CASE assigned
      <3>1. ASSUME NEW n \in rest PROVE FALSE
        <4>1. n \in Unsettled /\ n \notin Newer(batch) /\ n \in ToSet(batch) /\ n \in Nat
          BY <1>3, <2>2, <3>1 DEF Unsettled
        <4>2. \A m \in stored : m \in Nat /\ m < n
          BY <1>4, <4>1 DEF RetryInv
        <4> QED  BY <4>1, <4>2 DEF Newer
      <3>2. UNCHANGED dropped
        BY <1>1, <3>1 DEF Drop
      <3> QED  BY <2>1, <3>2, NothingDropped
    <2>3. CASE ~assigned
      <3>1. Elsewhere(how)
        BY <2>3 DEF Elsewhere
      <3> HIDE DEF rest, how
      <3> QED  BY <1>1, <2>1, <3>1, DropFacts
    <2> QED  BY <2>2, <2>3
  <1>6. RetryInv'
    <2> DEFINE part == IF assigned THEN ToSet(batch) ELSE {}
    <2>1. StartOf(part, batch)
      BY <1>3 DEF StartOf
    <2>2. Takes(part)
      BY <1>1 DEF Newer, Takes
    <2>3. Lost \subseteq Lost'
      BY <1>2
    <2>4. emitted \in Nat
      BY RoundsNat DEF PushInv
    <2> HIDE DEF part
    <2> QED  BY <1>4, <1>5, <2>1, <2>2, <2>3, <2>4, RetryStores
  <1> QED  BY <1>1, <1>2, <1>6
-----------------------------------------------------------------------------
(* The steps, all invariants together *)

Inv == PushInv /\ NothingVanishes /\ RetryInv

LEMMA FlyingFacts ==
  ASSUME PushInv, NEW b, Flying(b)
  PROVE  b \in Seq(Rounds) /\ ToSet(b) \subseteq 1..emitted
  <1>1. CASE b \in late
    BY <1>1 DEF PushInv
  <1>2. CASE \E g \in Loops : b = loop[g].req
    BY <1>2, LoopAt DEF LoopOk
  <1> QED  BY <1>1, <1>2 DEF Flying

LEMMA SendsNothing ==
  ASSUME PushInv, NEW g \in Loops, NEW l, loop' = [loop EXCEPT ![g] = l],
         l.req = loop[g].req \/ l.req = <<>>, late' \subseteq late \cup {loop[g].req}
  PROVE  NothingSent
  <1>1. loop'[g] = l /\ \A h \in Loops : h # g => loop'[h] = loop[h]
    BY DEF PushInv
  <1> SUFFICES ASSUME NEW b, Flying(b)' PROVE Flying(b) \/ ToSet(b) = {}
    BY DEF NothingSent
  <1>2. CASE b \in late'
    BY <1>2 DEF Flying
  <1>3. CASE \E h \in Loops : b = loop'[h].req
    <2>1. PICK h \in Loops : b = loop'[h].req
      BY <1>3
    <2>2. CASE h # g
      BY <1>1, <2>1, <2>2 DEF Flying
    <2>3. CASE h = g
      BY <1>1, <2>1, <2>3, EmptyQueue DEF Flying
    <2> QED  BY <2>2, <2>3
  <1> QED  BY <1>2, <1>3 DEF Flying

LEMMA LoopsSendNothing ==
  ASSUME UNCHANGED loop, late' \subseteq late
  PROVE  NothingSent
  BY DEF NothingSent, Flying

(* try_push has failed: only the last try of a closed loop gives rounds up. *)
LEMMA FailedPush ==
  ASSUME PushInv, NothingVanishes, NEW g \in Loops, Waiting(g), Answer(g, FALSE), DropIfLast(g),
         UNCHANGED <<emitted, cur, started>>, late' \subseteq late \cup {loop[g].req},
         stored \subseteq stored', stored' \subseteq 1..emitted, up' \in BOOLEAN, assigned' \in BOOLEAN
  PROVE  /\ PushInv' /\ NothingVanishes' /\ NothingSent
         /\ Lost \subseteq Lost' /\ Skipped' = Skipped
  <1>1. PICK l \in LoopType :
           /\ LoopOk(l, emitted) /\ loop' = [loop EXCEPT ![g] = l] /\ (l.closed => loop[g].closed)
           /\ l.req = <<>>
           /\ IF loop[g].st = "last" THEN l = NoLoop
              ELSE l.chan = loop[g].chan /\ l.buffer = loop[g].buffer
    BY AnswerLoop
  <1>2. ~(g > started) /\ loop[g].req = loop[g].buffer
    BY LoopAt DEF Waiting, LoopOk
  <1>3. Lost \subseteq Lost' /\ Skipped' = Skipped
    <2>1. CASE Drop(ToSet(loop[g].req) \ stored, "last push")
      <3> DEFINE R == ToSet(loop[g].req) \ stored
      <3> HIDE DEF R
      <3>1. Drop(R, "last push") /\ Elsewhere("last push")
        BY <2>1 DEF R, Elsewhere
      <3> QED  BY <3>1, DropFacts
    <2>2. CASE UNCHANGED dropped
      BY <2>2, NothingDropped
    <2> QED  BY <2>1, <2>2 DEF DropIfLast
  <1>4. PushInv'
    <2>1. \A b \in late' : b \in late \/ (b \in Seq(Rounds) /\ Bounded(b) /\ ToSet(b) \subseteq 1..emitted)
      BY LoopAt DEF LoopOk
    <2> QED  BY <1>1, <1>2, <2>1, LoopKeeps
  <1>5. NothingVanishes'
    <2>1. \A x \in HeldBy(g) :
            x \in ToSet(l.chan) \/ x \in ToSet(l.buffer) \/ x \in stored' \/ x \in Lost'
      <3>1. CASE loop[g].st = "last"
        <4>1. Drop(ToSet(loop[g].req) \ stored, "last push")
          BY <3>1 DEF DropIfLast
        <4>2. Lost' = Lost \cup (ToSet(loop[g].req) \ stored)
          BY <4>1, DropFacts
        <4>3. HeldBy(g) = ToSet(loop[g].req)
          BY <1>2, <3>1, LoopAt, EmptyQueue DEF HeldBy, LoopOk
        <4> QED  BY <4>2, <4>3
      <3>2. CASE loop[g].st # "last"
        BY <1>1, <3>2 DEF HeldBy
      <3> QED  BY <3>1, <3>2
    <2>2. \A n \in 1..emitted : n \in stored' \cup Held' \cup Lost'
      BY <1>1, <1>3, <2>1, HeldKept
    <2> QED  BY <2>2 DEF NothingVanishes
  <1>6. NothingSent
    BY <1>1, SendsNothing
  <1> QED  BY <1>3, <1>4, <1>5, <1>6

LEMMA EmitInv ==
  ASSUME Inv, Emit
  PROVE  Inv'
  <1> DEFINE e == emitted + 1
  <1> USE DEF Inv
  <1>1. PushInv'
    BY EmitKeeps
  <1>2. /\ cur \in Loops /\ emitted \in Nat /\ emitted' = e /\ UNCHANGED <<cur, started, late, stored>>
    BY EmitFacts
  <1>3. \A n \in 1..e : n \in 1..emitted \/ n = e
    BY <1>2
  <1>4. \A g \in Loops : loop'[g].req = loop[g].req
    <2>1. CASE UNCHANGED loop
      BY <2>1
    <2>2. CASE loop' = [loop EXCEPT ![cur].chan = Append(@, emitted + 1)]
      BY <1>2, <2>2, LoopAt DEF PushInv, LoopType
    <2> QED  BY <2>1, <2>2 DEF Emit
  <1>5. /\ Lost \subseteq Lost' /\ Skipped' = Skipped
        /\ \A n \in 1..e : n \in stored' \cup Held' \cup Lost'
    <2>1. CASE UNCHANGED loop /\ Drop({e}, "channel full")
      <3>1. Lost' = Lost \cup {e} /\ Skipped' = Skipped
        <4> DEFINE R == {e}
        <4> HIDE DEF R
        <4>1. Drop(R, "channel full") /\ Elsewhere("channel full")
          BY <2>1 DEF R, Elsewhere
        <4> QED  BY <4>1, DropFacts DEF R
      <3>2. Held' = Held
        BY <2>1 DEF Held, HeldBy
      <3> QED  BY <1>2, <1>3, <3>1, <3>2 DEF NothingVanishes
    <2>2. CASE /\ Len(loop[cur].chan) < ChanCap /\ loop' = [loop EXCEPT ![cur].chan = Append(@, emitted + 1)]
               /\ UNCHANGED dropped
      <3> DEFINE q == Append(loop[cur].chan, e)
                 l == [loop[cur] EXCEPT !.chan = q]
      <3>1. Lost' = Lost /\ Skipped' = Skipped
        BY <2>2, NothingDropped
      <3>2. e \in Rounds
        BY EmitFacts
      <3>3. ToSet(q) = ToSet(loop[cur].chan) \cup {e}
        <4> HIDE DEF e
        <4> QED  BY <1>2, <3>2, LoopAt, AppendFacts
      <3>4. loop' = [loop EXCEPT ![cur] = l] /\ l.chan = q /\ l.buffer = loop[cur].buffer
        BY <1>2, <2>2, LoopAt DEF LoopType
      <3> HIDE DEF q, l
      <3>5. \A n \in 1..emitted : n \in stored' \cup Held' \cup Lost'
        BY <1>2, <3>1, <3>3, <3>4, HeldKept DEF HeldBy
      <3>6. e \in Held'
        <4>1. loop'[cur] = l
          BY <1>2, <3>4 DEF PushInv
        <4>2. e \in HeldBy(cur)'
          BY <1>2, <3>3, <3>4, <4>1 DEF HeldBy
        <4>3. \A g \in Loops : g = cur => e \in ToSet(loop'[g].chan)
          BY <3>3, <3>4, <4>1
        <4> QED  BY <1>2, <4>3 DEF Held, HeldBy
      <3> HIDE DEF e
      <3> QED  BY <1>3, <3>1, <3>5, <3>6
    <2> QED  BY <2>1, <2>2 DEF Emit
  <1>6. RetryInv'
    <2> SUFFICES ASSUME started = 1
                 PROVE  /\ Skipped' = {}
                        /\ \A n \in Unsettled', m \in stored' : m < n
                        /\ \A b : Flying(b)' => \A n \in Unsettled', m \in ToSet(b) : n < m => n \in ToSet(b)
      BY <1>2 DEF RetryInv
    <2>1. \A n \in Unsettled' : n \in Unsettled \/ n = e
      BY <1>2, <1>3, <1>5 DEF Unsettled
    <2>2. \A m \in stored : m < e
      BY <1>2 DEF PushInv
    <2>3. \A b : Flying(b)' => Flying(b)
      BY <1>2, <1>4 DEF Flying
    <2>4. \A b : Flying(b) => \A m \in ToSet(b) : ~(e < m)
      <3>1. \A m \in 1..emitted : ~(e < m)
        BY <1>2
      <3> QED  BY <3>1, FlyingFacts
    <2> HIDE DEF e
    <2> QED  BY <1>2, <1>5, <2>1, <2>2, <2>3, <2>4 DEF RetryInv
  <1> QED  BY <1>1, <1>2, <1>5, <1>6 DEF NothingVanishes

LEMMA RecvInv ==
  ASSUME Inv, NEW g \in Loops, Recv(g)
  PROVE  Inv'
  <1> USE DEF Inv
  <1>1. PICK l \in LoopType :
           /\ loop' = [loop EXCEPT ![g] = l] /\ l.req = loop[g].req
           /\ \A x \in HeldBy(g) : x \in ToSet(l.chan) \/ x \in ToSet(l.buffer) \/ x \in Lost'
    BY RecvKeeps
  <1>2. PushInv'
    BY RecvKeeps
  <1>3. UNCHANGED <<emitted, started, late, stored>> /\ \E R : Drop(R, "buffer full")
    BY DEF Recv, master
  <1>4. Lost \subseteq Lost' /\ Skipped' = Skipped
    <2>1. PICK R : Drop(R, "buffer full")
      BY <1>3
    <2>2. Elsewhere("buffer full")
      BY DEF Elsewhere
    <2> QED  BY <2>1, <2>2, DropFacts
  <1>5. \A n \in 1..emitted : n \in stored' \cup Held' \cup Lost'
    BY <1>1, <1>3, <1>4, HeldKept
  <1>6. NothingSent
    BY <1>1, <1>3, SendsNothing
  <1>7. RetryInv'
    BY <1>3, <1>4, <1>6, RetryStays
  <1> QED  BY <1>2, <1>3, <1>5, <1>7 DEF NothingVanishes

(* A request is the whole buffer: with one push loop, every round that is   *)
(* not settled is in the buffer or, newer, in the channel.                 *)
LEMMA PostInv ==
  ASSUME Inv, NEW g \in Loops, NEW st \in {"wait", "last"}, Post(g, st),
         st = "last" => Drained(g)
  PROVE  Inv'
  <1> USE DEF Inv
  <1> DEFINE b == loop[g].buffer
             l == [loop[g] EXCEPT !.st = st, !.req = b]
  <1>1. /\ loop[g].st = "run" /\ loop' = [loop EXCEPT ![g] = l]
        /\ UNCHANGED <<emitted, cur, started, late, up, assigned, stored, dropped>>
    BY DEF Post, master
  <1>2. b \in Seq(Rounds) /\ LoopOk(loop[g], emitted) /\ ~(g > started)
    BY <1>1, LoopAt
  <1>3. /\ l \in LoopType /\ l.st = st /\ l.req = b /\ l.buffer = b /\ l.chan = loop[g].chan
        /\ l.closed = loop[g].closed
    BY LoopAt DEF LoopType
  <1> HIDE DEF l, b
  <1>4. LoopOk(l, emitted)
    BY <1>2, <1>3 DEF LoopOk, Drained, b
  <1>5. PushInv'
    BY <1>1, <1>2, <1>3, <1>4, LoopKeeps DEF PushInv
  <1>6. Lost' = Lost /\ Skipped' = Skipped
    BY <1>1, NothingDropped
  <1>7. \A n \in 1..emitted : n \in stored' \cup Held' \cup Lost'
    BY <1>1, <1>3, <1>6, HeldKept DEF HeldBy, b
  <1>8. RetryInv'
    <2> SUFFICES ASSUME started = 1
                 PROVE  /\ Skipped' = {}
                        /\ \A n \in Unsettled', m \in stored' : m < n
                        /\ \A r : Flying(r)' => \A n \in Unsettled', m \in ToSet(r) : n < m => n \in ToSet(r)
      BY <1>1 DEF RetryInv
    <2>1. Unsettled' = Unsettled /\ stored' = stored
      BY <1>1, <1>6 DEF Unsettled
    <2>2. ASSUME NEW r, Flying(r)' PROVE Flying(r) \/ r = b
      <3>1. \A h \in Loops : loop'[h] = IF h = g THEN l ELSE loop[h]
        BY <1>1 DEF PushInv
      <3> QED  BY <1>1, <1>3, <2>2, <3>1 DEF Flying
    <2>3. ASSUME NEW n \in Unsettled, NEW m \in ToSet(b), n < m PROVE n \in ToSet(b)
      <3>1. n \in 1..emitted /\ n \in Held
        BY DEF Unsettled, NothingVanishes
      <3>2. PICK h \in Loops : n \in HeldBy(h)
        BY <3>1 DEF Held
      <3>3. h = g
        <4>1. ~(h > started)
          BY <3>2, EmptyQueue DEF PushInv, HeldBy, NoLoop
        <4>2. h \in Nat /\ g \in Nat /\ h >= 1 /\ g >= 1
          BY RoundsNat DEF Loops
        <4> QED  BY <1>2, <4>1, <4>2
      <3>4. ASSUME n \in ToSet(loop[g].chan) PROVE FALSE
        <4>1. m < n
          BY <1>2, <3>4 DEF LoopOk, b
        <4>2. m \in Nat /\ n \in Nat
          BY <1>2, <3>1, RoundsNat, InQueue, LenProperties DEF LoopOk, b
        <4> QED  BY <2>3, <4>1, <4>2
      <3> QED  BY <3>2, <3>3, <3>4 DEF HeldBy, b
    <2> QED  BY <1>6, <2>1, <2>2, <2>3 DEF RetryInv
  <1> QED  BY <1>1, <1>5, <1>7, <1>8 DEF NothingVanishes
LEMMA FinishInv ==
  ASSUME Inv, NEW g \in Loops, Finish(g)
  PROVE  Inv'
  <1> USE DEF Inv
  <1>1. /\ loop[g].chan = <<>> /\ loop[g].buffer = <<>> /\ loop' = [loop EXCEPT ![g] = NoLoop]
        /\ UNCHANGED <<emitted, cur, started, late, up, assigned, stored, dropped>>
    BY DEF Finish, Drained, master
  <1>2. NoLoop.closed = FALSE /\ NoLoop.req = <<>>
    BY DEF NoLoop
  <1>3. PushInv'
    BY <1>1, <1>2, NoLoopOk, LoopKeeps DEF PushInv
  <1>4. Lost' = Lost /\ Skipped' = Skipped
    BY <1>1, NothingDropped
  <1>5. \A n \in 1..emitted : n \in stored' \cup Held' \cup Lost'
    <2>1. HeldBy(g) = {}
      BY <1>1, EmptyQueue DEF HeldBy
    <2> QED  BY <1>1, <1>4, <2>1, HeldKept
  <1>6. RetryInv'
    <2>1. NothingSent
      BY <1>1, <1>2, SendsNothing
    <2> QED  BY <1>1, <1>4, <2>1, RetryStays
  <1> QED  BY <1>1, <1>3, <1>5, <1>6 DEF NothingVanishes

LEMMA AcceptInv ==
  ASSUME Inv, NEW g \in Loops, Accept(g)
  PROVE  Inv'
  <1> USE DEF Inv
  <1> DEFINE b == loop[g].req
  <1>1. /\ Waiting(g) /\ Handle(b) /\ Answer(g, TRUE)
        /\ UNCHANGED <<emitted, cur, started, late, up, assigned>>
    BY DEF Accept
  <1>2. PICK l \in LoopType :
           /\ LoopOk(l, emitted) /\ loop' = [loop EXCEPT ![g] = l] /\ (l.closed => loop[g].closed)
           /\ l.req = <<>>
           /\ IF loop[g].st = "last" THEN l = NoLoop
              ELSE l.chan = loop[g].chan /\ l.buffer = <<>>
    BY <1>1, AnswerLoop
  <1>3. /\ ~(g > started) /\ b = loop[g].buffer /\ b \in Seq(Rounds) /\ Flying(b) /\ ToSet(b) \subseteq 1..emitted
        /\ loop[g].st = "last" => loop[g].chan = <<>>
    BY <1>1, LoopAt DEF Waiting, LoopOk, Flying
  <1>4. NothingSent
    BY <1>1, <1>2, SendsNothing
  <1> HIDE DEF b
  <1>5. /\ RetryInv' /\ stored \subseteq stored' /\ Lost \subseteq Lost'
        /\ \A x \in ToSet(b) : x \in stored' \/ x \in Lost'
    BY <1>1, <1>3, <1>4, HandleSettles
  <1>6. PushInv'
    <2>1. stored' \subseteq 1..emitted
      BY <1>1, <1>3, StoredFrom
    <2>2. up' \in BOOLEAN /\ assigned' \in BOOLEAN
      BY <1>1 DEF PushInv
    <2> QED  BY <1>1, <1>2, <1>3, <2>1, <2>2, LoopKeeps
  <1>7. \A n \in 1..emitted : n \in stored' \cup Held' \cup Lost'
    <2>1. \A x \in HeldBy(g) : x \in ToSet(l.chan) \/ x \in ToSet(l.buffer) \/ x \in stored' \/ x \in Lost'
      <3>1. \A x \in HeldBy(g) : x \in ToSet(loop[g].chan) \/ x \in ToSet(b)
        BY <1>3 DEF HeldBy
      <3>2. CASE loop[g].st = "last"
        BY <1>3, <1>5, <3>1, <3>2, EmptyQueue
      <3>3. CASE loop[g].st # "last"
        BY <1>2, <1>5, <3>1, <3>3
      <3> QED  BY <3>2, <3>3
    <2> QED  BY <1>2, <1>5, <2>1, HeldKept
  <1> QED  BY <1>1, <1>5, <1>6, <1>7 DEF NothingVanishes

LEMMA RefuseInv ==
  ASSUME Inv, NEW g \in Loops, Refuse(g) \/ GiveUp(g)
  PROVE  Inv'
  <1> USE DEF Inv
  <1>1. /\ Waiting(g) /\ Answer(g, FALSE) /\ DropIfLast(g) /\ late' \subseteq late \cup {loop[g].req}
        /\ UNCHANGED <<emitted, cur, started, stored, up, assigned>>
    BY DEF Refuse, GiveUp, master
  <1>2. stored' \subseteq 1..emitted /\ up' \in BOOLEAN /\ assigned' \in BOOLEAN
    BY <1>1 DEF PushInv
  <1>3. /\ PushInv' /\ NothingVanishes' /\ NothingSent /\ Lost \subseteq Lost' /\ Skipped' = Skipped
    BY <1>1, <1>2, FailedPush
  <1>4. RetryInv'
    BY <1>1, <1>3, RetryStays
  <1> QED  BY <1>3, <1>4

LEMMA DieInsideInv ==
  ASSUME Inv, NEW g \in Loops, DieInside(g)
  PROVE  Inv'
  <1> USE DEF Inv
  <1> DEFINE b == loop[g].req
  <1>1. /\ Waiting(g) /\ Answer(g, FALSE) /\ DropIfLast(g) /\ up' = FALSE
        /\ UNCHANGED <<emitted, cur, started, late, assigned>>
    BY DEF DieInside
  <1>2. PICK n \in 0..(Len(b) - 1) :
           stored' = stored \cup IF assigned THEN Newer(SubSeq(b, 1, n)) ELSE {}
    BY DEF DieInside
  <1>3. b \in Seq(Rounds) /\ Flying(b) /\ ToSet(b) \subseteq 1..emitted /\ Ascending(b) /\ Len(b) \in Nat
    BY LoopAt, LenProperties DEF LoopOk, Flying, Bounded
  <1> DEFINE a == SubSeq(b, 1, n)
             part == IF assigned THEN ToSet(a) ELSE {}
  <1> HIDE DEF b
  <1>4. /\ ToSet(b) = ToSet(a) \cup ToSet(SubSeq(b, n + 1, Len(b)))
        /\ \A x \in ToSet(a), y \in ToSet(SubSeq(b, n + 1, Len(b))) : x < y
    <2>1. n \in 0..Len(b)
      BY <1>3
    <2> QED  BY <1>3, <2>1, CutFacts
  <1>5. stored' = stored \cup IF assigned THEN Newer(a) ELSE {}
    BY <1>2
  <1>6. \A x \in ToSet(b) : x \in Nat
    BY <1>3, NatOrder, RoundsNat DEF PushInv
  <1> HIDE DEF a
  <1>7. StartOf(part, b)
    <2>1. \A x \in ToSet(b), y \in ToSet(a) : x < y => x \in ToSet(a)
      <3> SUFFICES ASSUME NEW x \in ToSet(b), NEW y \in ToSet(a), x < y, x \notin ToSet(a) PROVE FALSE
        OBVIOUS
      <3>1. y < x /\ x \in Nat /\ y \in Nat
        BY <1>4, <1>6
      <3> QED  BY <3>1
    <2> QED  BY <1>4, <1>6, <2>1 DEF StartOf
  <1>8. Takes(part)
    BY <1>5 DEF Takes, Newer
  <1>9. stored' \subseteq 1..emitted /\ stored \subseteq stored'
    BY <1>3, <1>4, <1>5 DEF PushInv, Newer
  <1>10. /\ PushInv' /\ NothingVanishes' /\ NothingSent /\ Lost \subseteq Lost' /\ Skipped' = Skipped
    <2>1. assigned' \in BOOLEAN /\ up' \in BOOLEAN
      BY <1>1 DEF PushInv
    <2> QED  BY <1>1, <1>9, <2>1, FailedPush
  <1>11. RetryInv'
    <2>1. emitted \in Nat /\ stored \subseteq Nat
      BY RoundsNat, NatOrder DEF PushInv
    <2>2. started = 1 => Skipped' = {}
      BY <1>10 DEF RetryInv
    <2> HIDE DEF part
    <2> QED  BY <1>1, <1>3, <1>7, <1>8, <1>10, <2>1, <2>2, RetryStores
  <1> QED  BY <1>10, <1>11

LEMMA HandleLateInv ==
  ASSUME Inv, NEW batch \in late, HandleLate(batch)
  PROVE  Inv'
  <1> USE DEF Inv
  <1>1. /\ Handle(batch) /\ late' \subseteq late
        /\ UNCHANGED <<emitted, cur, started, loop, up, assigned>> /\ UNCHANGED agent
    BY DEF HandleLate, agent
  <1>2. batch \in Seq(Rounds) /\ ToSet(batch) \subseteq 1..emitted /\ Flying(batch)
    BY FlyingFacts DEF Flying
  <1>3. NothingSent
    BY <1>1, LoopsSendNothing
  <1>4. RetryInv' /\ stored \subseteq stored' /\ Lost \subseteq Lost'
    BY <1>1, <1>2, <1>3, HandleSettles
  <1>5. PushInv'
    <2>1. stored' \subseteq 1..emitted
      BY <1>1, <1>2, StoredFrom
    <2>2. up' \in BOOLEAN /\ assigned' \in BOOLEAN
      BY <1>1 DEF PushInv
    <2> QED  BY <1>1, <2>1, <2>2, MasterKeeps
  <1>6. NothingVanishes'
    BY <1>1, <1>4, AllHeld
  <1> QED  BY <1>4, <1>5, <1>6

LEMMA OutageInv ==
  ASSUME Inv, GoDown \/ ComeUp
  PROVE  Inv'
  <1> USE DEF Inv
  <1>1. /\ UNCHANGED <<emitted, cur, started, loop, late, stored, dropped>> /\ UNCHANGED agent
        /\ up' \in BOOLEAN /\ assigned' \in BOOLEAN
    BY DEF GoDown, ComeUp, agent, PushInv
  <1>2. Lost' = Lost /\ Skipped' = Skipped
    BY <1>1, NothingDropped
  <1>3. PushInv'
    BY <1>1, MasterKeeps DEF PushInv
  <1>4. NothingVanishes'
    BY <1>1, <1>2, AllHeld
  <1>5. RetryInv'
    BY <1>1, <1>2, LoopsSendNothing, RetryStays
  <1> QED  BY <1>3, <1>4, <1>5

LEMMA ReloadInv ==
  ASSUME Inv, Reload
  PROVE  Inv'
  <1> USE DEF Inv
  <1> DEFINE l == [loop[cur] EXCEPT !.closed = TRUE]
  <1>1. /\ cur # 0 /\ loop' = [loop EXCEPT ![cur].closed = TRUE] /\ cur' = 0 /\ started < MaxLoops
        /\ UNCHANGED <<emitted, started, late, up, assigned, stored, dropped>>
    BY DEF Reload, master
  <1>2. cur \in Loops /\ cur <= started /\ started \in Nat /\ started \in Loops
    BY <1>1, RoundsNat DEF PushInv, Loops
  <1>3. /\ l \in LoopType /\ l.chan = loop[cur].chan /\ l.buffer = loop[cur].buffer
        /\ l.req = loop[cur].req /\ l.st = loop[cur].st /\ l.closed = TRUE
    BY <1>2, LoopAt DEF LoopType
  <1>4. loop' = [loop EXCEPT ![cur] = l]
    BY <1>1
  <1> HIDE DEF l
  <1>5. LoopOk(l, emitted)
    BY <1>2, <1>3, LoopAt DEF LoopOk
  <1>6. PushInv'
    <2>1. /\ loop' \in [Loops -> LoopType] /\ loop'[cur] = l
          /\ \A h \in Loops : h # cur => loop'[h] = loop[h]
      BY <1>2, <1>3, <1>4 DEF PushInv
    <2>2. \A h \in Loops : h # 0 /\ (h > started => h # cur)
      BY <1>2, RoundsNat DEF Loops
    <2>3. cur' \in 0..started
      BY <1>1, <1>2
    <2> HIDE DEF l
    <2>4. \A h \in Loops : /\ LoopOk(loop'[h], emitted) /\ (h > started => loop'[h] = NoLoop)
                           /\ h # cur'
      BY <1>1, <1>5, <2>1, <2>2 DEF PushInv
    <2> QED  BY <1>1, <2>1, <2>3, <2>4 DEF PushInv
  <1>7. Lost' = Lost /\ Skipped' = Skipped
    BY <1>1, NothingDropped
  <1>8. \A n \in 1..emitted : n \in stored' \cup Held' \cup Lost'
    BY <1>1, <1>2, <1>3, <1>4, <1>7, HeldKept DEF HeldBy
  <1>9. NothingSent
    BY <1>1, <1>2, <1>3, <1>4, SendsNothing
  <1>10. RetryInv'
    BY <1>1, <1>7, <1>9, RetryStays
  <1> QED  BY <1>1, <1>6, <1>8, <1>10 DEF NothingVanishes

LEMMA FetchInv ==
  ASSUME Inv, Fetch
  PROVE  Inv'
  <1> USE DEF Inv
  <1> DEFINE l == [NoLoop EXCEPT !.st = "run"]
             g == started + 1
  <1>1. /\ cur = 0 /\ cur' = g /\ started' = g /\ loop' = [loop EXCEPT ![g] = l]
        /\ UNCHANGED <<emitted, late, up, assigned, stored, dropped>>
    BY DEF Fetch, master
  <1>2. started \in Nat /\ started >= 1 /\ started <= MaxLoops
    BY RoundsNat DEF PushInv, Loops
  <1>3. /\ l \in LoopType /\ l.chan = <<>> /\ l.buffer = <<>> /\ l.req = <<>> /\ l.st = "run"
        /\ l.closed = FALSE
    BY EmptyQueue DEF LoopType, NoLoop
  <1> HIDE DEF l
  <1>4. LoopOk(l, emitted)
    BY <1>3, EmptyQueue, RoundsNat DEF LoopOk, Bounded
  <1>5. g \in Loops /\ g # started /\ loop[g] = NoLoop
    <2>1. g \in Loops
      BY <1>1, <1>2, RoundsNat DEF Loops, PushInv
    <2> QED  BY <1>2, <2>1 DEF PushInv
  <1>6. PushInv'
    <2>1. /\ loop' \in [Loops -> LoopType] /\ loop'[g] = l
          /\ \A h \in Loops : h # g => loop'[h] = loop[h]
      BY <1>1, <1>3, <1>5 DEF PushInv
    <2>2. \A h \in Loops : h > g => h > started /\ h # g
      BY <1>2, RoundsNat
    <2>3. \A h \in Loops : loop[h].closed => h # g
      BY <1>5 DEF NoLoop
    <2>4. cur' \in 0..started' /\ started' \in Loops /\ cur' # 0
      BY <1>1, <1>2, <1>5
    <2> HIDE DEF g
    <2>5. \A h \in Loops : /\ LoopOk(loop'[h], emitted) /\ (h > g => loop'[h] = NoLoop)
                           /\ (loop'[h].closed => h # g)
      BY <1>3, <1>4, <2>1, <2>2, <2>3 DEF PushInv
    <2> QED  BY <1>1, <2>1, <2>4, <2>5 DEF PushInv
  <1>7. Lost' = Lost
    BY <1>1, NothingDropped
  <1>8. \A n \in 1..emitted : n \in stored' \cup Held' \cup Lost'
    <2>1. HeldBy(g) = {}
      BY <1>5, EmptyQueue DEF HeldBy, NoLoop
    <2> QED  BY <1>1, <1>5, <1>7, <2>1, HeldKept
  <1>9. started' # 1
    BY <1>1, <1>2
  <1> QED  BY <1>1, <1>6, <1>8, <1>9 DEF NothingVanishes, RetryInv

LEMMA StopInv ==
  ASSUME Inv, Stop
  PROVE  Inv'
  <1> USE DEF Inv
  <1> DEFINE R == (UNION {HeldBy(g) : g \in Loops}) \ stored
  <1>1. /\ loop' = [g \in Loops |-> NoLoop] /\ cur' = 0 /\ started < MaxLoops /\ Drop(R, "agent stopped")
        /\ late' \subseteq late \cup {loop[g].req : g \in {h \in Loops : Waiting(h)}}
        /\ UNCHANGED <<emitted, started, up, assigned, stored>>
    BY DEF Stop, master
  <1>2. R = Held \ stored
    BY DEF Held
  <1> HIDE DEF R
  <1>3. Lost' = Lost \cup R /\ Skipped' = Skipped
    <2>1. Elsewhere("agent stopped")
      BY DEF Elsewhere
    <2> QED  BY <1>1, <2>1, DropFacts
  <1>4. \A b \in late' : Flying(b)
    BY <1>1 DEF Flying
  <1>5. NothingSent
    <2>1. \A g \in Loops : loop'[g].req = <<>>
      BY <1>1 DEF NoLoop
    <2> QED  BY <1>4, <2>1, EmptyQueue DEF NothingSent, Flying
  <1>6. PushInv'
    <2>1. \A b \in late' : b \in Seq(Rounds) /\ Bounded(b) /\ ToSet(b) \subseteq 1..emitted
      <3>1. \A g \in Loops : /\ loop[g].req \in Seq(Rounds) /\ Bounded(loop[g].req)
                             /\ ToSet(loop[g].req) \subseteq 1..emitted
        BY LoopAt DEF LoopOk
      <3> QED  BY <1>1, <3>1 DEF PushInv
    <2>2. \A g \in Loops : /\ loop'[g] = NoLoop /\ loop'[g] \in LoopType /\ LoopOk(loop'[g], emitted)
                           /\ loop'[g].closed = FALSE
      BY <1>1, NoLoopOk DEF NoLoop
    <2>3. cur' \in 0..started'
      <3>1. started \in Nat
        BY RoundsNat DEF PushInv
      <3> HIDE DEF Inv
      <3>2. cur' = 0 /\ started' = started
        BY <1>1
      <3> QED  BY <3>1, <3>2
    <2>4. loop' \in [Loops -> LoopType]
      BY <1>1, NoLoopOk
    <2> QED  BY <1>1, <2>1, <2>2, <2>3, <2>4 DEF PushInv
  <1>7. NothingVanishes'
    <2> SUFFICES ASSUME NEW n \in 1..emitted PROVE n \in stored \cup Lost'
      BY <1>1 DEF NothingVanishes
    <2>1. n \in Held => n \in stored \cup R
      BY <1>2
    <2> QED  BY <1>3, <2>1 DEF NothingVanishes
  <1>8. RetryInv'
    BY <1>1, <1>3, <1>5, RetryStays
  <1> QED  BY <1>6, <1>7, <1>8

LEMMA InvInit == Init => Inv
  <1> SUFFICES ASSUME Init PROVE Inv
    OBVIOUS
  <1>1. emitted = 0 /\ stored = {} /\ dropped = {} /\ late = {}
    BY DEF Init
  <1>2. Lost = {} /\ Skipped = {}
    BY <1>1 DEF Lost, Skipped, LostBy
  <1> QED  BY <1>1, <1>2, PushInit DEF Inv, NothingVanishes, RetryInv, Unsettled

LEMMA InvStep == Inv /\ [Next]_vars => Inv'
  <1> SUFFICES ASSUME Inv, [Next]_vars PROVE Inv'
    OBVIOUS
  <1>1. ASSUME NEW g \in Loops, LoopStep(g) PROVE Inv'
    <2>1. CASE Push(g)
      BY <2>1, PostInv DEF Push
    <2>2. CASE LastPush(g)
      BY <2>2, PostInv DEF LastPush
    <2> QED  BY <1>1, <2>1, <2>2, RecvInv, FinishInv DEF LoopStep
  <1>2. CASE UNCHANGED vars
    <2>1. UNCHANGED <<emitted, cur, started, loop, late, up, assigned, stored, dropped>>
      BY <1>2 DEF vars, agent, master
    <2>2. Lost' = Lost /\ Skipped' = Skipped
      BY <2>1, NothingDropped
    <2>3. PushInv'
      BY <2>1 DEF Inv, PushInv
    <2>4. NothingVanishes'
      BY <2>1, <2>2 DEF Inv, NothingVanishes, Held, HeldBy
    <2>5. Unsettled' = Unsettled /\ \A b : Flying(b)' <=> Flying(b)
      BY <2>1, <2>2 DEF Unsettled, Flying
    <2>6. RetryInv'
      BY <2>1, <2>2, <2>5 DEF Inv, RetryInv
    <2> QED  BY <2>3, <2>4, <2>6 DEF Inv
  <1> QED
    BY <1>1, <1>2, EmitInv, AcceptInv, RefuseInv, DieInsideInv, HandleLateInv, OutageInv, ReloadInv,
       FetchInv, StopInv DEF Next

(* A push loop and the requests on their way hold what their steps count    *)
(* on, however channel, buffer, requests, outages and reloads fall.        *)
THEOREM PushInvariant == Spec => []Inv
  BY InvInit, InvStep, PTL DEF Spec

(* Every queue of the agent is in the order of the rounds and within its    *)
(* capacity, the requests on their way included.                           *)
THEOREM PushTypes == Spec => []TypeOK
  <1>1. ASSUME NEW b \in Seq(Rounds), Bounded(b) PROVE b \in Batch
    <2>1. Len(b) \in 0..MaxBuffer /\ b \in [1..Len(b) -> Rounds]
      BY <1>1, LenProperties, RoundsNat DEF Bounded
    <2> QED  BY <1>1, <2>1 DEF Batch, Bounded, Ascending
  <1>2. Inv => TypeOK
    <2> SUFFICES ASSUME Inv PROVE TypeOK
      OBVIOUS
    <2>1. ASSUME NEW g \in Loops
          PROVE  /\ loop[g].st \in {"none", "run", "wait", "last"}
                 /\ loop[g].buffer \in Batch /\ loop[g].req \in Batch
                 /\ loop[g].chan \in Seq(Rounds) /\ Len(loop[g].chan) <= ChanCap
                 /\ loop[g].closed \in BOOLEAN
      BY <1>1, LoopAt DEF Inv, LoopOk, LoopType
    <2>2. late \subseteq Batch
      BY <1>1 DEF Inv, PushInv
    <2>3. stored \subseteq Rounds /\ emitted \in 0..MaxRounds /\ started \in Loops /\ cur \in 0..MaxLoops
      BY RoundsNat DEF Inv, PushInv, Rounds, Loops
    <2> QED  BY <2>1, <2>2, <2>3 DEF Inv, PushInv, TypeOK
  <1> QED  BY <1>2, PushInvariant, PTL

(* Every round the agent made is in the store, in the agent's hands, or     *)
(* was given up in one of the places that give rounds up.                  *)
THEOREM NoRoundVanishes == Spec => []NothingVanishes
  <1>1. Inv => NothingVanishes
    BY DEF Inv
  <1> QED  BY <1>1, PushInvariant, PTL

(* Retried, duplicated, late and half handled requests of one push loop     *)
(* never make the store's first-write-wins skip a round it does not have.   *)
THEOREM RetriesAreSafe == Spec => []RetriesKeepOrder
  <1>1. Inv => RetriesKeepOrder
    BY DEF Inv, RetryInv, RetriesKeepOrder, Skipped
  <1> QED  BY <1>1, PushInvariant, PTL
=============================================================================
