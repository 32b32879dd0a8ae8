---------------------------- MODULE MasterProofs ----------------------------
(***************************************************************************)
(* Proofs of Master, with ConfigTree and Emitters, for any configurations,  *)
(* agent, capacities and numbers of rounds, lost answers, failing records   *)
(* and troubles of a service: what is acknowledged is accounted for, every  *)
(* emission is in one place, queues keep their bounds, and a configuration *)
(* that runs means what its sections say.                                  *)
(***************************************************************************)
EXTENDS Master, FoldTheorems, SequenceTheorems, FiniteSetTheorems

(* Generation g runs what it loaded. *)
Loaded ==
  /\ setup \in Setups /\ app \in Seq({AppOf(c) : c \in Range(setup.configs)})
  /\ Gen <= Len(setup.configs)
  /\ \A g \in 1..Gen : Accepts(setup.configs[g]) /\ app[g] = AppOf(setup.configs[g])
  /\ pc = "load" => Gen < Len(setup.configs)
  /\ Serving => Gen > 0

Key(w) == [key |-> AgentKey(w.path, Agent), slot |-> w.slot]
May(g) == IF Agent \in DOMAIN app[g].allowed THEN app[g].allowed[Agent] ELSE {}

(* What the agent was told and measured. *)
AgentInv ==
  /\ told.gen \in 0..Gen
  /\ told.gen = 0 => told.paths = {}
  /\ told.gen > 0 => told.paths = May(told.gen)
  /\ made \in Nat
  /\ measured \subseteq [path : Texts, slot : 1..made, told : 1..Gen]
  /\ \A w \in measured : w.path \in May(w.told)
  /\ \A w, x \in measured : w.slot = x.slot => w = x

(* What it has to send, and the request under way. *)
Done == Len(request.batch) - Len(request.left)
OutboxInv ==
  /\ outbox \in Seq(measured)
  /\ \A i, j \in DOMAIN outbox : i < j => outbox[i].slot < outbox[j].slot
  /\ \A w \in measured : w \in acked \/ \E i \in DOMAIN outbox : outbox[i] = w
  /\ acked \subseteq measured
  /\ \A w \in acked : \A i \in DOMAIN outbox : w.slot < outbox[i].slot
RequestInv ==
  /\ request \in [gen : 0..Gen, batch : Seq(measured), left : Seq(measured)]
  /\ request.gen = 0 => request = NoRequest
  /\ Len(request.left) <= Len(request.batch) /\ Len(request.batch) <= Len(outbox)
  /\ \A i \in DOMAIN request.batch : request.batch[i] = outbox[i]
  /\ \A i \in DOMAIN request.left : request.left[i] = outbox[Done + i]

Answered(w) ==
  \/ <<Key(w).key, w.slot>> \in kept
  \/ Key(w) \in failed
  \/ \E r \in rejected : r[1] = w

(* The rounds of the request that are handled have what became of them. *)
BatchAnswered == \A i \in 1..Done : Answered(request.batch[i])

(* What came of the rounds: recorded, failed, or rejected, in order.        *)
SeriesInv ==
  /\ kept \subseteq Texts \X (1..made)
  /\ \A k \in kept : "@" \in Range(k[1]) => \E w \in measured : Key(w) = [key |-> k[1], slot |-> k[2]]
  /\ \A w \in measured : \A k \in kept : k[1] = Key(w).key /\ k[2] >= w.slot => Answered(w)
  /\ rejected \subseteq measured \X (1..Gen) /\ \A r \in rejected : r[1].told # r[2]
  /\ errors \in Nat /\ \A f \in failed : errors > 0 \/ ~Storable(f.key)
  /\ \A w \in acked : Answered(w)
  /\ BatchAnswered

IngestInv == Loaded /\ AgentInv /\ OutboxInv /\ RequestInv /\ SeriesInv

-----------------------------------------------------------------------------
(* Texts *)

(* PathOf is a recursion over the places of an address. *)
RecPath(address, it) ==
  it = [n \in DOMAIN address |->
          IF n = 1 THEN address[1] ELSE it[n - 1] \o <<"/">> \o address[n]]
ItPath(address) == CHOOSE it : RecPath(address, it)

LEMMA PathIsIt ==
  ASSUME NEW address
  PROVE  PathOf(address) = ItPath(address)[Len(address)]
  BY DEF PathOf, ItPath, RecPath

LEMMA RecPathExists ==
  ASSUME NEW address \in Seq(Texts)
  PROVE  RecPath(address, ItPath(address))
  <1> DEFINE D == DOMAIN address
             Part(m, g) ==
               g = [n \in D |-> IF n = 1 THEN address[1]
                                ELSE IF n > m THEN <<>> ELSE g[n - 1] \o <<"/">> \o address[n]]
             T == {m \in Nat : \E g : Part(m, g)}
  <1>1. D = 1..Len(address) /\ Len(address) \in Nat
    OBVIOUS
  <1> HIDE DEF D
  <1>2. 0 \in T
    <2> DEFINE g == [n \in D |-> IF n = 1 THEN address[1] ELSE <<>>]
    <2>1. \A n \in D : n = 1 \/ n > 0
      BY <1>1
    <2>2. Part(0, g)
      BY <2>1
    <2>3. \E k : Part(0, k)
      <3> HIDE DEF g
      <3> QED  BY <2>2
    <2> QED  BY <2>3
  <1>3. ASSUME NEW m \in T PROVE m + 1 \in T
    <2>1. PICK g : Part(m, g)
      OBVIOUS
    <2> DEFINE h == [n \in D |-> IF n = 1 THEN address[1]
                                 ELSE IF n > m + 1 THEN <<>> ELSE g[n - 1] \o <<"/">> \o address[n]]
    <2>2. m \in Nat /\ m + 1 \in Nat
      OBVIOUS
    <2>3. \A n \in D : n # 1 /\ ~(n > m + 1) => h[n - 1] = g[n - 1]
      <3> HIDE DEF T
      <3> SUFFICES ASSUME NEW n \in D, n # 1, ~(n > m + 1) PROVE h[n - 1] = g[n - 1]
        OBVIOUS
      <3> DEFINE p == n - 1
      <3>1. p \in D /\ ~(p > m) /\ ~(p > m + 1)
        BY <1>1, <2>2
      <3> HIDE DEF p
      <3>2. h[p] = g[p]
        BY <2>1, <3>1
      <3> QED  BY <3>2 DEF p
    <2>4. Part(m + 1, h)
      BY <2>3
    <2>5. \E k : Part(m + 1, k)
      <3> HIDE DEF h
      <3> QED  BY <2>4
    <2> QED  BY <2>2, <2>5
  <1>4. T = Nat
    BY <1>2, <1>3, AllNat
  <1>5. PICK g : Part(Len(address), g)
    BY <1>1, <1>4
  <1>6. \A n \in D : ~(n > Len(address))
    BY <1>1
  <1>7. RecPath(address, g)
    BY <1>5, <1>6 DEF RecPath, D
  <1> QED  BY <1>7 DEF ItPath

LEMMA Joined ==
  ASSUME NEW S, NEW s \in Seq(S), NEW t \in Seq(S), NEW x \in S
  PROVE  /\ s \o <<x>> \o t \in Seq(S)
         /\ Len(s) + 1 \in DOMAIN (s \o <<x>> \o t)
         /\ (s \o <<x>> \o t)[Len(s) + 1] = x
  <1> DEFINE one == <<x>>
             u   == s \o one
             n   == Len(s) + 1
  <1>1. Len(s) \in Nat /\ Len(t) \in Nat /\ n \in Nat /\ n - Len(s) = 1 /\ ~(n <= Len(s))
    OBVIOUS
  <1>2. one \in Seq(S) /\ Len(one) = 1 /\ one[1] = x
    OBVIOUS
  <1> HIDE DEF one
  <1>3. /\ u \in Seq(S) /\ Len(u) = Len(s) + Len(one)
        /\ \A i \in 1..(Len(s) + Len(one)) : u[i] = IF i <= Len(s) THEN s[i] ELSE one[i - Len(s)]
    BY <1>2, ConcatProperties
  <1>4. Len(u) = n /\ u[n] = x
    <2>1. n \in 1..(Len(s) + Len(one))
      BY <1>1, <1>2
    <2> HIDE DEF u
    <2> QED  BY <1>1, <1>2, <1>3, <2>1
  <1> HIDE DEF u, n
  <1>5. /\ u \o t \in Seq(S) /\ Len(u \o t) = Len(u) + Len(t)
        /\ \A i \in 1..(Len(u) + Len(t)) : (u \o t)[i] = IF i <= Len(u) THEN u[i] ELSE t[i - Len(u)]
    <2>1. u \in Seq(S)
      BY <1>3
    <2> QED  BY <2>1, ConcatProperties
  <1>6. n \in 1..(Len(u) + Len(t)) /\ n <= Len(u)
    <2>1. n >= 1
      BY <1>1 DEF n
    <2> QED  BY <1>1, <1>4, <2>1
  <1>7. n \in DOMAIN (u \o t) /\ (u \o t)[n] = x
    BY <1>1, <1>4, <1>5, <1>6
  <1> QED  BY <1>5, <1>7 DEF u, one, n

Letters == STRING \cup Signs

LEMMA PathType ==
  ASSUME NEW address \in Seq(Texts) \ {<<>>}
  PROVE  PathOf(address) \in Texts
  <1> DEFINE it == ItPath(address)
             n  == Len(address)
             T  == {m \in Nat : m + 1 \in 1..n => it[m + 1] \in Texts}
  <1>1. n \in Nat \ {0} /\ DOMAIN address = 1..n /\ \A i \in 1..n : address[i] \in Texts
    OBVIOUS
  <1>2. it = [i \in 1..n |-> IF i = 1 THEN address[1] ELSE it[i - 1] \o <<"/">> \o address[i]]
    BY <1>1, RecPathExists DEF RecPath
  <1> HIDE DEF it, n
  <1>3. 0 \in T
    BY <1>1, <1>2
  <1>4. ASSUME NEW m \in T PROVE m + 1 \in T
    <2>1. m \in Nat /\ (m + 1 \in 1..n => it[m + 1] \in Texts)
      OBVIOUS
    <2> HIDE DEF T
    <2>2. ASSUME (m + 1) + 1 \in 1..n PROVE it[(m + 1) + 1] \in Texts
      <3> DEFINE i == (m + 1) + 1
      <3>1. m + 1 \in 1..n /\ i - 1 = m + 1 /\ i # 1 /\ i \in 1..n
        BY <1>1, <2>1, <2>2
      <3>2. it[m + 1] \in Texts /\ address[i] \in Texts
        BY <1>1, <2>1, <3>1 DEF Texts, Letters, Signs
      <3> HIDE DEF i
      <3>3. it[i] = it[m + 1] \o <<"/">> \o address[i]
        BY <1>2, <3>1
      <3>4. it[i] \in Texts
        <4>1. it[m + 1] \in Seq(Letters) /\ address[i] \in Seq(Letters) /\ "/" \in Letters
          BY <3>2 DEF Texts, Letters, Signs
        <4>2. it[m + 1] \o <<"/">> \o address[i] \in Seq(Letters) /\ "/" \in Letters
          BY <4>1, Joined
        <4> QED  BY <3>3, <4>2 DEF Texts, Letters, Signs
      <3> QED  BY <3>4 DEF i
    <2>3. m + 1 \in Nat
      BY <2>1
    <2> QED  BY <2>2, <2>3 DEF T
  <1>5. T \in SUBSET Nat
    OBVIOUS
  <1> HIDE DEF T
  <1>6. n - 1 \in T
    <2>1. T = Nat
      BY <1>3, <1>4, <1>5, AllNat
    <2> QED  BY <1>1, <2>1
  <1>7. it[n] \in Texts
    BY <1>1, <1>6 DEF T
  <1> QED  BY <1>7, PathIsIt DEF it, n

LEMMA KeyFacts ==
  ASSUME NEW path \in Texts, NEW agent \in Texts
  PROVE  AgentKey(path, agent) \in Texts /\ "@" \in Range(AgentKey(path, agent))
  <1> DEFINE k == path \o <<"@">> \o agent
  <1>1. k \in Texts /\ Len(path) + 1 \in DOMAIN k /\ k[Len(path) + 1] = "@"
    <2>1. path \in Seq(Letters) /\ agent \in Seq(Letters) /\ "@" \in Letters
      BY DEF Texts, Letters, Signs
    <2>2. k \in Seq(Letters) /\ Len(path) + 1 \in DOMAIN k /\ k[Len(path) + 1] = "@"
      BY <2>1, Joined
    <2> QED  BY <2>2 DEF Texts, Letters, Signs
  <1>2. AgentKey(path, agent) = k
    BY DEF AgentKey
  <1> HIDE DEF k
  <1> QED  BY <1>1, <1>2 DEF Range

(* What the rounds of a generation are for. *)
LEMMA PathsOf ==
  ASSUME NEW c, Written(c), Accepts(c)
  PROVE  /\ \A agent \in DOMAIN c.agents : Allowed(c, agent) \in SUBSET Texts
         /\ \A path \in AppOf(c).polled : path \in Texts /\ "@" \notin Range(path)
  <1>1. \A a \in DOMAIN c.tree : PathOf(a) \in Texts
    BY PathType DEF Written
  <1>2. \A a \in Leaves(c) : a \in DOMAIN c.tree /\ c.tree[a].host # ""
    BY DEF Leaves
  <1>3. \A agent : Allowed(c, agent) \in SUBSET Texts
    BY <1>1, <1>2 DEF Allowed, Assigned
  <1>4. \A a \in Leaves(c) : "@" \notin Range(PathOf(a))
    <2> SUFFICES ASSUME NEW a \in Leaves(c) PROVE "@" \notin Range(PathOf(a))
      OBVIOUS
    <2>1. ~Wrong(c, a)
      BY <1>2 DEF Accepts
    <2> QED  BY <1>2, <2>1 DEF Wrong
  <1>5. AppOf(c).polled = {PathOf(a) : a \in Polled(c)} /\ Polled(c) \subseteq Leaves(c)
    BY DEF AppOf, Polled
  <1>6. \A path \in AppOf(c).polled : path \in Texts /\ "@" \notin Range(path)
    BY <1>1, <1>2, <1>4, <1>5
  <1> QED  BY <1>3, <1>6

LEMMA GenerationFacts ==
  ASSUME Loaded, NEW g \in 1..Gen
  PROVE  /\ May(g) \in SUBSET Texts /\ Agent \in Texts
         /\ Authentic(g) => app[g].allowed[Agent] = May(g)
         /\ \A path \in app[g].polled : path \in Texts /\ "@" \notin Range(path)
  <1> DEFINE c == setup.configs[g]
  <1>1. /\ setup.configs \in Seq(Range(setup.configs)) /\ Agent \in Texts
        /\ \A d \in Range(setup.configs) : Written(d)
    BY MasterAssumption DEF Loaded, Agent
  <1>2. c \in Range(setup.configs)
    <2>1. Gen \in Nat /\ Len(setup.configs) \in Nat /\ g \in 1..Len(setup.configs)
      BY <1>1 DEF Loaded, Gen
    <2> QED  BY <1>1, <2>1
  <1>3. Written(c) /\ Accepts(c) /\ app[g] = AppOf(c)
    BY <1>1, <1>2 DEF Loaded
  <1> HIDE DEF c
  <1>4. DOMAIN app[g].allowed = DOMAIN c.agents /\ app[g].secrets = c.agents
        /\ \A agent \in DOMAIN c.agents : app[g].allowed[agent] = Allowed(c, agent)
    BY <1>3 DEF AppOf
  <1>5. May(g) \in SUBSET Texts
    BY <1>3, <1>4, PathsOf DEF May
  <1>6. Authentic(g) => app[g].allowed[Agent] = May(g)
    BY <1>4 DEF Authentic, May
  <1> QED  BY <1>1, <1>3, <1>5, <1>6, PathsOf

-----------------------------------------------------------------------------
(* Rounds and requests *)

LEMMA LoadedKept ==
  ASSUME Loaded, UNCHANGED <<setup, app>>,
         pc' = "load" => Gen < Len(setup.configs), pc' = "serving" => Gen > 0
  PROVE  Loaded'
  BY DEF Loaded, Gen, Serving

LEMMA AgentKept ==
  ASSUME AgentInv, UNCHANGED <<setup, app, told, measured>>, made' \in Nat, made <= made'
  PROVE  AgentInv'
  <1>1. \A g : May(g)' = May(g)
    BY DEF May, Agent
  <1>2. measured' \subseteq [path : Texts, slot : 1..made', told : 1..Gen']
    BY DEF AgentInv, Gen
  <1> QED  BY <1>1, <1>2 DEF AgentInv, Gen

LEMMA OutboxKept ==
  ASSUME OutboxInv, UNCHANGED <<measured, outbox, acked>>
  PROVE  OutboxInv'
  BY DEF OutboxInv

LEMMA RequestKept ==
  ASSUME RequestInv, UNCHANGED <<measured, outbox, request, app>>
  PROVE  RequestInv'
  BY DEF RequestInv, Done, Gen, NoRequest

(* No request is under way. *)
LEMMA RequestEnds ==
  ASSUME Loaded, OutboxInv', request' = NoRequest, Gen' \in Nat
  PROVE  RequestInv' /\ Done' = 0
  <1>1. Len(outbox') \in Nat
    BY DEF OutboxInv
  <1> QED  BY <1>1 DEF RequestInv, Done, NoRequest

LEMMA AnsweredGrows ==
  ASSUME UNCHANGED setup, kept \subseteq kept', failed \subseteq failed', rejected \subseteq rejected'
  PROVE  \A w : Key(w)' = Key(w) /\ (Answered(w) => Answered(w)')
  BY DEF Answered, Key, Agent

LEMMA SeriesKept ==
  ASSUME SeriesInv, UNCHANGED <<setup, app, kept, measured, errors, failed, rejected, acked>>,
         made' \in Nat, made <= made', made \in Nat,
         BatchAnswered'
  PROVE  SeriesInv'
  <1>1. \A w : Key(w)' = Key(w) /\ (Answered(w) <=> Answered(w)')
    BY DEF Answered, Key, Agent
  <1>2. kept' \subseteq Texts \X (1..made')
    BY DEF SeriesInv
  <1> QED  BY <1>1, <1>2 DEF SeriesInv, Gen

LEMMA SameDone ==
  ASSUME UNCHANGED request
  PROVE  Done' = Done /\ request'.batch = request.batch
  BY DEF Done

LEMMA BatchKept ==
  ASSUME SeriesInv, UNCHANGED <<setup, request, kept, failed, rejected>>
  PROVE  BatchAnswered'
  <1>1. \A w : Answered(w) <=> Answered(w)'
    BY DEF Answered, Key, Agent
  <1>2. Done' = Done /\ request'.batch = request.batch
    BY SameDone
  <1> QED  BY <1>1, <1>2 DEF SeriesInv, BatchAnswered

LEMMA GenNat ==
  ASSUME Loaded
  PROVE  Gen \in Nat
  BY DEF Loaded, Gen

(* What is not about rounds and requests leaves them as they are. *)
LEMMA Beside ==
  ASSUME IngestInv, Loaded',
         UNCHANGED <<setup, app, told, outbox, request, made, kept, errors, measured, acked, failed,
                     rejected>>
  PROVE  IngestInv'
  <1>1. Loaded /\ AgentInv /\ OutboxInv /\ RequestInv /\ SeriesInv /\ made \in Nat
    BY DEF IngestInv, AgentInv
  <1>2. AgentInv'
    BY <1>1, AgentKept
  <1>3. OutboxInv'
    BY <1>1, OutboxKept
  <1>4. RequestInv'
    BY <1>1, RequestKept
  <1>5. SeriesInv'
    BY <1>1, BatchKept, SeriesKept DEF SeriesInv
  <1> QED  BY <1>2, <1>3, <1>4, <1>5 DEF IngestInv

(* Requests that end without an answer. *)
LEMMA Dropped ==
  ASSUME IngestInv, Loaded', request' = NoRequest,
         UNCHANGED <<setup, app, told, outbox, made, kept, errors, measured, acked, failed, rejected>>
  PROVE  IngestInv'
  <1>1. Loaded /\ AgentInv /\ OutboxInv /\ SeriesInv /\ made \in Nat /\ Gen' \in Nat
    BY GenNat DEF IngestInv, AgentInv, Gen
  <1>2. AgentInv'
    BY <1>1, AgentKept
  <1>3. OutboxInv'
    BY <1>1, OutboxKept
  <1>4. RequestInv' /\ Done' = 0
    BY <1>1, <1>3, RequestEnds
  <1>5. SeriesInv'
    <2>1. BatchAnswered'
      BY <1>4 DEF BatchAnswered
    <2> QED  BY <1>1, <2>1, SeriesKept
  <1> QED  BY <1>2, <1>3, <1>4, <1>5 DEF IngestInv

(* A generation more. *)
LEMMA LoadIngest ==
  ASSUME IngestInv, Load
  PROVE  IngestInv'
  <1> DEFINE x == AppOf(NextConfig)
             cs == setup.configs
  <1>1. /\ Loaded /\ AgentInv /\ OutboxInv /\ RequestInv /\ SeriesInv /\ made \in Nat
        /\ pc = "load" /\ Accepts(NextConfig) /\ pc' = "serving" /\ app' = Append(app, x)
        /\ UNCHANGED <<setup, told, outbox, request, made, kept, errors, measured, acked, failed, rejected>>
    BY DEF IngestInv, AgentInv, Load
  <1>2. /\ cs \in Seq(Range(cs)) /\ Gen \in Nat /\ Gen + 1 <= Len(cs) /\ Len(cs) \in Nat
        /\ app \in Seq({AppOf(c) : c \in Range(cs)})
    BY <1>1, GenNat, MasterAssumption DEF Loaded
  <1>3. x \in {AppOf(c) : c \in Range(cs)}
    <2>1. NextConfig = cs[Gen + 1] /\ Gen + 1 \in 1..Len(cs)
      BY <1>2 DEF NextConfig
    <2>2. NextConfig \in Range(cs)
      BY <1>2, <2>1
    <2> QED  BY <2>2
  <1> HIDE DEF x
  <1>4. /\ app' \in Seq({AppOf(c) : c \in Range(cs)}) /\ Gen' = Gen + 1
        /\ \A g \in 1..Gen : app'[g] = app[g]
        /\ app'[Gen + 1] = x
    BY <1>1, <1>2, <1>3 DEF Gen
  <1>5. Loaded'
    <2>1. ASSUME NEW g \in 1..(Gen + 1)
          PROVE  Accepts(cs[g]) /\ app'[g] = AppOf(cs[g])
      <3>1. CASE g = Gen + 1
        BY <1>1, <1>4, <3>1 DEF NextConfig, x
      <3>2. CASE g # Gen + 1
        <4>1. g \in 1..Gen
          BY <1>2, <3>2
        <4>2. Accepts(cs[g]) /\ app[g] = AppOf(cs[g])
          BY <1>1, <4>1 DEF Loaded
        <4> QED  BY <1>4, <4>1, <4>2
      <3> QED  BY <3>1, <3>2
    <2>2. Gen' <= Len(cs) /\ Gen' > 0 /\ setup' = setup /\ setup \in Setups
      BY <1>1, <1>2, <1>4 DEF Loaded
    <2>3. \A g \in 1..Gen' : Accepts(cs[g]) /\ app'[g] = AppOf(cs[g])
      BY <1>4, <2>1
    <2> QED  BY <1>1, <1>4, <2>2, <2>3 DEF Loaded, Serving
  <1>6. \A g \in 1..Gen : May(g)' = May(g)
    BY <1>1, <1>4 DEF May, Agent
  <1>7. AgentInv'
    <2>1. measured' \subseteq [path : Texts, slot : 1..made', told : 1..Gen']
      BY <1>1, <1>2, <1>4 DEF AgentInv
    <2>2. \A w \in measured : w.told \in 1..Gen
      BY <1>1 DEF AgentInv
    <2>3. told.gen \in 0..Gen' /\ (told.gen > 0 => told.gen \in 1..Gen)
      BY <1>1, <1>2, <1>4 DEF AgentInv
    <2> QED  BY <1>1, <1>6, <2>1, <2>2, <2>3 DEF AgentInv
  <1>8. OutboxInv'
    BY <1>1, OutboxKept
  <1>9. RequestInv'
    BY <1>1, <1>2, <1>4 DEF RequestInv, Done, NoRequest
  <1>10. SeriesInv'
    <2>1. \A w : Key(w)' = Key(w) /\ (Answered(w) <=> Answered(w)')
      BY <1>1 DEF Answered, Key, Agent
    <2>2. rejected' \subseteq measured' \X (1..Gen')
      BY <1>1, <1>2, <1>4 DEF SeriesInv
    <2>3. BatchAnswered'
      BY <1>1, BatchKept
    <2> QED  BY <1>1, <2>1, <2>2, <2>3 DEF SeriesInv
  <1> QED  BY <1>5, <1>7, <1>8, <1>9, <1>10 DEF IngestInv

LEMMA ProcessIngest ==
  ASSUME IngestInv, LoadFails \/ StartFails \/ Quit \/ Reload
  PROVE  IngestInv'
  <1>1. Loaded
    BY DEF IngestInv
  <1>2. ASSUME NEW how \in {"refused", "failed", "exited"}, EndAs(how) PROVE IngestInv'
    <2>1. Loaded'
      BY <1>1, <1>2, LoadedKept DEF EndAs
    <2> QED  BY <1>2, <2>1, Dropped DEF EndAs
  <1>3. CASE Reload
    <2>1. Loaded'
      BY <1>1, <1>3, LoadedKept DEF Reload
    <2> QED  BY <1>3, <2>1, Beside DEF Reload
  <1> QED  BY <1>2, <1>3 DEF LoadFails, StartFails, Quit

LEMMA UnansweredIngest ==
  ASSUME IngestInv, Unauthorized \/ LoseAnswer
  PROVE  IngestInv'
  <1>1. Loaded'
    BY LoadedKept DEF IngestInv, Loaded, Serving, Unauthorized, LoseAnswer
  <1> QED  BY <1>1, Dropped DEF Unauthorized, LoseAnswer

-----------------------------------------------------------------------------
(* Records *)

LEMMA StoreFacts ==
  ASSUME errors \in Nat, NEW round, Store(round), \A f \in failed : errors > 0 \/ ~Storable(f.key)
  PROVE  /\ kept \subseteq kept' /\ kept' \subseteq kept \cup {<<round.key, round.slot>>}
         /\ failed \subseteq failed'
         /\ errors' \in Nat /\ \A f \in failed' : errors' > 0 \/ ~Storable(f.key)
         /\ \/ <<round.key, round.slot>> \in kept' \/ round \in failed'
            \/ \E k \in kept : k[1] = round.key /\ k[2] >= round.slot
  <1> DEFINE Above == \E k \in kept : k[1] = round.key /\ k[2] >= round.slot
             it    == <<round.key, round.slot>>
  <1>1. CASE /\ Storable(round.key) /\ kept' = IF Above THEN kept ELSE kept \cup {it}
             /\ UNCHANGED <<errors, failed>>
    <2> HIDE DEF Above, it
    <2>1. Above \/ it \in kept'
      BY <1>1
    <2>2. kept \subseteq kept' /\ kept' \subseteq kept \cup {it}
      BY <1>1
    <2> QED  BY <1>1, <2>1, <2>2 DEF Above, it
  <1>2. CASE /\ errors < setup.errors \/ ~Storable(round.key)
             /\ errors' = IF Storable(round.key) THEN errors + 1 ELSE errors
             /\ failed' = failed \cup {round} /\ UNCHANGED kept
    <2> DEFINE key == round.key
               ok(k) == Storable(k)
    <2>1. errors' = IF ok(key) THEN errors + 1 ELSE errors
      BY <1>2
    <2> HIDE DEF ok
    <2>2. errors' \in Nat /\ (errors > 0 => errors' > 0) /\ (ok(key) => errors' > 0)
      BY <2>1
    <2>3. \A f \in failed' : errors' > 0 \/ ~ok(f.key)
      BY <1>2, <2>2 DEF ok
    <2> QED  BY <1>2, <2>2, <2>3 DEF ok
  <1> QED  BY <1>1, <1>2 DEF Store

(* A round is stored: of an agent's rounds only one that it measured, and   *)
(* none that the series then has no room for is without an answer.         *)
LEMMA SeriesStores ==
  ASSUME SeriesInv, UNCHANGED <<setup, app, measured, rejected, acked>>,
         NEW round, Store(round), round.key \in Texts, round.slot \in 1..made',
         made \in Nat, made' \in Nat, made <= made',
         "@" \in Range(round.key) => \E w \in measured : Key(w) = [key |-> round.key, slot |-> round.slot],
         \A w \in measured : round.key = Key(w).key /\ round.slot >= w.slot => Answered(w)',
         BatchAnswered'
  PROVE  SeriesInv'
  <1>1. errors \in Nat /\ \A f \in failed : errors > 0 \/ ~Storable(f.key)
    BY DEF SeriesInv
  <1>2. /\ kept \subseteq kept' /\ kept' \subseteq kept \cup {<<round.key, round.slot>>}
        /\ failed \subseteq failed' /\ errors' \in Nat /\ \A f \in failed' : errors' > 0 \/ ~Storable(f.key)
    BY <1>1, StoreFacts
  <1>3. \A w : Key(w)' = Key(w) /\ (Answered(w) => Answered(w)')
    BY <1>2, AnsweredGrows
  <1>4. kept' \subseteq Texts \X (1..made')
    BY <1>2 DEF SeriesInv
  <1>5. \A k \in kept' : "@" \in Range(k[1]) => \E w \in measured' : Key(w)' = [key |-> k[1], slot |-> k[2]]
    BY <1>2, <1>3 DEF SeriesInv
  <1>6. \A w \in measured' : \A k \in kept' : k[1] = Key(w)'.key /\ k[2] >= w.slot => Answered(w)'
    <2> SUFFICES ASSUME NEW w \in measured, NEW k \in kept', k[1] = Key(w).key, k[2] >= w.slot
                 PROVE  Answered(w)'
      BY <1>3
    <2>1. CASE k \in kept
      BY <1>3, <2>1 DEF SeriesInv
    <2>2. CASE k = <<round.key, round.slot>>
      BY <2>2
    <2> QED  BY <1>2, <2>1, <2>2
  <1>7. rejected' \subseteq measured' \X (1..Gen') /\ \A r \in rejected' : r[1].told # r[2]
    BY DEF SeriesInv, Gen
  <1>8. \A w \in acked' : Answered(w)'
    BY <1>3 DEF SeriesInv
  <1> QED  BY <1>2, <1>4, <1>5, <1>6, <1>7, <1>8 DEF SeriesInv

(* What the series of a round has room for. *)
LEMMA StoredOrAbove ==
  ASSUME SeriesInv, UNCHANGED <<setup, rejected>>, NEW w \in measured, Store(Key(w))
  PROVE  Answered(w)'
  <1> DEFINE round == Key(w)
  <1>1. errors \in Nat /\ \A f \in failed : errors > 0 \/ ~Storable(f.key)
    BY DEF SeriesInv
  <1>2. round.slot = w.slot /\ Store(round)
    BY DEF Key
  <1> HIDE DEF round
  <1>3. /\ kept \subseteq kept' /\ failed \subseteq failed'
        /\ \/ <<round.key, round.slot>> \in kept' \/ round \in failed'
           \/ \E k \in kept : k[1] = round.key /\ k[2] >= round.slot
    BY <1>1, <1>2, StoreFacts
  <1>4. Key(w)' = round /\ (Answered(w) => Answered(w)')
    BY <1>3, AnsweredGrows DEF round
  <1>5. CASE <<round.key, round.slot>> \in kept' \/ round \in failed'
    BY <1>2, <1>4, <1>5 DEF Answered
  <1>6. CASE \E k \in kept : k[1] = round.key /\ k[2] >= round.slot
    <2>1. Answered(w)
      BY <1>2, <1>6 DEF SeriesInv, round
    <2> QED  BY <1>4, <2>1
  <1> QED  BY <1>3, <1>5, <1>6

LEMMA PolledIngest ==
  ASSUME IngestInv, NEW path \in PolledNow, PolledRound(path)
  PROVE  IngestInv'
  <1> DEFINE round == [key |-> path, slot |-> made + 1]
  <1>1. /\ Loaded /\ AgentInv /\ OutboxInv /\ RequestInv /\ SeriesInv /\ made \in Nat /\ Gen \in 1..Gen
        /\ path \in app[Gen].polled /\ made' = made + 1 /\ Store(round)
        /\ UNCHANGED <<setup, pc, app, told, outbox, request, measured, acked, rejected>>
    <2>1. Loaded /\ AgentInv /\ OutboxInv /\ RequestInv /\ SeriesInv /\ made \in Nat /\ Gen \in Nat
      BY GenNat DEF IngestInv, AgentInv
    <2>2. Gen > 0
      BY <2>1 DEF Loaded, PolledRound
    <2> QED  BY <2>1, <2>2 DEF PolledRound, Finished
  <1> HIDE DEF round
  <1>2. path \in Texts /\ "@" \notin Range(path)
    BY <1>1, GenerationFacts
  <1>3. made' \in Nat /\ made <= made' /\ round.key = path /\ round.slot = made' /\ made' \in 1..made'
    BY <1>1 DEF round
  <1>4. Loaded'
    BY <1>1, LoadedKept DEF Loaded, Serving
  <1>5. AgentInv' /\ OutboxInv' /\ RequestInv'
    BY <1>1, <1>3, AgentKept, OutboxKept, RequestKept
  <1>6. errors \in Nat /\ \A f \in failed : errors > 0 \/ ~Storable(f.key)
    BY <1>1 DEF SeriesInv
  <1>7. \A w : Key(w)' = Key(w) /\ (Answered(w) => Answered(w)')
    BY <1>1, <1>6, StoreFacts, AnsweredGrows
  <1>8. BatchAnswered'
    <2>1. Done' = Done /\ request'.batch = request.batch
      BY <1>1, SameDone
    <2> QED  BY <1>1, <1>7, <2>1 DEF SeriesInv, BatchAnswered
  <1>9. \A w \in measured : "@" \in Range(Key(w).key)
    BY <1>1, GenerationFacts, KeyFacts DEF AgentInv, Key
  <1>10. SeriesInv'
    <2>1. \A w \in measured : round.key = Key(w).key /\ round.slot >= w.slot => Answered(w)'
      BY <1>2, <1>3, <1>9
    <2> QED  BY <1>1, <1>2, <1>3, <1>8, <2>1, SeriesStores
  <1> QED  BY <1>4, <1>5, <1>10 DEF IngestInv

-----------------------------------------------------------------------------
(* The agent *)

LEMMA FetchIngest ==
  ASSUME IngestInv, Fetch
  PROVE  IngestInv'
  <1>1. /\ Loaded /\ AgentInv /\ OutboxInv /\ RequestInv /\ SeriesInv /\ made \in Nat /\ Gen \in 1..Gen
        /\ told' = [gen |-> Gen, paths |-> app[Gen].allowed[Agent]] /\ Authentic(Gen)
        /\ UNCHANGED <<setup, pc, app, outbox, request, made, kept, errors, measured, acked, failed, rejected>>
    <2>1. Loaded /\ AgentInv /\ OutboxInv /\ RequestInv /\ SeriesInv /\ made \in Nat /\ Gen \in Nat
      BY GenNat DEF IngestInv, AgentInv
    <2>2. Gen > 0
      BY <2>1 DEF Loaded, Fetch
    <2> QED  BY <2>1, <2>2 DEF Fetch
  <1>2. Loaded'
    BY <1>1, LoadedKept DEF Loaded, Serving
  <1>3. told' = [gen |-> Gen, paths |-> May(Gen)]
    BY <1>1, GenerationFacts
  <1>4. AgentInv'
    <2>1. \A g : May(g)' = May(g)
      BY <1>1 DEF May, Agent
    <2>2. Gen' = Gen /\ Gen \in 0..Gen /\ told'.gen = Gen /\ told'.paths = May(Gen) /\ Gen # 0
      BY <1>1, <1>3 DEF Gen
    <2>3. measured' \subseteq [path : Texts, slot : 1..made', told : 1..Gen']
      BY <1>1, <2>2 DEF AgentInv
    <2> QED  BY <1>1, <2>1, <2>2, <2>3 DEF AgentInv
  <1>5. OutboxInv' /\ RequestInv'
    BY <1>1, OutboxKept, RequestKept
  <1>6. SeriesInv'
    BY <1>1, BatchKept, SeriesKept DEF SeriesInv
  <1> QED  BY <1>2, <1>4, <1>5, <1>6 DEF IngestInv

LEMMA PostIngest ==
  ASSUME IngestInv, Post
  PROVE  IngestInv'
  <1>1. /\ Loaded /\ AgentInv /\ OutboxInv /\ RequestInv /\ SeriesInv /\ made \in Nat /\ Gen \in 1..Gen
        /\ request' = [gen |-> Gen, batch |-> outbox, left |-> outbox]
        /\ UNCHANGED <<setup, pc, app, told, outbox, made, kept, errors, measured, acked, failed, rejected>>
    <2>1. Loaded /\ AgentInv /\ OutboxInv /\ RequestInv /\ SeriesInv /\ made \in Nat /\ Gen \in Nat
      BY GenNat DEF IngestInv, AgentInv
    <2>2. Gen > 0
      BY <2>1 DEF Loaded, Post
    <2> QED  BY <2>1, <2>2 DEF Post
  <1>2. Loaded'
    BY <1>1, LoadedKept DEF Loaded, Serving
  <1>3. AgentInv' /\ OutboxInv'
    BY <1>1, AgentKept, OutboxKept
  <1>4. outbox \in Seq(measured) /\ Len(outbox) \in Nat /\ DOMAIN outbox = 1..Len(outbox)
    BY <1>1 DEF OutboxInv
  <1>5. Done' = 0
    BY <1>1, <1>4 DEF Done
  <1>6. RequestInv'
    <2>1. Gen \in 0..Gen /\ Gen # 0 /\ Gen' = Gen
      BY <1>1 DEF Gen
    <2>2. \A i \in DOMAIN outbox : outbox[i] = outbox[0 + i]
      BY <1>4
    <2> QED  BY <1>1, <1>4, <1>5, <2>1, <2>2 DEF RequestInv
  <1>7. SeriesInv'
    <2>1. BatchAnswered'
      BY <1>5 DEF BatchAnswered
    <2> QED  BY <1>1, <2>1, SeriesKept
  <1> QED  BY <1>2, <1>3, <1>6, <1>7 DEF IngestInv

LEMMA MeasureIngest ==
  ASSUME IngestInv, NEW path \in told.paths, Measure(path)
  PROVE  IngestInv'
  <1> DEFINE round == [path |-> path, slot |-> made + 1, told |-> told.gen]
  <1>1. /\ Loaded /\ AgentInv /\ OutboxInv /\ RequestInv /\ SeriesInv /\ made \in Nat /\ Gen \in Nat
        /\ made' = made + 1 /\ outbox' = Append(outbox, round) /\ measured' = measured \cup {round}
        /\ UNCHANGED <<setup, pc, app, told, request, kept, errors, acked, failed, rejected>>
    BY GenNat DEF IngestInv, AgentInv, Measure
  <1>2. Loaded'
    BY <1>1, LoadedKept DEF Loaded, Serving
  <1>3. told.gen \in 1..Gen /\ path \in May(told.gen) /\ path \in Texts
    <2>1. told.gen \in 1..Gen
      BY <1>1 DEF AgentInv
    <2> QED  BY <1>1, <2>1, GenerationFacts DEF AgentInv
  <1>4. /\ round \in [path : Texts, slot : 1..(made + 1), told : 1..Gen]
        /\ round.path = path /\ round.slot = made + 1 /\ round.told = told.gen
    BY <1>1, <1>3
  <1> HIDE DEF round
  <1>5. \A w \in measured : w.slot \in 1..made /\ w.slot < round.slot
    BY <1>1, <1>4 DEF AgentInv
  <1>6. AgentInv'
    <2>1. \A g : May(g)' = May(g)
      BY <1>1 DEF May, Agent
    <2>2. Gen' = Gen /\ made' \in Nat
      BY <1>1 DEF Gen
    <2>3. measured' \subseteq [path : Texts, slot : 1..made', told : 1..Gen']
      <3>1. 1..made \subseteq 1..(made + 1)
        BY <1>1
      <3> QED  BY <1>1, <1>4, <2>2, <3>1 DEF AgentInv
    <2>4. \A w \in measured' : w.path \in May(w.told)'
      BY <1>1, <1>3, <1>4, <2>1 DEF AgentInv
    <2>5. \A w, x \in measured' : w.slot = x.slot => w = x
      BY <1>1, <1>4, <1>5 DEF AgentInv
    <2> QED  BY <1>1, <2>1, <2>2, <2>3, <2>4, <2>5 DEF AgentInv
  <1>7. /\ outbox \in Seq(measured) /\ outbox \in Seq(measured') /\ Len(outbox) \in Nat
        /\ outbox' \in Seq(measured') /\ DOMAIN outbox' = 1..(Len(outbox) + 1)
        /\ DOMAIN outbox = 1..Len(outbox) /\ Len(outbox') = Len(outbox) + 1
        /\ \A i \in DOMAIN outbox : outbox'[i] = outbox[i] /\ outbox[i] \in measured
        /\ outbox'[Len(outbox) + 1] = round
    <2>1. outbox \in Seq(measured)
      BY <1>1 DEF OutboxInv
    <2>2. measured \subseteq measured' /\ round \in measured'
      BY <1>1
    <2>3. outbox \in Seq(measured')
      BY <2>1, <2>2
    <2> QED  BY <1>1, <2>1, <2>2, <2>3
  <1>8. OutboxInv'
    <2>1. ASSUME NEW i \in DOMAIN outbox', NEW j \in DOMAIN outbox', i < j
          PROVE  outbox'[i].slot < outbox'[j].slot
      <3>1. i \in DOMAIN outbox
        BY <1>7, <2>1
      <3>2. CASE j \in DOMAIN outbox
        BY <1>1, <1>7, <2>1, <3>1, <3>2 DEF OutboxInv
      <3>3. CASE j = Len(outbox) + 1
        BY <1>5, <1>7, <3>1, <3>3
      <3> QED  BY <1>7, <3>2, <3>3
    <2>2. ASSUME NEW w \in measured' PROVE w \in acked' \/ \E i \in DOMAIN outbox' : outbox'[i] = w
      <3>1. CASE w \in measured
        <4>1. w \in acked \/ \E i \in DOMAIN outbox : outbox[i] = w
          BY <1>1, <3>1 DEF OutboxInv
        <4>2. DOMAIN outbox \subseteq DOMAIN outbox'
          BY <1>7
        <4> QED  BY <1>1, <1>7, <4>1, <4>2
      <3>2. CASE w = round
        BY <1>7, <3>2
      <3> QED  BY <1>1, <3>1, <3>2
    <2>3. ASSUME NEW w \in acked', NEW i \in DOMAIN outbox' PROVE w.slot < outbox'[i].slot
      <3>1. w \in measured /\ w \in acked
        BY <1>1 DEF OutboxInv
      <3>2. CASE i \in DOMAIN outbox
        BY <1>1, <1>7, <3>1, <3>2 DEF OutboxInv
      <3>3. CASE i = Len(outbox) + 1
        BY <1>5, <1>7, <3>1, <3>3
      <3> QED  BY <1>7, <3>2, <3>3
    <2>4. acked' \subseteq measured'
      BY <1>1 DEF OutboxInv
    <2> QED  BY <1>7, <2>1, <2>2, <2>3, <2>4 DEF OutboxInv
  <1>9. RequestInv'
    <2>1. /\ request \in [gen : 0..Gen, batch : Seq(measured), left : Seq(measured)]
          /\ Len(request.left) <= Len(request.batch) /\ Len(request.batch) <= Len(outbox)
          /\ \A i \in DOMAIN request.batch : request.batch[i] = outbox[i]
          /\ \A i \in DOMAIN request.left : request.left[i] = outbox[Done + i]
      BY <1>1 DEF RequestInv
    <2>2. request.batch \in Seq(measured) /\ request.left \in Seq(measured) /\ request.gen \in 0..Gen
      BY <2>1
    <2>3. DOMAIN request.batch \subseteq DOMAIN outbox
      BY <1>7, <2>1, <2>2
    <2>4. \A i \in DOMAIN request.left : Done + i \in DOMAIN outbox
      BY <1>7, <2>1, <2>2 DEF Done
    <2>5. measured \subseteq measured' /\ Gen' = Gen /\ Done' = Done
      BY <1>1, SameDone DEF Gen
    <2>6. request \in [gen : 0..Gen', batch : Seq(measured'), left : Seq(measured')]
      <3>1. request.batch \in Seq(measured') /\ request.left \in Seq(measured')
        BY <2>2, <2>5
      <3> QED  BY <2>1, <2>2, <2>5, <3>1
    <2>7. Len(request.batch) <= Len(outbox')
      BY <1>7, <2>1, <2>2
    <2>8. /\ \A i \in DOMAIN request.batch : request.batch[i] = outbox'[i]
          /\ \A i \in DOMAIN request.left : request.left[i] = outbox'[Done + i]
      BY <1>7, <2>1, <2>3, <2>4
    <2>9. request.gen = 0 => request = NoRequest
      BY <1>1 DEF RequestInv
    <2> QED  BY <1>1, <2>1, <2>5, <2>6, <2>7, <2>8, <2>9 DEF RequestInv, NoRequest
  <1>10. SeriesInv'
    <2>1. \A w : Key(w)' = Key(w) /\ (Answered(w) <=> Answered(w)')
      BY <1>1 DEF Answered, Key, Agent
    <2>2. 1..made \subseteq 1..made' /\ Gen' = Gen
      BY <1>1 DEF Gen
    <2>3. kept' \subseteq Texts \X (1..made')
      BY <1>1, <2>2 DEF SeriesInv
    <2>4. \A k \in kept : "@" \in Range(k[1]) =>
            \E w \in measured' : Key(w)' = [key |-> k[1], slot |-> k[2]]
      BY <1>1, <2>1 DEF SeriesInv
    <2>5. \A k \in kept : k[2] < round.slot
      BY <1>1, <1>4 DEF SeriesInv
    <2>6. \A w \in measured' : \A k \in kept : k[1] = Key(w)'.key /\ k[2] >= w.slot => Answered(w)'
      <3> SUFFICES ASSUME NEW w \in measured', NEW k \in kept, k[1] = Key(w).key, k[2] >= w.slot
                   PROVE  Answered(w)'
        BY <2>1
      <3>1. w # round
        <4>1. k[2] \in 1..made
          BY <1>1 DEF SeriesInv
        <4> QED  BY <1>1, <1>4, <4>1
      <3> QED  BY <1>1, <2>1, <3>1 DEF SeriesInv
    <2>7. BatchAnswered'
      BY <1>1, BatchKept
    <2>8. rejected' \subseteq measured' \X (1..Gen') /\ \A r \in rejected' : r[1].told # r[2]
      BY <1>1, <2>2 DEF SeriesInv
    <2> QED  BY <1>1, <2>1, <2>3, <2>4, <2>6, <2>7, <2>8 DEF SeriesInv
  <1> QED  BY <1>2, <1>6, <1>8, <1>9, <1>10 DEF IngestInv

(* The round that comes next, and what is earlier in the outbox. *)
LEMMA NextRound ==
  ASSUME IngestInv, Handling
  PROVE  LET w == Head(request.left) IN
         /\ w \in measured /\ Done + 1 \in DOMAIN request.batch
         /\ request.batch[Done + 1] = w /\ outbox[Done + 1] = w
         /\ \A x \in measured : x.slot < w.slot => Answered(x)
  <1> DEFINE w == Head(request.left)
  <1>1. /\ request.left \in Seq(measured) /\ request.left # <<>> /\ request.batch \in Seq(measured)
        /\ Len(request.left) <= Len(request.batch) /\ Len(request.batch) <= Len(outbox)
        /\ \A i \in DOMAIN request.batch : request.batch[i] = outbox[i]
        /\ \A i \in DOMAIN request.left : request.left[i] = outbox[Done + i]
    BY DEF IngestInv, RequestInv, Handling
  <1>2. w = request.left[1] /\ 1 \in DOMAIN request.left /\ w \in measured
    BY <1>1
  <1>3. Done \in Nat /\ Done + 1 \in DOMAIN request.batch
    <2>1. Len(request.left) \in Nat /\ Len(request.left) > 0 /\ Len(request.batch) \in Nat
      BY <1>1
    <2>2. DOMAIN request.batch = 1..Len(request.batch)
      BY <1>1
    <2> DEFINE left == Len(request.left)
               all  == Len(request.batch)
    <2>3. left <= all /\ left \in Nat /\ left > 0 /\ all \in Nat
      BY <1>1, <2>1
    <2> HIDE DEF left, all
    <2>4. all - left \in Nat /\ (all - left) + 1 \in 1..all
      BY <2>3
    <2> QED  BY <2>2, <2>4 DEF Done, left, all
  <1>4. outbox[Done + 1] = w /\ request.batch[Done + 1] = w
    BY <1>1, <1>2, <1>3
  <1>5. /\ outbox \in Seq(measured) /\ DOMAIN outbox = 1..Len(outbox) /\ Len(outbox) \in Nat
        /\ Done + 1 \in DOMAIN outbox
        /\ \A i \in DOMAIN outbox : outbox[i] \in measured
    <2>1. outbox \in Seq(measured)
      BY DEF IngestInv, OutboxInv
    <2> QED  BY <1>1, <1>3, <2>1
  <1>6. \A x \in measured : x.slot \in Nat
    BY DEF IngestInv, AgentInv
  <1> HIDE DEF w
  <1>7. ASSUME NEW x \in measured, x.slot < w.slot PROVE Answered(x)
    <2>1. CASE x \in acked
      BY <2>1 DEF IngestInv, SeriesInv
    <2>2. CASE \E i \in DOMAIN outbox : outbox[i] = x
      <3>1. PICK i \in DOMAIN outbox : outbox[i] = x
        BY <2>2
      <3>2. i < Done + 1
        <4>1. CASE i = Done + 1
          BY <1>2, <1>4, <1>6, <1>7, <3>1, <4>1
        <4>2. CASE Done + 1 < i
          <5>1. outbox[Done + 1].slot < outbox[i].slot
            BY <1>5, <4>2 DEF IngestInv, OutboxInv
          <5> QED  BY <1>2, <1>4, <1>6, <1>7, <3>1, <5>1
        <4> QED  BY <1>3, <1>5, <4>1, <4>2
      <3>3. i \in 1..Done /\ i \in DOMAIN request.batch
        BY <1>1, <1>3, <1>5, <3>2
      <3>4. request.batch[i] = x
        BY <1>1, <3>1, <3>3
      <3> QED  BY <3>3, <3>4 DEF IngestInv, SeriesInv, BatchAnswered
    <2> QED  BY <2>1, <2>2 DEF IngestInv, OutboxInv
  <1> QED  BY <1>2, <1>3, <1>4, <1>7 DEF w

LEMMA HandleIngest ==
  ASSUME IngestInv, HandleRound
  PROVE  IngestInv'
  <1>0. PICK w, g : w = Head(request.left) /\ g = request.gen
    OBVIOUS
  <1>1. /\ Loaded /\ AgentInv /\ OutboxInv /\ RequestInv /\ SeriesInv /\ made \in Nat /\ Gen \in Nat
        /\ Handling /\ request' = [request EXCEPT !.left = Tail(@)]
        /\ UNCHANGED <<setup, pc, app, told, outbox, made, measured, acked>>
    BY GenNat DEF IngestInv, AgentInv, HandleRound
  <1>2. /\ w \in measured /\ Done + 1 \in DOMAIN request.batch /\ request.batch[Done + 1] = w
        /\ \A x \in measured : x.slot < w.slot => Answered(x)
    BY <1>0, <1>1, NextRound
  <1>3. IF w.path \in app[g].allowed[Agent]
        THEN Store(Key(w)) /\ UNCHANGED rejected
        ELSE rejected' = rejected \cup {<<w, g>>} /\ UNCHANGED <<kept, errors, failed>>
    BY <1>0 DEF HandleRound, Finished, Key
  <1>4. /\ request \in [gen : 0..Gen, batch : Seq(measured), left : Seq(measured)]
        /\ request.left # <<>> /\ Len(request.left) <= Len(request.batch)
        /\ \A i \in DOMAIN request.left : request.left[i] = outbox[Done + i]
    BY <1>1 DEF RequestInv, Handling
  <1>5. g \in 1..Gen /\ Authentic(g)
    <2>1. g # 0
      <3>1. NoRequest.left = <<>>
        BY DEF NoRequest
      <3> QED  BY <1>0, <1>1, <1>4, <3>1 DEF RequestInv
    <2> QED  BY <1>0, <1>1, <1>4, <2>1 DEF Handling
  <1>6. /\ request'.gen = request.gen /\ request'.batch = request.batch
        /\ request'.left = Tail(request.left) /\ Tail(request.left) \in Seq(measured)
        /\ request' \in [gen : 0..Gen, batch : Seq(measured), left : Seq(measured)]
        /\ Len(Tail(request.left)) = Len(request.left) - 1
        /\ \A i \in DOMAIN Tail(request.left) : i + 1 \in DOMAIN request.left
             /\ Tail(request.left)[i] = request.left[i + 1]
    <2>1. request.left \in Seq(measured) /\ request.left # <<>>
      BY <1>4
    <2>2. Tail(request.left) \in Seq(measured) /\ Len(Tail(request.left)) = Len(request.left) - 1
          /\ \A i \in DOMAIN Tail(request.left) : i + 1 \in DOMAIN request.left
               /\ Tail(request.left)[i] = request.left[i + 1]
      BY <2>1
    <2> QED  BY <1>1, <1>4, <2>2
  <1>7. Done' = Done + 1 /\ Done \in Nat
    <2>1. Len(request.batch) \in Nat /\ Len(request.left) \in Nat
      BY <1>4
    <2> QED  BY <1>4, <1>6, <2>1 DEF Done
  <1>8. Loaded'
    BY <1>1, LoadedKept DEF Loaded, Serving
  <1>9. AgentInv' /\ OutboxInv'
    BY <1>1, AgentKept, OutboxKept
  <1>10. RequestInv'
    <2>1. Gen' = Gen
      BY <1>1 DEF Gen
    <2>2. \A i \in DOMAIN request'.left : request'.left[i] = outbox[Done' + i]
      <3> SUFFICES ASSUME NEW i \in DOMAIN Tail(request.left)
                   PROVE  Tail(request.left)[i] = outbox[(Done + 1) + i]
        BY <1>6, <1>7
      <3>1. i \in Nat
        BY <1>6
      <3>2. Done + (i + 1) = (Done + 1) + i
        BY <1>7, <3>1
      <3>3. i + 1 \in DOMAIN request.left /\ Tail(request.left)[i] = request.left[i + 1]
        BY <1>6
      <3>4. request.left[i + 1] = outbox[Done + (i + 1)]
        BY <1>4, <3>3
      <3> QED  BY <3>2, <3>3, <3>4
    <2>3. Len(request'.left) <= Len(request'.batch) /\ Len(request'.batch) <= Len(outbox')
      <3>1. Len(request.batch) \in Nat /\ Len(request.left) \in Nat /\ Len(request.batch) <= Len(outbox)
        BY <1>1, <1>4 DEF RequestInv
      <3> QED  BY <1>1, <1>4, <1>6, <3>1
    <2>4. request'.gen # 0
      BY <1>0, <1>5, <1>6
    <2>5. \A i \in DOMAIN request'.batch : request'.batch[i] = outbox'[i]
      BY <1>1, <1>6 DEF RequestInv
    <2> QED  BY <1>1, <1>6, <2>1, <2>2, <2>3, <2>4, <2>5 DEF RequestInv
  <1>11. w.path \in May(w.told) /\ w.told \in 1..Gen /\ w.slot \in 1..made /\ w.path \in Texts
    BY <1>1, <1>2 DEF AgentInv
  <1>12. app[g].allowed[Agent] = May(g) /\ Agent \in Texts
    BY <1>1, <1>5, GenerationFacts
  <1>13. SeriesInv'
    <2>1. CASE w.path \in app[g].allowed[Agent]
      <3>1. Store(Key(w)) /\ UNCHANGED rejected
        BY <1>3, <2>1
      <3>2. errors \in Nat /\ \A f \in failed : errors > 0 \/ ~Storable(f.key)
        BY <1>1 DEF SeriesInv
      <3>3. kept \subseteq kept' /\ failed \subseteq failed'
        BY <3>1, <3>2, StoreFacts
      <3>4. \A x : Key(x)' = Key(x) /\ (Answered(x) => Answered(x)')
        BY <1>1, <3>1, <3>3, AnsweredGrows
      <3>5. Answered(w)'
        BY <1>1, <1>2, <3>1, StoredOrAbove
      <3>6. Key(w).key \in Texts /\ Key(w).slot = w.slot
        BY <1>11, <1>12, KeyFacts DEF Key
      <3>7. \A x \in measured : Key(w).key = Key(x).key /\ Key(w).slot >= x.slot => Answered(x)'
        <4> SUFFICES ASSUME NEW x \in measured, w.slot >= x.slot PROVE Answered(x)'
          BY <3>6
        <4>1. x.slot \in 1..made
          BY <1>1 DEF AgentInv
        <4>2. CASE x.slot = w.slot
          <5>1. x = w
            BY <1>1, <1>2, <4>2 DEF AgentInv
          <5> QED  BY <3>5, <5>1
        <4>3. CASE x.slot < w.slot
          BY <1>2, <3>4, <4>3
        <4> QED  BY <1>11, <4>1, <4>2, <4>3
      <3>8. BatchAnswered'
        <4> SUFFICES ASSUME NEW i \in 1..(Done + 1), NEW x, x = request.batch[i] PROVE Answered(x)'
          BY <1>6, <1>7 DEF BatchAnswered
        <4>1. CASE i = Done + 1
          BY <1>2, <3>5, <4>1
        <4>2. CASE i \in 1..Done
          BY <1>1, <3>4, <4>2 DEF SeriesInv, BatchAnswered
        <4> QED  BY <1>7, <4>1, <4>2
      <3>9. Key(w).slot \in 1..made' /\ made' \in Nat /\ made <= made'
        BY <1>1, <1>11, <3>6
      <3>10. \E x \in measured : Key(x) = [key |-> Key(w).key, slot |-> Key(w).slot]
        BY <1>2 DEF Key
      <3> QED  BY <1>1, <3>1, <3>6, <3>7, <3>8, <3>9, <3>10, SeriesStores
    <2>2. CASE w.path \notin app[g].allowed[Agent]
      <3>1. rejected' = rejected \cup {<<w, g>>} /\ UNCHANGED <<kept, errors, failed>>
        BY <1>3, <2>2
      <3>2. \A x : Key(x)' = Key(x) /\ (Answered(x) => Answered(x)')
        BY <1>1, <3>1, AnsweredGrows
      <3>3. Answered(w)'
        <4>1. <<w, g>> \in rejected' /\ <<w, g>>[1] = w
          BY <3>1
        <4>2. \E r \in rejected' : r[1] = w
          BY <4>1
        <4> QED  BY <4>2 DEF Answered
      <3>4. w.told # g
        BY <1>11, <1>12, <2>2
      <3>5. rejected' \subseteq measured' \X (1..Gen') /\ \A r \in rejected' : r[1].told # r[2]
        BY <1>1, <1>2, <1>5, <3>1, <3>4 DEF SeriesInv, Gen
      <3>6. BatchAnswered'
        <4> SUFFICES ASSUME NEW i \in 1..(Done + 1), NEW x, x = request.batch[i] PROVE Answered(x)'
          BY <1>6, <1>7 DEF BatchAnswered
        <4>1. CASE i = Done + 1
          BY <1>2, <3>3, <4>1
        <4>2. CASE i \in 1..Done
          BY <1>1, <3>2, <4>2 DEF SeriesInv, BatchAnswered
        <4> QED  BY <1>7, <4>1, <4>2
      <3> QED  BY <1>1, <3>1, <3>2, <3>5, <3>6 DEF SeriesInv
    <2> QED  BY <2>1, <2>2
  <1> QED  BY <1>8, <1>9, <1>10, <1>13 DEF IngestInv

(* What is left of a sequence without its first n elements. *)
LEMMA RestOf ==
  ASSUME NEW S, NEW s \in Seq(S), NEW n \in Nat, n <= Len(s)
  PROVE  LET t == SubSeq(s, n + 1, Len(s)) IN
         /\ t \in Seq(S) /\ DOMAIN t = 1..(Len(s) - n) /\ Len(t) = Len(s) - n
         /\ \A i \in 1..(Len(s) - n) : t[i] = s[n + i] /\ n + i \in 1..Len(s)
  <1> DEFINE m == Len(s)
             t == SubSeq(s, n + 1, Len(s))
  <1>1. m \in Nat
    OBVIOUS
  <1>2. /\ t \in Seq(S)
        /\ Len(t) = IF n + 1 <= m THEN m - (n + 1) + 1 ELSE 0
        /\ \A i \in 1..(m - (n + 1) + 1) : t[i] = s[(n + 1) + i - 1]
    <2> HIDE DEF t
    <2>1. m - n \in Nat /\ n + 1 \in 1..(m + 1) /\ m \in (n + 1 - 1)..m
      BY <1>1
    <2> QED  BY <1>1, <2>1, SubSeqProperties DEF t
  <1> HIDE DEF t, m
  <1>3. m - (n + 1) + 1 = m - n /\ (~(n + 1 <= m) => m - n = 0)
    BY <1>1 DEF m
  <1>4. \A i \in 1..(m - n) : (n + 1) + i - 1 = n + i /\ n + i \in 1..m
    BY <1>1
  <1>5. Len(t) = m - n /\ DOMAIN t = 1..Len(t)
    BY <1>2, <1>3
  <1>6. /\ t \in Seq(S) /\ DOMAIN t = 1..(m - n) /\ Len(t) = m - n
        /\ \A i \in 1..(m - n) : t[i] = s[n + i] /\ n + i \in 1..m
    BY <1>2, <1>3, <1>4, <1>5
  <1> QED  BY <1>6 DEF t, m

LEMMA AcknowledgeIngest ==
  ASSUME IngestInv, Acknowledge
  PROVE  IngestInv'
  <1> DEFINE n == Len(request.batch)
             m == Len(outbox)
  <1>1. /\ Loaded /\ AgentInv /\ OutboxInv /\ RequestInv /\ SeriesInv /\ made \in Nat /\ Gen \in Nat
        /\ request.left = <<>> /\ request' = NoRequest
        /\ outbox' = SubSeq(outbox, n + 1, m) /\ acked' = acked \cup ToSet(request.batch)
        /\ UNCHANGED <<setup, pc, app, told, made, kept, errors, measured, failed, rejected>>
    BY GenNat DEF IngestInv, AgentInv, Acknowledge, Handled
  <1>2. /\ outbox \in Seq(measured) /\ request.batch \in Seq(measured) /\ n \in Nat /\ m \in Nat /\ n <= m
        /\ DOMAIN outbox = 1..m /\ DOMAIN request.batch = 1..n
        /\ \A i \in 1..n : request.batch[i] = outbox[i]
        /\ \A i \in 1..m : outbox[i] \in measured
    BY <1>1 DEF OutboxInv, RequestInv
  <1>3. Done = n
    BY <1>1, <1>2 DEF Done
  <1>4. /\ outbox' \in Seq(measured) /\ DOMAIN outbox' = 1..(m - n) /\ Len(outbox') = m - n
        /\ \A i \in 1..(m - n) : outbox'[i] = outbox[n + i] /\ n + i \in 1..m
    <2>1. LET t == SubSeq(outbox, n + 1, m) IN
          /\ t \in Seq(measured) /\ DOMAIN t = 1..(m - n) /\ Len(t) = m - n
          /\ \A i \in 1..(m - n) : t[i] = outbox[n + i] /\ n + i \in 1..m
      <3>1. PICK k : k = n
        OBVIOUS
      <3>2. k \in Nat /\ k <= Len(outbox) /\ outbox \in Seq(measured)
        BY <1>2, <3>1
      <3>3. LET t == SubSeq(outbox, k + 1, Len(outbox)) IN
            /\ t \in Seq(measured) /\ DOMAIN t = 1..(Len(outbox) - k) /\ Len(t) = Len(outbox) - k
            /\ \A i \in 1..(Len(outbox) - k) : t[i] = outbox[k + i] /\ k + i \in 1..Len(outbox)
        BY <3>2, RestOf
      <3> QED  BY <3>1, <3>3
    <2> QED  BY <1>1, <2>1
  <1>5. ToSet(request.batch) = {outbox[i] : i \in 1..n}
    BY <1>2 DEF ToSet
  <1> HIDE DEF n, m
  <1>6. Loaded'
    BY <1>1, LoadedKept DEF Loaded, Serving
  <1>7. AgentInv'
    BY <1>1, AgentKept
  <1>8. OutboxInv'
    <2>1. \A i, j \in DOMAIN outbox' : i < j => outbox'[i].slot < outbox'[j].slot
      <3> SUFFICES ASSUME NEW i \in 1..(m - n), NEW j \in 1..(m - n), i < j
                   PROVE  outbox'[i].slot < outbox'[j].slot
        BY <1>4
      <3>1. n + i < n + j
        BY <1>2
      <3>2. n + i \in DOMAIN outbox /\ n + j \in DOMAIN outbox
        BY <1>2, <1>4
      <3>3. outbox[n + i].slot < outbox[n + j].slot
        BY <1>1, <3>1, <3>2 DEF OutboxInv
      <3> QED  BY <1>4, <3>3
    <2>2. ASSUME NEW w \in measured PROVE w \in acked' \/ \E i \in DOMAIN outbox' : outbox'[i] = w
      <3>1. CASE w \in acked
        BY <1>1, <3>1
      <3>2. CASE \E i \in DOMAIN outbox : outbox[i] = w
        <4>1. PICK i \in 1..m : outbox[i] = w
          BY <1>2, <3>2
        <4>2. CASE i <= n
          <5>1. i \in 1..n
            BY <1>2, <4>2
          <5> QED  BY <1>1, <1>5, <4>1, <5>1
        <4>3. CASE i > n
          <5>1. i - n \in 1..(m - n) /\ n + (i - n) = i
            BY <1>2, <4>3
          <5> QED  BY <1>4, <4>1, <5>1
        <4> QED  BY <1>2, <4>2, <4>3
      <3> QED  BY <1>1, <3>1, <3>2 DEF OutboxInv
    <2>3. acked' \subseteq measured
      <3>1. \A i \in 1..n : i \in 1..m
        BY <1>2
      <3> QED  BY <1>1, <1>2, <1>5, <3>1 DEF OutboxInv
    <2>4. ASSUME NEW w \in acked', NEW i \in DOMAIN outbox' PROVE w.slot < outbox'[i].slot
      <3>1. outbox'[i] = outbox[n + i] /\ n + i \in 1..m /\ i \in 1..(m - n)
        BY <1>4
      <3>2. CASE w \in acked
        BY <1>1, <1>2, <3>1, <3>2 DEF OutboxInv
      <3>3. CASE w \in ToSet(request.batch)
        <4>1. PICK j \in 1..n : w = outbox[j]
          BY <1>5, <3>3
        <4>2. j \in 1..m /\ j < n + i
          BY <1>2, <3>1
        <4> QED  BY <1>1, <1>2, <3>1, <4>1, <4>2 DEF OutboxInv
      <3> QED  BY <1>1, <3>2, <3>3
    <2> QED  BY <1>1, <1>4, <2>1, <2>2, <2>3, <2>4 DEF OutboxInv
  <1>9. RequestInv' /\ Done' = 0
    <2>1. Gen' \in Nat
      BY <1>1 DEF Gen
    <2> QED  BY <1>1, <1>8, <2>1, RequestEnds
  <1>10. SeriesInv'
    <2>1. \A w : Key(w)' = Key(w) /\ (Answered(w) <=> Answered(w)')
      BY <1>1 DEF Answered, Key, Agent
    <2>2. BatchAnswered'
      BY <1>9 DEF BatchAnswered
    <2>3. \A w \in ToSet(request.batch) : Answered(w)
      BY <1>1, <1>2, <1>3, <1>5 DEF SeriesInv, BatchAnswered
    <2>4. \A w \in acked' : Answered(w)'
      BY <1>1, <2>1, <2>3 DEF SeriesInv
    <2>5. Gen' = Gen
      BY <1>1 DEF Gen
    <2> QED  BY <1>1, <2>1, <2>2, <2>4, <2>5 DEF SeriesInv
  <1> QED  BY <1>6, <1>7, <1>8, <1>9, <1>10 DEF IngestInv

-----------------------------------------------------------------------------
(* The master *)

LEMMA IngestInit ==
  ASSUME Init
  PROVE  IngestInv
  <1> DEFINE cs == setup.configs
  <1>1. setup \in Setups /\ cs \in Seq(Range(cs)) /\ cs # <<>>
    BY MasterAssumption DEF Init
  <1>2. /\ app = <<>> /\ Gen = 0 /\ pc = "load" /\ ~Serving /\ told = [gen |-> 0, paths |-> {}]
        /\ outbox = <<>> /\ request = NoRequest /\ made = 0 /\ kept = {} /\ errors = 0
        /\ measured = {} /\ acked = {} /\ failed = {} /\ rejected = {}
    BY DEF Init, Gen, Serving
  <1>3. Loaded
    <2>1. Len(cs) \in Nat /\ Len(cs) > 0
      BY <1>1
    <2>2. <<>> \in Seq({AppOf(c) : c \in Range(cs)})
      OBVIOUS
    <2>3. \A g \in 1..0 : FALSE
      OBVIOUS
    <2> QED  BY <1>1, <1>2, <2>1, <2>2, <2>3 DEF Loaded
  <1>4. AgentInv
    BY <1>2 DEF AgentInv
  <1>5. OutboxInv
    BY <1>2 DEF OutboxInv
  <1>6. RequestInv /\ Done = 0
    BY <1>2 DEF RequestInv, Done, NoRequest
  <1>7. SeriesInv
    BY <1>2, <1>6 DEF SeriesInv, BatchAnswered
  <1> QED  BY <1>3, <1>4, <1>5, <1>6, <1>7 DEF IngestInv

LEMMA IngestNext ==
  ASSUME IngestInv, [Next]_vars
  PROVE  IngestInv'
  <1>1. Loaded
    BY DEF IngestInv
  <1>2. CASE UNCHANGED mvars
    <2>1. Loaded'
      BY <1>1, <1>2, LoadedKept DEF mvars, Loaded, Serving
    <2> QED  BY <1>2, <2>1, Beside DEF mvars
  <1>3. CASE Next
    <2>1. CASE SinksStep
      BY <1>2, <2>1 DEF SinksStep
    <2>2. CASE Load
      BY <2>2, LoadIngest
    <2>3. CASE LoadFails \/ StartFails \/ Quit \/ Reload
      BY <2>3, ProcessIngest
    <2>4. CASE \E path \in PolledNow : PolledRound(path)
      BY <2>4, PolledIngest
    <2>5. CASE Fetch
      BY <2>5, FetchIngest
    <2>6. CASE Post
      BY <2>6, PostIngest
    <2>7. CASE Unauthorized \/ LoseAnswer
      BY <2>7, UnansweredIngest
    <2>8. CASE HandleRound
      BY <2>8, HandleIngest
    <2>9. CASE Acknowledge
      BY <2>9, AcknowledgeIngest
    <2>10. CASE \E path \in told.paths : Measure(path)
      BY <2>10, MeasureIngest
    <2> QED  BY <1>3, <2>1, <2>2, <2>3, <2>4, <2>5, <2>6, <2>7, <2>8, <2>9, <2>10 DEF Next
  <1> QED  BY <1>2, <1>3 DEF vars

LEMMA IngestMeans ==
  ASSUME IngestInv
  PROVE  IngestAccounted
  <1>1. AgentInv /\ OutboxInv /\ SeriesInv
    BY DEF IngestInv
  <1>2. \A w \in acked : \/ <<Key(w).key, w.slot>> \in kept
                         \/ Key(w) \in failed
                         \/ \E r \in rejected : r[1] = w
    BY <1>1 DEF SeriesInv, Answered
  <1>3. \A w \in measured \ acked : w \in ToSet(outbox)
    BY <1>1 DEF OutboxInv, ToSet
  <1> QED  BY <1>1, <1>2, <1>3 DEF SeriesInv, IngestAccounted, Key

(* For every sequence of configurations, agent, secret and any number of    *)
(* faults: what the master acknowledges it has recorded, or could not, or   *)
(* must not; the rest the agent keeps; and an agent's series holds only     *)
(* what the agent measured.                                                 *)
THEOREM IngestIsAccounted == Spec => []IngestAccounted
  <1>1. Init => IngestInv
    BY IngestInit
  <1>2. IngestInv /\ [Next]_vars => IngestInv'
    BY IngestNext
  <1>3. IngestInv => IngestAccounted
    BY IngestMeans
  <1> QED  BY <1>1, <1>2, <1>3, PTL DEF Spec

-----------------------------------------------------------------------------
(* What the sinks hold *)

Entries == {<<>>} \cup UNION {[keys -> [slot : Nat, rounds : Nat]] : keys \in SUBSET Texts}
Sinks ==
  [queue : Seq(Nat), hand : Seq(Nat), doing : {"none", "idle", "post", "send", "away", "done"},
   tries : 0..1, conn : {"none", "live", "dead"}, lagged : BOOLEAN, entries : Entries]

Cap == IF kind = "live" THEN FeedCap ELSE ChanCap
Lot == IF kind = "influx" THEN MaxBatch ELSE 1

Rising(s) == \A i, j \in DOMAIN s : i < j => s[i] < s[j]
Before(s, t) == \A i \in DOMAIN s : \A j \in DOMAIN t : s[i] < t[j]
Orderly(s) == Rising(s.queue) /\ Rising(s.hand) /\ Before(s.hand, s.queue)

(* A sink of the kind there is: only a sink that is at work has something   *)
(* in its hands, and what went wrong with it the service did.              *)
Working(s) ==
  /\ Len(s.queue) <= Cap /\ Len(s.hand) <= Lot
  /\ s.hand # <<>> => IF kind = "influx" THEN s.doing \in {"idle", "post"} ELSE s.doing = "send"
  /\ kind = "influx" /\ s.doing = "idle" => Len(s.hand) < MaxBatch
  /\ kind = "prometheus" => s.doing = "none" /\ s.queue = <<>>
  /\ kind # "prometheus" => s.entries = <<>>
  /\ s.conn = "dead" => troubles < setup.troubles
  /\ s.tries = 1 => troubles < setup.troubles /\ kind = "graphite"
  /\ s.tries = 1 /\ s.conn = "dead" => troubles + 2 <= setup.troubles

(* Every generation has a sink, which sends in the order of emission. *)
SinkInv ==
  /\ kind \in setup.kinds /\ service \in {"up", "stalled", "down"} /\ troubles \in 0..setup.troubles
  /\ sink \in [1..Gen -> Sinks]
  /\ \A g \in 1..Gen : Orderly(sink[g]) /\ Working(sink[g])

(* Where an emission is, given the log, what each generation's sink holds,  *)
(* what came out and what was lost: nowhere twice, and in order; and        *)
(* somewhere.                                                              *)
Placed(entered, held, passed, dropped) ==
  /\ \A g \in DOMAIN held : \A n \in held[g] : n \in DOMAIN entered /\ entered[n].gen = g
  /\ \A i \in DOMAIN passed : passed[i] \in DOMAIN entered
  /\ \A i, j \in DOMAIN passed :
       i < j /\ entered[passed[i]].gen = entered[passed[j]].gen => passed[i] < passed[j]
  /\ \A i \in DOMAIN passed : \A g \in DOMAIN held : \A n \in held[g] :
       entered[passed[i]].gen = g => passed[i] < n
  /\ \A l \in dropped : l[1] \in DOMAIN entered
  /\ \A l, m \in dropped : l[1] = m[1] => l = m
  /\ \A l \in dropped : /\ \A i \in DOMAIN passed : passed[i] # l[1]
                        /\ \A g \in DOMAIN held : l[1] \notin held[g]

Somewhere(n, held, passed, dropped) ==
  \/ \E i \in DOMAIN passed : passed[i] = n
  \/ \E g \in DOMAIN held : n \in held[g]
  \/ \E l \in dropped : l[1] = n
Everywhere(entered, held, passed, dropped) ==
  \A n \in DOMAIN entered : Somewhere(n, held, passed, dropped)

Holds(s) == ToSet(s.queue) \cup ToSet(s.hand)
Held == [g \in 1..Gen |-> Holds(sink[g])]

PlaceInv ==
  /\ log \in Seq([key : Texts, slot : Nat, gen : 1..Gen]) /\ out \in Seq(Nat)
  /\ Placed(log, Held, out, lost)
  /\ kind # "prometheus" => Everywhere(log, Held, out, lost)

(* What is lost is lost for a reason the service gave. *)
Reason(l) ==
  /\ l[2] = "refused" => l[3] = "down" \/ (kind = "graphite" /\ setup.troubles - troubles >= 2)
  /\ l[2] = "unread" => troubles < setup.troubles

(* Between them these say where each emission is. *)
AccountInv == SinkInv /\ PlaceInv /\ \A l \in lost : Reason(l)

-----------------------------------------------------------------------------
(* Queues *)

LEMMA HeadAndTail ==
  ASSUME NEW q \in Seq(Nat), q # <<>>
  PROVE  /\ Len(q) \in Nat \ {0} /\ DOMAIN q = 1..Len(q) /\ 1 \in DOMAIN q /\ Head(q) = q[1] /\ q[1] \in Nat
         /\ Tail(q) \in Seq(Nat) /\ Len(Tail(q)) = Len(q) - 1 /\ DOMAIN Tail(q) = 1..(Len(q) - 1)
         /\ \A i \in DOMAIN Tail(q) : Tail(q)[i] = q[i + 1] /\ i + 1 \in DOMAIN q /\ i + 1 > 1
         /\ ToSet(q) = {Head(q)} \cup ToSet(Tail(q))
         /\ Rising(q) => Rising(Tail(q)) /\ \A n \in ToSet(Tail(q)) : Head(q) < n
  <1>1. /\ Len(q) \in Nat \ {0} /\ DOMAIN q = 1..Len(q) /\ 1 \in DOMAIN q /\ Head(q) = q[1] /\ q[1] \in Nat
        /\ Tail(q) \in Seq(Nat) /\ Len(Tail(q)) = Len(q) - 1 /\ DOMAIN Tail(q) = 1..(Len(q) - 1)
    OBVIOUS
  <1>2. \A i \in DOMAIN Tail(q) : Tail(q)[i] = q[i + 1] /\ i + 1 \in DOMAIN q /\ i + 1 > 1
    OBVIOUS
  <1> DEFINE t == Tail(q)
  <1>3. t \in Seq(Nat) /\ DOMAIN t = 1..(Len(q) - 1) /\ \A i \in DOMAIN t : t[i] = q[i + 1] /\ i + 1 \in DOMAIN q
    BY <1>1, <1>2
  <1> HIDE DEF t
  <1>4. ToSet(q) = {Head(q)} \cup ToSet(t)
    <2>1. ASSUME NEW i \in DOMAIN q, i # 1 PROVE \E j \in DOMAIN t : t[j] = q[i]
      <3> DEFINE j == i - 1
      <3>1. j \in DOMAIN t /\ j + 1 = i
        BY <1>1, <1>3, <2>1
      <3> HIDE DEF j
      <3> QED  BY <1>3, <3>1
    <2>2. Head(q) = q[1] /\ 1 \in DOMAIN q
      BY <1>1
    <2>3. \A n \in ToSet(q) : n = Head(q) \/ n \in ToSet(t)
      BY <2>1, <2>2 DEF ToSet
    <2>4. ToSet(t) \subseteq ToSet(q)
      BY <1>3 DEF ToSet
    <2>5. Head(q) \in ToSet(q)
      BY <2>2 DEF ToSet
    <2> QED  BY <2>3, <2>4, <2>5
  <1>5. ASSUME Rising(q) PROVE Rising(t) /\ \A n \in ToSet(t) : Head(q) < n
    <2>1. \A i, j \in DOMAIN t : i < j => i + 1 < j + 1
      BY <1>1, <1>3
    <2>2. \A i \in DOMAIN t : 1 < i + 1
      BY <1>1, <1>3
    <2> QED  BY <1>1, <1>3, <1>5, <2>1, <2>2 DEF Rising, ToSet
  <1> QED  BY <1>1, <1>2, <1>4, <1>5 DEF t

LEMMA OneMore ==
  ASSUME NEW h \in Seq(Nat), NEW x \in Nat
  PROVE  /\ Append(h, x) \in Seq(Nat) /\ Len(Append(h, x)) = Len(h) + 1 /\ Append(h, x) # <<>>
         /\ ToSet(Append(h, x)) = ToSet(h) \cup {x}
         /\ Rising(h) /\ (\A n \in ToSet(h) : n < x) => Rising(Append(h, x))
  <1> DEFINE a == Append(h, x)
  <1>1. /\ a \in Seq(Nat) /\ Len(a) = Len(h) + 1 /\ Len(h) \in Nat /\ a # <<>>
        /\ DOMAIN a = 1..(Len(h) + 1) /\ DOMAIN h = 1..Len(h)
        /\ \A i \in DOMAIN h : a[i] = h[i]
        /\ a[Len(h) + 1] = x
    OBVIOUS
  <1> HIDE DEF a
  <1>2. \A i \in DOMAIN a : i \in DOMAIN h \/ i = Len(h) + 1
    BY <1>1
  <1>3. Len(h) + 1 \in DOMAIN a /\ \A i \in DOMAIN h : i \in DOMAIN a
    BY <1>1
  <1>4. ToSet(a) = ToSet(h) \cup {x}
    <2> DEFINE last == Len(h) + 1
    <2>1. a[last] = x /\ last \in DOMAIN a /\ \A i \in DOMAIN a : i \in DOMAIN h \/ i = last
      BY <1>1, <1>2, <1>3
    <2> HIDE DEF last
    <2> QED  BY <1>1, <1>3, <2>1 DEF ToSet
  <1>5. ASSUME Rising(h), \A n \in ToSet(h) : n < x PROVE Rising(a)
    <2> SUFFICES ASSUME NEW i \in DOMAIN a, NEW j \in DOMAIN a, i < j PROVE a[i] < a[j]
      BY DEF Rising
    <2>1. i \in DOMAIN h
      BY <1>1
    <2>2. CASE j \in DOMAIN h
      BY <1>1, <1>5, <2>1, <2>2 DEF Rising
    <2>3. CASE j = Len(h) + 1
      BY <1>1, <1>5, <2>1, <2>3 DEF ToSet
    <2> QED  BY <1>2, <2>2, <2>3
  <1> QED  BY <1>1, <1>4, <1>5 DEF a

LEMMA BeforeIs ==
  ASSUME NEW s \in Seq(Nat), NEW t \in Seq(Nat)
  PROVE  Before(s, t) <=> \A m \in ToSet(s) : \A n \in ToSet(t) : m < n
  BY DEF Before, ToSet

LEMMA Emptied ==
  ToSet(<<>>) = {} /\ Rising(<<>>) /\ (\A s : Before(s, <<>>) /\ Before(<<>>, s)) /\ <<>> \in Seq(Nat) /\ Len(<<>>) = 0
  BY DEF ToSet, Rising, Before

(* From the queue into the hands. *)
LEMMA Received ==
  ASSUME NEW q \in Seq(Nat), NEW h \in Seq(Nat), q # <<>>, Rising(q), Rising(h), Before(h, q)
  PROVE  LET t == Tail(q)
             a == Append(h, Head(q)) IN
         /\ Rising(t) /\ Rising(a) /\ Before(a, t)
         /\ ToSet(t) \cup ToSet(a) = ToSet(q) \cup ToSet(h)
  <1> DEFINE t == Tail(q)
             x == Head(q)
             a == Append(h, x)
  <1>1. x \in Nat /\ t \in Seq(Nat) /\ ToSet(q) = {x} \cup ToSet(t) /\ Rising(t) /\ \A n \in ToSet(t) : x < n
    BY HeadAndTail
  <1> HIDE DEF t, x
  <1>2. \A m \in ToSet(h) : \A n \in ToSet(q) : m < n
    BY BeforeIs
  <1>3. a \in Seq(Nat) /\ ToSet(a) = ToSet(h) \cup {x} /\ Rising(a)
    BY <1>1, <1>2, OneMore
  <1> HIDE DEF a
  <1>4. Before(a, t)
    BY <1>1, <1>2, <1>3, BeforeIs
  <1> QED  BY <1>1, <1>3, <1>4 DEF a, t, x

-----------------------------------------------------------------------------
(* Places *)

(* One more emission, which the sink of its generation takes. *)
LEMMA PlacedTaken ==
  ASSUME NEW R, NEW entered \in Seq(R), NEW r \in R, NEW held, NEW passed, NEW dropped,
         NEW g \in DOMAIN held, r.gen = g, Placed(entered, held, passed, dropped)
  PROVE  LET n     == Len(entered) + 1
             more  == Append(entered, r)
             taken == [held EXCEPT ![g] = @ \cup {n}] IN
         /\ Placed(more, held, passed, dropped) /\ Placed(more, taken, passed, dropped)
         /\ Everywhere(entered, held, passed, dropped) => Everywhere(more, taken, passed, dropped)
  <1> DEFINE n     == Len(entered) + 1
             more  == Append(entered, r)
             taken == [held EXCEPT ![g] = @ \cup {n}]
  <1>1. /\ Len(entered) \in Nat /\ DOMAIN entered = 1..Len(entered) /\ DOMAIN more = 1..(Len(entered) + 1)
        /\ \A i \in DOMAIN entered : more[i] = entered[i]
        /\ more[Len(entered) + 1] = r
    OBVIOUS
  <1>2. /\ n \in DOMAIN more /\ more[n] = r /\ \A i \in DOMAIN more : i \in DOMAIN entered \/ i = n
        /\ \A i \in DOMAIN entered : i \in DOMAIN more /\ i < n /\ i # n /\ more[i] = entered[i]
    BY <1>1
  <1>3. /\ DOMAIN taken = DOMAIN held /\ taken[g] = held[g] \cup {n}
        /\ \A f \in DOMAIN held : f # g => taken[f] = held[f]
    OBVIOUS
  <1> HIDE DEF n, more, taken
  <1>4. Placed(more, held, passed, dropped)
    BY <1>2 DEF Placed
  <1>5. \A f \in DOMAIN held : \A m \in taken[f] : m \in held[f] \/ (f = g /\ m = n)
    BY <1>3
  <1>6. Placed(more, taken, passed, dropped)
    <2>1. \A f \in DOMAIN taken : \A m \in taken[f] : m \in DOMAIN more /\ more[m].gen = f
      BY <1>2, <1>3, <1>4, <1>5 DEF Placed
    <2>2. \A i \in DOMAIN passed : passed[i] \in DOMAIN entered
      BY DEF Placed
    <2>3. \A i \in DOMAIN passed : \A f \in DOMAIN taken : \A m \in taken[f] :
            more[passed[i]].gen = f => passed[i] < m
      BY <1>2, <1>3, <1>4, <1>5, <2>2 DEF Placed
    <2>4. \A l \in dropped : l[1] \in DOMAIN entered
      BY DEF Placed
    <2>5. \A l \in dropped : \A f \in DOMAIN taken : l[1] \notin taken[f]
      BY <1>2, <1>3, <1>4, <1>5, <2>4 DEF Placed
    <2> QED  BY <1>4, <2>1, <2>3, <2>5 DEF Placed
  <1>7. ASSUME Everywhere(entered, held, passed, dropped) PROVE Everywhere(more, taken, passed, dropped)
    <2> SUFFICES ASSUME NEW m \in DOMAIN more PROVE Somewhere(m, taken, passed, dropped)
      BY DEF Everywhere
    <2>1. CASE m = n
      BY <1>3, <2>1 DEF Somewhere
    <2>2. CASE m \in DOMAIN entered
      <3>1. Somewhere(m, held, passed, dropped)
        BY <1>7, <2>2 DEF Everywhere
      <3>2. \A f \in DOMAIN held : held[f] \subseteq taken[f]
        BY <1>3
      <3> QED  BY <1>3, <3>1, <3>2 DEF Somewhere
    <2> QED  BY <1>2, <2>1, <2>2
  <1> QED  BY <1>4, <1>6, <1>7 DEF n, more, taken

Losses(some, how, then) == {<<n, how, then>> : n \in some}

(* Sinks drop some of what they hold. *)
LEMMA PlacedDropped ==
  ASSUME NEW entered, NEW held, NEW passed \in Seq(Nat), NEW dropped, NEW left, NEW some, NEW how, NEW then,
         Placed(entered, held, passed, dropped),
         DOMAIN left = DOMAIN held, \A g \in DOMAIN held : left[g] = held[g] \ some,
         \A n \in some : \E g \in DOMAIN held : n \in held[g]
  PROVE  LET all == dropped \cup Losses(some, how, then) IN
         /\ Placed(entered, left, passed, all)
         /\ Everywhere(entered, held, passed, dropped) => Everywhere(entered, left, passed, all)
  <1> DEFINE now == Losses(some, how, then)
             all == dropped \cup now
  <1>1. /\ \A l \in now : l[1] \in some /\ l = <<l[1], how, then>>
        /\ \A n \in some : \E l \in now : l[1] = n
    <2>1. \A l \in now : l[1] \in some /\ l = <<l[1], how, then>>
      BY DEF Losses
    <2>2. \A n \in some : <<n, how, then>> \in now /\ <<n, how, then>>[1] = n
      BY DEF Losses
    <2> HIDE DEF now
    <2> QED  BY <2>1, <2>2
  <1> HIDE DEF now
  <1>2. Placed(entered, left, passed, all)
    <2>1. \A n \in some : \E g \in DOMAIN held : n \in held[g] /\ n \in DOMAIN entered /\ entered[n].gen = g
      BY DEF Placed
    <2>2. \A l \in all : l[1] \in DOMAIN entered
      BY <1>1, <2>1 DEF Placed
    <2>3. \A l \in dropped : l[1] \notin some
      BY DEF Placed
    <2>4. \A l, m \in all : l[1] = m[1] => l = m
      <3> SUFFICES ASSUME NEW l \in all, NEW m \in all, l[1] = m[1] PROVE l = m
        OBVIOUS
      <3>1. CASE l \in dropped /\ m \in dropped
        BY <3>1 DEF Placed
      <3>2. CASE l \in now /\ m \in now
        BY <1>1, <3>2
      <3>3. CASE (l \in dropped /\ m \in now) \/ (l \in now /\ m \in dropped)
        BY <1>1, <2>3, <3>3
      <3> QED  BY <3>1, <3>2, <3>3
    <2>5. \A i \in DOMAIN passed : passed[i] \notin some
      <3> SUFFICES ASSUME NEW i \in DOMAIN passed, passed[i] \in some PROVE FALSE
        OBVIOUS
      <3>1. PICK g \in DOMAIN held : passed[i] \in held[g] /\ entered[passed[i]].gen = g
        BY <2>1
      <3>2. passed[i] < passed[i]
        BY <3>1 DEF Placed
      <3>3. passed[i] \in Nat
        OBVIOUS
      <3> QED  BY <3>2, <3>3
    <2>6. \A l \in all : \A i \in DOMAIN passed : passed[i] # l[1]
      BY <1>1, <2>5 DEF Placed
    <2>7. \A l \in all : \A g \in DOMAIN left : l[1] \notin left[g]
      BY <1>1 DEF Placed
    <2> QED  BY <2>2, <2>4, <2>6, <2>7 DEF Placed
  <1>3. ASSUME Everywhere(entered, held, passed, dropped) PROVE Everywhere(entered, left, passed, all)
    <2> SUFFICES ASSUME NEW m \in DOMAIN entered PROVE Somewhere(m, left, passed, all)
      BY DEF Everywhere
    <2>1. Somewhere(m, held, passed, dropped)
      BY <1>3 DEF Everywhere
    <2>2. CASE m \in some
      BY <1>1, <2>2 DEF Somewhere
    <2>3. CASE m \notin some
      BY <2>1, <2>3 DEF Somewhere
    <2> QED  BY <2>2, <2>3
  <1> QED  BY <1>2, <1>3 DEF now

(* A sink passes on the first of what it holds. *)
LEMMA PlacedPassed ==
  ASSUME NEW entered, DOMAIN entered \subseteq Nat, NEW held, NEW passed \in Seq(Nat), NEW dropped, NEW left,
         NEW first \in Seq(Nat), Rising(first), NEW g \in DOMAIN held, ToSet(first) \subseteq held[g],
         Placed(entered, held, passed, dropped),
         DOMAIN left = DOMAIN held, left[g] = held[g] \ ToSet(first),
         \A f \in DOMAIN held : f # g => left[f] = held[f],
         \A m \in ToSet(first) : \A n \in left[g] : m < n
  PROVE  LET all == passed \o first IN
         /\ all \in Seq(Nat) /\ Placed(entered, left, all, dropped)
         /\ Everywhere(entered, held, passed, dropped) => Everywhere(entered, left, all, dropped)
  <1> DEFINE all == passed \o first
             p   == Len(passed)
             q   == Len(first)
  <1>1. /\ all \in Seq(Nat) /\ Len(all) = p + q /\ p \in Nat /\ q \in Nat /\ DOMAIN all = 1..(p + q)
        /\ DOMAIN passed = 1..p /\ DOMAIN first = 1..q
        /\ \A i \in 1..(p + q) : all[i] = IF i <= p THEN passed[i] ELSE first[i - p]
    <2>1. /\ all \in Seq(Nat) /\ Len(all) = Len(passed) + Len(first)
          /\ \A i \in 1..(Len(passed) + Len(first)) :
               all[i] = IF i <= Len(passed) THEN passed[i] ELSE first[i - Len(passed)]
      BY ConcatProperties
    <2>2. DOMAIN all = 1..Len(all)
      BY <2>1
    <2> QED  BY <2>1, <2>2
  <1> HIDE DEF all, p, q
  <1>2. ASSUME NEW i \in DOMAIN all
        PROVE  \/ i \in DOMAIN passed /\ all[i] = passed[i]
               \/ i > p /\ i - p \in DOMAIN first /\ all[i] = first[i - p] /\ all[i] \in ToSet(first)
    <2>1. CASE i <= p
      BY <1>1, <2>1
    <2>2. CASE i > p
      <3> DEFINE k == i - p
      <3>1. k \in DOMAIN first /\ ~(i <= p)
        BY <1>1, <2>2
      <3>2. all[i] = first[k]
        BY <1>1, <3>1
      <3> HIDE DEF k
      <3>3. all[i] \in ToSet(first)
        BY <3>1, <3>2 DEF ToSet
      <3> QED  BY <2>2, <3>1, <3>2, <3>3 DEF k
    <2> QED  BY <1>1, <2>1, <2>2
  <1>3. /\ \A i \in DOMAIN passed : i \in DOMAIN all /\ all[i] = passed[i]
        /\ \A n \in ToSet(first) : \E i \in DOMAIN all : all[i] = n
    <2>1. \A i \in DOMAIN passed : i \in DOMAIN all /\ all[i] = passed[i]
      BY <1>1
    <2>2. ASSUME NEW k \in DOMAIN first PROVE \E i \in DOMAIN all : all[i] = first[k]
      <3> DEFINE i == p + k
      <3>1. i \in DOMAIN all /\ ~(i <= p) /\ i - p = k
        BY <1>1, SMTT(30)
      <3> HIDE DEF i
      <3> QED  BY <1>1, <3>1
    <2> QED  BY <2>1, <2>2 DEF ToSet
  <1>4. \A n \in ToSet(first) : n \in DOMAIN entered /\ entered[n].gen = g /\ n \in Nat
    BY DEF Placed
  <1>5. \A f \in DOMAIN held : left[f] \subseteq held[f]
    OBVIOUS
  <1>6. Placed(entered, left, all, dropped)
    <2>1. \A i \in DOMAIN all : all[i] \in DOMAIN entered
      BY <1>2, <1>4 DEF Placed
    <2>2. ASSUME NEW i \in DOMAIN all, NEW j \in DOMAIN all, i < j, entered[all[i]].gen = entered[all[j]].gen
          PROVE  all[i] < all[j]
      <3>1. CASE i \in DOMAIN passed /\ all[i] = passed[i]
        <4>1. CASE j \in DOMAIN passed /\ all[j] = passed[j]
          BY <2>2, <3>1, <4>1 DEF Placed
        <4>2. CASE all[j] \in ToSet(first)
          BY <1>4, <2>2, <3>1, <4>2 DEF Placed
        <4> QED  BY <1>2, <4>1, <4>2
      <3>2. CASE i > p /\ i - p \in DOMAIN first /\ all[i] = first[i - p]
        <4>1. j > p /\ j \notin DOMAIN passed /\ i - p < j - p
          <5>1. i \in Nat /\ j \in Nat /\ p \in Nat /\ i < j /\ i > p
            BY <1>1, <2>2, <3>2
          <5>2. j > p /\ i - p < j - p /\ ~(j <= p)
            BY <5>1
          <5> QED  BY <1>1, <5>1, <5>2
        <4>2. j - p \in DOMAIN first /\ all[j] = first[j - p]
          BY <1>2, <4>1
        <4> QED  BY <3>2, <4>1, <4>2 DEF Rising
      <3> QED  BY <1>2, <3>1, <3>2
    <2>3. ASSUME NEW i \in DOMAIN all, NEW f \in DOMAIN left, NEW n \in left[f], entered[all[i]].gen = f
          PROVE  all[i] < n
      <3>1. CASE i \in DOMAIN passed /\ all[i] = passed[i]
        BY <1>5, <2>3, <3>1 DEF Placed
      <3>2. CASE all[i] \in ToSet(first)
        BY <1>4, <2>3, <3>2
      <3> QED  BY <1>2, <3>1, <3>2
    <2>4. \A l \in dropped : \A i \in DOMAIN all : all[i] # l[1]
      BY <1>2 DEF Placed
    <2> QED  BY <1>5, <2>1, <2>2, <2>3, <2>4 DEF Placed
  <1>7. ASSUME Everywhere(entered, held, passed, dropped) PROVE Everywhere(entered, left, all, dropped)
    <2> SUFFICES ASSUME NEW m \in DOMAIN entered PROVE Somewhere(m, left, all, dropped)
      BY DEF Everywhere
    <2>1. Somewhere(m, held, passed, dropped)
      BY <1>7 DEF Everywhere
    <2>2. CASE \E i \in DOMAIN passed : passed[i] = m
      BY <1>3, <2>2 DEF Somewhere
    <2>3. CASE \E f \in DOMAIN held : m \in held[f]
      <3>1. PICK f \in DOMAIN held : m \in held[f]
        BY <2>3
      <3>2. CASE m \in left[f]
        BY <3>2 DEF Somewhere
      <3>3. CASE m \notin left[f]
        BY <1>3, <3>1, <3>3 DEF Somewhere
      <3> QED  BY <3>2, <3>3
    <2>4. CASE \E l \in dropped : l[1] = m
      BY <2>4 DEF Somewhere
    <2> QED  BY <2>1, <2>2, <2>3, <2>4 DEF Somewhere
  <1> QED  BY <1>1, <1>6, <1>7 DEF all

-----------------------------------------------------------------------------
(* A sink takes a step *)

LEMMA TroublesNat ==
  ASSUME SinkInv, Loaded
  PROVE  setup.troubles \in Nat /\ troubles \in Nat /\ kind \in Kinds
  BY MasterAssumption DEF SinkInv, Loaded

LEMMA SinkTurns ==
  ASSUME SinkInv, NEW g \in 1..Gen, NEW s \in Sinks, Orderly(s), Working(s),
         sink' = [sink EXCEPT ![g] = s], UNCHANGED <<setup, app, kind, service, troubles>>
  PROVE  /\ SinkInv' /\ DOMAIN Held = 1..Gen /\ DOMAIN Held' = DOMAIN Held
         /\ Held[g] = Holds(sink[g]) /\ Held'[g] = Holds(s)
         /\ \A f \in DOMAIN Held : f # g => Held'[f] = Held[f]
  <1>1. /\ Gen' = Gen /\ sink' \in [1..Gen -> Sinks] /\ sink'[g] = s
        /\ \A f \in 1..Gen : f # g => sink'[f] = sink[f]
    BY DEF SinkInv, Gen
  <1>2. ASSUME NEW f \in 1..Gen, NEW r, r = sink'[f] PROVE Orderly(r) /\ Working(r)'
    <2>1. Orderly(r) /\ Working(r)
      BY <1>1, <1>2 DEF SinkInv
    <2> QED  BY <2>1 DEF Working, Cap, Lot
  <1>3. \A f \in 1..Gen' : Orderly(sink'[f]) /\ Working(sink[f])'
    <2> SUFFICES ASSUME NEW f \in 1..Gen PROVE Orderly(sink'[f]) /\ Working(sink[f])'
      BY <1>1
    <2>1. PICK r : r = sink'[f]
      OBVIOUS
    <2>2. Orderly(r) /\ Working(r)'
      BY <1>2, <2>1
    <2> QED  BY <2>1, <2>2 DEF Working, Cap, Lot
  <1>4. SinkInv'
    BY <1>1, <1>3 DEF SinkInv
  <1> QED  BY <1>1, <1>4 DEF Held

LEMMA ReasonKept ==
  ASSUME UNCHANGED <<setup, kind, troubles>>
  PROVE  \A l : Reason(l) => Reason(l)'
  BY DEF Reason

(* It still holds what it held. *)
LEMMA SinkKeeps ==
  ASSUME AccountInv, NEW g \in 1..Gen, NEW s \in Sinks, Orderly(s), Working(s),
         sink' = [sink EXCEPT ![g] = s], Holds(s) = Holds(sink[g]),
         UNCHANGED <<setup, app, kind, log, service, troubles, out, lost>>
  PROVE  AccountInv'
  <1>1. SinkInv
    BY DEF AccountInv
  <1>2. SinkInv' /\ Held' = Held
    <2>1. /\ SinkInv' /\ DOMAIN Held = 1..Gen /\ DOMAIN Held' = DOMAIN Held
          /\ Held[g] = Holds(sink[g]) /\ Held'[g] = Holds(s)
          /\ \A f \in DOMAIN Held : f # g => Held'[f] = Held[f]
      BY <1>1, SinkTurns
    <2>2. Held = [f \in DOMAIN Held |-> Held[f]] /\ Held' = [f \in DOMAIN Held' |-> Held'[f]]
      BY DEF Held
    <2>3. \A f \in DOMAIN Held : Held'[f] = Held[f]
      BY <2>1
    <2> HIDE DEF Held
    <2> QED  BY <2>1, <2>2, <2>3
  <1>3. PlaceInv'
    BY <1>2 DEF AccountInv, PlaceInv, Gen
  <1>4. \A l \in lost' : Reason(l)'
    BY ReasonKept DEF AccountInv
  <1> QED  BY <1>2, <1>3, <1>4 DEF AccountInv

(* It passes on what it has in its hands. *)
LEMMA SinkPasses ==
  ASSUME AccountInv, NEW g \in 1..Gen, NEW s \in Sinks, Orderly(s), Working(s),
         sink' = [sink EXCEPT ![g] = s], s.queue = sink[g].queue, s.hand = <<>>,
         out' = out \o sink[g].hand, UNCHANGED <<setup, app, kind, log, service, troubles, lost>>
  PROVE  AccountInv'
  <1>1. SinkInv
    BY DEF AccountInv
  <1>2. PICK held : held = Held
    OBVIOUS
  <1>3. PICK left : left = Held'
    OBVIOUS
  <1>4. PICK hand, queue : hand = sink[g].hand /\ queue = sink[g].queue
    OBVIOUS
  <1>5. /\ SinkInv' /\ g \in DOMAIN held /\ DOMAIN left = DOMAIN held
        /\ held[g] = ToSet(queue) \cup ToSet(hand) /\ left[g] = ToSet(queue)
        /\ \A f \in DOMAIN held : f # g => left[f] = held[f]
    <2>1. /\ SinkInv' /\ DOMAIN Held = 1..Gen /\ DOMAIN Held' = DOMAIN Held
          /\ Held[g] = Holds(sink[g]) /\ Held'[g] = Holds(s)
          /\ \A f \in DOMAIN Held : f # g => Held'[f] = Held[f]
      BY <1>1, SinkTurns
    <2> QED  BY <1>2, <1>3, <1>4, <2>1, Emptied DEF Holds
  <1>6. hand \in Seq(Nat) /\ queue \in Seq(Nat) /\ Rising(hand) /\ Before(hand, queue)
    BY <1>1, <1>4 DEF SinkInv, Sinks, Orderly
  <1>7. \A m \in ToSet(hand) : \A n \in ToSet(queue) : m < n
    BY <1>6, BeforeIs
  <1>8. left[g] = held[g] \ ToSet(hand)
    <2>1. \A n \in ToSet(queue) : n \in Nat
      BY <1>6 DEF ToSet
    <2>2. \A n \in ToSet(queue) : n \notin ToSet(hand)
      BY <1>7, <2>1
    <2> QED  BY <1>5, <2>2
  <1>9. /\ out \in Seq(Nat) /\ Placed(log, held, out, lost) /\ DOMAIN log \subseteq Nat
        /\ log \in Seq([key : Texts, slot : Nat, gen : 1..Gen])
        /\ kind # "prometheus" => Everywhere(log, held, out, lost)
    <2>1. log \in Seq([key : Texts, slot : Nat, gen : 1..Gen])
      BY DEF AccountInv, PlaceInv
    <2>2. DOMAIN log \subseteq Nat
      <3>1. DOMAIN log = 1..Len(log) /\ Len(log) \in Nat
        BY <2>1
      <3> QED  BY <3>1
    <2> QED  BY <1>2, <2>1, <2>2 DEF AccountInv, PlaceInv
  <1>10. /\ out \o hand \in Seq(Nat) /\ Placed(log, left, out \o hand, lost)
         /\ (Everywhere(log, held, out, lost) => Everywhere(log, left, out \o hand, lost))
    <2>1. ToSet(hand) \subseteq held[g] /\ \A m \in ToSet(hand) : \A n \in left[g] : m < n
      BY <1>5, <1>7
    <2> QED  BY <1>5, <1>6, <1>8, <1>9, <2>1, PlacedPassed
  <1>11. PlaceInv'
    BY <1>3, <1>4, <1>9, <1>10 DEF PlaceInv, Gen
  <1>12. \A l \in lost' : Reason(l)'
    BY ReasonKept DEF AccountInv
  <1> QED  BY <1>5, <1>11, <1>12 DEF AccountInv

(* It drops some of what it holds. *)
LEMMA SinkDrops ==
  ASSUME AccountInv, NEW g \in 1..Gen, NEW s \in Sinks, Orderly(s), Working(s),
         NEW some, NEW how, Losing(some, how), sink' = [sink EXCEPT ![g] = s],
         some \subseteq Holds(sink[g]), Holds(s) = Holds(sink[g]) \ some,
         Reason(<<0, how, service>>), UNCHANGED <<setup, app, kind, log, service, troubles, out>>
  PROVE  AccountInv'
  <1>1. SinkInv
    BY DEF AccountInv
  <1>2. PICK held : held = Held
    OBVIOUS
  <1>3. PICK left : left = Held'
    OBVIOUS
  <1>4. PICK now : now = service
    OBVIOUS
  <1>5. /\ SinkInv' /\ g \in DOMAIN held /\ DOMAIN left = DOMAIN held /\ some \subseteq held[g]
        /\ left[g] = held[g] \ some /\ \A f \in DOMAIN held : f # g => left[f] = held[f]
    <2>1. /\ SinkInv' /\ DOMAIN Held = 1..Gen /\ DOMAIN Held' = DOMAIN Held
          /\ Held[g] = Holds(sink[g]) /\ Held'[g] = Holds(s)
          /\ \A f \in DOMAIN Held : f # g => Held'[f] = Held[f]
      BY <1>1, SinkTurns
    <2> QED  BY <1>2, <1>3, <2>1
  <1>6. /\ out \in Seq(Nat) /\ Placed(log, held, out, lost)
        /\ log \in Seq([key : Texts, slot : Nat, gen : 1..Gen])
        /\ (kind # "prometheus" => Everywhere(log, held, out, lost))
    BY <1>2 DEF AccountInv, PlaceInv
  <1>7. \A f \in DOMAIN held : left[f] = held[f] \ some
    <2> SUFFICES ASSUME NEW f \in DOMAIN held, f # g PROVE held[f] \cap some = {}
      BY <1>5
    <2>1. \A n \in some : log[n].gen = g
      BY <1>5, <1>6 DEF Placed
    <2>2. \A n \in held[f] : log[n].gen = f
      BY <1>6 DEF Placed
    <2> QED  BY <2>1, <2>2
  <1>8. lost' = lost \cup Losses(some, how, now)
    BY <1>4 DEF Losing, Losses
  <1>9. /\ Placed(log, left, out, lost')
        /\ (Everywhere(log, held, out, lost) => Everywhere(log, left, out, lost'))
    <2>1. \A n \in some : \E f \in DOMAIN held : n \in held[f]
      BY <1>5
    <2>2. LET all == lost \cup Losses(some, how, now) IN
          /\ Placed(log, left, out, all)
          /\ Everywhere(log, held, out, lost) => Everywhere(log, left, out, all)
      <3>1. out \in Seq(Nat) /\ Placed(log, held, out, lost) /\ DOMAIN left = DOMAIN held
        BY <1>5, <1>6
      <3> QED  BY <1>7, <2>1, <3>1, PlacedDropped
    <2> QED  BY <1>8, <2>2
  <1>10. PlaceInv'
    BY <1>3, <1>6, <1>9 DEF PlaceInv, Gen
  <1>11. \A l \in lost' : Reason(l)'
    <2>1. \A l \in lost' : Reason(l)
      <3> SUFFICES ASSUME NEW n \in some PROVE Reason(<<n, how, now>>)
        BY <1>8 DEF AccountInv, Losses
      <3> QED  BY <1>4 DEF Reason
    <2> QED  BY <2>1, ReasonKept
  <1> QED  BY <1>5, <1>10, <1>11 DEF AccountInv

LEMMA SinkFacts ==
  ASSUME AccountInv, NEW g \in 1..Gen
  PROVE  sink[g] \in Sinks /\ Orderly(sink[g]) /\ Working(sink[g])
  BY DEF AccountInv, SinkInv

LEMMA InfluxRecvAccounts ==
  ASSUME AccountInv, NEW g \in 1..Gen, InfluxRecv(g), UNCHANGED <<setup, app>>
  PROVE  AccountInv'
  <1> DEFINE r == [sink[g] EXCEPT !.queue = Tail(@), !.hand = Append(@, Head(sink[g].queue))]
  <1>1. PICK q, h, x : q = sink[g].queue /\ h = sink[g].hand /\ x = sink[g]
    OBVIOUS
  <1>2. PICK s : s = IF Len(r.hand) >= MaxBatch THEN Flush(r) ELSE r
    OBVIOUS
  <1>3. /\ x \in Sinks /\ Orderly(x) /\ Working(x) /\ x.queue = q /\ x.hand = h
        /\ q \in Seq(Nat) /\ h \in Seq(Nat) /\ q # <<>> /\ Rising(q) /\ Rising(h) /\ Before(h, q)
        /\ kind = "influx" /\ x.doing = "idle" /\ sink' = [sink EXCEPT ![g] = s]
        /\ UNCHANGED <<kind, log, service, troubles, out, lost>>
    BY <1>1, <1>2, SinkFacts DEF Sinks, Orderly, InfluxRecv
  <1>4. /\ Rising(Tail(q)) /\ Rising(Append(h, Head(q))) /\ Before(Append(h, Head(q)), Tail(q))
        /\ ToSet(Tail(q)) \cup ToSet(Append(h, Head(q))) = ToSet(q) \cup ToSet(h)
        /\ Tail(q) \in Seq(Nat) /\ Append(h, Head(q)) \in Seq(Nat) /\ Len(Tail(q)) = Len(q) - 1
        /\ Len(Append(h, Head(q))) = Len(h) + 1 /\ Len(q) \in Nat /\ Len(h) \in Nat
    BY <1>3, Received, HeadAndTail, OneMore
  <1>5. /\ s.queue = Tail(q) /\ s.hand = Append(h, Head(q)) /\ s \in Sinks
        /\ s.doing = (IF Len(h) + 1 >= MaxBatch THEN "post" ELSE "idle")
        /\ s.conn = x.conn /\ s.tries = x.tries /\ s.entries = x.entries
    BY <1>1, <1>2, <1>3, <1>4 DEF Sinks, Flush
  <1>6. Orderly(s) /\ Holds(s) = Holds(sink[g])
    BY <1>1, <1>4, <1>5 DEF Orderly, Holds
  <1>7. Working(s)
    <2>1. Len(q) <= Cap /\ Len(h) < MaxBatch /\ Cap \in Nat /\ MaxBatch \in Nat /\ Lot = MaxBatch
      BY <1>3, EmittersAssumption DEF Working, Cap, Lot
    <2>2. Len(s.queue) <= Cap /\ Len(s.hand) <= Lot
      BY <1>4, <1>5, <2>1
    <2>3. s.doing = "idle" => Len(s.hand) < MaxBatch
      BY <1>4, <1>5, <2>1
    <2> QED  BY <1>3, <1>5, <2>2, <2>3 DEF Working
  <1> QED  BY <1>3, <1>5, <1>6, <1>7, SinkKeeps

(* The one payload of the graphite and the live task. *)
LEMMA OneReceived ==
  ASSUME AccountInv, NEW g \in 1..Gen, kind \in {"graphite", "live"}, NEW x, x = sink[g],
         x.doing = "idle", x.queue # <<>>
  PROVE  /\ x.hand = <<>> /\ <<Head(x.queue)>> \in Seq(Nat) /\ Tail(x.queue) \in Seq(Nat)
         /\ Rising(Tail(x.queue)) /\ Rising(<<Head(x.queue)>>) /\ Before(<<Head(x.queue)>>, Tail(x.queue))
         /\ ToSet(Tail(x.queue)) \cup ToSet(<<Head(x.queue)>>) = Holds(x)
         /\ Len(Tail(x.queue)) <= Cap /\ Len(<<Head(x.queue)>>) <= Lot
  <1> DEFINE q == x.queue
             e == <<>>
             a == Append(e, Head(q))
  <1>1. x \in Sinks /\ Orderly(x) /\ Working(x)
    BY SinkFacts
  <1>2. x.hand = <<>> /\ q \in Seq(Nat) /\ Rising(q)
    BY <1>1 DEF Working, Orderly, Sinks
  <1>3. /\ q # <<>> /\ Len(Tail(q)) = Len(q) - 1 /\ Len(q) \in Nat /\ Head(q) \in Nat /\ Tail(q) \in Seq(Nat)
    BY <1>2, HeadAndTail
  <1>4. Len(q) <= Cap /\ Cap \in Nat /\ Lot = 1
    BY <1>1, EmittersAssumption DEF Working, Cap, Lot
  <1> HIDE DEF q
  <1>5. a = <<Head(q)>> /\ Len(a) = 1 /\ a \in Seq(Nat)
    BY <1>3
  <1>6. /\ Rising(Tail(q)) /\ Rising(a) /\ Before(a, Tail(q))
        /\ ToSet(Tail(q)) \cup ToSet(a) = ToSet(q) \cup ToSet(e)
    <2>1. Rising(e) /\ Before(e, q) /\ e \in Seq(Nat)
      BY Emptied
    <2> HIDE DEF e
    <2> QED  BY <1>2, <1>3, <2>1, Received
  <1>7. ToSet(q) \cup ToSet(e) = Holds(x)
    BY <1>2 DEF Holds, q
  <1>8. Len(Tail(q)) <= Cap /\ Len(a) <= Lot
    BY <1>3, <1>4, <1>5
  <1> HIDE DEF a
  <1> QED  BY <1>2, <1>3, <1>5, <1>6, <1>7, <1>8 DEF q

LEMMA OneRecvAccounts ==
  ASSUME AccountInv, NEW g \in 1..Gen, GraphiteRecv(g) \/ FeedRecv(g), UNCHANGED <<setup, app>>
  PROVE  AccountInv'
  <1>1. PICK x : x = sink[g]
    OBVIOUS
  <1>2. PICK s : s = IF kind = "graphite"
                     THEN [x EXCEPT !.doing = "send", !.hand = <<Head(x.queue)>>, !.queue = Tail(x.queue),
                                    !.tries = 0]
                     ELSE [x EXCEPT !.doing = "send", !.hand = <<Head(x.queue)>>, !.queue = Tail(x.queue)]
    OBVIOUS
  <1>3. /\ kind \in {"graphite", "live"} /\ x.doing = "idle" /\ x.queue # <<>>
        /\ UNCHANGED <<kind, log, service, troubles, out, lost>>
    BY <1>1 DEF GraphiteRecv, FeedRecv
  <1>4. x \in Sinks /\ Orderly(x) /\ Working(x) /\ sink \in [1..Gen -> Sinks]
    BY <1>1, SinkFacts DEF AccountInv, SinkInv
  <1>5. sink' = [sink EXCEPT ![g] = s]
    BY <1>1, <1>2, <1>4 DEF GraphiteRecv, FeedRecv, Sinks
  <1>6. /\ <<Head(x.queue)>> \in Seq(Nat) /\ Tail(x.queue) \in Seq(Nat)
        /\ Rising(Tail(x.queue)) /\ Rising(<<Head(x.queue)>>) /\ Before(<<Head(x.queue)>>, Tail(x.queue))
        /\ ToSet(Tail(x.queue)) \cup ToSet(<<Head(x.queue)>>) = Holds(x)
        /\ Len(Tail(x.queue)) <= Cap /\ Len(<<Head(x.queue)>>) <= Lot
    BY <1>1, <1>3, OneReceived
  <1>7. PICK q, h : q = Tail(x.queue) /\ h = <<Head(x.queue)>>
    OBVIOUS
  <1>8. /\ s.queue = q /\ s.hand = h /\ s \in Sinks /\ s.doing = "send"
        /\ s.conn = x.conn /\ s.tries \in {0, x.tries} /\ s.entries = x.entries
    <2>1. q \in Seq(Nat) /\ h \in Seq(Nat) /\ 0 \in 0..1 /\ x \in Sinks
      BY <1>4, <1>6, <1>7
    <2>2. s = IF kind = "graphite"
              THEN [x EXCEPT !.doing = "send", !.hand = h, !.queue = q, !.tries = 0]
              ELSE [x EXCEPT !.doing = "send", !.hand = h, !.queue = q]
      BY <1>2, <1>7
    <2>3. CASE kind = "graphite"
      BY <2>1, <2>2, <2>3 DEF Sinks
    <2>4. CASE kind # "graphite"
      BY <2>1, <2>2, <2>4 DEF Sinks
    <2> QED  BY <2>3, <2>4
  <1>9. Orderly(s) /\ Holds(s) = Holds(sink[g])
    BY <1>1, <1>6, <1>7, <1>8 DEF Orderly, Holds
  <1>10. Working(s)
    BY <1>3, <1>4, <1>6, <1>7, <1>8 DEF Working
  <1> QED  BY <1>3, <1>5, <1>8, <1>9, <1>10, SinkKeeps

(* Steps that leave alone what the sink holds. *)
LEMMA SameHeld ==
  ASSUME AccountInv, NEW g \in 1..Gen, NEW s \in Sinks, sink' = [sink EXCEPT ![g] = s],
         s.queue = sink[g].queue, s.hand = sink[g].hand, Working(s),
         UNCHANGED <<setup, app, kind, log, service, troubles, out, lost>>
  PROVE  AccountInv'
  <1>1. Orderly(s) /\ Holds(s) = Holds(sink[g])
    BY SinkFacts DEF Orderly, Holds
  <1> QED  BY <1>1, SinkKeeps

LEMMA QuietAccounts ==
  ASSUME AccountInv, NEW g \in 1..Gen, UNCHANGED <<setup, app>>,
         InfluxTick(g) \/ Connect(g) \/ Subscribe(g) \/ FeedLagged(g)
  PROVE  AccountInv'
  <1>1. PICK x : x = sink[g]
    OBVIOUS
  <1>2. x \in Sinks /\ Working(x) /\ sink \in [1..Gen -> Sinks]
    BY <1>1, SinkFacts DEF AccountInv, SinkInv
  <1>3. CASE InfluxTick(g)
    <2>1. PICK s : s = Flush(x)
      OBVIOUS
    <2>2. sink' = [sink EXCEPT ![g] = s] /\ UNCHANGED <<kind, log, service, troubles, out, lost>>
      BY <1>1, <1>3, <2>1 DEF InfluxTick
    <2>3. s \in Sinks /\ s.queue = x.queue /\ s.hand = x.hand
      BY <1>2, <2>1 DEF Sinks, Flush
    <2>4. Working(s)
      BY <1>1, <1>2, <1>3, <2>1 DEF Sinks, Flush, Working, InfluxTick
    <2> QED  BY <1>1, <2>2, <2>3, <2>4, SameHeld
  <1>4. CASE Connect(g)
    <2>1. PICK s : s = [x EXCEPT !.conn = "live"]
      OBVIOUS
    <2>2. sink' = [sink EXCEPT ![g] = s] /\ UNCHANGED <<kind, log, service, troubles, out, lost>>
      BY <1>1, <1>2, <1>4, <2>1 DEF Connect
    <2>3. s \in Sinks /\ s.queue = x.queue /\ s.hand = x.hand
      BY <1>2, <2>1 DEF Sinks
    <2>4. Working(s)
      BY <1>1, <1>2, <1>4, <2>1 DEF Sinks, Working, Connect
    <2> QED  BY <1>1, <2>2, <2>3, <2>4, SameHeld
  <1>5. CASE Subscribe(g)
    <2>1. PICK s : s = [x EXCEPT !.doing = "idle"]
      OBVIOUS
    <2>2. sink' = [sink EXCEPT ![g] = s] /\ UNCHANGED <<kind, log, service, troubles, out, lost>>
      BY <1>1, <1>2, <1>5, <2>1 DEF Subscribe
    <2>3. s \in Sinks /\ s.queue = x.queue /\ s.hand = x.hand
      BY <1>2, <2>1 DEF Sinks
    <2>4. Working(s)
      BY <1>1, <1>2, <1>5, <2>1 DEF Sinks, Working, Subscribe
    <2> QED  BY <1>1, <2>2, <2>3, <2>4, SameHeld
  <1>6. CASE FeedLagged(g)
    <2>1. PICK s : s = [x EXCEPT !.lagged = FALSE]
      OBVIOUS
    <2>2. sink' = [sink EXCEPT ![g] = s] /\ UNCHANGED <<kind, log, service, troubles, out, lost>>
      BY <1>1, <1>2, <1>6, <2>1 DEF FeedLagged
    <2>3. s \in Sinks /\ s.queue = x.queue /\ s.hand = x.hand
      BY <1>2, <2>1 DEF Sinks
    <2>4. Working(s)
      BY <1>1, <1>2, <1>6, <2>1 DEF Sinks, Working, FeedLagged
    <2> QED  BY <1>1, <2>2, <2>3, <2>4, SameHeld
  <1> QED  BY <1>3, <1>4, <1>5, <1>6

(* The sink with nothing in its hands. *)
LEMMA EmptyHands ==
  ASSUME AccountInv, NEW g \in 1..Gen, NEW x, x = sink[g], NEW s,
         s = PayloadDone(x),
         kind # "prometheus"
  PROVE  /\ s \in Sinks /\ s.queue = x.queue /\ s.hand = <<>> /\ Orderly(s) /\ Working(s)
         /\ Holds(s) = Holds(x) \ ToSet(x.hand) /\ ToSet(x.hand) \subseteq Holds(x)
  <1>1. x \in Sinks /\ Orderly(x) /\ Working(x)
    BY SinkFacts
  <1>2. s \in Sinks /\ s.queue = x.queue /\ s.hand = <<>> /\ s.doing = "idle" /\ s.conn = x.conn
        /\ s.tries = x.tries /\ s.entries = x.entries
    BY <1>1, Emptied DEF Sinks, PayloadDone
  <1>3. Orderly(s)
    BY <1>1, <1>2, Emptied DEF Orderly
  <1>4. Working(s)
    BY <1>1, <1>2, Emptied, EmittersAssumption DEF Working, Lot
  <1>5. Holds(s) = Holds(x) \ ToSet(x.hand)
    <2>1. x.hand \in Seq(Nat) /\ x.queue \in Seq(Nat) /\ Before(x.hand, x.queue)
      BY <1>1 DEF Sinks, Orderly
    <2>2. \A m \in ToSet(x.hand) : \A n \in ToSet(x.queue) : m < n
      BY <2>1, BeforeIs
    <2>3. \A n \in ToSet(x.queue) : n \in Nat
      BY <2>1 DEF ToSet
    <2>4. \A n \in ToSet(x.queue) : n \notin ToSet(x.hand)
      BY <2>2, <2>3
    <2> QED  BY <1>2, <2>4, Emptied DEF Holds
  <1> QED  BY <1>2, <1>3, <1>4, <1>5 DEF Holds

LEMMA PassAccounts ==
  ASSUME AccountInv, NEW g \in 1..Gen, UNCHANGED <<setup, app, kind, log, service, troubles, lost>>,
         kind # "prometheus", out' = out \o sink[g].hand,
         NEW s, s = PayloadDone(sink[g]), sink' = [sink EXCEPT ![g] = s]
  PROVE  AccountInv'
  <1>1. PICK x : x = sink[g]
    OBVIOUS
  <1>2. /\ s \in Sinks /\ s.queue = x.queue /\ s.hand = <<>> /\ Orderly(s) /\ Working(s)
    BY <1>1, EmptyHands
  <1> QED  BY <1>1, <1>2, SinkPasses

LEMMA DropAccounts ==
  ASSUME AccountInv, NEW g \in 1..Gen, UNCHANGED <<setup, app, kind, log, service, troubles, out>>,
         kind # "prometheus", NEW how, Losing(ToSet(sink[g].hand), how), Reason(<<0, how, service>>),
         NEW s, s = PayloadDone(sink[g]), sink' = [sink EXCEPT ![g] = s]
  PROVE  AccountInv'
  <1>1. PICK x : x = sink[g]
    OBVIOUS
  <1>2. PICK some : some = ToSet(x.hand)
    OBVIOUS
  <1>3. /\ s \in Sinks /\ Orderly(s) /\ Working(s) /\ Holds(s) = Holds(x) \ some /\ some \subseteq Holds(x)
    BY <1>1, <1>2, EmptyHands
  <1>4. Losing(some, how)
    BY <1>1, <1>2
  <1> QED  BY <1>1, <1>3, <1>4, SinkDrops

LEMMA InfluxAnswerAccounts ==
  ASSUME AccountInv, NEW g \in 1..Gen, InfluxAccepts(g) \/ InfluxFails(g), UNCHANGED <<setup, app>>
  PROVE  AccountInv'
  <1>1. PICK s : s = PayloadDone(sink[g])
    OBVIOUS
  <1>2. sink' = [sink EXCEPT ![g] = s] /\ kind = "influx" /\ UNCHANGED <<kind, log, service, troubles>>
    <2>1. sink[g] \in Sinks /\ sink \in [1..Gen -> Sinks]
      BY SinkFacts DEF AccountInv, SinkInv
    <2> QED  BY <1>1, <2>1 DEF InfluxAccepts, InfluxFails, Posted, Sinks, PayloadDone
  <1>3. CASE out' = out \o sink[g].hand /\ UNCHANGED lost
    BY <1>1, <1>2, <1>3, PassAccounts
  <1>4. CASE Losing(ToSet(sink[g].hand), "refused") /\ UNCHANGED out /\ service = "down"
    <2>1. Reason(<<0, "refused", service>>)
      BY <1>4 DEF Reason
    <2> QED  BY <1>1, <1>2, <1>4, <2>1, DropAccounts
  <1> QED  BY <1>3, <1>4 DEF InfluxAccepts, InfluxFails

LEMMA FeedSendAccounts ==
  ASSUME AccountInv, NEW g \in 1..Gen, FeedSend(g), UNCHANGED <<setup, app>>
  PROVE  AccountInv'
  <1>1. PICK s : s = PayloadDone(sink[g])
    OBVIOUS
  <1>2. sink[g] \in Sinks /\ sink \in [1..Gen -> Sinks]
    BY SinkFacts DEF AccountInv, SinkInv
  <1>3. /\ sink' = [sink EXCEPT ![g] = s] /\ kind # "prometheus" /\ out' = out \o sink[g].hand
        /\ UNCHANGED <<kind, log, service, troubles, lost>>
    BY <1>1, <1>2 DEF FeedSend, Sinks, PayloadDone
  <1> QED  BY <1>1, <1>3, PassAccounts

LEMMA GraphiteSendAccounts ==
  ASSUME AccountInv, Loaded, NEW g \in 1..Gen, ConnectFails(g) \/ Write(g) \/ WriteFails(g),
         UNCHANGED <<setup, app>>
  PROVE  AccountInv'
  <1>1. PICK x, done : x = sink[g] /\ done = PayloadDone(x)
    OBVIOUS
  <1>2. x \in Sinks /\ Orderly(x) /\ Working(x) /\ sink \in [1..Gen -> Sinks]
    BY <1>1, SinkFacts DEF AccountInv, SinkInv
  <1>3. kind = "graphite" /\ kind # "prometheus" /\ UNCHANGED <<kind, log, service, troubles>>
    BY DEF ConnectFails, Write, WriteFails, Sending
  <1>4. setup.troubles \in Nat /\ troubles \in Nat
    BY TroublesNat DEF AccountInv
  <1>5. CASE ConnectFails(g)
    <2>1. /\ sink' = [sink EXCEPT ![g] = done] /\ Losing(ToSet(sink[g].hand), "refused")
          /\ service = "down" /\ UNCHANGED out
      BY <1>1, <1>5 DEF ConnectFails
    <2>2. Reason(<<0, "refused", service>>)
      BY <2>1 DEF Reason
    <2> QED  BY <1>1, <1>3, <2>1, <2>2, DropAccounts
  <1>6. CASE Write(g)
    <2>1. sink' = [sink EXCEPT ![g] = done]
      BY <1>1, <1>6 DEF Write
    <2>2. CASE out' = out \o sink[g].hand /\ UNCHANGED lost
      BY <1>1, <1>3, <2>1, <2>2, PassAccounts
    <2>3. CASE sink[g].conn = "dead" /\ Losing(ToSet(sink[g].hand), "unread") /\ UNCHANGED out
      <3>1. Reason(<<0, "unread", service>>)
        BY <1>1, <1>2, <2>3 DEF Reason, Working
      <3> QED  BY <1>1, <1>3, <2>1, <2>3, <3>1, DropAccounts
    <2> QED  BY <1>6, <2>2, <2>3 DEF Write
  <1>7. CASE WriteFails(g)
    <2>1. x.conn = "dead" /\ x.doing = "send"
      BY <1>1, <1>7 DEF WriteFails, Sending
    <2>2. CASE x.tries = 0
      <3>1. PICK s : s = [x EXCEPT !.conn = "none", !.tries = 1]
        OBVIOUS
      <3>2. sink' = [sink EXCEPT ![g] = s] /\ UNCHANGED <<out, lost>>
        BY <1>1, <1>2, <1>7, <2>2, <3>1 DEF WriteFails, Sinks
      <3>3. s \in Sinks /\ s.queue = x.queue /\ s.hand = x.hand /\ s.conn = "none" /\ s.doing = "send"
            /\ s.entries = x.entries
        <4>1. 1 \in 0..1
          OBVIOUS
        <4> QED  BY <1>2, <2>1, <3>1, <4>1 DEF Sinks
      <3>4. Working(s)
        BY <1>2, <1>3, <2>1, <3>3 DEF Working
      <3> QED  BY <1>1, <1>3, <3>2, <3>3, <3>4, SameHeld
    <2>3. CASE x.tries # 0
      <3>1. PICK s, some : s = [done EXCEPT !.conn = "none"] /\ some = ToSet(x.hand)
        OBVIOUS
      <3>2. sink' = [sink EXCEPT ![g] = s] /\ Losing(some, "refused") /\ UNCHANGED out
        BY <1>1, <1>7, <2>3, <3>1 DEF WriteFails
      <3>3. /\ done \in Sinks /\ done.queue = x.queue /\ done.hand = <<>> /\ Orderly(done) /\ Working(done)
            /\ Holds(done) = Holds(x) \ some /\ some \subseteq Holds(x)
        BY <1>1, <1>3, <3>1, EmptyHands
      <3>4. /\ s \in Sinks /\ s.queue = done.queue /\ s.hand = done.hand /\ s.conn = "none"
            /\ s.doing = done.doing /\ s.tries = done.tries /\ s.entries = done.entries
        BY <3>1, <3>3 DEF Sinks
      <3>5. Orderly(s) /\ Working(s) /\ Holds(s) = Holds(x) \ some
        BY <3>3, <3>4 DEF Orderly, Working, Holds
      <3>6. Reason(<<0, "refused", service>>)
        <4>1. x.tries = 1
          BY <1>2, <2>3 DEF Sinks
        <4>2. troubles + 2 <= setup.troubles
          BY <1>2, <2>1, <4>1 DEF Working
        <4>3. setup.troubles - troubles >= 2
          BY <1>4, <4>2
        <4> QED  BY <1>3, <4>3 DEF Reason
      <3> QED  BY <1>1, <1>3, <3>2, <3>3, <3>4, <3>5, <3>6, SinkDrops
    <2> QED  BY <2>2, <2>3
  <1> QED  BY <1>5, <1>6, <1>7

LEMMA NothingFine ==
  ASSUME kind # "prometheus", NEW doing \in {"none", "idle", "post", "send", "away", "done"}, NEW s,
         s = [NoSink EXCEPT !.doing = doing]
  PROVE  s \in Sinks /\ Orderly(s) /\ Working(s) /\ Holds(s) = {} /\ s.queue = <<>> /\ s.hand = <<>>
  <1>1. /\ s.queue = <<>> /\ s.hand = <<>> /\ s.doing = doing /\ s.tries = 0 /\ s.conn = "none"
        /\ s.entries = <<>>
    BY DEF NoSink
  <1>2. s \in Sinks
    <2>1. <<>> \in Entries /\ 0 \in 0..1 /\ FALSE \in BOOLEAN /\ <<>> \in Seq(Nat)
      BY Emptied DEF Entries
    <2>2. s = [queue |-> <<>>, hand |-> <<>>, doing |-> doing, tries |-> 0, conn |-> "none",
               lagged |-> FALSE, entries |-> <<>>]
      BY DEF NoSink
    <2>3. PICK e, c, n, l : e = <<>> /\ c = "none" /\ n = 0 /\ l = FALSE
      OBVIOUS
    <2>4. /\ e \in Entries /\ e \in Seq(Nat) /\ n \in 0..1 /\ l \in BOOLEAN /\ c \in {"none", "live", "dead"}
          /\ s = [queue |-> e, hand |-> e, doing |-> doing, tries |-> n, conn |-> c, lagged |-> l, entries |-> e]
      BY <2>1, <2>2, <2>3
    <2>5. [queue |-> e, hand |-> e, doing |-> doing, tries |-> n, conn |-> c, lagged |-> l, entries |-> e] \in Sinks
      BY <2>4 DEF Sinks
    <2> QED  BY <2>4, <2>5
  <1>3. Cap \in Nat /\ Lot \in Nat /\ MaxBatch > 0
    BY EmittersAssumption DEF Cap, Lot
  <1>4. Working(s)
    BY <1>1, <1>3, Emptied DEF Working
  <1>5. Orderly(s) /\ Holds(s) = {}
    BY <1>1, Emptied DEF Orderly, Holds
  <1> QED  BY <1>1, <1>2, <1>4, <1>5

LEMMA FeedLeftAccounts ==
  ASSUME AccountInv, NEW g \in 1..Gen, FeedLeft(g), UNCHANGED <<setup, app>>
  PROVE  AccountInv'
  <1>1. PICK s, some : s = [NoSink EXCEPT !.doing = "away"] /\ some = Holds(sink[g])
    OBVIOUS
  <1>2. /\ sink' = [sink EXCEPT ![g] = s] /\ kind # "prometheus" /\ Losing(some, "left")
        /\ UNCHANGED <<kind, log, service, troubles, out>>
    BY <1>1 DEF FeedLeft, Holds
  <1>3. s \in Sinks /\ Orderly(s) /\ Working(s) /\ Holds(s) = {}
    BY <1>1, <1>2, NothingFine
  <1>4. Reason(<<0, "left", service>>)
    BY DEF Reason
  <1> QED  BY <1>1, <1>2, <1>3, <1>4, SinkDrops

LEMMA DrainAccounts ==
  ASSUME AccountInv, NEW g \in 1..Gen, Drain(g), UNCHANGED <<setup, app>>
  PROVE  AccountInv'
  <1>1. PICK x : x = sink[g]
    OBVIOUS
  <1>2. x \in Sinks /\ Working(x) /\ x.doing \in {"idle", "away"} /\ x.queue = <<>>
        /\ UNCHANGED <<kind, log, service, troubles, out, lost>>
    BY <1>1, SinkFacts DEF Drain
  <1>3. kind # "prometheus"
    BY <1>2 DEF Working
  <1>4. CASE x.hand # <<>>
    <2>1. PICK s : s = Flush(x)
      OBVIOUS
    <2>2. sink' = [sink EXCEPT ![g] = s]
      BY <1>1, <1>4, <2>1 DEF Drain
    <2>3. s \in Sinks /\ s.queue = x.queue /\ s.hand = x.hand /\ s.doing = "post" /\ s.conn = x.conn
          /\ s.tries = x.tries /\ s.entries = x.entries
      BY <1>2, <2>1 DEF Sinks, Flush
    <2>4. Working(s)
      BY <1>2, <1>4, <2>3 DEF Working
    <2> QED  BY <1>1, <1>2, <2>2, <2>3, <2>4, SameHeld
  <1>5. CASE x.hand = <<>>
    <2>1. PICK s : s = [NoSink EXCEPT !.doing = "done"]
      OBVIOUS
    <2>2. sink' = [sink EXCEPT ![g] = s]
      BY <1>1, <1>5, <2>1 DEF Drain
    <2>3. s \in Sinks /\ Orderly(s) /\ Working(s) /\ Holds(s) = {}
      BY <1>3, <2>1, NothingFine
    <2>4. Holds(s) = Holds(sink[g])
      BY <1>1, <1>2, <1>5, <2>3, Emptied DEF Holds
    <2> QED  BY <1>2, <2>2, <2>3, <2>4, SinkKeeps
  <1> QED  BY <1>4, <1>5

-----------------------------------------------------------------------------
(* The service *)

LEMMA ServiceAccounts ==
  ASSUME AccountInv, Loaded, ServiceStep, UNCHANGED <<setup, app>>
  PROVE  AccountInv'
  <1>1. /\ troubles \in Nat /\ setup.troubles \in Nat /\ troubles \in 0..setup.troubles
        /\ UNCHANGED <<kind, log, out, lost>> /\ service' \in {"up", "stalled", "down"}
        /\ kind \in setup.kinds
    BY TroublesNat DEF AccountInv, SinkInv, ServiceStep, Worsen, Mend
  <1>2. /\ troubles' \in 0..setup.troubles /\ troubles' \in Nat /\ troubles' <= troubles
        /\ \/ sink' = sink
           \/ sink' = [g \in 1..Gen |-> Broken(sink[g])] /\ troubles' + 1 <= troubles
    <2>1. CASE \E to \in {"stalled", "down"} : Worsen(to)
      <3>1. troubles > 0 /\ troubles' = troubles - 1
        BY <2>1 DEF Worsen
      <3>2. DOMAIN sink = 1..Gen
        BY DEF AccountInv, SinkInv
      <3>3. troubles' \in 0..setup.troubles /\ troubles' \in Nat /\ troubles' <= troubles /\ troubles' + 1 <= troubles
        BY <1>1, <3>1
      <3> QED  BY <2>1, <3>2, <3>3 DEF Worsen
    <2>2. CASE Mend
      BY <1>1, <2>2 DEF Mend
    <2> QED  BY <2>1, <2>2 DEF ServiceStep
  <1>3. Gen' = Gen /\ setup' = setup
    BY DEF Gen
  <1>4. ASSUME NEW g \in 1..Gen, NEW x, x = sink[g], NEW r, r = sink'[g]
        PROVE  /\ r \in Sinks /\ Orderly(r) /\ Working(r)' /\ r.queue = x.queue /\ r.hand = x.hand
    <2>1. x \in Sinks /\ Orderly(x) /\ Working(x)
      BY <1>4, SinkFacts
    <2>2. /\ r \in Sinks /\ r.queue = x.queue /\ r.hand = x.hand /\ r.doing = x.doing /\ r.tries = x.tries
          /\ r.entries = x.entries
          /\ \/ r.conn = x.conn
             \/ x.conn = "live" /\ troubles' + 1 <= troubles
      <3>1. CASE sink' = sink
        BY <1>4, <2>1, <3>1
      <3>2. CASE r = Broken(x) /\ troubles' + 1 <= troubles
        BY <2>1, <3>2 DEF Broken, Sinks
      <3> QED  BY <1>2, <1>4, <3>1, <3>2
    <2>3. Orderly(r)
      BY <2>1, <2>2 DEF Orderly
    <2> DEFINE worst == setup.troubles
    <2>4. /\ x.conn = "dead" => troubles < worst
          /\ x.tries = 1 => troubles < worst /\ kind = "graphite"
          /\ x.tries = 1 /\ x.conn = "dead" => troubles + 2 <= worst
          /\ worst \in Nat /\ troubles <= worst
      BY <1>1, <2>1 DEF Working
    <2> HIDE DEF worst
    <2>5. /\ r.conn = "dead" => troubles' < worst
          /\ r.tries = 1 => troubles' < worst /\ kind = "graphite"
          /\ r.tries = 1 /\ r.conn = "dead" => troubles' + 2 <= worst
      <3>1. PICK was, is : was = troubles /\ is = troubles'
        OBVIOUS
      <3>2. was \in Nat /\ is \in Nat /\ is <= was /\ was <= worst /\ worst \in Nat
        BY <1>1, <1>2, <2>4, <3>1
      <3>3. /\ was < worst => is < worst
            /\ was + 2 <= worst => is + 2 <= worst
            /\ is + 1 <= was => is < worst /\ (was < worst => is + 2 <= worst)
        BY <3>2
      <3>4. CASE r.conn = x.conn
        BY <2>2, <2>4, <3>1, <3>3, <3>4
      <3>5. CASE x.conn = "live" /\ is + 1 <= was
        BY <2>2, <2>4, <3>1, <3>3, <3>5
      <3> QED  BY <2>2, <3>1, <3>4, <3>5
    <2>6. Working(r)'
      BY <1>1, <1>3, <2>1, <2>2, <2>5 DEF Working, Cap, Lot, worst
    <2> QED  BY <2>2, <2>3, <2>6
  <1>5. SinkInv' /\ Held' = Held
    <2>1. sink' \in [1..Gen -> Sinks]
      <3>1. \A g \in 1..Gen : sink'[g] \in Sinks
        BY <1>4
      <3>2. sink' = [g \in 1..Gen |-> sink'[g]]
        BY <1>2 DEF AccountInv, SinkInv
      <3> QED  BY <3>1, <3>2
    <2>2. \A g \in 1..Gen : Orderly(sink'[g]) /\ Working(sink[g])'
      <3> SUFFICES ASSUME NEW g \in 1..Gen PROVE Orderly(sink'[g]) /\ Working(sink[g])'
        OBVIOUS
      <3>1. PICK r : r = sink'[g]
        OBVIOUS
      <3>2. Orderly(r) /\ Working(r)'
        BY <1>4, <3>1
      <3> QED  BY <3>1, <3>2 DEF Working, Cap, Lot
    <2>3. \A g \in 1..Gen : Holds(sink'[g]) = Holds(sink[g])
      BY <1>4 DEF Holds
    <2> QED  BY <1>1, <1>2, <1>3, <2>1, <2>2, <2>3 DEF SinkInv, Held
  <1>6. PlaceInv'
    BY <1>1, <1>3, <1>5 DEF AccountInv, PlaceInv
  <1>7. \A l \in lost' : Reason(l)'
    <2> SUFFICES ASSUME NEW l \in lost PROVE Reason(l)'
      BY <1>1
    <2>1. Reason(l)
      BY DEF AccountInv
    <2>2. /\ setup.troubles - troubles >= 2 => setup.troubles - troubles' >= 2
          /\ troubles < setup.troubles => troubles' < setup.troubles
      BY <1>1, <1>2
    <2> QED  BY <1>1, <1>3, <2>1, <2>2 DEF Reason
  <1> QED  BY <1>5, <1>6, <1>7 DEF AccountInv

LEMMA SinksAccounts ==
  ASSUME AccountInv, Loaded, SinksStep
  PROVE  AccountInv'
  <1>1. UNCHANGED <<setup, app>>
    BY DEF SinksStep, mvars
  <1>2. DOMAIN sink = 1..Gen
    BY DEF AccountInv, SinkInv
  <1>3. CASE \E g \in DOMAIN sink : TaskStep(g)
    <2>1. PICK g \in 1..Gen : TaskStep(g)
      BY <1>2, <1>3
    <2>2. CASE Drain(g)
      BY <1>1, <2>2, DrainAccounts
    <2>3. CASE InfluxRecv(g)
      BY <1>1, <2>3, InfluxRecvAccounts
    <2>4. CASE InfluxTick(g) \/ Connect(g) \/ FeedLagged(g)
      BY <1>1, <2>4, QuietAccounts
    <2>5. CASE InfluxAccepts(g) \/ InfluxFails(g)
      BY <1>1, <2>5, InfluxAnswerAccounts
    <2>6. CASE GraphiteRecv(g) \/ FeedRecv(g)
      BY <1>1, <2>6, OneRecvAccounts
    <2>7. CASE ConnectFails(g) \/ Write(g) \/ WriteFails(g)
      BY <1>1, <2>7, GraphiteSendAccounts
    <2>8. CASE FeedSend(g)
      BY <1>1, <2>8, FeedSendAccounts
    <2>9. CASE FeedLeft(g)
      BY <1>1, <2>9, FeedLeftAccounts
    <2> QED  BY <2>1, <2>2, <2>3, <2>4, <2>5, <2>6, <2>7, <2>8, <2>9 DEF TaskStep, SinkStep
  <1>4. CASE Serving /\ Subscribe(Gen)
    <2>1. PICK g : g = Gen
      OBVIOUS
    <2>2. g \in 1..Gen
      BY <1>4, <2>1, GenNat DEF Loaded
    <2> QED  BY <1>1, <1>4, <2>1, <2>2, QuietAccounts
  <1>5. CASE ServiceStep
    BY <1>1, <1>5, ServiceAccounts
  <1> QED  BY <1>3, <1>4, <1>5 DEF SinksStep

-----------------------------------------------------------------------------
(* A round is emitted *)

(* The function that is f at g and otherwise as held. *)
LEMMA HeldAt ==
  ASSUME SinkInv, NEW g \in 1..Gen, NEW some, Gen' = Gen, Held'[g] = some,
         \A f \in 1..Gen : f # g => Held'[f] = Held[f]
  PROVE  Held' = [Held EXCEPT ![g] = some]
  <1> DEFINE new == [f \in 1..Gen |-> Held'[f]]
             old == [f \in 1..Gen |-> Held[f]]
  <1>1. Held' = new /\ Held = old /\ DOMAIN Held = 1..Gen
    BY DEF Held
  <1>2. new = [old EXCEPT ![g] = some]
    <2> HIDE DEF Held
    <2> QED  BY <1>1
  <1> HIDE DEF new, old
  <1> QED  BY <1>1, <1>2

Taken(held, g, n) == [held EXCEPT ![g] = @ \cup {n}]
Entry(round, g) == [key |-> round.key, slot |-> round.slot, gen |-> g]

(* The emission, and all that came before. *)
LEMMA Entered ==
  ASSUME AccountInv, NEW g \in 1..Gen, NEW round, round.key \in Texts, round.slot \in Nat,
         log' = Append(log, Entry(round, g))
  PROVE  LET n     == Len(log) + 1
             held  == Held
             taken == Taken(Held, g, Len(log) + 1) IN
         /\ n \in Nat /\ log' \in Seq([key : Texts, slot : Nat, gen : 1..Gen])
         /\ DOMAIN held = 1..Gen /\ DOMAIN taken = 1..Gen /\ taken[g] = held[g] \cup {n}
         /\ \A f \in 1..Gen : f # g => taken[f] = held[f]
         /\ \A f \in 1..Gen : \A m \in held[f] : m < n /\ m # n /\ m \in Nat
         /\ Placed(log', held, out, lost) /\ Placed(log', taken, out, lost)
         /\ kind # "prometheus" => Everywhere(log', taken, out, lost)
  <1>0. PICK n, r, held, taken : n = Len(log) + 1 /\ r = Entry(round, g) /\ held = Held /\ taken = Taken(held, g, n)
    OBVIOUS
  <1>1. /\ log \in Seq([key : Texts, slot : Nat, gen : 1..Gen]) /\ Placed(log, held, out, lost)
        /\ r \in [key : Texts, slot : Nat, gen : 1..Gen] /\ r.gen = g
        /\ kind # "prometheus" => Everywhere(log, held, out, lost)
    BY <1>0 DEF AccountInv, PlaceInv, Entry
  <1>2. Len(log) \in Nat /\ DOMAIN log = 1..Len(log)
    BY <1>1
  <1>3. /\ DOMAIN held = 1..Gen /\ DOMAIN taken = 1..Gen /\ taken[g] = held[g] \cup {n}
        /\ \A f \in 1..Gen : f # g => taken[f] = held[f]
    BY <1>0 DEF Held, Taken
  <1>4. \A f \in 1..Gen : \A m \in held[f] : m < n /\ m # n /\ m \in Nat
    <2>1. \A f \in 1..Gen : \A m \in held[f] : m \in 1..Len(log)
      BY <1>1, <1>2, <1>3 DEF Placed
    <2> QED  BY <1>0, <1>2, <2>1
  <1>5. log' \in Seq([key : Texts, slot : Nat, gen : 1..Gen])
    BY <1>0, <1>1
  <1>6. /\ Placed(Append(log, r), held, out, lost)
        /\ Placed(Append(log, r), [held EXCEPT ![g] = @ \cup {Len(log) + 1}], out, lost)
        /\ Everywhere(log, held, out, lost) =>
             Everywhere(Append(log, r), [held EXCEPT ![g] = @ \cup {Len(log) + 1}], out, lost)
    <2>1. g \in DOMAIN held
      BY <1>3
    <2> QED  BY <1>1, <2>1, PlacedTaken
  <1>7. /\ n \in Nat
        /\ Placed(log', held, out, lost) /\ Placed(log', taken, out, lost)
        /\ kind # "prometheus" => Everywhere(log', taken, out, lost)
    BY <1>0, <1>1, <1>2, <1>6 DEF Taken
  <1> QED  BY <1>0, <1>3, <1>4, <1>5, <1>7

(* The sink takes it. *)
LEMMA TakesAccounts ==
  ASSUME AccountInv, NEW g \in 1..Gen, NEW round, round.key \in Texts, round.slot \in Nat,
         NEW n, n = Len(log) + 1, log' = Append(log, Entry(round, g)),
         kind # "prometheus", Len(sink[g].queue) < Cap,
         sink' = [sink EXCEPT ![g].queue = Append(@, n)],
         UNCHANGED <<setup, app, kind, service, troubles, out, lost>>
  PROVE  AccountInv'
  <1>1. PICK r, held : r = Entry(round, g) /\ held = Held
    OBVIOUS
  <1>2. PICK taken : taken = Taken(held, g, n)
    OBVIOUS
  <1>3. PICK x, q : x = sink[g] /\ q = x.queue
    OBVIOUS
  <1>4. PICK s : s = [x EXCEPT !.queue = Append(q, n)]
    OBVIOUS
  <1>5. /\ n \in Nat /\ log' \in Seq([key : Texts, slot : Nat, gen : 1..Gen])
        /\ DOMAIN held = 1..Gen /\ DOMAIN taken = 1..Gen /\ taken[g] = held[g] \cup {n}
        /\ \A f \in 1..Gen : \A m \in held[f] : m < n /\ m # n /\ m \in Nat
        /\ Placed(log', taken, out, lost) /\ Everywhere(log', taken, out, lost)
    <2> DEFINE old == Held
               new == Taken(Held, g, Len(log) + 1)
               at  == Len(log) + 1
    <2>1. /\ at \in Nat /\ log' \in Seq([key : Texts, slot : Nat, gen : 1..Gen])
          /\ DOMAIN old = 1..Gen /\ DOMAIN new = 1..Gen /\ new[g] = old[g] \cup {at}
          /\ \A f \in 1..Gen : f # g => new[f] = old[f]
          /\ \A f \in 1..Gen : \A m \in old[f] : m < at /\ m # at /\ m \in Nat
          /\ Placed(log', old, out, lost) /\ Placed(log', new, out, lost)
          /\ kind # "prometheus" => Everywhere(log', new, out, lost)
      BY Entered
    <2>2. old = held /\ new = taken /\ at = n
      BY <1>1, <1>2
    <2> HIDE DEF old, new, at
    <2> QED  BY <2>1, <2>2
  <1>6. /\ SinkInv /\ x \in Sinks /\ Orderly(x) /\ Working(x) /\ sink \in [1..Gen -> Sinks]
        /\ q \in Seq(Nat) /\ x.hand \in Seq(Nat) /\ held[g] = ToSet(q) \cup ToSet(x.hand)
    <2>1. SinkInv /\ x \in Sinks /\ Orderly(x) /\ Working(x) /\ sink \in [1..Gen -> Sinks]
      BY <1>3, SinkFacts DEF AccountInv, SinkInv
    <2>2. held[g] = Holds(x)
      BY <1>1, <1>3 DEF Held
    <2> QED  BY <1>3, <2>1, <2>2 DEF Sinks, Holds
  <1>7. /\ Append(q, n) \in Seq(Nat) /\ Len(Append(q, n)) = Len(q) + 1 /\ Rising(Append(q, n))
        /\ ToSet(Append(q, n)) = ToSet(q) \cup {n} /\ Len(q) \in Nat
    <2>1. Rising(q) /\ \A m \in ToSet(q) : m < n
      BY <1>3, <1>5, <1>6 DEF Orderly
    <2>2. Len(q) \in Nat
      BY <1>6
    <2> QED  BY <1>5, <1>6, <2>1, <2>2, OneMore
  <1>8. /\ s \in Sinks /\ s.queue = Append(q, n) /\ s.hand = x.hand /\ s.doing = x.doing /\ s.conn = x.conn
        /\ s.tries = x.tries /\ s.entries = x.entries
    BY <1>4, <1>6, <1>7 DEF Sinks
  <1>9. sink' = [sink EXCEPT ![g] = s]
    BY <1>3, <1>4, <1>6
  <1>10. Orderly(s)
    <2>1. \A m \in ToSet(x.hand) : \A k \in ToSet(s.queue) : m < k
      <3>1. \A m \in ToSet(x.hand) : \A k \in ToSet(q) : m < k
        BY <1>3, <1>6, BeforeIs DEF Orderly
      <3> QED  BY <1>5, <1>6, <1>7, <1>8, <3>1
    <2>2. Before(s.hand, s.queue)
      BY <1>6, <1>7, <1>8, <2>1, BeforeIs
    <2> QED  BY <1>6, <1>7, <1>8, <2>2 DEF Orderly
  <1>11. Working(s)
    <2>1. Cap \in Nat /\ Len(q) < Cap
      BY <1>3, EmittersAssumption DEF Cap
    <2>2. Len(s.queue) <= Cap
      BY <1>7, <1>8, <2>1
    <2> QED  BY <1>6, <1>8, <2>2 DEF Working
  <1>12. Holds(s) = held[g] \cup {n}
    BY <1>6, <1>7, <1>8 DEF Holds
  <1>13. /\ SinkInv' /\ DOMAIN Held = 1..Gen
         /\ Held'[g] = Holds(s) /\ \A f \in DOMAIN Held : f # g => Held'[f] = Held[f]
    BY <1>6, <1>8, <1>9, <1>10, <1>11, SinkTurns
  <1>14. Gen' = Gen
    BY DEF Gen
  <1>15. Held' = taken
    <2>1. Held' = [Held EXCEPT ![g] = held[g] \cup {n}]
      BY <1>6, <1>12, <1>13, <1>14, HeldAt
    <2> QED  BY <1>1, <1>2, <2>1 DEF Taken
  <1>16. PlaceInv'
    BY <1>5, <1>14, <1>15 DEF AccountInv, PlaceInv
  <1>17. \A l \in lost' : Reason(l)'
    BY ReasonKept DEF AccountInv
  <1> QED  BY <1>13, <1>16, <1>17 DEF AccountInv

(* Nobody takes it. *)
LEMMA RefusesAccounts ==
  ASSUME AccountInv, NEW g \in 1..Gen, NEW round, round.key \in Texts, round.slot \in Nat,
         NEW n, n = Len(log) + 1, log' = Append(log, Entry(round, g)),
         kind # "prometheus", NEW how \in {"full", "nobody"}, Losing({n}, how),
         UNCHANGED <<setup, app, kind, service, troubles, out, sink>>
  PROVE  AccountInv'
  <1>1. PICK r, held, now : r = Entry(round, g) /\ held = Held
                            /\ now = service
    OBVIOUS
  <1>2. PICK taken, some : taken = Taken(held, g, n) /\ some = {n}
    OBVIOUS
  <1>3. /\ n \in Nat /\ log' \in Seq([key : Texts, slot : Nat, gen : 1..Gen])
        /\ DOMAIN held = 1..Gen /\ DOMAIN taken = 1..Gen /\ taken[g] = held[g] \cup {n}
        /\ \A f \in 1..Gen : f # g => taken[f] = held[f]
        /\ \A f \in 1..Gen : \A m \in held[f] : m < n /\ m # n /\ m \in Nat
        /\ Placed(log', taken, out, lost) /\ Everywhere(log', taken, out, lost)
    <2> DEFINE old == Held
               new == Taken(Held, g, Len(log) + 1)
               at  == Len(log) + 1
    <2>1. /\ at \in Nat /\ log' \in Seq([key : Texts, slot : Nat, gen : 1..Gen])
          /\ DOMAIN old = 1..Gen /\ DOMAIN new = 1..Gen /\ new[g] = old[g] \cup {at}
          /\ \A f \in 1..Gen : f # g => new[f] = old[f]
          /\ \A f \in 1..Gen : \A m \in old[f] : m < at /\ m # at /\ m \in Nat
          /\ Placed(log', old, out, lost) /\ Placed(log', new, out, lost)
          /\ kind # "prometheus" => Everywhere(log', new, out, lost)
      BY Entered
    <2>2. old = held /\ new = taken /\ at = n
      BY <1>1, <1>2
    <2> HIDE DEF old, new, at
    <2> QED  BY <2>1, <2>2
  <1>4. SinkInv' /\ Held' = held /\ Gen' = Gen
    BY <1>1 DEF AccountInv, SinkInv, Gen, Held, Orderly, Working, Cap, Lot
  <1>5. lost' = lost \cup Losses(some, how, now)
    BY <1>1, <1>2 DEF Losing, Losses
  <1>6. \A f \in DOMAIN taken : held[f] = taken[f] \ some
    BY <1>2, <1>3
  <1>7. PICK all : all = log'
    OBVIOUS
  <1>8. LET gone == lost \cup Losses(some, how, now) IN
        /\ Placed(all, held, out, gone)
        /\ Everywhere(all, taken, out, lost) => Everywhere(all, held, out, gone)
    <2>1. \A m \in some : \E f \in DOMAIN taken : m \in taken[f]
      BY <1>2, <1>3
    <2>2. Placed(all, taken, out, lost) /\ DOMAIN held = DOMAIN taken /\ out \in Seq(Nat)
      BY <1>3, <1>7 DEF AccountInv, PlaceInv
    <2> QED  BY <1>6, <2>1, <2>2, PlacedDropped
  <1>9. PlaceInv'
    BY <1>3, <1>4, <1>5, <1>7, <1>8 DEF AccountInv, PlaceInv
  <1>10. \A l \in lost' : Reason(l)'
    <2>1. \A l \in lost' : Reason(l)
      <3> SUFFICES ASSUME NEW m \in some PROVE Reason(<<m, how, now>>)
        BY <1>5 DEF AccountInv, Losses
      <3> QED  BY DEF Reason
    <2> QED  BY <2>1, ReasonKept
  <1> QED  BY <1>4, <1>9, <1>10 DEF AccountInv

(* The feed takes it and forgets the oldest one. *)
LEMMA OverwritesAccounts ==
  ASSUME AccountInv, NEW g \in 1..Gen, NEW round, round.key \in Texts, round.slot \in Nat,
         NEW n, n = Len(log) + 1, log' = Append(log, Entry(round, g)),
         kind = "live", ~(Len(sink[g].queue) < FeedCap),
         sink' = [sink EXCEPT ![g].queue = Append(Tail(@), n), ![g].lagged = TRUE],
         Losing({Head(sink[g].queue)}, "lagged"),
         UNCHANGED <<setup, app, kind, service, troubles, out>>
  PROVE  AccountInv'
  <1>1. PICK r, held, now : r = Entry(round, g) /\ held = Held /\ now = service
    OBVIOUS
  <1>2. PICK taken : taken = Taken(held, g, n)
    OBVIOUS
  <1>3. PICK x, q : x = sink[g] /\ q = x.queue
    OBVIOUS
  <1>4. PICK s, some : s = [x EXCEPT !.queue = Append(Tail(q), n), !.lagged = TRUE] /\ some = {Head(q)}
    OBVIOUS
  <1>5. /\ n \in Nat /\ log' \in Seq([key : Texts, slot : Nat, gen : 1..Gen])
        /\ DOMAIN held = 1..Gen /\ DOMAIN taken = 1..Gen /\ taken[g] = held[g] \cup {n}
        /\ \A f \in 1..Gen : f # g => taken[f] = held[f]
        /\ \A f \in 1..Gen : \A m \in held[f] : m < n /\ m # n /\ m \in Nat
        /\ Placed(log', taken, out, lost) /\ Everywhere(log', taken, out, lost)
    <2> DEFINE old == Held
               new == Taken(Held, g, Len(log) + 1)
               at  == Len(log) + 1
    <2>1. /\ at \in Nat /\ log' \in Seq([key : Texts, slot : Nat, gen : 1..Gen])
          /\ DOMAIN old = 1..Gen /\ DOMAIN new = 1..Gen /\ new[g] = old[g] \cup {at}
          /\ \A f \in 1..Gen : f # g => new[f] = old[f]
          /\ \A f \in 1..Gen : \A m \in old[f] : m < at /\ m # at /\ m \in Nat
          /\ Placed(log', old, out, lost) /\ Placed(log', new, out, lost)
          /\ kind # "prometheus" => Everywhere(log', new, out, lost)
      BY Entered
    <2>2. old = held /\ new = taken /\ at = n
      BY <1>1, <1>2
    <2> HIDE DEF old, new, at
    <2> QED  BY <2>1, <2>2
  <1>6. /\ SinkInv /\ x \in Sinks /\ Orderly(x) /\ Working(x) /\ sink \in [1..Gen -> Sinks]
        /\ q \in Seq(Nat) /\ x.hand \in Seq(Nat) /\ held[g] = ToSet(q) \cup ToSet(x.hand)
    <2>1. SinkInv /\ x \in Sinks /\ Orderly(x) /\ Working(x) /\ sink \in [1..Gen -> Sinks]
      BY <1>3, SinkFacts DEF AccountInv, SinkInv
    <2>2. held[g] = Holds(x)
      BY <1>1, <1>3 DEF Held
    <2> QED  BY <1>3, <2>1, <2>2 DEF Sinks, Holds
  <1>7. Len(q) \in Nat /\ Len(q) <= FeedCap /\ q # <<>> /\ Cap = FeedCap /\ FeedCap \in Nat
    <2>1. Len(q) \in Nat /\ ~(Len(q) < FeedCap) /\ FeedCap \in Nat /\ FeedCap > 0 /\ Cap = FeedCap
      BY <1>3, <1>6, EmittersAssumption DEF Cap
    <2>2. q # <<>>
      BY <2>1, Emptied
    <2> QED  BY <1>3, <1>6, <2>1, <2>2 DEF Working
  <1>8. PICK u, t : u = Head(q) /\ t = Tail(q)
    OBVIOUS
  <1>9. /\ u \in Nat /\ t \in Seq(Nat) /\ Len(t) = Len(q) - 1 /\ ToSet(q) = {u} \cup ToSet(t)
        /\ Rising(t) /\ \A m \in ToSet(t) : u < m
    <2>1. Rising(q) /\ Len(q) \in Nat
      BY <1>6, <1>3, <1>7 DEF Orderly
    <2>2. /\ q[1] \in Nat /\ Head(q) = q[1] /\ Tail(q) \in Seq(Nat) /\ Len(Tail(q)) = Len(q) - 1
          /\ ToSet(q) = {Head(q)} \cup ToSet(Tail(q))
          /\ Rising(q) => Rising(Tail(q)) /\ \A m \in ToSet(Tail(q)) : Head(q) < m
      BY <1>6, <1>7, HeadAndTail
    <2> QED  BY <1>8, <2>1, <2>2
  <1>10. /\ Append(t, n) \in Seq(Nat) /\ Len(Append(t, n)) = Len(q) /\ Rising(Append(t, n))
         /\ ToSet(Append(t, n)) = ToSet(t) \cup {n}
    <2>1. \A m \in ToSet(t) : m < n
      BY <1>5, <1>6, <1>9
    <2>2. Len(Append(t, n)) = Len(t) + 1 /\ Len(t) + 1 = Len(q)
      BY <1>5, <1>7, <1>9, OneMore
    <2> QED  BY <1>5, <1>9, <2>1, <2>2, OneMore
  <1>11. /\ s \in Sinks /\ s.queue = Append(t, n) /\ s.hand = x.hand /\ s.doing = x.doing /\ s.conn = x.conn
         /\ s.tries = x.tries /\ s.entries = x.entries
    <2>1. TRUE \in BOOLEAN
      OBVIOUS
    <2> QED  BY <1>4, <1>6, <1>8, <1>10, <2>1 DEF Sinks
  <1>12. sink' = [sink EXCEPT ![g] = s]
    BY <1>3, <1>4, <1>6
  <1>13. \A m \in ToSet(x.hand) : \A k \in ToSet(q) : m < k /\ m \in Nat /\ k \in Nat
    <2>1. \A m \in ToSet(x.hand) : \A k \in ToSet(q) : m < k
      BY <1>3, <1>6, BeforeIs DEF Orderly
    <2> QED  BY <1>5, <1>6, <2>1
  <1>14. Orderly(s)
    <2>1. \A m \in ToSet(x.hand) : \A k \in ToSet(s.queue) : m < k
      BY <1>5, <1>6, <1>9, <1>10, <1>11, <1>13
    <2>2. Before(s.hand, s.queue)
      BY <1>6, <1>10, <1>11, <2>1, BeforeIs
    <2> QED  BY <1>6, <1>10, <1>11, <2>2 DEF Orderly
  <1>15. Working(s)
    BY <1>6, <1>7, <1>10, <1>11 DEF Working
  <1>16. some = {u} /\ Holds(s) = (held[g] \cup {n}) \ some
    <2>1. \A m \in ToSet(t) : m # u
      <3>1. \A m \in ToSet(t) : m \in Nat /\ u < m
        BY <1>9 DEF ToSet
      <3> QED  BY <1>9, <3>1
    <2>2. \A m \in ToSet(x.hand) : m # u
      BY <1>9, <1>13
    <2>3. u \in held[g] /\ u # n
      BY <1>5, <1>6, <1>9
    <2>4. Holds(s) = ToSet(t) \cup {n} \cup ToSet(x.hand)
      BY <1>10, <1>11 DEF Holds
    <2> QED  BY <1>4, <1>6, <1>8, <1>9, <2>1, <2>2, <2>3, <2>4
  <1>17. /\ SinkInv' /\ DOMAIN Held = 1..Gen /\ DOMAIN Held' = DOMAIN Held
         /\ Held'[g] = Holds(s) /\ \A f \in DOMAIN Held : f # g => Held'[f] = Held[f]
    BY <1>6, <1>11, <1>12, <1>14, <1>15, SinkTurns
  <1>18. Gen' = Gen
    BY DEF Gen
  <1>19. PICK left, all : left = Held' /\ all = log'
    OBVIOUS
  <1>20. DOMAIN left = DOMAIN taken /\ \A f \in DOMAIN taken : left[f] = taken[f] \ some
    <2>1. DOMAIN left = DOMAIN taken
      BY <1>5, <1>17, <1>19
    <2>2. \A f \in 1..Gen : f # g => left[f] = held[f] /\ taken[f] = held[f]
      BY <1>1, <1>5, <1>17, <1>19
    <2>3. left[g] = taken[g] \ some
      BY <1>5, <1>16, <1>17, <1>19
    <2>4. u \in taken[g] /\ \A f \in 1..Gen : f # g => u \notin taken[f]
      <3>1. u \in taken[g]
        BY <1>5, <1>6, <1>9
      <3>2. \A f \in 1..Gen : \A m \in taken[f] : all[m].gen = f
        BY <1>5, <1>19 DEF Placed
      <3> QED  BY <3>1, <3>2
    <2>5. ASSUME NEW f \in 1..Gen, f # g PROVE left[f] = taken[f] \ some
      <3>1. left[f] = taken[f] /\ u \notin taken[f] /\ some = {u}
        BY <1>16, <2>2, <2>4, <2>5
      <3> QED  BY <3>1
    <2> QED  BY <1>5, <2>1, <2>3, <2>5
  <1>21. lost' = lost \cup Losses(some, "lagged", now)
    BY <1>1, <1>3, <1>4 DEF Losing, Losses
  <1>22. LET gone == lost \cup Losses(some, "lagged", now) IN
         /\ Placed(all, left, out, gone)
         /\ Everywhere(all, taken, out, lost) => Everywhere(all, left, out, gone)
    <2>1. \A m \in some : \E f \in DOMAIN taken : m \in taken[f]
      BY <1>5, <1>6, <1>9, <1>16
    <2>2. Placed(all, taken, out, lost) /\ out \in Seq(Nat)
      BY <1>5, <1>19 DEF AccountInv, PlaceInv
    <2> QED  BY <1>20, <2>1, <2>2, PlacedDropped
  <1>23. PlaceInv'
    BY <1>5, <1>18, <1>19, <1>21, <1>22 DEF AccountInv, PlaceInv
  <1>24. \A l \in lost' : Reason(l)'
    <2>1. \A l \in lost' : Reason(l)
      <3> SUFFICES ASSUME NEW m \in some PROVE Reason(<<m, "lagged", now>>)
        BY <1>21 DEF AccountInv, Losses
      <3> QED  BY DEF Reason
    <2> QED  BY <2>1, ReasonKept
  <1> QED  BY <1>17, <1>23, <1>24 DEF AccountInv

(* The entry of a key has one more round. *)
LEMMA Observed ==
  ASSUME NEW entries \in Entries, NEW n, log'[n].key \in Texts, log'[n].slot \in Nat
  PROVE  LET after == Observe(entries, n)
             key   == log'[n].key IN
         /\ after \in Entries /\ DOMAIN after = {key} \cup DOMAIN entries
         /\ after[key] = [slot |-> log'[n].slot,
                          rounds |-> (IF key \in DOMAIN entries THEN entries[key].rounds ELSE 0) + 1]
         /\ \A k \in DOMAIN entries : k # key => after[k] = entries[k]
  <1>1. PICK key, slot : key = log'[n].key /\ slot = log'[n].slot
    OBVIOUS
  <1> DEFINE count == IF key \in DOMAIN entries THEN entries[key].rounds ELSE 0
             new   == [slot |-> slot, rounds |-> count + 1]
             after == [k \in DOMAIN entries \cup {key} |-> IF k = key THEN new ELSE entries[k]]
  <1>2. Observe(entries, n) = after
    BY <1>1 DEF Observe
  <1>3. /\ DOMAIN after = {key} \cup DOMAIN entries /\ after[key] = new
        /\ \A k \in DOMAIN entries : k # key => after[k] = entries[k]
    <2> HIDE DEF new
    <2> QED  OBVIOUS
  <1>4. /\ DOMAIN entries \subseteq Texts
        /\ \A k \in DOMAIN entries : entries[k] \in [slot : Nat, rounds : Nat]
    <2>1. CASE entries = <<>>
      <3>1. DOMAIN entries = {}
        BY <2>1
      <3> QED  BY <3>1
    <2>2. CASE \E keys \in SUBSET Texts : entries \in [keys -> [slot : Nat, rounds : Nat]]
      BY <2>2
    <2> QED  BY <2>1, <2>2 DEF Entries
  <1>5. new \in [slot : Nat, rounds : Nat]
    <2>1. count \in Nat
      BY <1>4
    <2> HIDE DEF count
    <2> QED  BY <1>1, <2>1
  <1> HIDE DEF new
  <1>6. after \in Entries
    <2> DEFINE keys == {key} \cup DOMAIN entries
    <2>1. keys \in SUBSET Texts
      BY <1>1, <1>4
    <2>2. after = [k \in keys |-> after[k]]
      OBVIOUS
    <2>3. \A k \in keys : after[k] \in [slot : Nat, rounds : Nat]
      BY <1>3, <1>4, <1>5
    <2> HIDE DEF after, keys
    <2>4. after \in [keys -> [slot : Nat, rounds : Nat]]
      BY <2>2, <2>3
    <2> QED  BY <2>1, <2>4 DEF Entries
  <1> HIDE DEF after
  <1> QED  BY <1>1, <1>2, <1>3, <1>6 DEF new

(* The counters count it. *)
LEMMA CountAccounts ==
  ASSUME AccountInv, NEW g \in 1..Gen, NEW round, round.key \in Texts, round.slot \in Nat,
         NEW n, n = Len(log) + 1, log' = Append(log, Entry(round, g)),
         kind = "prometheus", sink' = [sink EXCEPT ![g].entries = Observe(@, n)],
         UNCHANGED <<setup, app, kind, service, troubles, out, lost>>
  PROVE  AccountInv'
  <1>1. PICK x, e : x = sink[g] /\ e = x.entries
    OBVIOUS
  <1>2. PICK more : more = Observe(e, n)
    OBVIOUS
  <1>3. PICK s, held : s = [x EXCEPT !.entries = more] /\ held = Held
    OBVIOUS
  <1>4. /\ n \in Nat /\ log' \in Seq([key : Texts, slot : Nat, gen : 1..Gen])
        /\ DOMAIN held = 1..Gen /\ Placed(log', held, out, lost)
    <2> DEFINE old == Held
               new == Taken(Held, g, Len(log) + 1)
               at  == Len(log) + 1
    <2>1. /\ at \in Nat /\ log' \in Seq([key : Texts, slot : Nat, gen : 1..Gen])
          /\ DOMAIN old = 1..Gen /\ DOMAIN new = 1..Gen /\ new[g] = old[g] \cup {at}
          /\ \A f \in 1..Gen : f # g => new[f] = old[f]
          /\ \A f \in 1..Gen : \A m \in old[f] : m < at /\ m # at /\ m \in Nat
          /\ Placed(log', old, out, lost) /\ Placed(log', new, out, lost)
          /\ kind # "prometheus" => Everywhere(log', new, out, lost)
      BY Entered
    <2>2. old = held /\ at = n
      BY <1>3
    <2> HIDE DEF old, new, at
    <2> QED  BY <2>1, <2>2
  <1>5. SinkInv /\ x \in Sinks /\ Orderly(x) /\ Working(x) /\ sink \in [1..Gen -> Sinks] /\ e \in Entries
    <2>1. SinkInv /\ x \in Sinks /\ Orderly(x) /\ Working(x) /\ sink \in [1..Gen -> Sinks]
      BY <1>1, SinkFacts DEF AccountInv, SinkInv
    <2> QED  BY <1>1, <2>1 DEF Sinks
  <1>6. more \in Entries
    <2>1. log'[n] = Entry(round, g)
      BY <1>4 DEF AccountInv, PlaceInv
    <2>2. log'[n].key \in Texts /\ log'[n].slot \in Nat
      BY <2>1 DEF Entry
    <2>3. Observe(e, n) \in Entries
      BY <1>5, <2>2, Observed
    <2> QED  BY <1>2, <2>3
  <1>7. s \in Sinks /\ s.queue = x.queue /\ s.hand = x.hand /\ s.doing = x.doing /\ s.conn = x.conn
        /\ s.tries = x.tries /\ s.entries = more
    BY <1>3, <1>5, <1>6 DEF Sinks
  <1>8. sink' = [sink EXCEPT ![g] = s]
    BY <1>1, <1>2, <1>3, <1>5
  <1>9. Orderly(s) /\ Working(s) /\ Holds(s) = Holds(x)
    BY <1>5, <1>7 DEF Orderly, Working, Holds
  <1>10. /\ SinkInv' /\ DOMAIN Held = 1..Gen /\ DOMAIN Held' = DOMAIN Held
         /\ Held[g] = Holds(sink[g]) /\ Held'[g] = Holds(s)
         /\ \A f \in DOMAIN Held : f # g => Held'[f] = Held[f]
    BY <1>5, <1>7, <1>8, <1>9, SinkTurns
  <1>11. Gen' = Gen
    BY DEF Gen
  <1>12. Held' = held
    <2>1. \A f \in 1..Gen : Held'[f] = Held[f]
      BY <1>1, <1>9, <1>10
    <2>2. Held = [f \in 1..Gen |-> Held[f]] /\ Held' = [f \in 1..Gen |-> Held'[f]]
      BY <1>11 DEF Held
    <2> HIDE DEF Held
    <2> QED  BY <1>3, <2>1, <2>2
  <1>13. PlaceInv'
    BY <1>4, <1>11, <1>12 DEF AccountInv, PlaceInv
  <1>14. \A l \in lost' : Reason(l)'
    BY ReasonKept DEF AccountInv
  <1> QED  BY <1>10, <1>13, <1>14 DEF AccountInv

LEMMA EmitAccounts ==
  ASSUME AccountInv, Loaded, NEW g \in 1..Gen, NEW round, round.key \in Texts, round.slot \in Nat,
         EmitTo(g, round), UNCHANGED <<setup, app>>
  PROVE  AccountInv'
  <1>1. PICK n : n = Len(log) + 1
    OBVIOUS
  <1>2. /\ log' = Append(log, Entry(round, g)) /\ UNCHANGED <<setup, app, kind, service, troubles, out>>
        /\ kind \in Kinds
    BY TroublesNat DEF EmitTo, Entry, AccountInv
  <1>3. CASE kind \in {"influx", "graphite"}
    <2>1. OfferQueue(g, n) /\ Cap = ChanCap /\ kind # "prometheus"
      BY <1>1, <1>3 DEF EmitTo, Cap
    <2>2. CASE Len(sink[g].queue) < ChanCap
      <3>1. sink' = [sink EXCEPT ![g].queue = Append(@, n)] /\ UNCHANGED lost
        BY <2>1, <2>2 DEF OfferQueue
      <3> QED  BY <1>1, <1>2, <2>1, <2>2, <3>1, TakesAccounts
    <2>3. CASE ~(Len(sink[g].queue) < ChanCap)
      <3>1. Losing({n}, "full") /\ UNCHANGED sink
        BY <2>1, <2>3 DEF OfferQueue
      <3> QED  BY <1>1, <1>2, <2>1, <3>1, RefusesAccounts
    <2> QED  BY <2>2, <2>3
  <1>4. CASE kind = "live"
    <2>1. OfferFeed(g, n) /\ Cap = FeedCap /\ kind # "prometheus"
      BY <1>1, <1>4 DEF EmitTo, Cap
    <2>2. CASE sink[g].doing \in {"away", "done"}
      <3>1. Losing({n}, "nobody") /\ UNCHANGED sink
        BY <2>1, <2>2 DEF OfferFeed
      <3> QED  BY <1>1, <1>2, <2>1, <3>1, RefusesAccounts
    <2>3. CASE sink[g].doing \notin {"away", "done"} /\ Len(sink[g].queue) < FeedCap
      <3>1. sink' = [sink EXCEPT ![g].queue = Append(@, n)] /\ UNCHANGED lost
        BY <2>1, <2>3 DEF OfferFeed
      <3> QED  BY <1>1, <1>2, <2>1, <2>3, <3>1, TakesAccounts
    <2>4. CASE sink[g].doing \notin {"away", "done"} /\ ~(Len(sink[g].queue) < FeedCap)
      <3>1. /\ sink' = [sink EXCEPT ![g].queue = Append(Tail(@), n), ![g].lagged = TRUE]
            /\ Losing({Head(sink[g].queue)}, "lagged")
        BY <2>1, <2>4 DEF OfferFeed
      <3> QED  BY <1>1, <1>2, <1>4, <2>4, <3>1, OverwritesAccounts
    <2> QED  BY <2>2, <2>3, <2>4
  <1>5. CASE kind = "prometheus"
    <2>1. sink' = [sink EXCEPT ![g].entries = Observe(@, n)] /\ UNCHANGED lost
      BY <1>1, <1>5 DEF EmitTo
    <2> QED  BY <1>1, <1>2, <1>5, <2>1, CountAccounts
  <1> QED  BY <1>2, <1>3, <1>4, <1>5 DEF Kinds

-----------------------------------------------------------------------------
(* Generations begin and the process ends *)

LEMMA EmptySinkFine ==
  ASSUME NEW doing \in {"none", "idle", "away"}, NEW e \in Entries, NEW s,
         s = [queue |-> <<>>, hand |-> <<>>, doing |-> doing, tries |-> 0, conn |-> "none",
              lagged |-> FALSE, entries |-> e],
         kind = "prometheus" => doing = "none", kind # "prometheus" => e = <<>>
  PROVE  s \in Sinks /\ Orderly(s) /\ Working(s) /\ Holds(s) = {} /\ s.entries = e
  <1>1. /\ s.queue = <<>> /\ s.hand = <<>> /\ s.doing = doing /\ s.tries = 0 /\ s.conn = "none"
        /\ s.entries = e
    OBVIOUS
  <1>2. s \in Sinks
    <2>1. PICK q, c, n, l : q = <<>> /\ c = "none" /\ n = 0 /\ l = FALSE
      OBVIOUS
    <2>2. 0 \in 0..1 /\ FALSE \in BOOLEAN /\ <<>> \in Seq(Nat)
      BY Emptied
    <2>3. /\ q \in Seq(Nat) /\ n \in 0..1 /\ l \in BOOLEAN /\ c \in {"none", "live", "dead"}
          /\ s = [queue |-> q, hand |-> q, doing |-> doing, tries |-> n, conn |-> c, lagged |-> l, entries |-> e]
      BY <2>1, <2>2
    <2>4. [queue |-> q, hand |-> q, doing |-> doing, tries |-> n, conn |-> c, lagged |-> l, entries |-> e] \in Sinks
      BY <2>3 DEF Sinks
    <2> QED  BY <2>3, <2>4
  <1>3. Cap \in Nat /\ Lot \in Nat /\ MaxBatch > 0
    BY EmittersAssumption DEF Cap, Lot
  <1>4. Working(s)
    BY <1>1, <1>3, Emptied DEF Working
  <1>5. Orderly(s) /\ Holds(s) = {}
    BY <1>1, Emptied DEF Orderly, Holds
  <1> QED  BY <1>1, <1>2, <1>4, <1>5

(* The tasks are gone, and what they held with them. *)
LEMMA EndAccounts ==
  ASSUME AccountInv, NEW how, EndAs(how)
  PROVE  AccountInv'
  <1>1. /\ SinkInv /\ sink \in [1..Gen -> Sinks] /\ DOMAIN sink = 1..Gen /\ Gen' = Gen
        /\ UNCHANGED <<setup, app, kind, log, service, troubles, out>>
    BY DEF EndAs, AccountInv, SinkInv, Gen
  <1>2. PICK held, some : held = Held /\ some = UNION {HeldBy(g) : g \in DOMAIN sink}
    OBVIOUS
  <1>3. PICK now, gens : now = service /\ gens = 1..Gen
    OBVIOUS
  <1>4. /\ sink' = [g \in gens |-> [NoSink EXCEPT !.entries = sink[g].entries]]
        /\ lost' = lost \cup Losses(some, "quit", now)
    BY <1>1, <1>2, <1>3 DEF EndAs, Losing, Losses
  <1>5. DOMAIN held = gens /\ some = UNION {held[g] : g \in gens}
    BY <1>1, <1>2, <1>3 DEF Held, HeldBy, Holds
  <1>6. ASSUME NEW g \in gens, NEW s, s = sink'[g]
        PROVE  s \in Sinks /\ Orderly(s) /\ Working(s) /\ Holds(s) = {}
    <2>1. PICK e : e = sink[g].entries
      OBVIOUS
    <2>2. e \in Entries /\ (kind # "prometheus" => e = <<>>)
      BY <1>1, <1>3, <2>1 DEF Sinks, SinkInv, Working
    <2>3. s = [queue |-> <<>>, hand |-> <<>>, doing |-> "none", tries |-> 0, conn |-> "none",
               lagged |-> FALSE, entries |-> e]
      BY <1>4, <1>6, <2>1 DEF NoSink
    <2> QED  BY <2>2, <2>3, EmptySinkFine
  <1>7. SinkInv'
    <2>1. sink' \in [gens -> Sinks]
      <3>1. \A g \in gens : sink'[g] \in Sinks
        BY <1>6
      <3>2. sink' = [g \in gens |-> sink'[g]]
        BY <1>4
      <3> QED  BY <3>1, <3>2
    <2>2. \A g \in gens : Orderly(sink'[g]) /\ Working(sink[g])'
      <3> SUFFICES ASSUME NEW g \in gens PROVE Orderly(sink'[g]) /\ Working(sink[g])'
        OBVIOUS
      <3>1. PICK s : s = sink'[g]
        OBVIOUS
      <3>2. Orderly(s) /\ Working(s)
        BY <1>6, <3>1
      <3> QED  BY <1>1, <3>1, <3>2 DEF Working, Cap, Lot
    <2> QED  BY <1>1, <1>3, <2>1, <2>2 DEF SinkInv
  <1>8. PICK left : left = Held'
    OBVIOUS
  <1>9. DOMAIN left = gens /\ \A g \in gens : left[g] = held[g] \ some
    <2>1. DOMAIN left = gens
      BY <1>1, <1>3, <1>8 DEF Held
    <2>2. ASSUME NEW g \in gens PROVE left[g] = {}
      <3>1. left[g] = Holds(sink'[g])
        BY <1>1, <1>3, <1>8 DEF Held
      <3> QED  BY <1>6, <3>1
    <2> QED  BY <1>5, <2>1, <2>2
  <1>10. LET all == lost \cup Losses(some, "quit", now) IN
         /\ Placed(log, left, out, all)
         /\ Everywhere(log, held, out, lost) => Everywhere(log, left, out, all)
    <2>1. Placed(log, held, out, lost) /\ out \in Seq(Nat)
      BY <1>2 DEF AccountInv, PlaceInv
    <2>2. \A n \in some : \E g \in DOMAIN held : n \in held[g]
      BY <1>5
    <2> QED  BY <1>5, <1>9, <2>1, <2>2, PlacedDropped
  <1>11. PlaceInv'
    BY <1>1, <1>2, <1>4, <1>8, <1>10 DEF AccountInv, PlaceInv
  <1>12. \A l \in lost' : Reason(l)'
    <2>1. \A l \in lost' : Reason(l)
      <3> SUFFICES ASSUME NEW m \in some PROVE Reason(<<m, "quit", now>>)
        BY <1>4 DEF AccountInv, Losses
      <3> QED  BY DEF Reason
    <2> QED  BY <1>1, <2>1, ReasonKept
  <1> QED  BY <1>7, <1>11, <1>12 DEF AccountInv

LEMMA GrownByOne ==
  ASSUME NEW n \in Nat, NEW s \in [1..n -> Sinks], NEW x \in Sinks
  PROVE  /\ Append(s, x) \in [1..(n + 1) -> Sinks] /\ Append(s, x)[n + 1] = x
         /\ \A i \in 1..n : Append(s, x)[i] = s[i]
  <1>1. s \in Seq(Sinks) /\ Len(s) = n
    <2>1. s \in Seq(Sinks)
      BY IsASeq
    <2>2. DOMAIN s = 1..n
      OBVIOUS
    <2> QED  BY <2>1, <2>2, LenProperties
  <1>2. /\ Append(s, x) \in Seq(Sinks) /\ Len(Append(s, x)) = n + 1 /\ Append(s, x)[n + 1] = x
        /\ \A i \in 1..n : Append(s, x)[i] = s[i]
    BY <1>1
  <1>3. Append(s, x) \in [1..(n + 1) -> Sinks]
    BY <1>2, LenProperties
  <1> QED  BY <1>2, <1>3

(* A generation more. *)
LEMMA LoadAccounts ==
  ASSUME AccountInv, Loaded, Load
  PROVE  AccountInv'
  <1>1. PICK n, s : n = Gen /\ s = Spawned
    OBVIOUS
  <1>2. /\ SinkInv /\ sink \in [1..n -> Sinks] /\ n \in Nat /\ Gen' = n + 1 /\ sink' = Append(sink, s)
        /\ UNCHANGED <<setup, kind, log, service, troubles, out, lost>> /\ kind \in Kinds
    <2>1. app' = Append(app, AppOf(NextConfig)) /\ Gen \in Nat /\ Gen = Len(app) /\ SinkInv
      BY GenNat DEF Load, Gen, AccountInv
    <2>2. Len(app') = Len(app) + 1
      BY <2>1 DEF Loaded
    <2> QED  BY <1>1, <2>1, <2>2, TroublesNat DEF Load, Gen, SinkInv
  <1>3. s \in Sinks /\ Orderly(s) /\ Working(s) /\ Holds(s) = {}
    <2>1. PICK doing : doing = CASE kind \in {"influx", "graphite"} -> "idle"
                                 [] kind = "live" -> "away" [] OTHER -> "none"
      OBVIOUS
    <2>2. /\ doing \in {"none", "idle", "away"} /\ (kind = "prometheus" => doing = "none")
          /\ s = [queue |-> <<>>, hand |-> <<>>, doing |-> doing, tries |-> 0, conn |-> "none",
                   lagged |-> FALSE, entries |-> <<>>]
      <3>1. s = [NoSink EXCEPT !.doing = doing]
        BY <1>1, <2>1 DEF Spawned
      <3>2. doing \in {"none", "idle", "away"} /\ (kind = "prometheus" => doing = "none")
        BY <1>2, <2>1 DEF Kinds
      <3> QED  BY <3>1, <3>2 DEF NoSink
    <2>3. <<>> \in Entries
      BY DEF Entries
    <2> QED  BY <2>2, <2>3, EmptySinkFine
  <1>4. /\ sink' \in [1..(n + 1) -> Sinks] /\ sink'[n + 1] = s
        /\ \A g \in 1..n : sink'[g] = sink[g]
    <2>1. /\ Append(sink, s) \in [1..(n + 1) -> Sinks] /\ Append(sink, s)[n + 1] = s
          /\ \A g \in 1..n : Append(sink, s)[g] = sink[g]
      BY <1>2, <1>3, GrownByOne
    <2> QED  BY <1>2, <2>1
  <1>5. \A g \in 1..(n + 1) : g \in 1..n \/ g = n + 1
    BY <1>2
  <1>6. SinkInv'
    <2>1. \A g \in 1..(n + 1) : Orderly(sink'[g]) /\ Working(sink[g])'
      <3> SUFFICES ASSUME NEW g \in 1..(n + 1) PROVE Orderly(sink'[g]) /\ Working(sink[g])'
        OBVIOUS
      <3>1. PICK r : r = sink'[g]
        OBVIOUS
      <3>2. Orderly(r) /\ Working(r)
        BY <1>1, <1>2, <1>3, <1>4, <1>5, <3>1 DEF SinkInv
      <3> QED  BY <1>2, <3>1, <3>2 DEF Working, Cap, Lot
    <2> QED  BY <1>2, <1>4, <2>1 DEF SinkInv
  <1>7. PICK held, left : held = Held /\ left = Held'
    OBVIOUS
  <1>8. /\ DOMAIN held = 1..n /\ DOMAIN left = 1..(n + 1) /\ left[n + 1] = {}
        /\ \A g \in 1..n : left[g] = held[g]
    <2>1. held = [g \in 1..n |-> Holds(sink[g])] /\ left = [g \in 1..(n + 1) |-> Holds(sink'[g])]
      BY <1>1, <1>2, <1>7 DEF Held
    <2>2. n + 1 \in 1..(n + 1) /\ \A g \in 1..n : g \in 1..(n + 1)
      BY <1>2
    <2> QED  BY <1>3, <1>4, <2>1, <2>2
  <1>9. /\ Placed(log, left, out, lost)
        /\ kind # "prometheus" => Everywhere(log, left, out, lost)
    <2>1. /\ Placed(log, held, out, lost)
          /\ kind # "prometheus" => Everywhere(log, held, out, lost)
      BY <1>7 DEF AccountInv, PlaceInv
    <2>2. \A g \in DOMAIN left : \A m \in left[g] : g \in DOMAIN held /\ m \in held[g]
      BY <1>5, <1>8
    <2>3. \A g \in DOMAIN held : g \in DOMAIN left /\ left[g] = held[g]
      BY <1>2, <1>8
    <2>4. Placed(log, left, out, lost)
      BY <2>1, <2>2 DEF Placed
    <2> QED  BY <2>1, <2>3, <2>4 DEF Everywhere, Somewhere
  <1>10. log \in Seq([key : Texts, slot : Nat, gen : 1..(n + 1)])
    <2>1. log \in Seq([key : Texts, slot : Nat, gen : 1..n])
      BY <1>1 DEF AccountInv, PlaceInv
    <2>2. PICK R, S : R = [key : Texts, slot : Nat, gen : 1..n] /\ S = [key : Texts, slot : Nat, gen : 1..(n + 1)]
      OBVIOUS
    <2>3. R \subseteq S
      BY <1>2, <2>2
    <2>4. log \in Seq(R) => log \in Seq(S)
      BY <2>3
    <2> QED  BY <2>1, <2>2, <2>4
  <1>11. PlaceInv'
    BY <1>2, <1>7, <1>9, <1>10 DEF AccountInv, PlaceInv
  <1>12. \A l \in lost' : Reason(l)'
    BY <1>2, ReasonKept DEF AccountInv
  <1> QED  BY <1>6, <1>11, <1>12 DEF AccountInv

-----------------------------------------------------------------------------
(* Every step *)

Round(path, slot) == [key |-> path, slot |-> slot]

LEMMA PolledEmits ==
  ASSUME IngestInv, NEW path \in PolledNow, PolledRound(path)
  PROVE  /\ Gen \in 1..Gen /\ path \in Texts /\ "@" \notin Range(path) /\ made \in Nat
         /\ EmitTo(Gen, Round(path, made + 1)) /\ made' = made + 1
  <1>1. Loaded /\ made \in Nat /\ Gen \in Nat
    BY GenNat DEF IngestInv, AgentInv
  <1>2. Gen \in 1..Gen
    BY <1>1 DEF Loaded, PolledRound
  <1>3. path \in Texts /\ "@" \notin Range(path)
    BY <1>1, <1>2, GenerationFacts DEF PolledRound
  <1> QED  BY <1>1, <1>2, <1>3 DEF PolledRound, Finished, Round

LEMMA HandleEmits ==
  ASSUME IngestInv, HandleRound
  PROVE  LET w == Head(request.left)
             g == request.gen IN
         /\ g \in 1..Gen /\ Authentic(g)
         /\ w \in measured /\ w.path \in Texts /\ w.slot \in Nat
         /\ Key(w).key \in Texts /\ Key(w).slot \in Nat /\ "@" \in Range(Key(w).key)
         /\ EmitTo(g, Key(w)) \/ UNCHANGED evars
  <1>0. PICK w, g : w = Head(request.left) /\ g = request.gen
    OBVIOUS
  <1>1. Loaded /\ AgentInv /\ RequestInv /\ Handling /\ Gen \in Nat
    BY GenNat DEF IngestInv, HandleRound
  <1>2. w \in measured
    BY <1>0, <1>1, NextRound
  <1>3. g \in 1..Gen /\ Authentic(g)
    <2>1. request \in [gen : 0..Gen, batch : Seq(measured), left : Seq(measured)] /\ request.left # <<>>
      BY <1>1 DEF RequestInv, Handling
    <2>2. g # 0
      <3>1. NoRequest.left = <<>>
        BY DEF NoRequest
      <3> QED  BY <1>0, <1>1, <2>1, <3>1 DEF RequestInv
    <2> QED  BY <1>0, <1>1, <2>1, <2>2 DEF Handling
  <1>4. w.path \in Texts /\ w.slot \in Nat
    BY <1>1, <1>2 DEF AgentInv
  <1>5. Key(w).key \in Texts /\ Key(w).slot \in Nat /\ "@" \in Range(Key(w).key)
    BY <1>1, <1>3, <1>4, GenerationFacts, KeyFacts DEF Key
  <1>6. EmitTo(g, Key(w)) \/ UNCHANGED evars
    BY <1>0 DEF HandleRound, Finished, Key
  <1> QED  BY <1>0, <1>2, <1>3, <1>4, <1>5, <1>6

(* What a step is to the sinks. *)
LEMMA StepKinds ==
  ASSUME IngestInv, [Next]_vars
  PROVE  \/ SinksStep \/ Load \/ (\E how \in {"refused", "failed", "exited"} : EndAs(how))
         \/ \E path \in PolledNow : PolledRound(path)
         \/ HandleRound
         \/ UNCHANGED <<setup, app, evars>>
  <1>1. CASE UNCHANGED vars
    BY <1>1 DEF vars, mvars
  <1>2. CASE Next
    <2>1. CASE Fetch \/ Post \/ Unauthorized \/ Acknowledge \/ LoseAnswer \/ Reload
      BY <2>1 DEF Fetch, Post, Unauthorized, Acknowledge, LoseAnswer, Reload
    <2>2. CASE \E path \in told.paths : Measure(path)
      BY <2>2 DEF Measure
    <2>3. CASE LoadFails \/ StartFails \/ Quit
      BY <2>3 DEF LoadFails, StartFails, Quit
    <2> QED  BY <1>2, <2>1, <2>2, <2>3 DEF Next
  <1> QED  BY <1>1, <1>2

LEMMA AccountInit ==
  ASSUME Init
  PROVE  AccountInv
  <1>1. /\ setup \in Setups /\ kind \in setup.kinds /\ service = "up" /\ troubles = setup.troubles
        /\ app = <<>> /\ Gen = 0 /\ log = <<>> /\ sink = <<>> /\ out = <<>> /\ lost = {}
    BY DEF Init, EmittersInit, Gen
  <1>2. setup.troubles \in Nat
    BY <1>1, MasterAssumption
  <1>3. 1..0 = {} /\ \A g \in 1..0 : FALSE
    OBVIOUS
  <1>4. SinkInv
    <2>1. sink \in [1..Gen -> Sinks]
      <3>1. sink \in Seq(Sinks) /\ Len(sink) = 0
        BY <1>1
      <3> QED  BY <1>1, <3>1, LenProperties
    <2> QED  BY <1>1, <1>2, <1>3, <2>1 DEF SinkInv
  <1>5. PlaceInv
    <2>1. log \in Seq([key : Texts, slot : Nat, gen : 1..Gen]) /\ out \in Seq(Nat) /\ DOMAIN log = {}
          /\ DOMAIN out = {}
      BY <1>1
    <2>2. DOMAIN Held = {}
      BY <1>1, <1>3 DEF Held
    <2> QED  BY <1>1, <2>1, <2>2 DEF PlaceInv, Placed, Everywhere
  <1> QED  BY <1>1, <1>4, <1>5 DEF AccountInv

LEMMA AccountNext ==
  ASSUME IngestInv, AccountInv, [Next]_vars
  PROVE  AccountInv'
  <1>1. Loaded
    BY DEF IngestInv
  <1>2. CASE SinksStep
    BY <1>1, <1>2, SinksAccounts
  <1>3. CASE Load
    BY <1>1, <1>3, LoadAccounts
  <1>4. CASE \E how \in {"refused", "failed", "exited"} : EndAs(how)
    BY <1>4, EndAccounts
  <1>5. CASE \E path \in PolledNow : PolledRound(path)
    <2>1. PICK path \in PolledNow : PolledRound(path)
      BY <1>5
    <2>2. PICK g, round : g = Gen /\ round = Round(path, made + 1)
      OBVIOUS
    <2>3. g \in 1..Gen /\ round.key \in Texts /\ round.slot \in Nat /\ EmitTo(g, round)
      BY <2>1, <2>2, PolledEmits DEF Round
    <2>4. UNCHANGED <<setup, app>>
      BY <2>1 DEF PolledRound
    <2> QED  BY <1>1, <2>3, <2>4, EmitAccounts
  <1>6. CASE HandleRound
    <2>1. PICK g, round : g = request.gen /\ round = Key(Head(request.left))
      OBVIOUS
    <2>2. g \in 1..Gen /\ round.key \in Texts /\ round.slot \in Nat /\ (EmitTo(g, round) \/ UNCHANGED evars)
      BY <1>6, <2>1, HandleEmits
    <2>3. UNCHANGED <<setup, app>>
      BY <1>6 DEF HandleRound
    <2>4. CASE EmitTo(g, round)
      BY <1>1, <2>2, <2>3, <2>4, EmitAccounts
    <2>5. CASE UNCHANGED evars
      BY <2>3, <2>5 DEF AccountInv, SinkInv, PlaceInv, Held, Working, Cap, Lot, Gen, Reason, evars
    <2> QED  BY <2>2, <2>4, <2>5
  <1>7. CASE UNCHANGED <<setup, app, evars>>
    BY <1>7 DEF AccountInv, SinkInv, PlaceInv, Held, Working, Cap, Lot, Gen, Reason, evars
  <1> QED  BY <1>2, <1>3, <1>4, <1>5, <1>6, <1>7, StepKinds

-----------------------------------------------------------------------------
(* The end of a feed *)

(* Only the client's going or a generation's end ends a feed. *)
FeedInv == \A g \in 1..Gen : kind = "live" /\ sink[g].doing = "done" => ~Open(g)

(* A task that goes on does not end. *)
LEMMA SinkGoesOn ==
  ASSUME SinkInv, NEW g \in 1..Gen, SinkStep(g)
  PROVE  /\ DOMAIN sink' = 1..Gen /\ sink'[g].doing # "done" /\ kind # "prometheus"
         /\ \A f \in 1..Gen : f # g => sink'[f] = sink[f]
  <1>1. PICK x : x = sink[g]
    OBVIOUS
  <1>2. x \in Sinks /\ sink \in [1..Gen -> Sinks]
    BY <1>1 DEF SinkInv
  <1>3. CASE InfluxRecv(g)
    <2>1. PICK r : r = [x EXCEPT !.queue = Tail(@), !.hand = Append(@, Head(x.queue))]
      OBVIOUS
    <2>2. r.doing = "idle" /\ (Flush(r)).doing = "post"
      BY <1>1, <1>2, <1>3, <2>1 DEF InfluxRecv, Flush, Sinks
    <2>3. sink' = [sink EXCEPT ![g] = IF Len(r.hand) >= MaxBatch THEN Flush(r) ELSE r]
      BY <1>1, <1>2, <1>3, <2>1 DEF InfluxRecv
    <2> QED  BY <1>2, <1>3, <2>2, <2>3 DEF InfluxRecv
  <1>4. CASE InfluxTick(g)
    BY <1>2, <1>4 DEF InfluxTick, Flush, Sinks
  <1>5. CASE InfluxAccepts(g) \/ InfluxFails(g)
    BY <1>2, <1>5 DEF InfluxAccepts, InfluxFails, Posted, Sinks
  <1>6. CASE GraphiteRecv(g)
    BY <1>2, <1>6 DEF GraphiteRecv, Sinks
  <1>7. CASE Connect(g)
    BY <1>1, <1>2, <1>7 DEF Connect, Sending, Sinks
  <1>8. CASE ConnectFails(g) \/ Write(g)
    BY <1>2, <1>8 DEF ConnectFails, Write, Sending, PayloadDone, Sinks
  <1>9. CASE WriteFails(g)
    <2>1. CASE sink[g].tries = 0
      BY <1>2, <1>9, <2>1 DEF WriteFails, Sending, Sinks
    <2>2. CASE sink[g].tries # 0
      BY <1>2, <1>9, <2>2 DEF WriteFails, Sending, PayloadDone, Sinks
    <2> QED  BY <2>1, <2>2
  <1>10. CASE FeedRecv(g)
    BY <1>2, <1>10 DEF FeedRecv, Sinks
  <1>11. CASE FeedLagged(g)
    BY <1>2, <1>11 DEF FeedLagged, Sinks
  <1>12. CASE FeedSend(g)
    BY <1>2, <1>12 DEF FeedSend, Sinks
  <1>13. CASE FeedLeft(g)
    BY <1>2, <1>13 DEF FeedLeft, NoSink
  <1> QED  BY <1>3, <1>4, <1>5, <1>6, <1>7, <1>8, <1>9, <1>10, <1>11, <1>12, <1>13 DEF SinkStep

(* What the steps of the sinks leave as it is. *)
LEMMA SinksGoOn ==
  ASSUME SinkInv, Loaded, SinksStep
  PROVE  /\ UNCHANGED <<mvars, kind, log>>
         /\ kind = "live" => \A f \in 1..Gen : sink'[f].doing = "done" => sink[f].doing = "done" \/ ~Open(f)
         /\ kind = "prometheus" => \A f \in 1..Gen : sink'[f].entries = sink[f].entries
  <1>1. sink \in [1..Gen -> Sinks] /\ DOMAIN sink = 1..Gen /\ UNCHANGED mvars
    BY DEF SinkInv, SinksStep
  <1>2. ASSUME NEW g \in DOMAIN sink, SinkStep(g)
        PROVE  /\ UNCHANGED <<kind, log>> /\ kind # "prometheus"
               /\ \A f \in 1..Gen : sink'[f].doing = "done" => sink[f].doing = "done"
    <2>1. UNCHANGED <<kind, log>>
      BY <1>2 DEF SinkStep, InfluxRecv, InfluxTick, InfluxAccepts, InfluxFails, GraphiteRecv, Connect,
           ConnectFails, Write, WriteFails, FeedRecv, FeedLagged, FeedSend, FeedLeft
    <2>2. g \in 1..Gen
      BY <1>1
    <2> QED  BY <1>2, <2>1, <2>2, SinkGoesOn
  <1>3. ASSUME NEW g \in DOMAIN sink, ~Open(g), Drain(g)
        PROVE  /\ UNCHANGED <<kind, log>> /\ kind # "prometheus"
               /\ \A f \in 1..Gen : f # g => sink'[f] = sink[f]
    <2>1. \A f \in 1..Gen : f # g => sink'[f] = sink[f]
      BY <1>1, <1>3 DEF Drain
    <2>2. kind # "prometheus"
      BY <1>1, <1>3 DEF Drain, SinkInv, Working
    <2> QED  BY <1>3, <2>1, <2>2 DEF Drain
  <1>4. ASSUME Serving, Subscribe(Gen)
        PROVE  /\ UNCHANGED <<kind, log>> /\ kind # "prometheus"
               /\ \A f \in 1..Gen : sink'[f].doing = "done" => sink[f].doing = "done"
    <2>1. PICK g : g = Gen
      OBVIOUS
    <2>2. sink' = [sink EXCEPT ![g].doing = "idle"] /\ UNCHANGED <<kind, log>> /\ kind = "live"
      BY <1>4, <2>1 DEF Subscribe
    <2>3. \A f \in 1..Gen : f # g => sink'[f] = sink[f]
      BY <1>1, <2>2
    <2>4. g \in 1..Gen => sink'[g].doing = "idle"
      BY <1>1, <2>2 DEF Sinks
    <2> QED  BY <2>2, <2>3, <2>4
  <1>5. ASSUME ServiceStep
        PROVE  /\ UNCHANGED <<kind, log>>
               /\ \A f \in 1..Gen : sink'[f].doing = sink[f].doing /\ sink'[f].entries = sink[f].entries
    <2>1. UNCHANGED <<kind, log>> /\ (sink' = sink \/ sink' = [g \in DOMAIN sink |-> Broken(sink[g])])
      BY <1>5 DEF ServiceStep, Worsen, Mend
    <2>2. ASSUME NEW x \in Sinks PROVE Broken(x).doing = x.doing /\ Broken(x).entries = x.entries
      BY DEF Broken, Sinks
    <2> QED  BY <1>1, <2>1, <2>2
  <1> QED  BY <1>1, <1>2, <1>3, <1>4, <1>5 DEF SinksStep, TaskStep

LEMMA FeedNext ==
  ASSUME IngestInv, AccountInv, FeedInv, [Next]_vars
  PROVE  FeedInv'
  <1>1. /\ Loaded /\ SinkInv /\ sink \in [1..Gen -> Sinks] /\ Gen \in Nat
        /\ request.gen \in 0..Gen
    BY GenNat DEF IngestInv, RequestInv, AccountInv, SinkInv
  <1>2. CASE SinksStep
    <2>1. UNCHANGED <<mvars, kind>>
      BY <1>1, <1>2, SinksGoOn
    <2>2. Gen' = Gen /\ \A g : Open(g)' <=> Open(g)
      BY <2>1 DEF mvars, Gen, Open, Serving
    <2>3. kind = "live" => \A f \in 1..Gen : sink'[f].doing = "done" => sink[f].doing = "done" \/ ~Open(f)
      BY <1>1, <1>2, SinksGoOn
    <2> QED  BY <2>1, <2>2, <2>3 DEF FeedInv
  <1>3. CASE Load
    <2>1. PICK n, s : n = Gen /\ s = Spawned
      OBVIOUS
    <2>2. /\ sink' = Append(sink, s) /\ Gen' = n + 1 /\ UNCHANGED <<kind, request>>
      <3>1. Len(app') = Len(app) + 1
        BY <1>1, <1>3 DEF Load, Loaded
      <3> QED  BY <1>3, <2>1, <3>1 DEF Load, Gen
    <2>3. kind = "live" => s \in Sinks /\ s.doing = "away"
      <3>1. ASSUME kind = "live" PROVE s = [NoSink EXCEPT !.doing = "away"]
        BY <2>1, <3>1 DEF Spawned
      <3> QED  BY <3>1, NothingFine DEF NoSink
    <2> SUFFICES ASSUME NEW g \in 1..(n + 1), kind = "live", sink'[g].doing = "done" PROVE ~Open(g)'
      BY <2>2 DEF FeedInv
    <2>4. sink'[n + 1] = s /\ \A f \in 1..n : sink'[f] = sink[f]
      <3>1. /\ Append(sink, s)[n + 1] = s /\ \A f \in 1..n : Append(sink, s)[f] = sink[f]
        BY <1>1, <2>1, <2>3, GrownByOne
      <3> QED  BY <2>2, <3>1
    <2>5. g \in 1..n /\ g # n + 1
      BY <1>1, <2>1, <2>3, <2>4
    <2>6. g # request.gen
      BY <2>1, <2>4, <2>5 DEF FeedInv, Open
    <2> QED  BY <2>2, <2>5, <2>6 DEF Open
  <1>4. CASE \E how \in {"refused", "failed", "exited"} : EndAs(how)
    <2>1. /\ Gen' = Gen /\ UNCHANGED kind
          /\ sink' = [g \in DOMAIN sink |-> [NoSink EXCEPT !.entries = sink[g].entries]]
      BY <1>4 DEF EndAs, Gen
    <2>2. \A g \in 1..Gen : sink'[g].doing = "none"
      BY <1>1, <2>1 DEF NoSink
    <2> QED  BY <2>1, <2>2 DEF FeedInv
  <1>5. ASSUME NEW g \in 1..Gen, NEW round, EmitTo(g, round)
        PROVE  UNCHANGED kind /\ (kind = "live" => \A f \in 1..Gen : sink'[f].doing = sink[f].doing)
    <2>1. PICK x : x = sink[g]
      OBVIOUS
    <2>2. x \in Sinks
      BY <1>1, <2>1
    <2>3. UNCHANGED kind
      BY <1>5 DEF EmitTo
    <2>4. ASSUME kind = "live" PROVE \A f \in 1..Gen : sink'[f].doing = sink[f].doing
      <3>1. PICK n : n = Len(log) + 1
        OBVIOUS
      <3>2. OfferFeed(g, n)
        BY <1>5, <2>4, <3>1 DEF EmitTo
      <3>3. \/ UNCHANGED sink
            \/ sink' = [sink EXCEPT ![g].queue = Append(@, n)]
            \/ sink' = [sink EXCEPT ![g].queue = Append(Tail(@), n), ![g].lagged = TRUE]
        BY <3>2 DEF OfferFeed
      <3>4. CASE sink' = [sink EXCEPT ![g].queue = Append(@, n)]
        BY <1>1, <3>4 DEF Sinks
      <3>5. CASE sink' = [sink EXCEPT ![g].queue = Append(Tail(@), n), ![g].lagged = TRUE]
        BY <1>1, <3>5 DEF Sinks
      <3> QED  BY <3>3, <3>4, <3>5
    <2> QED  BY <2>3, <2>4
  <1>6. CASE \E path \in PolledNow : PolledRound(path)
    <2>1. PICK path \in PolledNow : PolledRound(path)
      BY <1>6
    <2>2. PICK g, round : g = Gen /\ round = Round(path, made + 1)
      OBVIOUS
    <2>3. g \in 1..Gen /\ EmitTo(g, round)
      BY <2>1, <2>2, PolledEmits
    <2>4. UNCHANGED <<app, pc, request>>
      BY <2>1 DEF PolledRound
    <2>5. UNCHANGED kind /\ (kind = "live" => \A f \in 1..Gen : sink'[f].doing = sink[f].doing)
      BY <1>5, <2>3
    <2> QED  BY <2>4, <2>5 DEF FeedInv, Open, Gen, Serving
  <1>7. CASE HandleRound
    <2>1. PICK g, round : g = request.gen /\ round = Key(Head(request.left))
      OBVIOUS
    <2>2. g \in 1..Gen /\ (EmitTo(g, round) \/ UNCHANGED evars)
      BY <1>7, <2>1, HandleEmits
    <2>3. UNCHANGED <<app, pc>> /\ request'.gen = request.gen
      <3>1. request' = [request EXCEPT !.left = Tail(@)]
        BY <1>7 DEF HandleRound
      <3> QED  BY <1>7, <3>1 DEF HandleRound, IngestInv, RequestInv
    <2>4. UNCHANGED kind /\ (kind = "live" => \A f \in 1..Gen : sink'[f].doing = sink[f].doing)
      BY <1>5, <2>2 DEF evars
    <2> QED  BY <2>3, <2>4 DEF FeedInv, Open, Gen, Serving
  <1>8. CASE /\ UNCHANGED <<app, kind, sink>> /\ (Serving' => Serving)
             /\ request'.gen = request.gen \/ request'.gen = 0 \/ (Serving /\ request'.gen = Gen)
    BY <1>1, <1>8 DEF FeedInv, Open, Gen
  <1>9. CASE UNCHANGED vars
    BY <1>8, <1>9 DEF vars, mvars, evars, Serving
  <1>10. CASE Fetch \/ Reload \/ \E path \in told.paths : Measure(path)
    BY <1>8, <1>10 DEF Fetch, Reload, Measure, evars, Serving
  <1>11. CASE Unauthorized \/ Acknowledge \/ LoseAnswer
    <2>1. request' = NoRequest /\ UNCHANGED <<app, pc, evars>>
      BY <1>11 DEF Unauthorized, Acknowledge, LoseAnswer
    <2>2. request'.gen = 0
      BY <2>1 DEF NoRequest
    <2> QED  BY <1>8, <2>1, <2>2 DEF evars, Serving
  <1>12. CASE Post
    BY <1>8, <1>12 DEF Post, evars, Serving
  <1>13. CASE LoadFails \/ StartFails \/ Quit
    BY <1>4, <1>13 DEF LoadFails, StartFails, Quit
  <1> QED  BY <1>2, <1>3, <1>4, <1>6, <1>7, <1>9, <1>10, <1>11, <1>12, <1>13 DEF Next

-----------------------------------------------------------------------------
(* What is emitted is new *)

(* Unless an answer to the agent was lost, the slots of a key rise, and     *)
(* what the agent still has to send is newer than all it sent.              *)
Unheard  == request.gen > 0 => Running /\ (Authentic(request.gen) \/ Done = 0)
KeysRise == losses = 0 =>
  \A m, n \in DOMAIN log : m < n /\ log[m].key = log[n].key => log[m].slot < log[n].slot
Ahead    == losses = 0 /\ Running =>
  \A n \in DOMAIN log : "@" \in Range(log[n].key) =>
    \A i \in DOMAIN outbox : Done < i => log[n].slot < outbox[i].slot
FreshInv ==
  /\ losses \in Nat /\ \A n \in DOMAIN log : log[n].slot <= made
  /\ Unheard /\ KeysRise /\ Ahead

LEMMA LogIs ==
  ASSUME PlaceInv
  PROVE  /\ DOMAIN log = 1..Len(log) /\ Len(log) \in Nat
         /\ \A n \in DOMAIN log : /\ log[n] \in [key : Texts, slot : Nat, gen : 1..Gen]
                                  /\ log[n].key \in Texts /\ log[n].slot \in Nat /\ log[n].gen \in 1..Gen
  <1>1. PICK R : R = [key : Texts, slot : Nat, gen : 1..Gen]
    OBVIOUS
  <1>2. log \in Seq(R)
    BY <1>1 DEF PlaceInv
  <1>3. DOMAIN log = 1..Len(log) /\ Len(log) \in Nat /\ \A n \in DOMAIN log : log[n] \in R
    BY <1>2
  <1> QED  BY <1>1, <1>3

LEMMA LogGrows ==
  ASSUME PlaceInv, NEW e, log' = Append(log, e)
  PROVE  LET n == Len(log) + 1 IN
         /\ n \in DOMAIN log' /\ log'[n] = e
         /\ \A i \in DOMAIN log : i \in DOMAIN log' /\ log'[i] = log[i] /\ i < n /\ i # n
         /\ \A i \in DOMAIN log' : i \in Nat /\ (i \in DOMAIN log \/ i = n)
         /\ Len(log) \in Nat
  <1> DEFINE n == Len(log) + 1
  <1>1. log \in Seq([key : Texts, slot : Nat, gen : 1..Gen])
    BY DEF PlaceInv
  <1>2. /\ Len(log) \in Nat /\ DOMAIN log = 1..Len(log) /\ DOMAIN log' = 1..(Len(log) + 1)
        /\ \A i \in DOMAIN log : log'[i] = log[i]
        /\ log'[Len(log) + 1] = e
    BY <1>1
  <1>3. /\ n \in DOMAIN log' /\ \A i \in DOMAIN log : i \in DOMAIN log' /\ i < n /\ i # n
        /\ \A i \in DOMAIN log' : i \in Nat /\ (i \in DOMAIN log \/ i = n)
    BY <1>2
  <1>4. log'[n] = e
    BY <1>2
  <1> HIDE DEF n
  <1> QED  BY <1>2, <1>3, <1>4 DEF n

LEMMA FreshInit ==
  ASSUME Init
  PROVE  FreshInv
  <1>1. losses = 0 /\ log = <<>> /\ request.gen = 0 /\ DOMAIN log = {}
    BY DEF Init, EmittersInit, NoRequest
  <1> QED  BY <1>1 DEF FreshInv, Unheard, KeysRise, Ahead

(* Nothing is emitted. *)
LEMMA FreshKept ==
  ASSUME FreshInv, UNCHANGED log, losses' \in Nat, losses <= losses', made \in Nat, made' \in Nat, made <= made',
         PlaceInv, Unheard', losses' = 0 /\ Running' => Ahead'
  PROVE  FreshInv'
  <1>1. \A n \in DOMAIN log : log[n].slot \in Nat
    BY LogIs
  <1>2. \A n \in DOMAIN log' : log'[n].slot <= made'
    BY <1>1 DEF FreshInv
  <1>3. losses' = 0 => losses = 0
    BY DEF FreshInv
  <1> QED  BY <1>2, <1>3 DEF FreshInv, KeysRise, Ahead

(* The agent and the master's process. *)
LEMMA BesideFresh ==
  ASSUME IngestInv, AccountInv, FreshInv,
         \/ Load \/ Reload \/ Fetch \/ (\E path \in told.paths : Measure(path)) \/ Post
         \/ Unauthorized \/ Acknowledge \/ LoseAnswer
         \/ (\E how \in {"refused", "failed", "exited"} : EndAs(how))
         \/ UNCHANGED <<mvars, log>>
  PROVE  FreshInv'
  <1>1. /\ Loaded /\ AgentInv /\ OutboxInv /\ RequestInv /\ PlaceInv /\ losses \in Nat /\ made \in Nat
        /\ request \in [gen : 0..Gen, batch : Seq(measured), left : Seq(measured)] /\ Gen \in Nat
        /\ outbox \in Seq(measured)
    BY GenNat DEF IngestInv, AgentInv, RequestInv, OutboxInv, AccountInv, FreshInv
  <1>2. \A n \in DOMAIN log : log[n].slot \in Nat
    BY <1>1, LogIs
  <1>3. NoRequest.gen = 0 /\ Len(NoRequest.batch) = 0 /\ Len(NoRequest.left) = 0
    BY DEF NoRequest
  <1>4. CASE UNCHANGED <<mvars, log>>
    <2>1. Unheard' /\ Ahead'
      BY <1>4 DEF FreshInv, Unheard, Ahead, Authentic, Agent, Done, Running, mvars
    <2> QED  BY <1>1, <1>4, <2>1, FreshKept DEF mvars
  <1>5. CASE Reload \/ Fetch
    <2>1. Unheard' /\ Ahead' /\ UNCHANGED <<log, losses, made>>
      BY <1>5 DEF Reload, Fetch, FreshInv, Unheard, Ahead, Authentic, Agent, Done, Running, Serving, evars
    <2> QED  BY <1>1, <2>1, FreshKept
  <1>6. CASE Load
    <2>1. app' = Append(app, AppOf(NextConfig)) /\ UNCHANGED <<setup, log, losses, made, request, outbox>>
          /\ Running
      BY <1>6 DEF Load, Running
    <2>2. \A g \in 1..Gen : app'[g] = app[g]
      BY <1>1, <2>1 DEF Loaded, Gen
    <2>3. Unheard'
      <3>1. request.gen > 0 => request.gen \in 1..Gen
        BY <1>1
      <3>2. Running'
        BY <1>6 DEF Load, Running
      <3> QED  BY <2>1, <2>2, <3>1, <3>2 DEF FreshInv, Unheard, Authentic, Agent, Done
    <2>4. Ahead'
      BY <2>1 DEF FreshInv, Ahead, Done
    <2> QED  BY <1>1, <2>1, <2>3, <2>4, FreshKept
  <1>7. CASE \E how \in {"refused", "failed", "exited"} : EndAs(how)
    <2>1. ~Running' /\ request' = NoRequest /\ UNCHANGED <<log, losses, made>>
      BY <1>7 DEF EndAs, Running
    <2>2. Unheard'
      BY <1>3, <2>1 DEF Unheard
    <2> QED  BY <1>1, <2>1, <2>2, FreshKept
  <1>8. CASE LoseAnswer
    <2>1. losses' = losses + 1 /\ request' = NoRequest /\ UNCHANGED <<log, made>>
      BY <1>8 DEF LoseAnswer, evars
    <2>2. Unheard'
      BY <1>3, <2>1 DEF Unheard
    <2>3. losses' \in Nat /\ losses <= losses' /\ losses' # 0
      BY <1>1, <2>1
    <2> QED  BY <1>1, <2>1, <2>2, <2>3, FreshKept
  <1>9. CASE Unauthorized
    <2>1. request # NoRequest /\ ~Authentic(request.gen) /\ request' = NoRequest
          /\ UNCHANGED <<log, losses, made, outbox, pc>>
      BY <1>9 DEF Unauthorized, evars
    <2>2. Unheard' /\ Done' = 0
      BY <1>3, <2>1 DEF Unheard, Done
    <2>3. Done = 0
      BY <1>1, <2>1 DEF FreshInv, Unheard, RequestInv
    <2>4. Ahead'
      BY <2>1, <2>2, <2>3 DEF FreshInv, Ahead, Running
    <2> QED  BY <1>1, <2>1, <2>2, <2>4, FreshKept
  <1>10. CASE Post
    <2>1. request = NoRequest /\ request' = [gen |-> Gen, batch |-> outbox, left |-> outbox]
          /\ UNCHANGED <<log, losses, made, outbox, pc>>
      BY <1>10 DEF Post, evars
    <2>2. Done = 0 /\ Done' = 0
      <3>1. Len(outbox) \in Nat
        BY <1>1
      <3> QED  BY <1>3, <2>1, <3>1 DEF Done
    <2>3. Unheard'
      BY <1>10, <2>2 DEF Unheard, Post, Running, Serving
    <2>4. Ahead'
      BY <2>1, <2>2 DEF FreshInv, Ahead, Running
    <2> QED  BY <1>1, <2>1, <2>3, <2>4, FreshKept
  <1>11. CASE Acknowledge
    <2>1. PICK b : b = Len(request.batch)
      OBVIOUS
    <2>2. request.left = <<>> /\ request' = NoRequest /\ outbox' = SubSeq(outbox, b + 1, Len(outbox))
          /\ UNCHANGED <<log, losses, made, pc>>
      BY <1>11, <2>1 DEF Acknowledge, Handled, evars
    <2>3. Unheard' /\ Done' = 0 /\ Done = b /\ b \in Nat
      <3>1. b \in Nat /\ Len(request.left) = 0
        BY <1>1, <2>1, <2>2
      <3> QED  BY <1>3, <2>1, <2>2, <3>1 DEF Unheard, Done
    <2>4. \A i \in DOMAIN outbox' : b + i \in DOMAIN outbox /\ b < b + i /\ outbox'[i] = outbox[b + i]
      <3>1. b <= Len(outbox) /\ Len(outbox) \in Nat /\ DOMAIN outbox = 1..Len(outbox)
        BY <1>1, <2>1 DEF RequestInv
      <3>2. /\ DOMAIN outbox' = 1..(Len(outbox) - b)
            /\ \A i \in 1..(Len(outbox) - b) : outbox'[i] = outbox[b + i] /\ b + i \in 1..Len(outbox)
        BY <1>1, <2>2, <2>3, <3>1, RestOf
      <3>3. \A i \in DOMAIN outbox' : b < b + i
        BY <2>3, <3>1, <3>2
      <3> QED  BY <3>1, <3>2, <3>3
    <2>5. Ahead'
      BY <2>2, <2>3, <2>4 DEF FreshInv, Ahead, Running
    <2> QED  BY <1>1, <2>2, <2>3, <2>5, FreshKept
  <1>12. CASE \E path \in told.paths : Measure(path)
    <2>1. PICK w : w.slot = made + 1 /\ outbox' = Append(outbox, w)
      <3>1. PICK path \in told.paths : Measure(path)
        BY <1>12
      <3> DEFINE r == [path |-> path, slot |-> made + 1, told |-> told.gen]
      <3>2. r.slot = made + 1 /\ outbox' = Append(outbox, r)
        BY <3>1 DEF Measure
      <3> QED  BY <3>2
    <2>2. /\ made' = made + 1 /\ Running /\ UNCHANGED <<setup, app, pc, request, losses, log>>
      BY <1>12 DEF Measure, evars
    <2>3. Unheard' /\ Done' = Done
      BY <2>2 DEF FreshInv, Unheard, Authentic, Agent, Done, Running
    <2>4. \A i \in DOMAIN outbox' : \/ i \in DOMAIN outbox /\ outbox'[i] = outbox[i]
                                    \/ outbox'[i] = w
      BY <1>1, <2>1, SMTT(30)
    <2>5. \A n \in DOMAIN log : log[n].slot < w.slot
      BY <1>1, <1>2, <2>1 DEF FreshInv
    <2>6. Ahead'
      BY <2>2, <2>3, <2>4, <2>5 DEF FreshInv, Ahead
    <2> QED  BY <1>1, <2>2, <2>3, <2>6, FreshKept
  <1> QED  BY <1>4, <1>5, <1>6, <1>7, <1>8, <1>9, <1>10, <1>11, <1>12

(* A round is emitted that is newer than all those of its key. *)
LEMMA EmitFresh ==
  ASSUME FreshInv, PlaceInv, NEW g, NEW round, round.slot \in Nat, log' = Append(log, Entry(round, g)),
         UNCHANGED losses, made \in Nat, made' \in Nat, made <= made', round.slot <= made',
         losses = 0 => \A m \in DOMAIN log : log[m].key = round.key => log[m].slot < round.slot
  PROVE  KeysRise' /\ losses' \in Nat /\ \A n \in DOMAIN log' : log'[n].slot <= made'
  <1>1. PICK n, all : n = Len(log) + 1 /\ all = log'
    OBVIOUS
  <1>2. /\ n \in DOMAIN all /\ all[n].key = round.key /\ all[n].slot = round.slot
        /\ \A i \in DOMAIN log : all[i] = log[i] /\ i < n /\ i # n
        /\ \A i \in DOMAIN all : i \in Nat /\ (i \in DOMAIN log \/ i = n)
        /\ n \in Nat
    <2>1. LET k == Len(log) + 1 IN
          /\ k \in DOMAIN log' /\ log'[k] = Entry(round, g)
          /\ \A i \in DOMAIN log : i \in DOMAIN log' /\ log'[i] = log[i] /\ i < k /\ i # k
          /\ \A i \in DOMAIN log' : i \in Nat /\ (i \in DOMAIN log \/ i = k)
      BY LogGrows
    <2> QED  BY <1>1, <2>1 DEF Entry
  <1>3. \A i \in DOMAIN log : log[i].slot \in Nat /\ log[i].slot <= made
    BY LogIs DEF FreshInv
  <1>4. \A i \in DOMAIN all : all[i].slot <= made'
    BY <1>2, <1>3
  <1>5. ASSUME losses = 0, NEW i \in DOMAIN all, NEW j \in DOMAIN all, i < j, all[i].key = all[j].key
        PROVE  all[i].slot < all[j].slot
    <2>1. i \in DOMAIN log
      BY <1>2, <1>5
    <2>2. CASE j \in DOMAIN log
      BY <1>2, <1>5, <2>1, <2>2 DEF FreshInv, KeysRise
    <2>3. CASE j = n
      BY <1>2, <1>5, <2>1, <2>3
    <2> QED  BY <1>2, <2>2, <2>3
  <1>6. KeysRise'
    BY <1>1, <1>5 DEF KeysRise
  <1> QED  BY <1>1, <1>4, <1>6 DEF FreshInv

LEMMA PolledFresh ==
  ASSUME IngestInv, AccountInv, FreshInv, NEW path \in PolledNow, PolledRound(path)
  PROVE  FreshInv'
  <1>1. PICK g, round : g = Gen /\ round = Round(path, made + 1)
    OBVIOUS
  <1>2. /\ "@" \notin Range(path) /\ made \in Nat /\ EmitTo(g, round) /\ made' = made + 1 /\ PlaceInv
        /\ UNCHANGED <<setup, pc, app, outbox, request, losses>>
    BY <1>1, PolledEmits DEF PolledRound, AccountInv
  <1>3. /\ log' = Append(log, Entry(round, g)) /\ round.key = path /\ round.slot = made + 1
        /\ round.slot \in Nat /\ made' \in Nat /\ made <= made' /\ round.slot <= made'
    BY <1>1, <1>2 DEF EmitTo, Entry, Round
  <1>4. \A m \in DOMAIN log : log[m].slot < round.slot
    BY <1>2, <1>3, LogIs DEF FreshInv
  <1>5. KeysRise' /\ losses' \in Nat /\ \A n \in DOMAIN log' : log'[n].slot <= made'
    BY <1>2, <1>3, <1>4, EmitFresh
  <1>6. Unheard'
    BY <1>2 DEF FreshInv, Unheard, Authentic, Agent, Done, Running
  <1>7. Ahead'
    <2>1. PICK all : all = log'
      OBVIOUS
    <2>2. \A n \in DOMAIN all : (n \in DOMAIN log /\ all[n] = log[n]) \/ all[n].key = path
      <3>1. LET k == Len(log) + 1 IN
            /\ k \in DOMAIN log' /\ log'[k] = Entry(round, g)
            /\ \A i \in DOMAIN log : i \in DOMAIN log' /\ log'[i] = log[i] /\ i < k /\ i # k
            /\ \A i \in DOMAIN log' : i \in Nat /\ (i \in DOMAIN log \/ i = k)
        BY <1>2, <1>3, LogGrows
      <3> QED  BY <1>3, <2>1, <3>1 DEF Entry
    <2> QED  BY <1>2, <2>1, <2>2 DEF FreshInv, Ahead, Running, Done
  <1> QED  BY <1>5, <1>6, <1>7 DEF FreshInv

LEMMA HandleFresh ==
  ASSUME IngestInv, AccountInv, FreshInv, HandleRound
  PROVE  FreshInv'
  <1>1. PICK w, g : w = Head(request.left) /\ g = request.gen
    OBVIOUS
  <1>2. PICK round, at : round = Key(w) /\ at = Done + 1
    OBVIOUS
  <1>3. /\ g \in 1..Gen /\ Authentic(g) /\ w \in measured /\ w.slot \in Nat
        /\ round.slot = w.slot /\ "@" \in Range(round.key)
        /\ EmitTo(g, round) \/ UNCHANGED evars
    BY <1>1, <1>2, HandleEmits DEF Key
  <1>4. Handling /\ request' = [request EXCEPT !.left = Tail(@)] /\ PlaceInv /\ made \in Nat
        /\ UNCHANGED <<setup, pc, app, outbox, losses, made>>
    BY DEF HandleRound, AccountInv, IngestInv, AgentInv
  <1>5. at \in DOMAIN request.batch /\ outbox[at] = w
    BY <1>1, <1>2, <1>4, NextRound
  <1>6. request \in [gen : 0..Gen, batch : Seq(measured), left : Seq(measured)]
    BY DEF IngestInv, RequestInv
  <1>7. at \in DOMAIN outbox /\ at \in Nat /\ Done \in Nat /\ \A i \in DOMAIN outbox : i \in Nat /\ outbox[i].slot \in Nat
    <2>1. /\ outbox \in Seq(measured) /\ Len(request.batch) <= Len(outbox) /\ request.batch \in Seq(measured)
          /\ \A x \in measured : x.slot \in Nat
      BY <1>6 DEF IngestInv, OutboxInv, RequestInv, AgentInv
    <2>2. Len(outbox) \in Nat /\ DOMAIN outbox = 1..Len(outbox) /\ Len(request.batch) \in Nat
          /\ DOMAIN request.batch = 1..Len(request.batch) /\ \A i \in DOMAIN outbox : outbox[i] \in measured
      BY <2>1
    <2>3. Len(request.left) \in Nat /\ Len(request.left) <= Len(request.batch)
      BY <1>6 DEF IngestInv, RequestInv
    <2>4. PICK a, b : a = Len(request.batch) /\ b = Len(request.left)
      OBVIOUS
    <2>5. Done \in Nat /\ at \in Nat
      <3>1. a \in Nat /\ b \in Nat /\ b <= a
        BY <2>2, <2>3, <2>4
      <3>2. a - b \in Nat /\ a - b + 1 \in Nat
        BY <3>1
      <3> QED  BY <1>2, <2>4, <3>2 DEF Done
    <2>6. at \in DOMAIN outbox
      BY <1>5, <2>1, <2>2
    <2> QED  BY <2>1, <2>2, <2>5, <2>6
  <1>8. request'.gen = g /\ Done' = at
    <2>1. request.left # <<>> /\ request.left \in Seq(measured)
      BY <1>4, <1>6 DEF Handling
    <2>2. request'.gen = g /\ request'.batch = request.batch /\ request'.left = Tail(request.left)
      BY <1>1, <1>4, <1>6
    <2>3. Len(Tail(request.left)) = Len(request.left) - 1 /\ Len(request.left) \in Nat
          /\ Len(request.batch) \in Nat
      BY <1>6, <2>1
    <2>4. PICK a, b : a = Len(request.batch) /\ b = Len(request.left)
      OBVIOUS
    <2>5. Done' = a - (b - 1) /\ Done = a - b /\ a \in Nat /\ b \in Nat
      BY <2>2, <2>3, <2>4 DEF Done
    <2>6. a - (b - 1) = (a - b) + 1
      BY <2>5
    <2> QED  BY <1>2, <2>2, <2>5, <2>6
  <1>9. Running /\ Running' /\ Unheard'
    <2>1. g > 0
      BY <1>3
    <2> QED  BY <1>1, <1>3, <1>4, <1>8, <2>1 DEF FreshInv, Unheard, Authentic, Agent, Running
  <1>10. w.slot \in 1..made
    BY <1>3 DEF IngestInv, AgentInv
  <1>11. ASSUME losses = 0, NEW n \in DOMAIN log, "@" \in Range(log[n].key)
         PROVE  /\ log[n].slot < w.slot
                /\ \A i \in DOMAIN outbox : at < i => log[n].slot < outbox[i].slot
    <2>1. Done < at /\ \A i \in DOMAIN outbox : at < i => Done < i
      BY <1>2, <1>7
    <2>2. \A i \in DOMAIN outbox : Done < i => log[n].slot < outbox[i].slot
      BY <1>9, <1>11 DEF FreshInv, Ahead
    <2> QED  BY <1>5, <1>7, <2>1, <2>2
  <1>12. CASE UNCHANGED evars
    <2>1. Ahead'
      BY <1>4, <1>8, <1>9, <1>11, <1>12 DEF Ahead, evars
    <2> QED  BY <1>4, <1>9, <1>12, <2>1, FreshKept DEF evars, FreshInv
  <1>13. CASE EmitTo(g, round)
    <2>1. log' = Append(log, Entry(round, g)) /\ round.slot \in Nat /\ round.slot <= made
      BY <1>3, <1>10, <1>13 DEF EmitTo, Entry
    <2>2. losses = 0 => \A m \in DOMAIN log : log[m].key = round.key => log[m].slot < round.slot
      BY <1>3, <1>11
    <2>3. KeysRise' /\ losses' \in Nat /\ \A n \in DOMAIN log' : log'[n].slot <= made'
      BY <1>4, <2>1, <2>2, EmitFresh
    <2>4. Ahead'
      <3>1. PICK all : all = log'
        OBVIOUS
      <3>2. \A n \in DOMAIN all : (n \in DOMAIN log /\ all[n] = log[n]) \/ all[n].slot = w.slot
        <4>1. LET k == Len(log) + 1 IN
              /\ k \in DOMAIN log' /\ log'[k] = Entry(round, g)
              /\ \A i \in DOMAIN log : i \in DOMAIN log' /\ log'[i] = log[i] /\ i < k /\ i # k
              /\ \A i \in DOMAIN log' : i \in Nat /\ (i \in DOMAIN log \/ i = k)
          BY <1>4, <2>1, LogGrows
        <4> QED  BY <1>3, <3>1, <4>1 DEF Entry
      <3>3. \A i \in DOMAIN outbox : at < i => w.slot < outbox[i].slot
        BY <1>5, <1>7 DEF IngestInv, OutboxInv
      <3> QED  BY <1>4, <1>8, <1>11, <3>1, <3>2, <3>3 DEF Ahead
    <2> QED  BY <1>9, <2>3, <2>4 DEF FreshInv
  <1> QED  BY <1>3, <1>12, <1>13

LEMMA FreshNext ==
  ASSUME IngestInv, AccountInv, FreshInv, [Next]_vars
  PROVE  FreshInv'
  <1>1. CASE UNCHANGED vars
    BY <1>1, BesideFresh DEF vars, evars
  <1>2. CASE SinksStep
    <2>1. UNCHANGED <<mvars, log>>
      BY <1>2, SinksGoOn DEF IngestInv, AccountInv
    <2> QED  BY <2>1, BesideFresh
  <1>3. CASE LoadFails \/ StartFails \/ Quit
    BY <1>3, BesideFresh DEF LoadFails, StartFails, Quit
  <1>4. CASE \E path \in PolledNow : PolledRound(path)
    BY <1>4, PolledFresh
  <1>5. CASE HandleRound
    BY <1>5, HandleFresh
  <1> QED  BY <1>1, <1>2, <1>3, <1>4, <1>5, BesideFresh DEF Next

-----------------------------------------------------------------------------
(* What is counted *)

Those(entered, g, key) == {n \in DOMAIN entered : entered[n].gen = g /\ entered[n].key = key}

(* The entry of a key has counted the emissions of its generation, and, if  *)
(* no answer was lost, has the slot of the newest of them.                  *)
Counts(entry, entered, g, key) ==
  /\ entry.rounds = Cardinality(Those(entered, g, key))
  /\ losses = 0 => /\ \E n \in Those(entered, g, key) : entered[n].slot = entry.slot
                   /\ \A n \in Those(entered, g, key) : entered[n].slot <= entry.slot
AllCounted(g) == \A key \in DOMAIN sink[g].entries : Counts(sink[g].entries[key], log, g, key)
CountInv ==
  kind = "prometheus" =>
  /\ \A n \in DOMAIN log : log[n].gen \in 1..Gen => log[n].key \in DOMAIN sink[log[n].gen].entries
  /\ \A g \in 1..Gen : AllCounted(g)

LEMMA CountInit ==
  ASSUME Init
  PROVE  CountInv
  <1>1. log = <<>> /\ DOMAIN log = {} /\ Gen = 0 /\ \A g \in 1..0 : FALSE
    BY DEF Init, EmittersInit, Gen
  <1> QED  BY <1>1 DEF CountInv

LEMMA CountKept ==
  ASSUME CountInv, UNCHANGED <<kind, log>>, losses' = 0 => losses = 0, Gen' = Gen,
         kind = "prometheus" => \A f \in 1..Gen : sink'[f].entries = sink[f].entries
  PROVE  CountInv'
  <1>1. \A entry, entered, g, key : Counts(entry, entered, g, key) => Counts(entry, entered, g, key)'
    BY DEF Counts
  <1>2. ASSUME kind = "prometheus", NEW g \in 1..Gen PROVE AllCounted(g)'
    BY <1>1, <1>2 DEF CountInv, AllCounted
  <1> QED  BY <1>2 DEF CountInv

(* Another generation has counted nothing. *)
LEMMA LoadCount ==
  ASSUME IngestInv, AccountInv, CountInv, Load
  PROVE  CountInv'
  <1>1. PICK n, s, entered : n = Gen /\ s = Spawned /\ entered = log
    OBVIOUS
  <1>2. /\ PlaceInv /\ SinkInv /\ sink \in [1..n -> Sinks] /\ n \in Nat /\ Gen' = n + 1 /\ sink' = Append(sink, s)
        /\ UNCHANGED <<kind, log, losses>> /\ kind \in Kinds
    <2>1. app' = Append(app, AppOf(NextConfig)) /\ Gen \in Nat /\ Gen = Len(app) /\ SinkInv /\ PlaceInv /\ Loaded
      BY GenNat DEF Load, Gen, AccountInv, IngestInv
    <2>2. Len(app') = Len(app) + 1
      BY <2>1 DEF Loaded
    <2> QED  BY <1>1, <2>1, <2>2, TroublesNat DEF Load, Gen, SinkInv
  <1>3. SUFFICES ASSUME kind = "prometheus" PROVE CountInv'
    BY <1>2 DEF CountInv
  <1>4. s \in Sinks /\ s.entries = <<>>
    <2>1. s = [queue |-> <<>>, hand |-> <<>>, doing |-> "none", tries |-> 0, conn |-> "none",
               lagged |-> FALSE, entries |-> <<>>]
      <3>1. s = [NoSink EXCEPT !.doing = "none"]
        BY <1>1, <1>3 DEF Spawned
      <3> QED  BY <3>1 DEF NoSink
    <2>2. <<>> \in Entries
      BY DEF Entries
    <2> QED  BY <1>3, <2>1, <2>2, EmptySinkFine
  <1>5. PICK e : e = s.entries
    OBVIOUS
  <1>6. DOMAIN e = {} /\ sink'[n + 1].entries = e /\ \A g \in 1..n : sink'[g] = sink[g]
    <2>1. Append(sink, s)[n + 1] = s /\ \A g \in 1..n : Append(sink, s)[g] = sink[g]
      BY <1>2, <1>4, GrownByOne
    <2>2. DOMAIN e = {}
      BY <1>4, <1>5
    <2> QED  BY <1>2, <1>5, <2>1, <2>2
  <1>7. \A g \in 1..(n + 1) : g \in 1..n \/ g = n + 1
    BY <1>2
  <1>8. \A entry, g, key : Counts(entry, entered, g, key) => Counts(entry, entered, g, key)'
    BY <1>2 DEF Counts
  <1>9. log' = entered /\ Gen' = n + 1
    BY <1>1, <1>2
  <1>10. ASSUME NEW g \in 1..(n + 1) PROVE AllCounted(g)'
    <2>1. CASE g = n + 1
      BY <1>6, <2>1 DEF AllCounted
    <2>2. CASE g \in 1..n
      <3>1. sink'[g] = sink[g] /\ AllCounted(g)
        BY <1>1, <1>3, <1>6, <2>2 DEF CountInv
      <3> QED  BY <1>1, <1>8, <1>9, <3>1 DEF AllCounted
    <2> QED  BY <1>7, <2>1, <2>2
  <1>11. \A i \in DOMAIN entered : entered[i].gen \in 1..n
    BY <1>1, <1>2, LogIs
  <1>12. \A i \in DOMAIN entered : entered[i].key \in DOMAIN sink'[entered[i].gen].entries
    BY <1>1, <1>3, <1>6, <1>11 DEF CountInv
  <1> QED  BY <1>9, <1>10, <1>12 DEF CountInv

(* The emissions of a key, and one more. *)
LEMMA OneMoreOfThem ==
  ASSUME PlaceInv, NEW e, log' = Append(log, e), NEW g, NEW key
  PROVE  LET n == Len(log) + 1 IN
         /\ Cardinality(Those(log, g, key)) \in Nat
         /\ n \notin Those(log, g, key)
         /\ e.gen = g /\ e.key = key =>
              /\ Those(log', g, key) = Those(log, g, key) \cup {n}
              /\ Cardinality(Those(log', g, key)) = Cardinality(Those(log, g, key)) + 1
         /\ ~(e.gen = g /\ e.key = key) => Those(log', g, key) = Those(log, g, key)
  <1>1. PICK n, all : n = Len(log) + 1 /\ all = log'
    OBVIOUS
  <1>2. /\ n \in DOMAIN all /\ all[n] = e
        /\ \A i \in DOMAIN log : i \in DOMAIN all /\ all[i] = log[i] /\ i # n
        /\ \A i \in DOMAIN all : i \in DOMAIN log \/ i = n
    <2>1. LET k == Len(log) + 1 IN
          /\ k \in DOMAIN log' /\ log'[k] = e
          /\ \A i \in DOMAIN log : i \in DOMAIN log' /\ log'[i] = log[i] /\ i < k /\ i # k
          /\ \A i \in DOMAIN log' : i \in Nat /\ (i \in DOMAIN log \/ i = k)
      BY LogGrows
    <2> QED  BY <1>1, <2>1
  <1>3. PICK old, new : old = Those(log, g, key) /\ new = Those(all, g, key)
    OBVIOUS
  <1>4. IsFiniteSet(old) /\ Cardinality(old) \in Nat
    <2>1. DOMAIN log = 1..Len(log) /\ Len(log) \in Nat
      BY LogIs
    <2>2. IsFiniteSet(1..Len(log))
      BY <2>1, FS_Interval
    <2>3. old \subseteq 1..Len(log)
      BY <1>3, <2>1 DEF Those
    <2> QED  BY <2>2, <2>3, FS_Subset, FS_CardinalityType
  <1>5. n \notin old
    BY <1>2, <1>3 DEF Those
  <1>6. ASSUME e.gen = g /\ e.key = key PROVE new = old \cup {n} /\ Cardinality(new) = Cardinality(old) + 1
    <2>1. new = old \cup {n}
      BY <1>2, <1>3, <1>6 DEF Those
    <2> QED  BY <1>4, <1>5, <2>1, FS_AddElement
  <1>7. ASSUME ~(e.gen = g /\ e.key = key) PROVE new = old
    BY <1>2, <1>3, <1>7 DEF Those
  <1> QED  BY <1>1, <1>3, <1>4, <1>5, <1>6, <1>7

LEMMA EmitCounts ==
  ASSUME AccountInv, FreshInv', CountInv, NEW g \in 1..Gen, NEW round, round.key \in Texts, round.slot \in Nat,
         EmitTo(g, round), UNCHANGED <<app, losses>>
  PROVE  CountInv'
  <1>0. /\ PlaceInv /\ SinkInv /\ sink \in [1..Gen -> Sinks] /\ Gen' = Gen
        /\ UNCHANGED kind /\ log' = Append(log, Entry(round, g))
    BY DEF AccountInv, SinkInv, Gen, EmitTo, Entry
  <1>1. SUFFICES ASSUME kind = "prometheus" PROVE CountInv'
    BY <1>0 DEF CountInv
  <1>2. PICK n, all, key : n = Len(log) + 1 /\ all = log' /\ key = round.key
    OBVIOUS
  <1>3. PICK e, more : e = sink[g].entries /\ more = Observe(e, n)
    OBVIOUS
  <1>4. /\ n \in DOMAIN all /\ all[n] = Entry(round, g) /\ all[n].key = key /\ all[n].slot = round.slot
        /\ all[n].gen = g
        /\ \A i \in DOMAIN log : i \in DOMAIN all /\ all[i] = log[i] /\ i < n /\ i # n
        /\ \A i \in DOMAIN all : i \in DOMAIN log \/ i = n
    <2>1. LET k == Len(log) + 1 IN
          /\ k \in DOMAIN log' /\ log'[k] = Entry(round, g)
          /\ \A i \in DOMAIN log : i \in DOMAIN log' /\ log'[i] = log[i] /\ i < k /\ i # k
          /\ \A i \in DOMAIN log' : i \in Nat /\ (i \in DOMAIN log \/ i = k)
      BY <1>0, LogGrows
    <2> QED  BY <1>2, <2>1 DEF Entry
  <1>5. /\ DOMAIN more = {key} \cup DOMAIN e
        /\ more[key] = [slot |-> round.slot, rounds |-> (IF key \in DOMAIN e THEN e[key].rounds ELSE 0) + 1]
        /\ \A k \in DOMAIN e : k # key => more[k] = e[k]
    <2>1. e \in Entries
      BY <1>0, <1>3 DEF Sinks
    <2>2. log'[n].key = key /\ log'[n].slot = round.slot /\ key \in Texts /\ round.slot \in Nat
      BY <1>2, <1>4
    <2>3. LET after == Observe(e, n)
              ky   == log'[n].key IN
          /\ after \in Entries /\ DOMAIN after = {ky} \cup DOMAIN e
          /\ after[ky] = [slot |-> log'[n].slot,
                          rounds |-> (IF ky \in DOMAIN e THEN e[ky].rounds ELSE 0) + 1]
          /\ \A k \in DOMAIN e : k # ky => after[k] = e[k]
      BY <2>1, <2>2, Observed
    <2> QED  BY <1>3, <2>2, <2>3
  <1>6. sink'[g].entries = more /\ \A f \in 1..Gen : f # g => sink'[f] = sink[f]
    <2>1. sink' = [sink EXCEPT ![g].entries = Observe(@, n)]
      BY <1>1, <1>2 DEF EmitTo
    <2> QED  BY <1>0, <1>3, <2>1 DEF Sinks
  <1>7. ASSUME NEW f, NEW k
        PROVE  /\ Cardinality(Those(log, f, k)) \in Nat
               /\ f = g /\ k = key => /\ Those(all, f, k) = Those(log, f, k) \cup {n}
                                      /\ Cardinality(Those(all, f, k)) = Cardinality(Those(log, f, k)) + 1
               /\ ~(f = g /\ k = key) => Those(all, f, k) = Those(log, f, k)
    <2>1. PICK r : r = Entry(round, g)
      OBVIOUS
    <2>2. r.gen = g /\ r.key = key /\ log' = Append(log, r)
      BY <1>0, <1>2, <2>1 DEF Entry
    <2>3. LET m == Len(log) + 1 IN
          /\ Cardinality(Those(log, f, k)) \in Nat
          /\ m \notin Those(log, f, k)
          /\ r.gen = f /\ r.key = k =>
               /\ Those(log', f, k) = Those(log, f, k) \cup {m}
               /\ Cardinality(Those(log', f, k)) = Cardinality(Those(log, f, k)) + 1
          /\ ~(r.gen = f /\ r.key = k) => Those(log', f, k) = Those(log, f, k)
      BY <1>0, <2>2, OneMoreOfThem
    <2> QED  BY <1>2, <2>2, <2>3
  <1>8. ASSUME NEW f \in 1..Gen, NEW k \in DOMAIN sink[f].entries, ~(f = g /\ k = key)
        PROVE  Counts(sink[f].entries[k], all, f, k)
    <2>1. Counts(sink[f].entries[k], log, f, k) /\ Those(all, f, k) = Those(log, f, k)
      BY <1>1, <1>7, <1>8 DEF CountInv, AllCounted
    <2>2. \A i \in Those(log, f, k) : all[i] = log[i]
      BY <1>4 DEF Those
    <2> QED  BY <2>1, <2>2 DEF Counts
  <1>9. Counts(more[key], all, g, key)
    <2>1. PICK before : before = IF key \in DOMAIN e THEN e[key].rounds ELSE 0
      OBVIOUS
    <2>2. more[key].rounds = before + 1 /\ more[key].slot = round.slot
      BY <1>5, <2>1
    <2>3. before = Cardinality(Those(log, g, key))
      <3>1. CASE key \in DOMAIN e
        BY <1>1, <1>3, <2>1, <3>1 DEF CountInv, AllCounted, Counts
      <3>2. CASE key \notin DOMAIN e
        <4>1. Those(log, g, key) = {}
          BY <1>1, <1>3, <3>2 DEF CountInv, Those
        <4> QED  BY <2>1, <3>2, <4>1, FS_EmptySet
      <3> QED  BY <3>1, <3>2
    <2>4. more[key].rounds = Cardinality(Those(all, g, key))
      BY <1>7, <2>2, <2>3
    <2>5. n \in Those(all, g, key) /\ all[n].slot = more[key].slot
      BY <1>4, <2>2 DEF Those
    <2>6. ASSUME losses = 0, NEW i \in Those(all, g, key) PROVE all[i].slot <= more[key].slot
      <3>1. i \in DOMAIN all /\ all[i].key = key
        BY DEF Those
      <3>2. CASE i = n
        BY <1>4, <2>2, <3>2
      <3>3. CASE i \in DOMAIN log
        <4>1. all[i].slot < all[n].slot
          <5>1. i < n /\ all[i].key = all[n].key /\ losses' = 0 /\ all = log'
            BY <1>2, <1>4, <2>6, <3>1, <3>3
          <5> QED  BY <1>4, <3>1, <5>1 DEF FreshInv, KeysRise
        <4>2. all[i].slot \in Nat
          BY <1>0, <1>4, <3>3, LogIs
        <4> QED  BY <1>4, <2>2, <4>1, <4>2
      <3> QED  BY <1>4, <3>1, <3>2, <3>3
    <2> QED  BY <2>4, <2>5, <2>6 DEF Counts
  <1>10. \A entry, entered, f, k : Counts(entry, entered, f, k) => Counts(entry, entered, f, k)'
    BY DEF Counts
  <1>11. ASSUME NEW f \in 1..Gen PROVE AllCounted(f)'
    <2>1. CASE f = g
      <3>1. \A k \in DOMAIN more : Counts(more[k], all, g, k)
        BY <1>3, <1>5, <1>8, <1>9
      <3> QED  BY <1>2, <1>6, <1>10, <2>1, <3>1 DEF AllCounted
    <2>2. CASE f # g
      BY <1>2, <1>6, <1>8, <1>10, <2>2 DEF AllCounted
    <2> QED  BY <2>1, <2>2
  <1>12. \A i \in DOMAIN all : all[i].gen \in 1..Gen => all[i].key \in DOMAIN sink'[all[i].gen].entries
    BY <1>1, <1>3, <1>4, <1>5, <1>6 DEF CountInv
  <1> QED  BY <1>0, <1>2, <1>11, <1>12 DEF CountInv

LEMMA CountNext ==
  ASSUME IngestInv, AccountInv, FreshInv, CountInv, [Next]_vars
  PROVE  CountInv'
  <1>0. FreshInv' /\ losses \in Nat /\ Loaded /\ SinkInv /\ DOMAIN sink = 1..Gen
    BY FreshNext DEF FreshInv, IngestInv, AccountInv, SinkInv
  <1>1. CASE UNCHANGED <<app, kind, log, sink>> /\ losses' \in {losses, losses + 1}
    <2>1. losses' = 0 => losses = 0
      BY <1>0, <1>1
    <2> QED  BY <1>1, <2>1, CountKept DEF Gen
  <1>2. CASE SinksStep
    <2>1. UNCHANGED <<mvars, kind, log>>
          /\ (kind = "prometheus" => \A f \in 1..Gen : sink'[f].entries = sink[f].entries)
      BY <1>0, <1>2, SinksGoOn
    <2> QED  BY <2>1, CountKept DEF Gen, mvars
  <1>3. CASE Load
    BY <1>3, LoadCount
  <1>4. CASE LoadFails \/ StartFails \/ Quit
    <2>1. /\ UNCHANGED <<app, kind, log, losses>>
          /\ sink' = [g \in DOMAIN sink |-> [NoSink EXCEPT !.entries = sink[g].entries]]
      BY <1>4 DEF LoadFails, StartFails, Quit, EndAs
    <2>2. \A f \in 1..Gen : sink'[f].entries = sink[f].entries
      BY <1>0, <2>1 DEF NoSink
    <2> QED  BY <2>1, <2>2, CountKept DEF Gen
  <1>5. CASE \E path \in PolledNow : PolledRound(path)
    <2>1. PICK path \in PolledNow : PolledRound(path)
      BY <1>5
    <2>2. PICK g, round : g = Gen /\ round = Round(path, made + 1)
      OBVIOUS
    <2>3. g \in 1..Gen /\ round.key \in Texts /\ round.slot \in Nat /\ EmitTo(g, round)
      BY <2>1, <2>2, PolledEmits DEF Round
    <2>4. UNCHANGED <<app, losses>>
      BY <2>1 DEF PolledRound
    <2> QED  BY <1>0, <2>3, <2>4, EmitCounts
  <1>6. CASE HandleRound
    <2>1. PICK g, round : g = request.gen /\ round = Key(Head(request.left))
      OBVIOUS
    <2>2. g \in 1..Gen /\ round.key \in Texts /\ round.slot \in Nat /\ (EmitTo(g, round) \/ UNCHANGED evars)
      BY <1>6, <2>1, HandleEmits
    <2>3. UNCHANGED <<app, losses>>
      BY <1>6 DEF HandleRound
    <2>4. CASE EmitTo(g, round)
      BY <1>0, <2>2, <2>3, <2>4, EmitCounts
    <2>5. CASE UNCHANGED evars
      BY <1>1, <2>3, <2>5 DEF evars
    <2> QED  BY <2>2, <2>4, <2>5
  <1>7. CASE UNCHANGED vars
    BY <1>1, <1>7 DEF vars, mvars, evars
  <1>8. CASE Fetch \/ Reload \/ Post \/ Unauthorized \/ Acknowledge \/ LoseAnswer
             \/ \E path \in told.paths : Measure(path)
    BY <1>1, <1>8 DEF Fetch, Reload, Post, Unauthorized, Acknowledge, LoseAnswer, Measure, evars
  <1> QED  BY <1>2, <1>3, <1>4, <1>5, <1>6, <1>7, <1>8 DEF Next

-----------------------------------------------------------------------------
(* How far a run goes *)

BoundInv ==
  /\ pc \in {"load", "serving", "refused", "failed", "exited"}
  /\ made \in 0..setup.rounds /\ losses \in 0..setup.answers /\ errors \in 0..setup.errors

LEMMA BoundNext ==
  ASSUME Loaded, BoundInv, [Next]_vars
  PROVE  BoundInv'
  <1>1. setup.rounds \in Nat /\ setup.answers \in Nat /\ setup.errors \in Nat
    BY MasterAssumption DEF Loaded
  <1>2. CASE /\ UNCHANGED <<setup, made, losses, errors>>
             /\ pc' = pc \/ pc' \in {"load", "serving", "refused", "failed", "exited"}
    BY <1>2 DEF BoundInv
  <1>3. ASSUME NEW round, Store(round) PROVE errors' \in 0..setup.errors
    <2>1. errors' = errors \/ (errors < setup.errors /\ errors' = errors + 1)
      BY <1>3 DEF Store
    <2> QED  BY <1>1, <2>1 DEF BoundInv
  <1>4. CASE \E path \in PolledNow : PolledRound(path)
    <2>1. /\ made < setup.rounds /\ made' = made + 1 /\ UNCHANGED <<setup, pc, losses>>
          /\ errors' \in 0..setup.errors
      BY <1>3, <1>4 DEF PolledRound, Finished
    <2> QED  BY <1>1, <2>1 DEF BoundInv
  <1>5. CASE HandleRound
    <2>1. UNCHANGED <<setup, pc, made, losses>> /\ (errors' \in 0..setup.errors \/ UNCHANGED errors)
      BY <1>3, <1>5 DEF HandleRound, Finished
    <2> QED  BY <1>1, <2>1 DEF BoundInv
  <1>6. CASE \E path \in told.paths : Measure(path)
    <2>1. made < setup.rounds /\ made' = made + 1 /\ UNCHANGED <<setup, pc, losses, errors>>
      BY <1>6 DEF Measure
    <2> QED  BY <1>1, <2>1 DEF BoundInv
  <1>7. CASE LoseAnswer
    <2>1. losses < setup.answers /\ losses' = losses + 1 /\ UNCHANGED <<setup, pc, made, errors>>
      BY <1>7 DEF LoseAnswer
    <2> QED  BY <1>1, <2>1 DEF BoundInv
  <1>8. CASE UNCHANGED vars \/ SinksStep
    BY <1>2, <1>8 DEF vars, mvars, SinksStep
  <1>9. CASE Load \/ Reload \/ Fetch \/ Post \/ Unauthorized \/ Acknowledge
    BY <1>2, <1>9 DEF Load, Reload, Fetch, Post, Unauthorized, Acknowledge
  <1>10. CASE LoadFails \/ StartFails \/ Quit
    BY <1>2, <1>10 DEF LoadFails, StartFails, Quit, EndAs
  <1> QED  BY <1>4, <1>5, <1>6, <1>7, <1>8, <1>9, <1>10 DEF Next

-----------------------------------------------------------------------------
(* The invariant, and what it means *)

MasterInv == IngestInv /\ AccountInv /\ FeedInv /\ FreshInv /\ CountInv /\ BoundInv

LEMMA MasterInit ==
  ASSUME Init
  PROVE  MasterInv
  <1>1. FeedInv
    <2>1. Gen = 0 /\ \A g \in 1..0 : FALSE
      BY DEF Init, Gen
    <2> QED  BY <2>1 DEF FeedInv
  <1>2. BoundInv
    <2>1. setup \in Setups /\ pc = "load" /\ made = 0 /\ losses = 0 /\ errors = 0
      BY DEF Init
    <2>2. setup.rounds \in Nat /\ setup.answers \in Nat /\ setup.errors \in Nat
      BY <2>1, MasterAssumption
    <2> QED  BY <2>1, <2>2 DEF BoundInv
  <1> QED  BY <1>1, <1>2, IngestInit, AccountInit, FreshInit, CountInit DEF MasterInv

LEMMA MasterNext ==
  ASSUME MasterInv, [Next]_vars
  PROVE  MasterInv'
  <1>1. IngestInv /\ AccountInv /\ FeedInv /\ FreshInv /\ CountInv /\ BoundInv /\ Loaded
    BY DEF MasterInv, IngestInv
  <1>2. IngestInv'
    BY <1>1, IngestNext
  <1>3. AccountInv'
    BY <1>1, AccountNext
  <1>4. FeedInv' /\ FreshInv'
    BY <1>1, FeedNext, FreshNext
  <1>5. CountInv' /\ BoundInv'
    BY <1>1, CountNext, BoundNext
  <1> QED  BY <1>2, <1>3, <1>4, <1>5 DEF MasterInv

LEMMA MasterTypes ==
  ASSUME MasterInv
  PROVE  TypeOK
  <1>1. SinkInv /\ PlaceInv /\ Loaded /\ BoundInv /\ sink \in [1..Gen -> Sinks]
    BY DEF MasterInv, IngestInv, AccountInv, SinkInv
  <1>2. kind \in setup.kinds /\ service \in {"up", "stalled", "down"} /\ troubles \in 0..setup.troubles
        /\ DOMAIN sink = 1..Gen
    BY <1>1 DEF SinkInv
  <1>3. pc \in {"load", "serving", "refused", "failed", "exited"}
    BY <1>1 DEF BoundInv
  <1>4. request.gen \in 0..Gen /\ told.gen \in 0..Gen
    BY DEF MasterInv, IngestInv, RequestInv, AgentInv
  <1>5. ToSet(out) \cup {l[1] : l \in lost} \subseteq DOMAIN log
    BY <1>1 DEF PlaceInv, Placed, ToSet
  <1>6. ASSUME NEW g \in DOMAIN sink
        PROVE  /\ sink[g].doing \in {"none", "idle", "post", "send", "away", "done"}
               /\ Len(sink[g].queue) <= (IF kind = "live" THEN FeedCap ELSE ChanCap)
               /\ Len(sink[g].hand) <= (IF kind = "influx" THEN MaxBatch ELSE 1)
               /\ sink[g].tries \in 0..1 /\ sink[g].conn \in {"none", "live", "dead"}
    <2>1. sink[g] \in Sinks /\ Working(sink[g])
      BY <1>1, <1>2 DEF SinkInv
    <2> QED  BY <2>1 DEF Sinks, Working, Cap, Lot
  <1> QED  BY <1>1, <1>2, <1>3, <1>4, <1>5, <1>6 DEF TypeOK, BoundInv

LEMMA AtMostOne ==
  ASSUME NEW S, \A x, y \in S : x = y
  PROVE  /\ S = {} => Cardinality(S) = 0
         /\ S # {} => Cardinality(S) = 1
  <1>1. ASSUME S # {} PROVE Cardinality(S) = 1
    <2>1. PICK x : x \in S
      BY <1>1
    <2>2. S = {x}
      BY <2>1
    <2> QED  BY <2>2, FS_Singleton
  <1> QED  BY <1>1, FS_EmptySet

(* Each emission is in one place. *)
LEMMA OnePlace ==
  ASSUME AccountInv, kind # "prometheus", NEW n \in DOMAIN log
  PROVE  Cardinality({i \in DOMAIN out : out[i] = n}) +
         Cardinality({g \in DOMAIN sink : n \in HeldBy(g)}) +
         Cardinality({l \in lost : l[1] = n}) = 1
  <1>1. PICK held : held = Held
    OBVIOUS
  <1>2. PICK O, H, L : /\ O = {i \in DOMAIN out : out[i] = n} /\ H = {g \in DOMAIN sink : n \in HeldBy(g)}
                       /\ L = {l \in lost : l[1] = n}
    OBVIOUS
  <1>3. /\ PlaceInv /\ Placed(log, held, out, lost) /\ Everywhere(log, held, out, lost) /\ out \in Seq(Nat)
        /\ DOMAIN held = DOMAIN sink /\ H = {g \in DOMAIN held : n \in held[g]}
    <2>1. DOMAIN sink = 1..Gen
      BY DEF AccountInv, SinkInv
    <2>2. \A g \in DOMAIN sink : held[g] = HeldBy(g)
      BY <1>1, <2>1 DEF Held, HeldBy, Holds
    <2>3. DOMAIN held = DOMAIN sink
      BY <1>1, <2>1 DEF Held
    <2> QED  BY <1>1, <1>2, <2>2, <2>3 DEF AccountInv, PlaceInv
  <1>4. n \in Nat
    BY <1>3, LogIs
  <1>5. \A i, j \in O : i = j
    <2> SUFFICES ASSUME NEW i \in O, NEW j \in O, i < j PROVE FALSE
      <3>1. \A i \in O : i \in Nat
        BY <1>2, <1>3
      <3> QED  BY <3>1
    <2>1. out[i] < out[j]
      BY <1>2, <1>3 DEF Placed
    <2> QED  BY <1>2, <1>4, <2>1
  <1>6. \A g, h \in H : g = h
    BY <1>3 DEF Placed
  <1>7. \A l, m \in L : l = m
    BY <1>2, <1>3 DEF Placed
  <1>8. O # {} => H = {}
    <2> SUFFICES ASSUME NEW i \in O, NEW g \in H PROVE FALSE
      OBVIOUS
    <2>1. log[n].gen = g /\ out[i] = n
      BY <1>2, <1>3 DEF Placed
    <2>2. n < n
      BY <1>2, <1>3, <2>1 DEF Placed
    <2> QED  BY <1>4, <2>2
  <1>9. L # {} => O = {} /\ H = {}
    BY <1>2, <1>3 DEF Placed
  <1>10. O # {} \/ H # {} \/ L # {}
    BY <1>2, <1>3 DEF Everywhere, Somewhere
  <1>11. /\ (O = {} => Cardinality(O) = 0) /\ (O # {} => Cardinality(O) = 1)
         /\ (H = {} => Cardinality(H) = 0) /\ (H # {} => Cardinality(H) = 1)
         /\ (L = {} => Cardinality(L) = 0) /\ (L # {} => Cardinality(L) = 1)
    BY <1>5, <1>6, <1>7, AtMostOne
  <1>12. Cardinality(O) + Cardinality(H) + Cardinality(L) = 1
    BY <1>8, <1>9, <1>10, <1>11
  <1> QED  BY <1>2, <1>12

LEMMA SinksMean ==
  ASSUME MasterInv
  PROVE  SinksAccount
  <1>1. AccountInv /\ SinkInv /\ PlaceInv /\ FeedInv /\ FreshInv /\ CountInv /\ DOMAIN sink = 1..Gen
    BY DEF MasterInv, AccountInv, SinkInv
  <1>2. \A i, j \in DOMAIN out : i < j /\ log[out[i]].gen = log[out[j]].gen => out[i] < out[j]
    BY <1>1 DEF PlaceInv, Placed
  <1>3. \A l \in lost :
          /\ l[2] = "refused" => l[3] = "down" \/ (kind = "graphite" /\ setup.troubles - troubles >= 2)
          /\ l[2] = "unread" => troubles < setup.troubles
    BY <1>1 DEF AccountInv, Reason
  <1>4. \A g \in DOMAIN sink : kind = "live" /\ sink[g].doing = "done" => ~Open(g)
    BY <1>1 DEF FeedInv
  <1>5. ASSUME NEW g \in DOMAIN sink, NEW key \in DOMAIN sink[g].entries
        PROVE  /\ sink[g].entries[key].rounds = Cardinality(Emissions(g, key))
               /\ losses = 0 => sink[g].entries[key].slot = Max({log[n].slot : n \in Emissions(g, key)})
    <2>1. kind = "prometheus"
      <3>1. ASSUME kind # "prometheus" PROVE FALSE
        <4>1. sink[g].entries = <<>>
          BY <1>1, <3>1 DEF SinkInv, Working
        <4> QED  BY <4>1
      <3> QED  BY <3>1
    <2>2. PICK entry, them : entry = sink[g].entries[key] /\ them = Emissions(g, key)
      OBVIOUS
    <2>3. /\ entry.rounds = Cardinality(them)
          /\ losses = 0 => /\ \E n \in them : log[n].slot = entry.slot
                           /\ \A n \in them : log[n].slot <= entry.slot
      <3>1. Counts(entry, log, g, key)
        BY <1>1, <2>1, <2>2 DEF CountInv, AllCounted
      <3>2. them = Those(log, g, key)
        BY <2>2 DEF Emissions, Those
      <3> QED  BY <3>1, <3>2 DEF Counts
    <2>4. ASSUME losses = 0 PROVE entry.slot = Max({log[n].slot : n \in them})
      <3>1. PICK slots : slots = {log[n].slot : n \in them}
        OBVIOUS
      <3>2. \A n \in them : log[n].slot \in Nat
        BY <1>1, <2>2, LogIs DEF Emissions
      <3>3. entry.slot \in slots /\ \A x \in slots : x \in Nat /\ x <= entry.slot
        BY <2>3, <2>4, <3>1, <3>2
      <3>4. \A x \in slots : (\A y \in slots : x >= y) => x = entry.slot
        BY <3>3
      <3>5. \A y \in slots : entry.slot >= y
        BY <3>3
      <3> QED  BY <3>1, <3>3, <3>4, <3>5 DEF Max
    <2> QED  BY <2>2, <2>3, <2>4
  <1>6. losses = 0 => \A m, n \in DOMAIN log : m # n => log[m].key # log[n].key \/ log[m].slot # log[n].slot
    <2> SUFFICES ASSUME losses = 0, NEW m \in DOMAIN log, NEW n \in DOMAIN log, m < n, log[m].key = log[n].key
                 PROVE  log[m].slot # log[n].slot
      <3>1. \A m \in DOMAIN log : m \in Nat
        BY <1>1, LogIs
      <3> QED  BY <3>1
    <2>1. log[m].slot < log[n].slot /\ log[m].slot \in Nat
      BY <1>1, LogIs DEF FreshInv, KeysRise
    <2> QED  BY <2>1
  <1> QED  BY <1>1, <1>2, <1>3, <1>4, <1>5, <1>6, OnePlace DEF SinksAccount

(* Every variable of the master has its type for any configurations, and    *)
(* queues and batches keep to their capacities, whatever the service does.  *)
THEOREM MasterTypeCorrect == Spec => []TypeOK
  <1>1. Init => MasterInv
    BY MasterInit
  <1>2. MasterInv /\ [Next]_vars => MasterInv'
    BY MasterNext
  <1>3. MasterInv => TypeOK
    BY MasterTypes
  <1> QED  BY <1>1, <1>2, <1>3, PTL DEF Spec

(* For any configurations, capacities and faults, each emission is in one   *)
(* place or lost for a reason, sinks keep the order, a feed ends with its   *)
(* generation or its client, and counters count each emission once.         *)
THEOREM SinksAccountForAll == Spec => []SinksAccount
  <1>1. Init => MasterInv
    BY MasterInit
  <1>2. MasterInv /\ [Next]_vars => MasterInv'
    BY MasterNext
  <1>3. MasterInv => SinksAccount
    BY SinksMean
  <1> QED  BY <1>1, <1>2, <1>3, PTL DEF Spec

-----------------------------------------------------------------------------
(* What an accepted configuration means *)

(* Here is a recursion from a section to its children; in closed form it    *)
(* takes each setting from the closest giver.                              *)
RecHere(c, it) ==
  it = [a \in DOMAIN c.tree |-> Or(c.tree[a].own, IF Len(a) = 1 THEN Root ELSE it[Front(a)])]
ItHere(c) == CHOOSE it : RecHere(c, it)

Givers(c, a, setting) == {n \in 1..Len(a) : setting \in DOMAIN c.tree[SubSeq(a, 1, n)].own}
Given(c, a) == UNION {DOMAIN c.tree[SubSeq(a, 1, n)].own : n \in 1..Len(a)}
Closest(c, a, setting) == CHOOSE n \in Givers(c, a, setting) : \A m \in Givers(c, a, setting) : m <= n
Said(c, a) ==
  [setting \in Given(c, a) \cup DOMAIN Root |->
     IF setting \in Given(c, a) THEN c.tree[SubSeq(a, 1, Closest(c, a, setting))].own[setting]
     ELSE Root[setting]]

LEMMA HereIsIt ==
  ASSUME NEW c
  PROVE  Here(c) = ItHere(c)
  BY DEF Here, ItHere, RecHere

LEMMA GivenIs ==
  ASSUME NEW c, NEW a, NEW setting
  PROVE  /\ setting \in Given(c, a) <=> Givers(c, a, setting) # {}
         /\ \A n : n \in Givers(c, a, setting) <=>
              n \in 1..Len(a) /\ setting \in DOMAIN c.tree[SubSeq(a, 1, n)].own
  BY DEF Given, Givers

LEMMA ClosestIs ==
  ASSUME NEW c, NEW a \in Seq(Texts), NEW setting, Givers(c, a, setting) # {}
  PROVE  /\ Closest(c, a, setting) \in Givers(c, a, setting)
         /\ \A m \in Givers(c, a, setting) : m <= Closest(c, a, setting)
  <1> DEFINE G == Givers(c, a, setting)
  <1>1. Len(a) \in Nat /\ G \in SUBSET (1..Len(a))
    BY DEF Givers
  <1> HIDE DEF G
  <1>2. G # {}
    BY DEF G
  <1>3. Max(G) \in G /\ \A m \in G : m <= Max(G)
    BY <1>1, <1>2, MaxIn
  <1>4. \E n \in G : \A m \in G : m <= n
    BY <1>3
  <1> QED  BY <1>4 DEF Closest, G

(* An address and its section's have the same beginnings. *)
LEMMA FrontIs ==
  ASSUME NEW a \in Seq(Texts), Len(a) > 1
  PROVE  /\ Front(a) \in Seq(Texts) /\ Len(Front(a)) = Len(a) - 1
         /\ \A n \in 1..(Len(a) - 1) : SubSeq(Front(a), 1, n) = SubSeq(a, 1, n)
  <1> DEFINE m == Len(a) - 1
             f == SubSeq(a, 1, m)
  <1>1. m \in Nat /\ m >= 1 /\ m <= Len(a) /\ \A i \in 1..m : a[i] \in Texts
    OBVIOUS
  <1> HIDE DEF m
  <1>2. f \in Seq(Texts) /\ Len(f) = m /\ \A i \in 1..m : f[i] = a[i]
    <2>1. 1 \in Int /\ m \in Int /\ 1 <= m /\ m - 1 + 1 = m /\ \A i \in 1..m : 1 + i - 1 = i
      BY <1>1
    <2>2. f \in Seq(Texts) /\ Len(f) = (IF 1 <= m THEN m - 1 + 1 ELSE 0) /\ \A i \in 1..(m - 1 + 1) : f[i] = a[1 + i - 1]
      BY <1>1, <2>1, SubSeqProperties
    <2> QED  BY <2>1, <2>2
  <1> HIDE DEF f
  <1>3. ASSUME NEW n \in 1..m PROVE SubSeq(f, 1, n) = SubSeq(a, 1, n)
    <2>1. n \in Nat /\ n >= 1 /\ n <= m /\ n - 1 + 1 = n /\ \A i \in 1..n : 1 + i - 1 = i /\ i \in 1..m
      BY <1>1
    <2>2. SubSeq(f, 1, n) \in Seq(Texts) /\ Len(SubSeq(f, 1, n)) = n /\ \A i \in 1..n : SubSeq(f, 1, n)[i] = f[i]
      <3>1. \A i \in 1..n : f[i] \in Texts
        BY <1>1, <1>2, <2>1
      <3>2. /\ SubSeq(f, 1, n) \in Seq(Texts) /\ Len(SubSeq(f, 1, n)) = (IF 1 <= n THEN n - 1 + 1 ELSE 0)
            /\ \A i \in 1..(n - 1 + 1) : SubSeq(f, 1, n)[i] = f[1 + i - 1]
        BY <2>1, <3>1, SubSeqProperties
      <3> QED  BY <2>1, <3>2
    <2>3. SubSeq(a, 1, n) \in Seq(Texts) /\ Len(SubSeq(a, 1, n)) = n /\ \A i \in 1..n : SubSeq(a, 1, n)[i] = a[i]
      <3>1. \A i \in 1..n : a[i] \in Texts
        BY <1>1, <2>1
      <3>2. /\ SubSeq(a, 1, n) \in Seq(Texts) /\ Len(SubSeq(a, 1, n)) = (IF 1 <= n THEN n - 1 + 1 ELSE 0)
            /\ \A i \in 1..(n - 1 + 1) : SubSeq(a, 1, n)[i] = a[1 + i - 1]
        BY <2>1, <3>1, SubSeqProperties
      <3> QED  BY <2>1, <3>2
    <2>4. \A i \in 1..n : SubSeq(f, 1, n)[i] = SubSeq(a, 1, n)[i]
      BY <1>2, <2>1, <2>2, <2>3
    <2> QED  BY <2>2, <2>3, <2>4, SeqEqual
  <1> QED  BY <1>2, <1>3 DEF Front, f, m

LEMMA WholeIs ==
  ASSUME NEW a \in Seq(Texts)
  PROVE  SubSeq(a, 1, Len(a)) = a
  BY SubSeqFull

(* A node that does not give a setting has its section's givers. *)
LEMMA GiversOfFront ==
  ASSUME NEW c, NEW a \in Seq(Texts), Len(a) > 1, NEW setting, setting \notin DOMAIN c.tree[a].own
  PROVE  /\ Givers(c, a, setting) = Givers(c, Front(a), setting)
         /\ Closest(c, a, setting) = Closest(c, Front(a), setting)
  <1>1. /\ Len(Front(a)) = Len(a) - 1 /\ Len(a) \in Nat
        /\ \A n \in 1..(Len(a) - 1) : SubSeq(Front(a), 1, n) = SubSeq(a, 1, n)
    BY FrontIs
  <1>2. ASSUME NEW n \in Givers(c, a, setting) PROVE n \in Givers(c, Front(a), setting)
    <2>1. n \in 1..Len(a) /\ setting \in DOMAIN c.tree[SubSeq(a, 1, n)].own
      BY DEF Givers
    <2>2. n # Len(a)
      BY <2>1, WholeIs
    <2>3. n \in 1..(Len(a) - 1)
      BY <1>1, <2>1, <2>2
    <2> QED  BY <1>1, <2>1, <2>3 DEF Givers
  <1>3. ASSUME NEW n \in Givers(c, Front(a), setting) PROVE n \in Givers(c, a, setting)
    <2>1. n \in 1..(Len(a) - 1) /\ setting \in DOMAIN c.tree[SubSeq(Front(a), 1, n)].own
      BY <1>1 DEF Givers
    <2>2. n \in 1..Len(a)
      BY <1>1, <2>1
    <2> QED  BY <1>1, <2>1, <2>2 DEF Givers
  <1>4. Givers(c, a, setting) = Givers(c, Front(a), setting)
    BY <1>2, <1>3
  <1> QED  BY <1>4 DEF Closest

(* A node that gives a setting is the closest giver. *)
LEMMA GiverIsOwn ==
  ASSUME NEW c, NEW a \in Seq(Texts) \ {<<>>}, NEW setting \in DOMAIN c.tree[a].own
  PROVE  setting \in Given(c, a) /\ Closest(c, a, setting) = Len(a)
  <1>1. Len(a) \in Nat \ {0} /\ SubSeq(a, 1, Len(a)) = a
    BY WholeIs
  <1>2. Len(a) \in Givers(c, a, setting) /\ \A m \in Givers(c, a, setting) : m \in Nat /\ m <= Len(a)
    <2>1. Len(a) \in 1..Len(a) /\ \A m \in 1..Len(a) : m \in Nat /\ m <= Len(a)
      BY <1>1
    <2>2. setting \in DOMAIN c.tree[SubSeq(a, 1, Len(a))].own
      BY <1>1
    <2> QED  BY <2>1, <2>2, GivenIs
  <1>3. ASSUME NEW n \in Givers(c, a, setting), \A m \in Givers(c, a, setting) : m <= n PROVE n = Len(a)
    BY <1>1, <1>2, <1>3
  <1>4. Closest(c, a, setting) = Len(a)
    BY <1>2, <1>3 DEF Closest
  <1> QED  BY <1>2, <1>4, GivenIs

LEMMA SaidStep ==
  ASSUME NEW c, Written(c), NEW a \in DOMAIN c.tree
  PROVE  Said(c, a) = Or(c.tree[a].own, IF Len(a) = 1 THEN Root ELSE Said(c, Front(a)))
  <1>1. a \in Seq(Texts) \ {<<>>} /\ Len(a) \in Nat \ {0} /\ SubSeq(a, 1, Len(a)) = a
    BY WholeIs DEF Written
  <1> DEFINE up  == IF Len(a) = 1 THEN Root ELSE Said(c, Front(a))
             own == c.tree[a].own
  <1>2. \A s \in DOMAIN own : s \in Given(c, a) /\ Closest(c, a, s) = Len(a)
    BY <1>1, GiverIsOwn
  <1>3. \A s : s \notin DOMAIN own => (s \in DOMAIN Said(c, a) <=> s \in DOMAIN up)
    <2> SUFFICES ASSUME NEW s, s \notin DOMAIN own PROVE s \in DOMAIN Said(c, a) <=> s \in DOMAIN up
      OBVIOUS
    <2>1. CASE Len(a) = 1
      <3>1. Givers(c, a, s) = {}
        <4> SUFFICES ASSUME NEW n \in Givers(c, a, s) PROVE FALSE
          OBVIOUS
        <4>1. n \in 1..1 /\ s \in DOMAIN c.tree[SubSeq(a, 1, n)].own
          BY <2>1, GivenIs
        <4>2. n = Len(a)
          BY <2>1, <4>1
        <4> QED  BY <1>1, <4>1, <4>2
      <3>2. s \notin Given(c, a)
        BY <3>1, GivenIs
      <3> QED  BY <2>1, <3>2 DEF Said
    <2>2. CASE Len(a) # 1
      <3>1. Givers(c, a, s) = Givers(c, Front(a), s)
        BY <1>1, <2>2, GiversOfFront
      <3>2. s \in Given(c, a) <=> s \in Given(c, Front(a))
        BY <3>1, GivenIs
      <3> QED  BY <2>2, <3>2 DEF Said
    <2> QED  BY <2>1, <2>2
  <1>4. \A s : s \notin DOMAIN own /\ s \in DOMAIN Said(c, a) => Said(c, a)[s] = up[s]
    <2> SUFFICES ASSUME NEW s, s \notin DOMAIN own, s \in DOMAIN Said(c, a) PROVE Said(c, a)[s] = up[s]
      OBVIOUS
    <2>1. CASE Len(a) = 1
      <3>1. Givers(c, a, s) = {}
        <4> SUFFICES ASSUME NEW n \in Givers(c, a, s) PROVE FALSE
          OBVIOUS
        <4>1. n \in 1..1 /\ s \in DOMAIN c.tree[SubSeq(a, 1, n)].own
          BY <2>1, GivenIs
        <4>2. n = Len(a)
          BY <2>1, <4>1
        <4> QED  BY <1>1, <4>1, <4>2
      <3>2. s \notin Given(c, a)
        BY <3>1, GivenIs
      <3> QED  BY <2>1, <3>2 DEF Said
    <2>2. CASE Len(a) # 1
      <3>1. Givers(c, a, s) = Givers(c, Front(a), s) /\ Closest(c, a, s) = Closest(c, Front(a), s)
        BY <1>1, <2>2, GiversOfFront
      <3>2. s \in Given(c, a) <=> s \in Given(c, Front(a))
        BY <3>1, GivenIs
      <3>3. s \in DOMAIN up
        BY <1>3
      <3>4. ASSUME s \in Given(c, a)
            PROVE  SubSeq(a, 1, Closest(c, a, s)) = SubSeq(Front(a), 1, Closest(c, Front(a), s))
        <4>1. Givers(c, Front(a), s) # {}
          BY <3>1, <3>4, GivenIs
        <4>2. Front(a) \in Seq(Texts) /\ Len(Front(a)) = Len(a) - 1 /\ Len(a) > 1
              /\ \A n \in 1..(Len(a) - 1) : SubSeq(Front(a), 1, n) = SubSeq(a, 1, n)
          <5>1. a \in Seq(Texts) /\ Len(a) > 1
            BY <1>1, <2>2
          <5> QED  BY <5>1, FrontIs
        <4>3. Closest(c, Front(a), s) \in Givers(c, Front(a), s)
          BY <4>1, <4>2, ClosestIs
        <4>4. Closest(c, Front(a), s) \in 1..(Len(a) - 1)
          BY <4>2, <4>3, GivenIs
        <4> QED  BY <3>1, <4>2, <4>4
      <3> QED  BY <2>2, <3>1, <3>2, <3>3, <3>4 DEF Said
    <2> QED  BY <2>1, <2>2
  <1>5. \A s \in DOMAIN own : s \in DOMAIN Said(c, a) /\ Said(c, a)[s] = own[s]
    BY <1>1, <1>2 DEF Said
  <1>6. Said(c, a) = [s \in DOMAIN Said(c, a) |-> Said(c, a)[s]]
    BY DEF Said
  <1> HIDE DEF up, own
  <1>7. DOMAIN Said(c, a) = DOMAIN own \cup DOMAIN up
    BY <1>3, <1>5
  <1>8. Said(c, a) = Or(own, up)
    BY <1>4, <1>5, <1>6, <1>7 DEF Or
  <1> QED  BY <1>8 DEF up, own

LEMMA HereIsSaid ==
  ASSUME NEW c, Written(c), NEW a \in DOMAIN c.tree
  PROVE  Here(c)[a] = Said(c, a)
  <1> DEFINE D    == DOMAIN c.tree
             said == [b \in D |-> Said(c, b)]
             it   == ItHere(c)
  <1>1. \A b \in D : b \in Seq(Texts) \ {<<>>} /\ Len(b) \in Nat \ {0} /\ (Len(b) > 1 => Front(b) \in D)
    BY DEF Written
  <1>2. RecHere(c, said)
    <2>1. \A b \in D : Len(b) # 1 => Front(b) \in D
      <3> SUFFICES ASSUME NEW b \in D, Len(b) # 1 PROVE Front(b) \in D
        OBVIOUS
      <3>1. Len(b) \in Nat \ {0} /\ (Len(b) > 1 => Front(b) \in D)
        BY <1>1
      <3> HIDE DEF D
      <3>2. \A n \in Nat \ {0} : n # 1 => n > 1
        OBVIOUS
      <3>3. Len(b) > 1
        BY <3>1, <3>2
      <3> QED  BY <3>1, <3>3
    <2>2. \A b \in D : Said(c, b) = Or(c.tree[b].own, IF Len(b) = 1 THEN Root ELSE said[Front(b)])
      BY <2>1, SaidStep
    <2> QED  BY <2>2 DEF RecHere
  <1>3. RecHere(c, it)
    <2> HIDE DEF said
    <2> QED  BY <1>2 DEF ItHere
  <1> HIDE DEF it, D
  <1> DEFINE T == {n \in Nat : \A b \in D : Len(b) = n + 1 => it[b] = Said(c, b)}
  <1>4. \A b \in D : it[b] = Or(c.tree[b].own, IF Len(b) = 1 THEN Root ELSE it[Front(b)])
    BY <1>3 DEF RecHere, D
  <1>5. \A b \in D : Said(c, b) = Or(c.tree[b].own, IF Len(b) = 1 THEN Root ELSE Said(c, Front(b)))
    BY SaidStep DEF D
  <1>6. 0 \in T
    BY <1>4, <1>5
  <1>7. ASSUME NEW n \in T PROVE n + 1 \in T
    <2>1. ASSUME NEW b \in D, Len(b) = (n + 1) + 1 PROVE it[b] = Said(c, b)
      <3>1. n \in Nat /\ Len(b) > 1 /\ Len(b) # 1 /\ Len(b) - 1 = n + 1
        BY <2>1
      <3>2. Front(b) \in D /\ Len(Front(b)) = Len(b) - 1
        BY <1>1, <3>1, FrontIs
      <3>3. it[Front(b)] = Said(c, Front(b))
        BY <3>1, <3>2
      <3> QED  BY <1>4, <1>5, <3>1, <3>3
    <2>2. n + 1 \in Nat
      OBVIOUS
    <2> QED  BY <2>1, <2>2
  <1>8. T \in SUBSET Nat
    OBVIOUS
  <1>9. T = Nat
    <2> HIDE DEF T
    <2> QED  BY <1>6, <1>7, <1>8, AllNat
  <1>10. a \in D /\ Len(a) \in Nat \ {0}
    BY <1>1 DEF D
  <1>11. Len(a) - 1 \in T /\ (Len(a) - 1) + 1 = Len(a)
    <2> HIDE DEF T
    <2> QED  BY <1>9, <1>10
  <1>12. it[a] = Said(c, a)
    BY <1>10, <1>11
  <1> QED  BY <1>12, HereIsIt DEF it

LEMMA FlatIs ==
  ASSUME NEW c, NEW a \in Leaves(c)
  PROVE  LET here == Here(c)[a] IN
         /\ Flat(c)[a].path = PathOf(a) /\ Flat(c)[a].host = c.tree[a].host
         /\ Flat(c)[a].probe = here.probe
         /\ Flat(c)[a].options = Restrict(here, DOMAIN here \cap {"port", "lookup"})
         /\ Flat(c)[a].alerts = NamesAt(here, "alerts") /\ Flat(c)[a].agents = NamesAt(here, "agents")
         /\ Flat(c)[a].nomasterpoll = here.nomasterpoll
  BY DEF Flat

(* What Giver says, in terms of Closest. *)
LEMMA GiverIs ==
  ASSUME NEW c, NEW a \in Seq(Texts) \ {<<>>}, NEW setting
  PROVE  /\ setting \notin Given(c, a) => Giver(c, a, setting) = <<>>
         /\ setting \in Given(c, a) =>
              Giver(c, a, setting) # <<>> /\ Giver(c, a, setting) = SubSeq(a, 1, Closest(c, a, setting))
  <1>1. Giver(c, a, setting) = IF Givers(c, a, setting) = {} THEN <<>>
                               ELSE SubSeq(a, 1, Closest(c, a, setting))
    BY DEF Giver, Givers, Closest
  <1>2. ASSUME setting \in Given(c, a) PROVE SubSeq(a, 1, Closest(c, a, setting)) # <<>>
    <2> DEFINE n == Closest(c, a, setting)
    <2>1. n \in 1..Len(a) /\ Len(a) \in Nat
      BY <1>2, ClosestIs, GivenIs
    <2> HIDE DEF n
    <2>2. Len(SubSeq(a, 1, n)) = n
      <3>1. 1 \in Int /\ n \in Int /\ 1 <= n /\ n - 1 + 1 = n /\ \A i \in 1..n : a[i] \in Texts
        BY <2>1
      <3>2. Len(SubSeq(a, 1, n)) = IF 1 <= n THEN n - 1 + 1 ELSE 0
        BY <3>1, SubSeqProperties
      <3> QED  BY <3>1, <3>2
    <2>3. n # 0 /\ Len(<<>>) = 0
      BY <2>1
    <2> QED  BY <2>2, <2>3 DEF n
  <1> QED  BY <1>1, <1>2, GivenIs

LEMMA LeafInherits ==
  ASSUME NEW c, Written(c), NEW a \in Leaves(c)
  PROVE  Inherits(c, a)
  <1> DEFINE here == Here(c)[a]
             t    == Flat(c)[a]
             G(setting) == Giver(c, a, setting)
             own(setting) == c.tree[G(setting)].own[setting]
  <1>1. a \in DOMAIN c.tree /\ a \in Seq(Texts) \ {<<>>}
    BY DEF Leaves, Written
  <1>2. here = Said(c, a)
    BY <1>1, HereIsSaid
  <1>3. \A s : s \in DOMAIN here <=> s \in Given(c, a) \/ s \in DOMAIN Root
    BY <1>2 DEF Said
  <1>4. \A s \in Given(c, a) : G(s) # <<>> /\ here[s] = own(s)
    BY <1>1, <1>2, GiverIs DEF Said
  <1>5. \A s : s \notin Given(c, a) => G(s) = <<>> /\ (s \in DOMAIN Root => here[s] = Root[s])
    BY <1>1, <1>2, GiverIs DEF Said
  <1>6. /\ t.probe = here["probe"] /\ t.nomasterpoll = here["nomasterpoll"]
        /\ t.options = Restrict(here, DOMAIN here \cap {"port", "lookup"})
        /\ t.alerts = NamesAt(here, "alerts") /\ t.agents = NamesAt(here, "agents")
    BY FlatIs
  <1>7. /\ "probe" \in DOMAIN Root /\ Root["probe"] = "icmp"
        /\ "nomasterpoll" \in DOMAIN Root /\ Root["nomasterpoll"] = FALSE
        /\ \A s \in {"alerts", "agents", "port", "lookup"} : s \notin DOMAIN Root
    BY DEF Root
  <1> HIDE DEF here, t, G
  <1>8. t.probe = IF G("probe") = <<>> THEN "icmp" ELSE own("probe")
    BY <1>4, <1>5, <1>6, <1>7
  <1>9. t.nomasterpoll = IF G("nomasterpoll") = <<>> THEN FALSE ELSE own("nomasterpoll")
    BY <1>4, <1>5, <1>6, <1>7
  <1>10. t.alerts = IF G("alerts") = <<>> THEN {} ELSE own("alerts")
    BY <1>3, <1>4, <1>5, <1>6, <1>7 DEF NamesAt
  <1>11. t.agents = IF G("agents") = <<>> THEN {} ELSE own("agents")
    BY <1>3, <1>4, <1>5, <1>6, <1>7 DEF NamesAt
  <1>12. \A option \in {"port", "lookup"} :
           IF G(option) = <<>> THEN option \notin DOMAIN t.options ELSE t.options[option] = own(option)
    BY <1>3, <1>4, <1>5, <1>6, <1>7 DEF Restrict
  <1> QED  BY <1>8, <1>9, <1>10, <1>11, <1>12 DEF Inherits, G, t

LEMMA LeafMeasured ==
  ASSUME NEW c, Accepts(c), NEW a \in Leaves(c)
  PROVE  Measured(c, a)
  <1> DEFINE here == Here(c)[a]
             t    == Flat(c)[a]
  <1>1. a \in DOMAIN c.tree /\ c.tree[a].host # ""
    BY DEF Leaves
  <1>2. ~Wrong(c, a)
    BY <1>1 DEF Accepts
  <1>3. /\ t.path = PathOf(a) /\ t.host = c.tree[a].host /\ t.probe = here.probe
        /\ t.options = Restrict(here, DOMAIN here \cap {"port", "lookup"})
        /\ t.agents = NamesAt(here, "agents") /\ t.nomasterpoll = here.nomasterpoll
    BY FlatIs
  <1>4. /\ here.probe \in DOMAIN Probes(c) /\ ~NeedsPort(Probes(c)[here.probe], here)
        /\ t.agents \subseteq DOMAIN c.agents /\ ~(here.nomasterpoll /\ t.agents = {})
    BY <1>1, <1>2, <1>3 DEF Wrong
  <1>5. a \in Polled(c) \/ t.agents # {}
    BY <1>3, <1>4 DEF Polled
  <1>6. ~NeedsPort(Probes(c)[t.probe], t.options)
    <2>1. "port" \in DOMAIN here => "port" \in DOMAIN t.options
      BY <1>3 DEF Restrict
    <2> HIDE DEF here, t
    <2> QED  BY <1>3, <1>4, <2>1 DEF NeedsPort
  <1>7. ASSUME NEW agent \in t.agents
        PROVE  /\ agent \in DOMAIN c.agents /\ t.path \in Allowed(c, agent)
               /\ \E w \in Assignment(c, agent).targets :
                    /\ w.path = t.path /\ w.host = t.host /\ w.probe = t.probe /\ w.options = t.options
                    /\ Assignment(c, agent).probes[w.probe] = Probes(c)[t.probe]
    <2> DEFINE w == [t EXCEPT !.alerts = {}, !.agents = {}, !.nomasterpoll = FALSE]
    <2>1. a \in Assigned(c, agent)
      BY <1>7 DEF Assigned
    <2>2. t.path \in Allowed(c, agent)
      BY <1>3, <2>1 DEF Allowed
    <2>3. w \in Assignment(c, agent).targets
      BY <2>1 DEF Assignment
    <2>4. w.path = t.path /\ w.host = t.host /\ w.probe = t.probe /\ w.options = t.options
      BY DEF Flat
    <2>5. Assignment(c, agent).probes[t.probe] = Probes(c)[t.probe]
      BY <2>1 DEF Assignment, Restrict
    <2> HIDE DEF w, t
    <2> QED  BY <1>4, <1>7, <2>2, <2>3, <2>4, <2>5
  <1> QED  BY <1>5, <1>6, <1>7 DEF Measured, t

-----------------------------------------------------------------------------
(* Keys *)

(* A text in which a sign joins two others. *)
LEMMA JoinedIs ==
  ASSUME NEW S, NEW x \in Seq(S), NEW m \in S, NEW s \in Seq(S)
  PROVE  /\ x \o <<m>> \o s \in Seq(S) /\ Len(x \o <<m>> \o s) = Len(x) + 1 + Len(s)
         /\ \A i \in 1..Len(x) : (x \o <<m>> \o s)[i] = x[i]
         /\ (x \o <<m>> \o s)[Len(x) + 1] = m
         /\ \A i \in 1..Len(s) : (x \o <<m>> \o s)[Len(x) + 1 + i] = s[i]
  <1> DEFINE one == <<m>>
             u   == x \o one
             n   == Len(x)
             k   == Len(s)
  <1>1. n \in Nat /\ k \in Nat /\ one \in Seq(S) /\ Len(one) = 1 /\ one[1] = m
    OBVIOUS
  <1> HIDE DEF one, n, k
  <1>2. /\ u \in Seq(S) /\ Len(u) = n + 1
        /\ \A i \in 1..(n + 1) : u[i] = IF i <= n THEN x[i] ELSE one[i - n]
    <2>1. /\ u \in Seq(S) /\ Len(u) = Len(x) + Len(one)
          /\ \A i \in 1..(Len(x) + Len(one)) : u[i] = IF i <= Len(x) THEN x[i] ELSE one[i - Len(x)]
      BY <1>1, ConcatProperties
    <2> HIDE DEF u
    <2> QED  BY <1>1, <2>1 DEF n
  <1> HIDE DEF u
  <1>3. /\ u \o s \in Seq(S) /\ Len(u \o s) = n + 1 + k
        /\ \A i \in 1..(n + 1 + k) : (u \o s)[i] = IF i <= n + 1 THEN u[i] ELSE s[i - (n + 1)]
    <2>1. /\ u \o s \in Seq(S) /\ Len(u \o s) = Len(u) + Len(s)
          /\ \A i \in 1..(Len(u) + Len(s)) : (u \o s)[i] = IF i <= Len(u) THEN u[i] ELSE s[i - Len(u)]
      BY <1>2, ConcatProperties
    <2> QED  BY <1>2, <2>1 DEF k
  <1> DEFINE v == u \o s
  <1> HIDE DEF v
  <1>4. \A i \in 1..n : v[i] = x[i]
    <2> SUFFICES ASSUME NEW i \in 1..n PROVE v[i] = x[i]
      OBVIOUS
    <2>1. i \in 1..(n + 1 + k) /\ i <= n + 1 /\ i \in 1..(n + 1) /\ i <= n
      BY <1>1
    <2>2. u[i] = x[i] /\ v[i] = u[i]
      BY <1>2, <1>3, <2>1 DEF v
    <2> QED  BY <2>2
  <1>5. v[n + 1] = m
    <2>1. n + 1 \in 1..(n + 1 + k) /\ n + 1 <= n + 1 /\ n + 1 \in 1..(n + 1) /\ ~(n + 1 <= n) /\ n + 1 - n = 1
      BY <1>1
    <2> QED  BY <1>1, <1>2, <1>3, <2>1 DEF v
  <1>6. \A i \in 1..k : v[n + 1 + i] = s[i]
    <2> SUFFICES ASSUME NEW i \in 1..k PROVE v[n + 1 + i] = s[i]
      OBVIOUS
    <2> DEFINE j == n + 1 + i
    <2>1. j \in 1..(n + 1 + k) /\ ~(j <= n + 1) /\ j - (n + 1) = i
      BY <1>1
    <2> HIDE DEF j
    <2>2. v[j] = s[j - (n + 1)]
      BY <1>3, <2>1 DEF v
    <2> QED  BY <2>1, <2>2 DEF j
  <1> QED  BY <1>3, <1>4, <1>5, <1>6 DEF v, u, one, n, k

LEMMA SameParts ==
  ASSUME NEW S, NEW x \in Seq(S), NEW y \in Seq(S), NEW m \in S, NEW s \in Seq(S), NEW t \in Seq(S),
         x \o <<m>> \o s = y \o <<m>> \o t, Len(x) = Len(y)
  PROVE  x = y /\ s = t
  <1> DEFINE u == x \o <<m>> \o s
             v == y \o <<m>> \o t
             n == Len(x)
             k == Len(s)
  <1>1. n \in Nat /\ k \in Nat /\ Len(t) \in Nat /\ Len(y) = n
    OBVIOUS
  <1>2. Len(u) = n + 1 + k /\ (\A i \in 1..n : u[i] = x[i]) /\ \A i \in 1..k : u[n + 1 + i] = s[i]
    <2>1. /\ Len(u) = Len(x) + 1 + Len(s) /\ \A i \in 1..Len(x) : u[i] = x[i]
          /\ \A i \in 1..Len(s) : u[Len(x) + 1 + i] = s[i]
      <3>1. Len(u) = Len(x) + 1 + Len(s)
        BY ONLY x \in Seq(S), m \in S, s \in Seq(S), JoinedIs
      <3>2. (\A i \in 1..Len(x) : u[i] = x[i]) /\ \A i \in 1..Len(s) : u[Len(x) + 1 + i] = s[i]
        BY JoinedIs, SMTT(30)
      <3> QED  BY <3>1, <3>2
    <2> QED  BY <2>1
  <1>3. Len(v) = n + 1 + Len(t) /\ (\A i \in 1..n : v[i] = y[i]) /\ \A i \in 1..Len(t) : v[n + 1 + i] = t[i]
    BY JoinedIs
  <1>4. u = v
    OBVIOUS
  <1> HIDE DEF u, v
  <1>5. Len(t) = k
    BY <1>1, <1>2, <1>3, <1>4
  <1>6. (\A i \in 1..n : x[i] = y[i]) /\ \A i \in 1..k : s[i] = t[i]
    BY <1>1, <1>2, <1>3, <1>4, <1>5
  <1> QED  BY <1>1, <1>5, <1>6, SeqEqual

(* Split at its first sign. *)
LEMMA FirstSign ==
  ASSUME NEW S, NEW x \in Seq(S), NEW y \in Seq(S), NEW m \in S, NEW s \in Seq(S), NEW t \in Seq(S),
         x \o <<m>> \o s = y \o <<m>> \o t, m \notin Range(x)
  PROVE  Len(x) <= Len(y)
  <1> DEFINE u == x \o <<m>> \o s
             v == y \o <<m>> \o t
  <1>1. Len(x) \in Nat /\ Len(y) \in Nat /\ DOMAIN x = 1..Len(x)
    OBVIOUS
  <1>2. \A i \in 1..Len(x) : u[i] = x[i]
    BY JoinedIs
  <1>3. v[Len(y) + 1] = m
    BY JoinedIs
  <1>4. u = v
    OBVIOUS
  <1> HIDE DEF u, v
  <1>5. ASSUME Len(x) > Len(y) PROVE FALSE
    <2>1. Len(y) + 1 \in 1..Len(x)
      BY <1>1, <1>5
    <2>2. x[Len(y) + 1] = m
      BY <1>2, <1>3, <1>4, <2>1
    <2> QED  BY <1>1, <2>1, <2>2 DEF Range
  <1> QED  BY <1>1, <1>5

(* Split at its last sign. *)
LEMMA LastSign ==
  ASSUME NEW S, NEW x \in Seq(S), NEW y \in Seq(S), NEW m \in S, NEW s \in Seq(S), NEW t \in Seq(S),
         x \o <<m>> \o s = y \o <<m>> \o t, m \notin Range(s)
  PROVE  Len(y) <= Len(x)
  <1> DEFINE u == x \o <<m>> \o s
             v == y \o <<m>> \o t
  <1>1. Len(x) \in Nat /\ Len(y) \in Nat /\ Len(s) \in Nat /\ Len(t) \in Nat /\ DOMAIN s = 1..Len(s)
    OBVIOUS
  <1>2. Len(u) = Len(x) + 1 + Len(s) /\ \A i \in 1..Len(s) : u[Len(x) + 1 + i] = s[i]
    BY JoinedIs
  <1>3. v[Len(y) + 1] = m /\ Len(v) = Len(y) + 1 + Len(t)
    BY JoinedIs
  <1>4. u = v
    OBVIOUS
  <1> HIDE DEF u, v
  <1>5. ASSUME Len(y) > Len(x) PROVE FALSE
    <2> DEFINE i == Len(y) - Len(x)
    <2>1. i \in 1..Len(s) /\ Len(x) + 1 + i = Len(y) + 1
      BY <1>1, <1>2, <1>3, <1>4, <1>5
    <2> HIDE DEF i
    <2>2. s[i] = m
      BY <1>2, <1>3, <1>4, <2>1
    <2> QED  BY <1>1, <2>1, <2>2 DEF Range
  <1> QED  BY <1>1, <1>5

LEMMA SignsAre == /\ "/" \in Letters /\ "@" \in Letters
                  /\ "/" # "@" /\ "@" # "." /\ "@" # ".." /\ "@" # Space
  BY Zenon DEF Letters, Signs, Space

(* A text splits in one way at its last slash, and at its first at sign. *)
LEMMA LastSlash ==
  ASSUME NEW x \in Seq(Letters), NEW y \in Seq(Letters), NEW s \in Seq(Letters), NEW t \in Seq(Letters),
         x \o <<"/">> \o s = y \o <<"/">> \o t, "/" \notin Range(s), "/" \notin Range(t)
  PROVE  x = y /\ s = t
  <1>1. PICK m \in Letters : m = "/"
    BY SignsAre
  <1>2. x \o <<m>> \o s = y \o <<m>> \o t /\ m \notin Range(s) /\ m \notin Range(t)
    BY <1>1
  <1>3. Len(y) <= Len(x)
    BY <1>2, LastSign
  <1>4. y \o <<m>> \o t = x \o <<m>> \o s
    BY <1>2
  <1>5. Len(x) <= Len(y)
    BY <1>2, <1>4, LastSign
  <1>6. Len(x) = Len(y)
    BY <1>3, <1>5
  <1> QED  BY <1>2, <1>6, SameParts

LEMMA FirstAt ==
  ASSUME NEW x \in Seq(Letters), NEW y \in Seq(Letters), NEW s \in Seq(Letters), NEW t \in Seq(Letters),
         x \o <<"@">> \o s = y \o <<"@">> \o t, "@" \notin Range(x), "@" \notin Range(y)
  PROVE  x = y /\ s = t
  <1>1. PICK m \in Letters : m = "@"
    BY SignsAre
  <1>2. x \o <<m>> \o s = y \o <<m>> \o t /\ m \notin Range(x) /\ m \notin Range(y)
    BY <1>1
  <1>3. Len(x) <= Len(y)
    BY <1>2, FirstSign
  <1>4. y \o <<m>> \o t = x \o <<m>> \o s
    BY <1>2
  <1>5. Len(y) <= Len(x)
    BY <1>2, <1>4, FirstSign
  <1>6. Len(x) = Len(y)
    BY <1>3, <1>5
  <1> QED  BY <1>2, <1>6, SameParts

(* The beginnings of a path: texts, joined by slashes. *)
LEMMA ItTypes ==
  ASSUME NEW address \in Seq(Texts)
  PROVE  /\ \A n \in 1..Len(address) : ItPath(address)[n] \in Seq(Letters)
         /\ Len(address) > 0 => ItPath(address)[1] = address[1]
         /\ \A n \in 1..Len(address) : n # 1 =>
              /\ n - 1 \in 1..Len(address) /\ ItPath(address)[n - 1] \in Seq(Letters)
              /\ address[n] \in Seq(Letters)
              /\ ItPath(address)[n] = ItPath(address)[n - 1] \o <<"/">> \o address[n]
  <1> DEFINE it == ItPath(address)
             k  == Len(address)
             T  == {m \in Nat : m + 1 \in 1..k => it[m + 1] \in Seq(Letters)}
  <1>1. k \in Nat /\ DOMAIN address = 1..k /\ \A i \in 1..k : address[i] \in Seq(Letters)
    BY DEF Texts, Letters
  <1>2. it = [i \in 1..k |-> IF i = 1 THEN address[1] ELSE it[i - 1] \o <<"/">> \o address[i]]
    BY <1>1, RecPathExists DEF RecPath
  <1>3. "/" \in Letters
    BY SignsAre
  <1> HIDE DEF it, k
  <1>4. 0 \in T
    BY <1>1, <1>2
  <1>5. ASSUME NEW m \in T PROVE m + 1 \in T
    <2>1. m \in Nat /\ (m + 1 \in 1..k => it[m + 1] \in Seq(Letters))
      OBVIOUS
    <2> HIDE DEF T
    <2>2. ASSUME (m + 1) + 1 \in 1..k PROVE it[(m + 1) + 1] \in Seq(Letters)
      <3> DEFINE i == (m + 1) + 1
      <3>1. m + 1 \in 1..k /\ i - 1 = m + 1 /\ i # 1 /\ i \in 1..k
        BY <1>1, <2>1, <2>2
      <3>2. it[m + 1] \in Seq(Letters) /\ address[i] \in Seq(Letters)
        BY <1>1, <2>1, <3>1
      <3> HIDE DEF i
      <3>3. it[i] = it[m + 1] \o <<"/">> \o address[i]
        BY <1>2, <3>1
      <3>4. it[i] \in Seq(Letters)
        BY <1>3, <3>2, <3>3, JoinedIs
      <3> QED  BY <3>4 DEF i
    <2>3. m + 1 \in Nat
      BY <2>1
    <2> QED  BY <2>2, <2>3 DEF T
  <1>6. T \in SUBSET Nat
    OBVIOUS
  <1> HIDE DEF T
  <1>7. T = Nat
    BY <1>4, <1>5, <1>6, AllNat
  <1>8. ASSUME NEW n \in 1..k PROVE it[n] \in Seq(Letters)
    <2>1. n - 1 \in Nat /\ (n - 1) + 1 = n
      BY <1>1
    <2>2. n - 1 \in T
      BY <1>7, <2>1
    <2> QED  BY <2>1, <2>2 DEF T
  <1>9. k > 0 => it[1] = address[1]
    BY <1>1, <1>2
  <1>10. ASSUME NEW n \in 1..k, n # 1
         PROVE  /\ n - 1 \in 1..k /\ it[n - 1] \in Seq(Letters) /\ address[n] \in Seq(Letters)
                /\ it[n] = it[n - 1] \o <<"/">> \o address[n]
    <2>1. n - 1 \in 1..k
      BY <1>1, <1>10
    <2>2. it[n] = it[n - 1] \o <<"/">> \o address[n]
      BY <1>2, <1>10
    <2> QED  BY <1>1, <1>8, <2>1, <2>2
  <1> QED  BY <1>8, <1>9, <1>10 DEF it, k

Clean(address) == \A n \in DOMAIN address : "/" \notin Range(address[n])

(* Two beginnings that are the same text are those of the same sections. *)
LEMMA SameSections ==
  ASSUME NEW a \in Seq(Texts), NEW b \in Seq(Texts), Clean(a), Clean(b)
  PROVE  \A i \in 1..Len(a) : \A j \in 1..Len(b) :
           ItPath(a)[i] = ItPath(b)[j] => i = j /\ \A k \in 1..i : a[k] = b[k]
  <1> DEFINE p == ItPath(a)
             q == ItPath(b)
             Same(i, j) == p[i] = q[j] => i = j /\ \A k \in 1..i : a[k] = b[k]
             T == {n \in Nat : n + 1 \in 1..Len(a) => \A j \in 1..Len(b) : Same(n + 1, j)}
  <1>1. Len(a) \in Nat /\ Len(b) \in Nat /\ DOMAIN a = 1..Len(a) /\ DOMAIN b = 1..Len(b) /\ "/" \in Letters
    BY SignsAre
  <1>2. /\ Len(a) > 0 => p[1] = a[1]
        /\ \A n \in 1..Len(a) : n # 1 =>
              /\ n - 1 \in 1..Len(a) /\ p[n - 1] \in Seq(Letters) /\ a[n] \in Seq(Letters)
              /\ p[n] = p[n - 1] \o <<"/">> \o a[n]
    BY ItTypes
  <1>3. /\ Len(b) > 0 => q[1] = b[1]
        /\ \A n \in 1..Len(b) : n # 1 =>
              /\ n - 1 \in 1..Len(b) /\ q[n - 1] \in Seq(Letters) /\ b[n] \in Seq(Letters)
              /\ q[n] = q[n - 1] \o <<"/">> \o b[n]
    BY ItTypes
  <1>4. (\A n \in 1..Len(a) : "/" \notin Range(a[n])) /\ \A n \in 1..Len(b) : "/" \notin Range(b[n])
    BY <1>1 DEF Clean
  <1> HIDE DEF p, q
  <1>5. ASSUME NEW x \in Seq(Letters), NEW y \in Seq(Letters)
        PROVE  "/" \in Range(x \o <<"/">> \o y)
    <2> DEFINE u == x \o <<"/">> \o y
    <2>1. Len(x) + 1 \in DOMAIN u /\ u[Len(x) + 1] = "/"
      BY <1>1, Joined
    <2> HIDE DEF u
    <2>2. "/" \in Range(u)
      BY <2>1 DEF Range
    <2> QED  BY <2>2 DEF u
  <1>6. ASSUME NEW j \in 1..Len(b), 1 \in 1..Len(a), p[1] = q[j]
        PROVE  j = 1 /\ \A k \in 1..1 : a[k] = b[k]
    <2>1. "/" \notin Range(q[j])
      BY <1>1, <1>2, <1>4, <1>6
    <2>2. j = 1
      BY <1>3, <1>5, <2>1
    <2>3. a[1] = b[1]
      BY <1>1, <1>2, <1>3, <1>6, <2>2
    <2> QED  BY <2>2, <2>3
  <1>7. 0 \in T
    BY <1>6
  <1>8. ASSUME NEW n \in T PROVE n + 1 \in T
    <2> DEFINE i == (n + 1) + 1
    <2>1. n \in Nat /\ (n + 1 \in 1..Len(a) => \A j \in 1..Len(b) : Same(n + 1, j))
      OBVIOUS
    <2> HIDE DEF T
    <2>2. ASSUME i \in 1..Len(a), NEW j \in 1..Len(b), p[i] = q[j]
          PROVE  i = j /\ \A k \in 1..i : a[k] = b[k]
      <3>1. i # 1 /\ i - 1 = n + 1 /\ n + 1 \in 1..Len(a)
        BY <1>1, <2>1, <2>2
      <3> HIDE DEF i
      <3>2. p[n + 1] \in Seq(Letters) /\ a[i] \in Seq(Letters) /\ p[i] = p[n + 1] \o <<"/">> \o a[i]
        BY <1>2, <2>2, <3>1
      <3>3. j # 1
        <4>1. "/" \in Range(q[j])
          BY <1>5, <2>2, <3>2
        <4> QED  BY <1>1, <1>3, <1>4, <4>1
      <3>4. /\ j - 1 \in 1..Len(b) /\ q[j - 1] \in Seq(Letters) /\ b[j] \in Seq(Letters)
            /\ q[j] = q[j - 1] \o <<"/">> \o b[j]
        BY <1>3, <3>3
      <3>5. "/" \notin Range(a[i]) /\ "/" \notin Range(b[j])
        BY <1>4, <2>2
      <3>6. p[n + 1] = q[j - 1] /\ a[i] = b[j]
        <4>1. p[n + 1] \o <<"/">> \o a[i] = q[j - 1] \o <<"/">> \o b[j]
          BY <2>2, <3>2, <3>4
        <4> QED  BY <3>2, <3>4, <3>5, <4>1, LastSlash
      <3>7. n + 1 = j - 1 /\ \A k \in 1..(n + 1) : a[k] = b[k]
        BY <2>1, <3>1, <3>4, <3>6
      <3>8. i = j
        BY <2>1, <3>1, <3>7 DEF i
      <3>9. \A k \in 1..i : k = i \/ k \in 1..(n + 1)
        BY <2>1 DEF i
      <3> QED  BY <3>6, <3>7, <3>8, <3>9
    <2>3. n + 1 \in Nat
      BY <2>1
    <2> QED  BY <2>2, <2>3 DEF T
  <1>9. T \in SUBSET Nat
    OBVIOUS
  <1>10. T = Nat
    <2> HIDE DEF T
    <2> QED  BY <1>7, <1>8, <1>9, AllNat
  <1>11. ASSUME NEW i \in 1..Len(a), NEW j \in 1..Len(b) PROVE Same(i, j)
    <2>1. i - 1 \in Nat /\ (i - 1) + 1 = i
      BY <1>1
    <2>2. i - 1 \in T
      BY <1>10, <2>1
    <2> QED  BY <2>1, <2>2
  <1> QED  BY <1>11 DEF p, q

(* Addresses without a slash in a name have paths of their own. *)
LEMMA PathsApart ==
  ASSUME NEW a \in Seq(Texts) \ {<<>>}, NEW b \in Seq(Texts) \ {<<>>}, Clean(a), Clean(b),
         PathOf(a) = PathOf(b)
  PROVE  a = b
  <1>1. a \in Seq(Texts) /\ b \in Seq(Texts) /\ Len(a) \in 1..Len(a) /\ Len(b) \in 1..Len(b)
    OBVIOUS
  <1>2. ItPath(a)[Len(a)] = ItPath(b)[Len(b)]
    BY PathIsIt
  <1>3. Len(a) = Len(b) /\ \A k \in 1..Len(a) : a[k] = b[k]
    BY <1>1, <1>2, SameSections
  <1> QED  BY <1>1, <1>3, SeqEqual

LEMMA PieceIs ==
  ASSUME NEW S, NEW s \in Seq(S), NEW l \in 0..Len(s), NEW r \in l..Len(s)
  PROVE  LET t == SubSeq(s, l + 1, r + 1 - 1) IN
         Len(t) = r - l /\ DOMAIN t = 1..(r - l) /\ \A i \in 1..(r - l) : t[i] = s[l + i]
  <1> DEFINE t == SubSeq(s, l + 1, r + 1 - 1)
  <1>1. /\ l \in Nat /\ r \in Nat /\ Len(s) \in Nat /\ l <= r /\ r <= Len(s) /\ l + 1 \in Int /\ r + 1 - 1 = r /\ r \in Int
        /\ (\A i \in (l + 1)..r : s[i] \in S) /\ r - (l + 1) + 1 = r - l /\ \A i \in 1..(r - l) : l + 1 + i - 1 = l + i
    OBVIOUS
  <1>2. /\ SubSeq(s, l + 1, r) \in Seq(S)
        /\ Len(SubSeq(s, l + 1, r)) = IF l + 1 <= r THEN r - (l + 1) + 1 ELSE 0
        /\ \A i \in 1..(r - (l + 1) + 1) : SubSeq(s, l + 1, r)[i] = s[l + 1 + i - 1]
    BY <1>1, SubSeqProperties
  <1>3. t = SubSeq(s, l + 1, r)
    BY <1>1
  <1> HIDE DEF t
  <1>4. t \in Seq(S) /\ Len(t) = r - l /\ \A i \in 1..(r - l) : t[i] = s[l + i]
    BY <1>1, <1>2, <1>3
  <1> QED  BY <1>4 DEF t

LEMMA PartIs ==
  ASSUME NEW text, NEW l \in Cuts(text), NEW r \in Cuts(text), l < r,
         \A i \in Cuts(text) : i <= l \/ i >= r
  PROVE  SubSeq(text, l + 1, r - 1) \in Parts(text)
  <1> DEFINE pairs == {p \in Cuts(text) \X Cuts(text) :
                         p[1] < p[2] /\ \A i \in Cuts(text) : i <= p[1] \/ i >= p[2]}
  <1>1. <<l, r>> \in pairs
    OBVIOUS
  <1>2. Parts(text) = {SubSeq(text, cut[1] + 1, cut[2] - 1) : cut \in pairs}
    BY DEF Parts
  <1> HIDE DEF pairs
  <1>3. SubSeq(text, <<l, r>>[1] + 1, <<l, r>>[2] - 1) \in Parts(text)
    BY <1>1, <1>2
  <1> QED  BY <1>3

(* The same piece of two texts that begin alike. *)
LEMMA SameSubSeq ==
  ASSUME NEW S, NEW s \in Seq(S), NEW t \in Seq(S), NEW m \in Nat, m <= Len(s), m <= Len(t),
         \A i \in 1..m : s[i] = t[i], NEW l \in Nat, NEW r \in Nat, l < r, r <= m
  PROVE  SubSeq(s, l + 1, r - 1) = SubSeq(t, l + 1, r - 1)
  <1> DEFINE k == r - 1
             u == SubSeq(s, l + 1, k)
             v == SubSeq(t, l + 1, k)
  <1>1. /\ k \in Nat /\ l + 1 \in Int /\ k \in Int /\ Len(s) \in Nat /\ Len(t) \in Nat
        /\ \A i \in (l + 1)..k : s[i] \in S /\ t[i] \in S /\ i \in 1..m
    OBVIOUS
  <1> HIDE DEF k
  <1>2. /\ u \in Seq(S) /\ Len(u) = (IF l + 1 <= k THEN k - (l + 1) + 1 ELSE 0)
        /\ \A i \in 1..(k - (l + 1) + 1) : u[i] = s[l + 1 + i - 1]
    BY <1>1, SubSeqProperties
  <1>3. /\ v \in Seq(S) /\ Len(v) = (IF l + 1 <= k THEN k - (l + 1) + 1 ELSE 0)
        /\ \A i \in 1..(k - (l + 1) + 1) : v[i] = t[l + 1 + i - 1]
    BY <1>1, SubSeqProperties
  <1> HIDE DEF u, v
  <1>4. Len(u) = Len(v) /\ \A i \in 1..Len(u) : i \in 1..(k - (l + 1) + 1) /\ l + 1 + i - 1 \in (l + 1)..k
    BY <1>1, <1>2, <1>3
  <1>5. \A i \in 1..Len(u) : u[i] = v[i]
    BY <1>1, <1>2, <1>3, <1>4
  <1>6. u = v
    BY <1>2, <1>3, <1>4, <1>5, SeqEqual
  <1> QED  BY <1>6 DEF u, v, k

(* The store takes the key of an agent that gen-agent takes, where it takes *)
(* the path: the last part of the path has the agent's name appended.       *)
LEMMA KeyStorable ==
  ASSUME NEW path \in Texts, NEW agent \in Texts, Storable(path), Generated(agent)
  PROVE  Storable(AgentKey(path, agent))
  <1> DEFINE text == path \o <<"@">> \o agent
             p    == Len(path)
             n    == Len(text)
  <1>1. /\ path \in Seq(Letters) /\ agent \in Seq(Letters) /\ "@" \in Letters
        /\ p \in Nat /\ Len(agent) \in Nat /\ DOMAIN path = 1..p /\ DOMAIN agent = 1..Len(agent)
    BY SignsAre DEF Texts, Letters
  <1>2. /\ text \in Seq(Letters) /\ n = p + 1 + Len(agent) /\ text[p + 1] = "@"
        /\ (\A i \in 1..p : text[i] = path[i]) /\ \A i \in 1..Len(agent) : text[p + 1 + i] = agent[i]
    BY <1>1, JoinedIs
  <1>3. AgentKey(path, agent) = text
    BY DEF AgentKey
  <1> HIDE DEF text
  <1>4. n \in Nat /\ DOMAIN text = 1..n
    BY <1>2
  <1> HIDE DEF n, p
  <1>5. \A i \in 1..Len(agent) : agent[i] # "/" /\ agent[i] # Space
    BY <1>1 DEF Generated, Range
  <1>6. \A i \in 1..n : i > p => text[i] # "/" /\ text[i] # Space
    <2> SUFFICES ASSUME NEW i \in 1..n, i > p PROVE text[i] # "/" /\ text[i] # Space
      OBVIOUS
    <2>1. CASE i = p + 1
      BY <1>2, <2>1, SignsAre
    <2>2. CASE i # p + 1
      <3> DEFINE j == i - (p + 1)
      <3>1. j \in 1..Len(agent) /\ p + 1 + j = i
        BY <1>1, <1>2, <1>4, <2>2
      <3> HIDE DEF j
      <3>2. text[i] = agent[j]
        BY <1>2, <3>1
      <3> QED  BY <1>5, <3>1, <3>2
    <2> QED  BY <2>1, <2>2
  <1>7. \A i : i \in Cuts(text) <=> i = 0 \/ i = n + 1 \/ (i \in 1..p /\ path[i] = "/")
    <2>1. \A i : i \in 1..n /\ text[i] = "/" <=> i \in 1..p /\ path[i] = "/"
      BY <1>1, <1>2, <1>4, <1>6
    <2> QED  BY <1>4, <2>1 DEF Cuts, n
  <1>8. \A i : i \in Cuts(path) <=> i = 0 \/ i = p + 1 \/ (i \in 1..p /\ path[i] = "/")
    BY <1>1 DEF Cuts, p
  <1>9. \A part \in Parts(path) : part # <<>> /\ part # <<".">> /\ part # <<"..">> /\ Space \notin Range(part)
    BY DEF Storable
  <1>10. ASSUME NEW l \in Cuts(text), NEW r \in Cuts(text), l < r,
                \A i \in Cuts(text) : i <= l \/ i >= r,
                NEW part, part = SubSeq(text, l + 1, r - 1)
         PROVE  part # <<>> /\ part # <<".">> /\ part # <<"..">> /\ Space \notin Range(part)
    <2>1. l \in Nat /\ r \in Nat /\ l <= p
      BY <1>1, <1>2, <1>4, <1>7, <1>10
    <2>2. CASE r <= p
      <3>1. l \in Cuts(path) /\ r \in Cuts(path)
        BY <1>1, <1>2, <1>4, <1>7, <1>8, <1>10, <2>1, <2>2
      <3>2. \A i \in Cuts(path) : i <= l \/ i >= r
        BY <1>1, <1>7, <1>8, <1>10, <2>1, <2>2
      <3>3. SubSeq(path, l + 1, r - 1) \in Parts(path)
        BY <1>10, <3>1, <3>2, PartIs
      <3>4. part = SubSeq(path, l + 1, r - 1)
        BY <1>1, <1>2, <1>4, <1>10, <2>1, <2>2, SameSubSeq DEF p, n
      <3> QED  BY <1>9, <3>3, <3>4
    <2>3. CASE r > p
      <3>1. r = n + 1
        BY <1>1, <1>7, <2>1, <2>3
      <3>2. l \in Cuts(path) /\ p + 1 \in Cuts(path) /\ l < p + 1
        BY <1>1, <1>2, <1>4, <1>7, <1>8, <2>1
      <3>3. \A i \in Cuts(path) : i <= l \/ i >= p + 1
        BY <1>1, <1>2, <1>7, <1>8, <1>10, <2>1, <2>3
      <3> DEFINE q == SubSeq(path, l + 1, p + 1 - 1)
      <3>4. q \in Parts(path)
        <4>1. ASSUME NEW e, e = p + 1 PROVE SubSeq(path, l + 1, e - 1) \in Parts(path)
          BY <3>2, <3>3, <4>1, PartIs
        <4>2. PICK e \in Nat : e = p + 1 /\ e - 1 = p + 1 - 1
          BY <1>1
        <4>3. q = SubSeq(path, l + 1, e - 1)
          BY <1>1, <4>2
        <4> QED  BY <4>1, <4>2, <4>3
      <3>5. Space \notin Range(q)
        BY <1>9, <3>4
      <3>6. Len(q) = p - l /\ DOMAIN q = 1..(p - l) /\ \A i \in 1..(p - l) : q[i] = path[l + i]
        <4>1. l \in 0..Len(path) /\ p \in l..Len(path) /\ Len(path) = p
          BY <1>1, <2>1 DEF p
        <4> QED  BY <1>1, <4>1, PieceIs
      <3>7. Len(part) = n - l /\ DOMAIN part = 1..(n - l) /\ \A i \in 1..(n - l) : part[i] = text[l + i]
        <4>1. l \in 0..n /\ n + 1 - 1 = n
          BY <1>1, <1>2, <1>4, <2>1
        <4>2. n \in l..Len(text) /\ l \in 0..Len(text) /\ Len(text) = n
          BY <4>1 DEF n
        <4>3. part = SubSeq(text, l + 1, n + 1 - 1)
          BY <1>4, <1>10, <3>1
        <4> QED  BY <1>2, <4>2, <4>3, PieceIs
      <3> HIDE DEF q
      <3>8. p + 1 - l \in 1..(n - l) /\ part[p + 1 - l] = "@"
        <4>1. p + 1 - l \in 1..(n - l) /\ l + (p + 1 - l) = p + 1
          BY <1>1, <1>2, <2>1
        <4> QED  BY <1>2, <3>7, <4>1
      <3>9. part # <<>> /\ part # <<".">> /\ part # <<"..">>
        <4>1. "@" \in Range(part)
          BY <3>7, <3>8 DEF Range
        <4>2. "@" \notin Range(<<>>) /\ "@" \notin Range(<<".">>) /\ "@" \notin Range(<<"..">>)
          BY DEF Range
        <4> QED  BY <4>1, <4>2
      <3>10. ASSUME NEW i \in 1..(n - l) PROVE part[i] # Space
        <4>1. CASE l + i > p
          <5>1. l + i \in 1..n
            BY <1>4, <2>1
          <5> QED  BY <1>6, <3>7, <4>1, <5>1
        <4>2. CASE ~(l + i > p)
          <5>1. i \in 1..(p - l) /\ l + i \in 1..p
            BY <1>1, <1>4, <2>1, <4>2
          <5>2. q[i] = text[l + i] /\ q[i] \in Range(q)
            BY <1>2, <3>6, <5>1 DEF Range
          <5> QED  BY <3>5, <3>7, <5>2
        <4> QED  BY <4>1, <4>2
      <3>11. Space \notin Range(part)
        BY <3>7, <3>10 DEF Range
      <3> QED  BY <3>9, <3>11
    <2> QED  BY <1>1, <2>1, <2>2, <2>3
  <1>11. ASSUME NEW part \in Parts(text)
         PROVE  part \notin {<<>>, <<".">>, <<"..">>} /\ Space \notin Range(part)
    <2>1. PICK cut \in Cuts(text) \X Cuts(text) :
            /\ cut[1] < cut[2] /\ \A i \in Cuts(text) : i <= cut[1] \/ i >= cut[2]
            /\ part = SubSeq(text, cut[1] + 1, cut[2] - 1)
      BY <1>11 DEF Parts
    <2>2. cut[1] \in Cuts(text) /\ cut[2] \in Cuts(text)
      OBVIOUS
    <2> QED  BY <1>10, <2>1, <2>2
  <1> QED  BY <1>3, <1>11 DEF Storable

(* No two measurers of an accepted configuration share a series. *)
LEMMA AcceptedPaths ==
  ASSUME NEW c, Written(c), Accepts(c), NEW leaf \in Leaves(c)
  PROVE  /\ leaf \in Seq(Texts) \ {<<>>} /\ PathOf(leaf) \in Texts
         /\ Storable(PathOf(leaf)) /\ "@" \notin Range(PathOf(leaf))
  <1>1. leaf \in DOMAIN c.tree /\ c.tree[leaf].host # ""
    BY DEF Leaves
  <1>2. leaf \in Seq(Texts) \ {<<>>}
    BY <1>1 DEF Written
  <1>3. ~Wrong(c, leaf)
    BY <1>1 DEF Accepts
  <1>4. Storable(PathOf(leaf)) /\ "@" \notin Range(PathOf(leaf))
    BY <1>1, <1>3 DEF Wrong
  <1> QED  BY <1>2, <1>4, PathType

LEMMA AcceptedKeysApart ==
  ASSUME NEW c, Written(c), Accepts(c)
  PROVE  KeysApart(c)
  <1>1. \A a \in Leaves(c) : /\ a \in Seq(Texts) \ {<<>>} /\ PathOf(a) \in Texts
                             /\ Storable(PathOf(a)) /\ "@" \notin Range(PathOf(a))
    BY AcceptedPaths
  <1>2. \A m \in Measurers(c) :
          /\ m = <<m[1], m[2]>> /\ m[1] \in Leaves(c)
          /\ m[2] = <<>> \/ m[2] \in DOMAIN c.agents
    BY DEF Measurers, Polled
  <1>3. \A agent \in DOMAIN c.agents : agent \in Texts
    BY DEF Written
  <1>4. \A m \in Measurers(c) : m[2] = <<>> \/ (m[2] \in Texts /\ KeyOf(m) = AgentKey(PathOf(m[1]), m[2]))
    BY <1>2, <1>3 DEF KeyOf
  <1>5. ASSUME \A a \in Leaves(c) : \A n \in DOMAIN a : "/" \notin Range(a[n])
        PROVE  \A a, b \in Leaves(c) : PathOf(a) = PathOf(b) => a = b
    <2> SUFFICES ASSUME NEW a \in Leaves(c), NEW b \in Leaves(c), PathOf(a) = PathOf(b) PROVE a = b
      OBVIOUS
    <2>1. Clean(a) /\ Clean(b)
      BY <1>5 DEF Clean
    <2>2. a \in Seq(Texts) \ {<<>>} /\ b \in Seq(Texts) \ {<<>>}
      BY <1>1
    <2> QED  BY <2>1, <2>2, PathsApart
  <1>6. ASSUME NEW m \in Measurers(c), NEW n \in Measurers(c), KeyOf(m) = KeyOf(n)
        PROVE  PathOf(m[1]) = PathOf(n[1]) /\ m[2] = n[2]
    <2> DEFINE p == PathOf(m[1])
               q == PathOf(n[1])
    <2>1. p \in Texts /\ q \in Texts /\ "@" \notin Range(p) /\ "@" \notin Range(q)
      BY <1>1, <1>2
    <2>2. m[2] = <<>> => KeyOf(m) = p
      BY DEF KeyOf
    <2>3. n[2] = <<>> => KeyOf(n) = q
      BY DEF KeyOf
    <2>4. m[2] # <<>> => m[2] \in Texts /\ KeyOf(m) = AgentKey(p, m[2])
      BY <1>4
    <2>5. n[2] # <<>> => n[2] \in Texts /\ KeyOf(n) = AgentKey(q, n[2])
      BY <1>4
    <2> HIDE DEF p, q
    <2>6. CASE m[2] = <<>> /\ n[2] = <<>>
      BY <1>6, <2>2, <2>3, <2>6 DEF p, q
    <2>7. CASE m[2] = <<>> /\ n[2] # <<>>
      <3>1. "@" \in Range(KeyOf(n))
        BY <2>1, <2>5, <2>7, KeyFacts
      <3> QED  BY <1>6, <2>1, <2>2, <2>7, <3>1
    <2>8. CASE m[2] # <<>> /\ n[2] = <<>>
      <3>1. "@" \in Range(KeyOf(m))
        BY <2>1, <2>4, <2>8, KeyFacts
      <3> QED  BY <1>6, <2>1, <2>3, <2>8, <3>1
    <2>9. CASE m[2] # <<>> /\ n[2] # <<>>
      <3>1. PICK s, t : s = m[2] /\ t = n[2]
        OBVIOUS
      <3>2. p \in Seq(Letters) /\ q \in Seq(Letters) /\ s \in Seq(Letters) /\ t \in Seq(Letters)
        BY <2>1, <2>4, <2>5, <2>9, <3>1 DEF Texts, Letters
      <3>3. p \o <<"@">> \o s = q \o <<"@">> \o t
        BY <1>6, <2>4, <2>5, <2>9, <3>1 DEF AgentKey
      <3>4. p = q /\ s = t
        BY <2>1, <3>2, <3>3, FirstAt
      <3> QED  BY <3>1, <3>4 DEF p, q
    <2> QED  BY <2>6, <2>7, <2>8, <2>9
  <1>7. ASSUME \A a \in Leaves(c) : \A n \in DOMAIN a : "/" \notin Range(a[n])
        PROVE  /\ \A m, n \in Measurers(c) : m # n => KeyOf(m) # KeyOf(n)
               /\ \A a \in Leaves(c) : Offered(c, a) = {Flat(c)[a].agents}
    <2>1. \A a, b \in Leaves(c) : PathOf(a) = PathOf(b) => a = b
      BY <1>5, <1>7
    <2>2. ASSUME NEW m \in Measurers(c), NEW n \in Measurers(c), KeyOf(m) = KeyOf(n) PROVE m = n
      <3>1. m[1] = n[1] /\ m[2] = n[2]
        BY <1>2, <1>6, <2>1, <2>2
      <3>2. m = <<m[1], m[2]>> /\ n = <<n[1], n[2]>>
        BY <1>2
      <3> QED  BY <3>1, <3>2
    <2>3. ASSUME NEW a \in Leaves(c) PROVE Offered(c, a) = {Flat(c)[a].agents}
      <3>1. {l \in Leaves(c) : PathOf(l) = PathOf(a)} = {a}
        BY <2>1
      <3> QED  BY <3>1 DEF Offered
    <2> QED  BY <2>2, <2>3
  <1>8. ASSUME NEW m \in Measurers(c), m[2] = <<>> \/ Generated(m[2]) PROVE Storable(KeyOf(m))
    <2>1. PathOf(m[1]) \in Texts /\ Storable(PathOf(m[1]))
      BY <1>1, <1>2
    <2>2. CASE m[2] = <<>>
      BY <2>1, <2>2 DEF KeyOf
    <2>3. CASE m[2] # <<>>
      <3>1. m[2] \in Texts /\ KeyOf(m) = AgentKey(PathOf(m[1]), m[2]) /\ Generated(m[2])
        BY <1>4, <1>8, <2>3
      <3>2. Storable(AgentKey(PathOf(m[1]), m[2]))
        BY <2>1, <3>1, KeyStorable
      <3> QED  BY <3>1, <3>2
    <2> QED  BY <2>2, <2>3
  <1> QED  BY <1>7, <1>8 DEF KeysApart

LEMMA AcceptedIsMeant ==
  ASSUME NEW c, Written(c), Accepts(c)
  PROVE  Meant(c)
  BY AcceptedKeysApart, LeafInherits, LeafMeasured DEF Meant

(* Whatever tree of sections and whatever settings a file has: if the       *)
(* daemon runs it, each leaf is measured with the settings of the closest   *)
(* section that gives them, and no two measurers share a series unless a    *)
(* key is written with a slash.                                             *)
THEOREM ConfigMeans == Spec => ConfigIsMeant
  <1>1. ASSUME IngestInv, [Next]_vars, Gen' > Gen PROVE Meant(setup.configs[Gen'])
    <2>1. Loaded /\ Gen \in Nat
      BY <1>1, GenNat DEF IngestInv
    <2>2. Load
      <3>1. CASE app' = app
        <4>1. Gen' = Gen
          BY <3>1 DEF Gen
        <4> QED  BY <1>1, <2>1, <4>1
      <3>2. CASE app' # app
        BY <1>1, <3>2 DEF Next, vars, mvars, LoadFails, StartFails, EndAs, Reload, Quit, PolledRound, Fetch, Post,
           Unauthorized, HandleRound, Acknowledge, LoseAnswer, Measure, SinksStep
      <3> QED  BY <3>1, <3>2
    <2>3. Accepts(NextConfig) /\ Gen' = Gen + 1 /\ Gen < Len(setup.configs)
      <3>1. Len(app') = Len(app) + 1
        BY <2>1, <2>2 DEF Load, Loaded
      <3> QED  BY <2>1, <2>2, <3>1 DEF Load, Loaded, Gen
    <2>4. Written(NextConfig)
      <3>1. /\ setup.configs \in Seq(Range(setup.configs)) /\ \A d \in Range(setup.configs) : Written(d)
        BY <2>1, MasterAssumption DEF Loaded
      <3>2. Gen + 1 \in 1..Len(setup.configs)
        BY <2>1, <2>3, <3>1
      <3>3. NextConfig \in Range(setup.configs)
        BY <3>1, <3>2 DEF NextConfig
      <3> QED  BY <3>1, <3>3
    <2>5. Meant(NextConfig)
      BY <2>3, <2>4, AcceptedIsMeant
    <2> QED  BY <2>3, <2>5 DEF NextConfig
  <1>2. IngestInv /\ [Next]_vars => [Gen' > Gen => Meant(setup.configs[Gen'])]_vars
    BY <1>1
  <1>3. Init => IngestInv
    BY IngestInit
  <1>4. IngestInv /\ [Next]_vars => IngestInv'
    BY IngestNext
  <1> QED  BY <1>2, <1>3, <1>4, PTL DEF Spec, ConfigIsMeant
=============================================================================
