------------------------------- MODULE Master -------------------------------
(***************************************************************************)
(* The master with all that a finished round runs through: a configuration *)
(* is loaded (ConfigTree), the rounds of its own probes and those an agent *)
(* pushes are recorded and emitted (agent_results in src/web/mod.rs), and  *)
(* the sinks pass them on (Emitters).  A reload starts a new generation,   *)
(* while requests that are under way end in the one they came to.          *)
(*                                                                         *)
(* The agent is the part of AgentPush that bears on this: it keeps what is *)
(* not acknowledged and sends it again.  The alerter and the status engine *)
(* are emitters too; they know no keys of agents (README).                 *)
(***************************************************************************)
EXTENDS ConfigTree, Emitters, FiniteSetsExt

CONSTANTS
  Setups \* what a run begins with and how far it goes:
         \*   configs        the file's contents, one after another
         \*   agent, secret  the agent and what it was given
         \*   kinds          the kinds of sinks
         \*   rounds         rounds made by the master and the agent
         \*   answers        answers to the agent that get lost
         \*   errors         records that fail: a full disk, a refused file
         \*   troubles       changes of the service for the worse

ASSUME MasterAssumption ==
  \A s \in Setups :
    /\ s.configs \in Seq(Range(s.configs)) \ {<<>>} /\ \A c \in Range(s.configs) : Written(c)
    /\ s.agent \in Texts /\ s.kinds \subseteq Kinds
    /\ {s.rounds, s.answers, s.errors, s.troubles} \subseteq Nat

VARIABLES
  setup,
  pc,       \* "load", "serving", "refused" (the file), "failed" (the start) or "exited"
  app,      \* app[g]: the AppState and the polled paths of generation g
  told,     \* the paths the agent measures, and the generation that said so
  outbox,   \* the agent's rounds that are not acknowledged
  request,  \* the agent's request under way
  made,     \* rounds started so far, by the master and the agent
  kept,     \* the series: <<key, slot>>
  losses, errors,
  measured, acked, failed, rejected \* history

mvars == <<setup, pc, app, told, outbox, request, made, kept, losses, errors,
           measured, acked, failed, rejected>>
vars  == <<mvars, evars>>

Gen     == Len(app)
Serving == pc = "serving"
Running == pc \in {"load", "serving"}
Agent   == setup.agent
NoRequest == [gen |-> 0, batch |-> <<>>, left |-> <<>>]

(* AppState's agents, and the targets the scheduler is given. *)
AppOf(c) ==
  [secrets |-> c.agents,
   allowed |-> [agent \in DOMAIN c.agents |-> Allowed(c, agent)],
   polled  |-> {PathOf(a) : a \in Polled(c)}]

Init ==
  /\ setup \in Setups /\ pc = "load" /\ app = <<>>
  /\ told = [gen |-> 0, paths |-> {}] /\ outbox = <<>> /\ request = NoRequest
  /\ made = 0 /\ kept = {} /\ losses = 0 /\ errors = 0
  /\ measured = {} /\ acked = {} /\ failed = {} /\ rejected = {}
  /\ EmittersInit(setup.kinds, setup.troubles)

-----------------------------------------------------------------------------
(* Generations *)

NextConfig == setup.configs[Gen + 1]

HeldBy(g) == ToSet(sink[g].queue) \cup ToSet(sink[g].hand)

(* The process ends: the runtime is dropped with all tasks and what they    *)
(* hold.                                                                   *)
EndAs(how) ==
  /\ pc' = how /\ request' = NoRequest
  /\ Losing(UNION {HeldBy(g) : g \in DOMAIN sink}, "quit")
  /\ sink' = [g \in DOMAIN sink |-> [NoSink EXCEPT !.entries = sink[g].entries]]
  /\ UNCHANGED <<setup, app, told, outbox, made, kept, losses, errors, measured, acked, failed,
                 rejected, kind, log, service, troubles, out>>

(* Config::load, then run_once up to web::serve. *)
Load ==
  /\ pc = "load" /\ Accepts(NextConfig) /\ Starts(NextConfig)
  /\ pc' = "serving" /\ app' = Append(app, AppOf(NextConfig)) /\ sink' = Append(sink, Spawned)
  /\ UNCHANGED <<setup, told, outbox, request, made, kept, losses, errors, measured, acked, failed,
                 rejected, kind, log, service, troubles, out, lost>>

LoadFails  == pc = "load" /\ ~Accepts(NextConfig) /\ EndAs("refused")
StartFails == pc = "load" /\ Accepts(NextConfig) /\ ~Starts(NextConfig) /\ EndAs("failed")

(* SIGHUP, and the file is valid: the tasks and the server are dropped. *)
Reload ==
  /\ Serving /\ Gen < Len(setup.configs) /\ Accepts(NextConfig)
  /\ pc' = "load"
  /\ UNCHANGED <<setup, app, told, outbox, request, made, kept, losses, errors, measured, acked,
                 failed, rejected, evars>>

Quit == Serving /\ EndAs("exited")

-----------------------------------------------------------------------------
(* A round is finished *)

(* StoreEmitter logs an error; no emitter after it hears of that. *)
Store(round) ==
  \/ /\ Storable(round.key)
     /\ kept' = IF \E k \in kept : k[1] = round.key /\ k[2] >= round.slot THEN kept
                ELSE kept \cup {<<round.key, round.slot>>}
     /\ UNCHANGED <<errors, failed>>
  \/ /\ errors < setup.errors \/ ~Storable(round.key)
     /\ errors' = IF Storable(round.key) THEN errors + 1 ELSE errors
     /\ failed' = failed \cup {round} /\ UNCHANGED kept

Finished(g, round) == Store(round) /\ EmitTo(g, round)

PolledRound(path) ==
  /\ Serving /\ made < setup.rounds /\ path \in app[Gen].polled
  /\ made' = made + 1
  /\ Finished(Gen, [key |-> path, slot |-> made + 1])
  /\ UNCHANGED <<setup, pc, app, told, outbox, request, losses, measured, acked, rejected>>

-----------------------------------------------------------------------------
(* The agent *)

(* agent_auth *)
Authentic(g) == Agent \in DOMAIN app[g].secrets /\ app[g].secrets[Agent] = setup.secret

(* agent_config *)
Fetch ==
  /\ Serving /\ told.gen # Gen /\ Authentic(Gen)
  /\ told' = [gen |-> Gen, paths |-> app[Gen].allowed[Agent]]
  /\ UNCHANGED <<setup, pc, app, outbox, request, made, kept, losses, errors, measured, acked,
                 failed, rejected, evars>>

Measure(path) ==
  /\ Running /\ made < setup.rounds /\ path \in told.paths
  /\ made' = made + 1
  /\ LET round == [path |-> path, slot |-> made + 1, told |-> told.gen] IN
     outbox' = Append(outbox, round) /\ measured' = measured \cup {round}
  /\ UNCHANGED <<setup, pc, app, told, request, kept, losses, errors, acked, failed, rejected, evars>>

Post ==
  /\ Serving /\ request = NoRequest /\ outbox # <<>>
  /\ request' = [gen |-> Gen, batch |-> outbox, left |-> outbox]
  /\ UNCHANGED <<setup, pc, app, told, outbox, made, kept, losses, errors, measured, acked, failed,
                 rejected, evars>>

(* agent_results: 401, and the agent keeps its batch. *)
Unauthorized ==
  /\ request # NoRequest /\ ~Authentic(request.gen)
  /\ request' = NoRequest
  /\ UNCHANGED <<setup, pc, app, told, outbox, made, kept, losses, errors, measured, acked, failed,
                 rejected, evars>>

Handling == request.left # <<>> /\ Authentic(request.gen)

(* Mutant of HandleRound: a round that is not the agent's ends the loop. *)
HandleRoundBreaks ==
  LET w == Head(request.left) IN
  /\ Handling
  /\ IF w.path \in app[request.gen].allowed[Agent]
     THEN /\ Finished(request.gen, [key |-> AgentKey(w.path, Agent), slot |-> w.slot])
          /\ request' = [request EXCEPT !.left = Tail(@)] /\ UNCHANGED rejected
     ELSE /\ request' = [request EXCEPT !.left = <<>>]
          /\ rejected' = rejected \cup {<<w, request.gen>>}
          /\ UNCHANGED <<kept, errors, failed, evars>>
  /\ UNCHANGED <<setup, pc, app, told, outbox, made, losses, measured, acked>>

(* The next round of the batch, if it is the agent's to make, is rebuilt    *)
(* under the agent's key (into_round).                                     *)
HandleRound ==
  LET w == Head(request.left) IN
  /\ Handling
  /\ request' = [request EXCEPT !.left = Tail(@)]
  /\ IF w.path \in app[request.gen].allowed[Agent]
     THEN /\ Finished(request.gen, [key |-> AgentKey(w.path, Agent), slot |-> w.slot])
          /\ UNCHANGED rejected
     ELSE /\ rejected' = rejected \cup {<<w, request.gen>>}
          /\ UNCHANGED <<kept, errors, failed, evars>>
  /\ UNCHANGED <<setup, pc, app, told, outbox, made, losses, measured, acked>>

Handled == request # NoRequest /\ request.left = <<>>

(* The answer makes the agent forget the batch. *)
Acknowledge ==
  /\ Handled /\ request' = NoRequest
  /\ outbox' = SubSeq(outbox, Len(request.batch) + 1, Len(outbox))
  /\ acked' = acked \cup ToSet(request.batch)
  /\ UNCHANGED <<setup, pc, app, told, made, kept, losses, errors, measured, failed, rejected, evars>>

(* The answer is lost: all of the batch is sent again. *)
LoseAnswer ==
  /\ Handled /\ request' = NoRequest
  /\ losses < setup.answers /\ losses' = losses + 1
  /\ UNCHANGED <<setup, pc, app, told, outbox, made, kept, errors, measured, acked, failed, rejected,
                 evars>>

-----------------------------------------------------------------------------
(* Senders to the sink of generation g are left: emitters are shared by its tasks and   *)
(* by the handlers of requests.                                            *)
Open(g) == (g = Gen /\ Serving) \/ g = request.gen

TaskStep(g) == SinkStep(g) \/ (~Open(g) /\ Drain(g))

SinksStep ==
  /\ Running
  /\ \/ \E g \in DOMAIN sink : TaskStep(g)
     \/ Serving /\ Subscribe(Gen)
     \/ ServiceStep
  /\ UNCHANGED mvars

PolledNow == IF Gen = 0 THEN {} ELSE app[Gen].polled

Next ==
  \/ Load \/ LoadFails \/ StartFails \/ Reload \/ Quit
  \/ \E path \in PolledNow : PolledRound(path)
  \/ Fetch \/ Post \/ Unauthorized \/ HandleRound \/ Acknowledge \/ LoseAnswer
  \/ \E path \in told.paths : Measure(path)
  \/ SinksStep

Fairness ==
  /\ WF_vars(Load) /\ WF_vars(HandleRound) /\ WF_vars(Unauthorized) /\ WF_vars(Acknowledge)
  /\ WF_vars(Running /\ (\E g \in DOMAIN sink : TaskStep(g)) /\ UNCHANGED mvars)

Spec == Init /\ [][Next]_vars /\ Fairness

-----------------------------------------------------------------------------
(* Properties *)

(* Every variable has its type, queues and batches their limits, and a      *)
(* generation its sink.                                                    *)
TypeOK ==
  /\ kind \in setup.kinds
  /\ pc \in {"load", "serving", "refused", "failed", "exited"}
  /\ DOMAIN sink = 1..Gen /\ request.gen \in 0..Gen /\ told.gen \in 0..Gen
  /\ made \in 0..setup.rounds /\ losses \in 0..setup.answers /\ errors \in 0..setup.errors
  /\ service \in {"up", "stalled", "down"} /\ troubles \in 0..setup.troubles
  /\ ToSet(out) \cup {l[1] : l \in lost} \subseteq DOMAIN log
  /\ \A g \in DOMAIN sink :
       /\ sink[g].doing \in {"none", "idle", "post", "send", "away", "done"}
       /\ Len(sink[g].queue) <= (IF kind = "live" THEN FeedCap ELSE ChanCap)
       /\ Len(sink[g].hand) <= (IF kind = "influx" THEN MaxBatch ELSE 1)
       /\ sink[g].tries \in 0..1 /\ sink[g].conn \in {"none", "live", "dead"}

(* A configuration the daemon runs means what it says: each leaf has the    *)
(* settings of the closest section that gives them, somebody measures it    *)
(* and can, and no two measurers share a series unless a key is written     *)
(* with a slash (flatten_targets, validate, build_agents).                  *)
ConfigIsMeant == [][Gen' > Gen => Meant(setup.configs[Gen'])]_vars

(* What the master has acknowledged it has recorded under the agent's key,  *)
(* or the store could not, or the round was for a path the generation that  *)
(* handled it does not give the agent, which the agent was told by another  *)
(* generation.  What is not acknowledged the agent still has, and nothing   *)
(* is in an agent's series that it did not measure.                        *)
IngestAccounted ==
  LET key(w) == [key |-> AgentKey(w.path, Agent), slot |-> w.slot] IN
  /\ \A w \in acked :
       \/ <<key(w).key, w.slot>> \in kept
       \/ key(w) \in failed
       \/ \E r \in rejected : r[1] = w
  /\ \A r \in rejected : r[1].told # r[2]
  /\ \A w \in measured \ acked : w \in ToSet(outbox)
  /\ \A k \in kept : "@" \in Range(k[1]) => \E w \in measured : key(w) = [key |-> k[1], slot |-> k[2]]
  /\ \A f \in failed : errors > 0 \/ ~Storable(f.key)

Emissions(g, key) == {n \in DOMAIN log : log[n].gen = g /\ log[n].key = key}

(* Every emission is in one place: held by its generation's sink, with the  *)
(* service, or lost for a reason the service gave; sinks keep the order and *)
(* write nothing twice.  Only the web client's going or the end of its      *)
(* generation ends its feed.  A counter has counted each round as often as  *)
(* it was emitted, which is once unless an answer to the agent was lost.    *)
SinksAccount ==
  /\ kind # "prometheus" => \A n \in DOMAIN log :
       Cardinality({i \in DOMAIN out : out[i] = n}) +
       Cardinality({g \in DOMAIN sink : n \in HeldBy(g)}) +
       Cardinality({l \in lost : l[1] = n}) = 1
  /\ \A i, j \in DOMAIN out : i < j /\ log[out[i]].gen = log[out[j]].gen => out[i] < out[j]
  /\ \A l \in lost :
       /\ l[2] = "refused" => l[3] = "down" \/ (kind = "graphite" /\ setup.troubles - troubles >= 2)
       /\ l[2] = "unread" => troubles < setup.troubles
  /\ \A g \in DOMAIN sink : kind = "live" /\ sink[g].doing = "done" => ~Open(g)
  /\ \A g \in DOMAIN sink : \A key \in DOMAIN sink[g].entries :
       /\ sink[g].entries[key].rounds = Cardinality(Emissions(g, key))
       /\ losses = 0 => sink[g].entries[key].slot = Max({log[n].slot : n \in Emissions(g, key)})
  /\ losses = 0 => \A m, n \in DOMAIN log : m # n => log[m].key # log[n].key \/ log[m].slot # log[n].slot

(* Once the service stays up, everything the sinks hold gets out of their   *)
(* hands: no sink hangs, none keeps a batch for ever, and the sink of a     *)
(* generation that is gone ends.                                           *)
SinksRecover ==
  <>[](service = "up") =>
    <>[](\A g \in DOMAIN sink : HeldBy(g) = {} /\ (g # Gen => sink[g].doing \in {"done", "none"}))
=============================================================================
