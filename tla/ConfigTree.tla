----------------------------- MODULE ConfigTree -----------------------------
(***************************************************************************)
(* A configuration and what is made of it: the tree of targets flattened   *)
(* with the settings its leaves inherit (src/config.rs), whether it is     *)
(* accepted, who measures what under which series key, and what the agents *)
(* are told (build_agents in src/web/mod.rs).                              *)
(*                                                                         *)
(* Text that becomes a path is a sequence of tokens: "/", "@", ".", "..",  *)
(* " " for any character a file name must not have, and names.  A key of a *)
(* TOML table may be quoted, and then hold any of them.                    *)
(*                                                                         *)
(* A configuration is a record:                                            *)
(*   pings, step, rras   the database, rras a sequence of records          *)
(*                       [steps, rows, xff], xff in percent                *)
(*   web                 whether the web server is enabled                 *)
(*   tree                address |-> [host, own]: an address is the        *)
(*                       sequence of the keys of the tables down to a      *)
(*                       node; own is a function on the settings the node  *)
(*                       gives                                             *)
(*   probes              name |-> [kind, builds, port], port 0 if it has   *)
(*                       none                                              *)
(*   alerts              name |-> [parses, email]                          *)
(*   smtp                whether there is an [smtp] section                *)
(*   agents              name |-> secret                                   *)
(*   components          name |-> [targets, parses], targets a set of paths *)
(***************************************************************************)
EXTENDS Naturals, Sequences, SequencesExt, FiniteSets, Functions, TLC

(* Config::load_str: there is always a probe named icmp. *)
Probes(c) ==
  [name \in DOMAIN c.probes \cup {"icmp"} |->
     IF name \in DOMAIN c.probes THEN c.probes[name] ELSE [kind |-> "icmp", builds |-> TRUE, port |-> 0]]

-----------------------------------------------------------------------------
(* Paths *)

(* The names of sections and agents.  The signs the code looks for are      *)
(* listed because the provers know no literal to be a STRING.              *)
Space == " "
Signs == {"/", "@", ".", "..", Space}
Texts == Seq(STRING \cup Signs)

(* What a file can hold: tables in tables, named by texts. *)
Written(c) ==
  /\ DOMAIN c.tree \subseteq Seq(Texts) \ {<<>>} /\ DOMAIN c.agents \subseteq Texts
  /\ \A a \in DOMAIN c.tree : Len(a) > 1 => Front(a) \in DOMAIN c.tree

Cuts(text) == {0, Len(text) + 1} \cup {i \in DOMAIN text : text[i] = "/"}

(* text.split('/') *)
Parts(text) ==
  {SubSeq(text, cut[1] + 1, cut[2] - 1) : cut \in
     {p \in Cuts(text) \X Cuts(text) :
        p[1] < p[2] /\ \A i \in Cuts(text) : i <= p[1] \/ i >= p[2]}}

(* validate_target_path *)
Storable(text) ==
  \A part \in Parts(text) : part \notin {<<>>, <<".">>, <<"..">>} /\ Space \notin Range(part)

PathOf(address) ==
  LET path[n \in DOMAIN address] ==
        IF n = 1 THEN address[1] ELSE path[n - 1] \o <<"/">> \o address[n]
  IN path[Len(address)]

(* The key of the series an agent's rounds go to. *)
AgentKey(path, agent) == path \o <<"@">> \o agent

(* gen_agent prints sections for such names only; the configuration takes   *)
(* any.                                                                    *)
Generated(agent) == agent # <<>> /\ Range(agent) \cap {"/", "@", Space} = {}

-----------------------------------------------------------------------------
(* Flattening *)

Root == [probe |-> "icmp", nomasterpoll |-> FALSE]

(* own, and what inherited says of the rest. *)
Or(own, inherited) ==
  [setting \in DOMAIN own \cup DOMAIN inherited |->
     IF setting \in DOMAIN own THEN own[setting] ELSE inherited[setting]]

(* Mutant of Here: a section's setting stands above what its children say. *)
HereOuter(c) ==
  LET here[a \in DOMAIN c.tree] ==
        IF Len(a) = 1 THEN Or(c.tree[a].own, Root) ELSE Or(here[Front(a)], c.tree[a].own)
  IN here

(* The settings at each node: its own, else its section's. *)
Here(c) ==
  LET here[a \in DOMAIN c.tree] ==
        Or(c.tree[a].own, IF Len(a) = 1 THEN Root ELSE here[Front(a)])
  IN here

NamesAt(here, list) == IF list \in DOMAIN here THEN here[list] ELSE {}

Children(c, a) == {b \in DOMAIN c.tree : Len(b) = Len(a) + 1 /\ IsPrefix(a, b)}

NeedsPort(probe, here) == probe.kind = "tcp" /\ probe.port = 0 /\ "port" \notin DOMAIN here

(* flatten_node bails at a. *)
Wrong(c, a) ==
  LET node   == c.tree[a]
      here   == Here(c)[a]
      agents == NamesAt(here, "agents")
  IN
  \/ "probe" \in DOMAIN node.own /\ node.own.probe \notin DOMAIN Probes(c)
  \/ /\ node.host # ""
     /\ \/ here.probe \notin DOMAIN Probes(c)
        \/ NeedsPort(Probes(c)[here.probe], here)
        \/ ~Storable(PathOf(a)) \/ "@" \in Range(PathOf(a))
        \/ ~(agents \subseteq DOMAIN c.agents)
        \/ here.nomasterpoll /\ agents = {}
  \/ node.host = "" /\ Children(c, a) = {}

Leaves(c) == {a \in DOMAIN c.tree : c.tree[a].host # ""}

(* flatten_targets: one target for each leaf, found by its address. *)
Flat(c) ==
  [a \in Leaves(c) |->
     LET here == Here(c)[a] IN
     [path |-> PathOf(a), host |-> c.tree[a].host, probe |-> here.probe,
      options |-> Restrict(here, DOMAIN here \cap {"port", "lookup"}),
      alerts |-> NamesAt(here, "alerts"), agents |-> NamesAt(here, "agents"),
      nomasterpoll |-> here.nomasterpoll]]

Paths(c) == {Flat(c)[a].path : a \in Leaves(c)}

-----------------------------------------------------------------------------
(* Acceptance *)

DatabaseFits(c) ==
  /\ c.pings >= 3 /\ c.step > 0
  /\ c.rras # <<>>
  /\ \A r \in Range(c.rras) : r.steps >= 1 /\ r.rows >= 2 /\ r.xff < 100

(* The alerts that watch a path.  Leaves of one path are watched together. *)
Watches(c) == [p \in Paths(c) |-> UNION {Flat(c)[a].alerts : a \in {b \in Leaves(c) : PathOf(b) = p}}]

(* Alerter::new. *)
AlertsFit(c) ==
  /\ \A alert \in DOMAIN c.alerts : c.alerts[alert].parses
  /\ \A p \in Paths(c) : Watches(c)[p] \subseteq DOMAIN c.alerts
  /\ (\E p \in Paths(c) : Watches(c)[p] # {}) =>
       c.smtp \/ \A alert \in DOMAIN c.alerts : ~c.alerts[alert].email

(* parse_components. *)
ComponentsFit(c) ==
  \A name \in DOMAIN c.components :
    LET component == c.components[name] IN
    component.targets # {} /\ component.targets \subseteq Paths(c) /\ component.parses

(* Config::load: what check-config says of a file, and a reload asks first. *)
Accepts(c) ==
  /\ DatabaseFits(c)
  /\ \A probe \in DOMAIN c.probes : c.probes[probe].builds
  /\ \A a \in DOMAIN c.tree : ~Wrong(c, a)
  /\ Leaves(c) # {}
  /\ AlertsFit(c) /\ ComponentsFit(c)

(* run_once looks at this only when the configuration was accepted. *)
Starts(c) == DOMAIN c.agents = {} \/ c.web

-----------------------------------------------------------------------------
(* Who does what *)

(* scheduler::run: the leaves the master probes. *)
Polled(c) == {a \in Leaves(c) : ~Flat(c)[a].nomasterpoll}

Assigned(c, agent) == {a \in Leaves(c) : agent \in Flat(c)[a].agents}

(* build_agents, and WireTarget's from_flat and into_flat at the two ends:  *)
(* what the agent is told and makes of it.                                 *)
Assignment(c, agent) ==
  [step    |-> c.step,
   pings   |-> c.pings,
   probes  |-> Restrict(Probes(c), {Flat(c)[a].probe : a \in Assigned(c, agent)}),
   targets |-> {[Flat(c)[a] EXCEPT !.alerts = {}, !.agents = {}, !.nomasterpoll = FALSE] :
                  a \in Assigned(c, agent)}]

Allowed(c, agent) == {PathOf(a) : a \in Assigned(c, agent)}

(* build_tree: the agents the page offers series of at a node, for each     *)
(* leaf of its path.                                                       *)
Offered(c, a) == {Flat(c)[b].agents : b \in {l \in Leaves(c) : PathOf(l) = PathOf(a)}}

-----------------------------------------------------------------------------
(* What a configuration means *)

(* The closest of a and its sections that gives a setting. *)
Giver(c, a, setting) ==
  LET givers == {n \in 1..Len(a) : setting \in DOMAIN c.tree[SubSeq(a, 1, n)].own} IN
  IF givers = {} THEN <<>>
  ELSE SubSeq(a, 1, CHOOSE n \in givers : \A m \in givers : m <= n)

(* Each leaf is flattened with what the closest section says. *)
Inherits(c, a) ==
  LET said(setting, default) ==
        LET g == Giver(c, a, setting) IN IF g = <<>> THEN default ELSE c.tree[g].own[setting]
      t == Flat(c)[a]
  IN
  /\ t.probe = said("probe", "icmp") /\ t.nomasterpoll = said("nomasterpoll", FALSE)
  /\ t.alerts = said("alerts", {}) /\ t.agents = said("agents", {})
  /\ \A option \in {"port", "lookup"} :
       LET g == Giver(c, a, option) IN
       IF g = <<>> THEN option \notin DOMAIN t.options
       ELSE t.options[option] = c.tree[g].own[option]

(* Somebody measures the leaf, and has the probe, and the port it needs. *)
Measured(c, a) ==
  LET t == Flat(c)[a] IN
  /\ a \in Polled(c) \/ t.agents # {}
  /\ ~NeedsPort(Probes(c)[t.probe], t.options)
  /\ \A agent \in t.agents :
       /\ agent \in DOMAIN c.agents /\ t.path \in Allowed(c, agent)
       /\ \E w \in Assignment(c, agent).targets :
            /\ w.path = t.path /\ w.host = t.host /\ w.probe = t.probe /\ w.options = t.options
            /\ Assignment(c, agent).probes[w.probe] = Probes(c)[t.probe]

(* <<leaf, measurer>> and the key of their series; <<>> is the master. *)
Measurers(c) ==
  (Polled(c) \X {<<>>}) \cup {m \in Leaves(c) \X DOMAIN c.agents : m[1] \in Assigned(c, m[2])}
KeyOf(m) == IF m[2] = <<>> THEN PathOf(m[1]) ELSE AgentKey(PathOf(m[1]), m[2])

(* No two measurers write one series, unless a key is written with a slash; *)
(* and the store takes the key, unless the agent's name is one gen-agent    *)
(* refuses.                                                                *)
KeysApart(c) ==
  /\ (\A a \in Leaves(c) : \A n \in DOMAIN a : "/" \notin Range(a[n])) =>
       /\ \A m, n \in Measurers(c) : m # n => KeyOf(m) # KeyOf(n)
       /\ \A a \in Leaves(c) : Offered(c, a) = {Flat(c)[a].agents}
  /\ \A m \in Measurers(c) : m[2] = <<>> \/ Generated(m[2]) => Storable(KeyOf(m))

(* All of it, for a configuration that is accepted. *)
Meant(c) == KeysApart(c) /\ \A a \in Leaves(c) : Inherits(c, a) /\ Measured(c, a)
=============================================================================
