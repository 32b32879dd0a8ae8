----------------------------- MODULE Lifecycle -----------------------------
(***************************************************************************)
(* Generations of the daemon and of the agent: load a configuration, run   *)
(* its probe tasks until a signal, shut them down, start over (run and     *)
(* run_once in src/main.rs and src/agent/mod.rs, run_targets and           *)
(* wait_for_signal in src/scheduler.rs).                                   *)
(*                                                                         *)
(* Signals are tokio's: a handler stays installed once somebody listened,  *)
(* what arrives while nobody listens is lost, and several of a kind that   *)
(* wait are one.  Before a handler is installed the signal kills.          *)
(*                                                                         *)
(* What a load reads is `source': the daemon's file, or the master's       *)
(* answer to the agent.  A round is reduced to whether its task is between *)
(* two awaits, where shutdown cannot stop it.                              *)
(***************************************************************************)
EXTENDS Naturals

CONSTANTS
  Configs,   \* configurations, or assignments, that can be loaded and run
  Targets,   \* one probe task each
  MaxEdits,  \* changes of the source in a run
  MaxFaults  \* failures to bind the web server's port in a run

ASSUME LifecycleAssumption ==
  /\ Configs # {} /\ Targets # {} /\ {MaxEdits, MaxFaults} \subseteq Nat
  /\ Configs \cap {"none", "unbuildable", "invalid", "unreachable", "garbage", "unauthorized"} = {}

(* "unbuildable" loads, but an incident log, an alert's notifier, agents    *)
(* without a web server or a probe make the build fail; "garbage" is an     *)
(* answer of 200 that is no assignment.                                    *)
Sources(r) ==
  Configs \cup {"unbuildable"} \cup
  IF r = "master" THEN {"invalid"} ELSE {"unreachable", "garbage", "unauthorized"}

Signals == {"INT", "TERM", "HUP"}

VARIABLES
  role,      \* "master" or "agent"
  source,    \* what a load reads now
  config,    \* what the last load read
  pc,        \* where the process is
  outcome,   \* what wait_for_signal returned last
  installed, \* signals that have a handler
  listening, \* signals with a receiver
  pending,   \* signals received and not yet seen
  emitting,  \* targets whose task is between two awaits
  old,       \* such targets of generations that were dropped
  edits, faults,
  vouched    \* history: the check that led to this load read what is there now

sigs == <<installed, listening, pending>>
lifecycleVars == <<role, source, config, pc, outcome, installed, listening, pending,
          emitting, old, edits, faults, vouched>>

Ended   == pc \in {"exited", "failed", "killed"}
Probing == pc \in {"term", "hup", "wait", "check"}

LifecycleInit ==
  /\ role \in {"master", "agent"} /\ source \in Sources(role)
  /\ config = "none" /\ pc = "load" /\ outcome = "none"
  /\ installed = {} /\ listening = {} /\ pending = {}
  /\ emitting = {} /\ old = {} /\ edits = 0 /\ faults = 0 /\ vouched = FALSE

-----------------------------------------------------------------------------
(* run_once *)

(* Mutant of Load: the configuration is read once. *)
LoadCached ==
  /\ pc = "load" /\ source \in Configs \cup {"unbuildable"}
  /\ config' = (IF config = "none" THEN source ELSE config) /\ pc' = "build"
  /\ UNCHANGED <<role, source, outcome, installed, listening, pending, emitting, old, edits, faults, vouched>>

(* Config::load, or the agent's fetch. *)
Load ==
  /\ pc = "load" /\ source \in Configs \cup {"unbuildable"}
  /\ config' = source /\ pc' = "build"
  /\ UNCHANGED <<role, source, outcome, installed, listening, pending, emitting, old, edits, faults, vouched>>

(* An invalid file ends the daemon, a refused secret the agent; for any     *)
(* other answer the agent sleeps and asks again.                            *)
LoadFails ==
  /\ pc = "load" /\ source \in {"invalid", "unauthorized"}
  /\ pc' = "failed"
  /\ UNCHANGED <<role, source, config, outcome, sigs, emitting, old, edits, faults, vouched>>

(* Emitters, engine, web state and probes; then the tasks are spawned. *)
Build ==
  /\ pc = "build"
  /\ pc' = IF config = "unbuildable" THEN "failed" ELSE "term"
  /\ UNCHANGED <<role, source, config, outcome, sigs, emitting, old, edits, faults, vouched>>

(* web::serve cannot bind: the daemon goes down. *)
BindFails ==
  /\ role = "master" /\ pc \in {"term", "wait"} /\ faults < MaxFaults
  /\ faults' = faults + 1 /\ pc' = "failed"
  /\ UNCHANGED <<role, source, config, outcome, sigs, emitting, old, edits, vouched>>

-----------------------------------------------------------------------------
(* The tasks *)

(* A probe's answer is in: the task emits the round, without an await. *)
RoundStarts(t) ==
  /\ Probing /\ t \notin emitting
  /\ emitting' = emitting \cup {t}
  /\ UNCHANGED <<role, source, config, pc, outcome, sigs, old, edits, faults, vouched>>

RoundEnds(t) ==
  /\ t \in emitting /\ ~Ended
  /\ emitting' = emitting \ {t}
  /\ UNCHANGED <<role, source, config, pc, outcome, sigs, old, edits, faults, vouched>>

OldRoundEnds(t) ==
  /\ t \in old /\ ~Ended
  /\ old' = old \ {t}
  /\ UNCHANGED <<role, source, config, pc, outcome, sigs, emitting, edits, faults, vouched>>

-----------------------------------------------------------------------------
(* wait_for_signal *)

Listen(s) ==
  /\ installed' = installed \cup {s} /\ listening' = listening \cup {s}
  /\ UNCHANGED <<role, source, config, outcome, pending, emitting, old, edits, faults, vouched>>

ListenTerm == pc = "term" /\ pc' = "hup" /\ Listen("TERM")
ListenHup  == pc = "hup" /\ pc' = "wait" /\ Listen("HUP")
(* ctrl_c() listens when select! polls it, anew in each turn of the loop. *)
ListenInt  == pc = "wait" /\ "INT" \notin listening /\ pc' = pc /\ Listen("INT")

(* wait_for_signal returns and drops its receivers. *)
Return(o) ==
  /\ outcome' = o /\ pc' = "stopping"
  /\ listening' = {} /\ pending' = {}

(* Mutant of Quit: the caller starts over. *)
QuitReloads ==
  /\ pc = "wait" /\ pending \cap {"INT", "TERM"} # {}
  /\ Return("reload")
  /\ UNCHANGED <<role, source, config, installed, emitting, old, edits, faults, vouched>>

Quit ==
  /\ pc = "wait" /\ pending \cap {"INT", "TERM"} # {}
  /\ Return("quit")
  /\ UNCHANGED <<role, source, config, installed, emitting, old, edits, faults, vouched>>

(* Mutant of Hup: a ctrl-c that waited stays marked when its receiver is    *)
(* gone.                                                                   *)
HupLeavesInt ==
  /\ pc = "wait" /\ "HUP" \in pending
  /\ IF role = "agent" THEN Return("reload")
     ELSE /\ pc' = "check" /\ outcome' = outcome
          /\ listening' = listening \ {"INT"} /\ pending' = pending \ {"HUP"}
  /\ UNCHANGED <<role, source, config, installed, emitting, old, edits, faults, vouched>>

(* The agent reloads at once; the daemon looks at the file first, and the  *)
(* turn's ctrl_c() is dropped with what it has seen.                       *)
Hup ==
  /\ pc = "wait" /\ "HUP" \in pending
  /\ IF role = "agent" THEN Return("reload")
     ELSE /\ pc' = "check" /\ outcome' = outcome
          /\ listening' = listening \ {"INT"} /\ pending' = pending \ {"HUP", "INT"}
  /\ UNCHANGED <<role, source, config, installed, emitting, old, edits, faults, vouched>>

Check ==
  /\ pc = "check"
  /\ IF source = "invalid"
     THEN pc' = "wait" /\ UNCHANGED <<outcome, listening, pending, vouched>>
     ELSE Return("reload") /\ vouched' = TRUE
  /\ UNCHANGED <<role, source, config, installed, emitting, old, edits, faults>>

-----------------------------------------------------------------------------
AfterStop == pc' = IF outcome = "quit" THEN "exited" ELSE "load"

(* Mutant of Shutdown: the tasks are aborted and not awaited. *)
ShutdownAtOnce ==
  /\ pc = "stopping" /\ AfterStop
  /\ emitting' = {} /\ old' = old \cup emitting
  /\ UNCHANGED <<role, source, config, outcome, sigs, edits, faults, vouched>>

(* tasks.shutdown().await, then run goes round. *)
Shutdown ==
  /\ pc = "stopping" /\ emitting = {} /\ AfterStop
  /\ UNCHANGED <<role, source, config, outcome, sigs, emitting, old, edits, faults, vouched>>

RefreshTo(answers) ==
  /\ role = "agent" /\ pc = "wait" /\ source \in answers /\ source # config
  /\ pc' = "load" /\ outcome' = "reload" /\ listening' = {} /\ pending' = {}
  /\ emitting' = {} /\ old' = old \cup emitting
  /\ UNCHANGED <<role, source, config, installed, edits, faults, vouched>>

(* Mutant of Refresh: the status of the answer is not looked at. *)
RefreshAnyAnswer == RefreshTo(Configs \cup {"unbuildable", "garbage", "unauthorized"})

(* assignment_changed wins run_once's select!: run_targets is dropped, and *)
(* its tasks are aborted but not awaited.                                  *)
Refresh == RefreshTo(Configs \cup {"unbuildable", "garbage"})

-----------------------------------------------------------------------------
(* The operator *)

Edit(c) ==
  /\ edits < MaxEdits /\ edits' = edits + 1
  /\ c # source /\ source' = c /\ vouched' = FALSE
  /\ UNCHANGED <<role, config, pc, outcome, sigs, emitting, old, faults>>

(* A signal that nobody listens to but has a handler changes nothing. *)
Heard(s) ==
  /\ ~Ended /\ s \in listening
  /\ pending' = pending \cup {s}
  /\ UNCHANGED <<role, source, config, pc, outcome, installed, listening, emitting, old, edits, faults, vouched>>

Kills(s) ==
  /\ ~Ended /\ s \notin installed
  /\ pc' = "killed"
  /\ UNCHANGED <<role, source, config, outcome, sigs, emitting, old, edits, faults, vouched>>

LifecycleNext ==
  \/ Load \/ LoadFails \/ Build \/ BindFails
  \/ \E t \in Targets : RoundStarts(t) \/ RoundEnds(t) \/ OldRoundEnds(t)
  \/ ListenTerm \/ ListenHup \/ ListenInt \/ Quit \/ Hup \/ Check \/ Shutdown \/ Refresh
  \/ \E c \in Sources(role) : Edit(c)
  \/ \E s \in Signals : Heard(s) \/ Kills(s)

(* The program's own steps are taken; what the operator does is free.       *)
Fairness ==
  /\ WF_lifecycleVars(Load) /\ WF_lifecycleVars(LoadFails) /\ WF_lifecycleVars(Build)
  /\ WF_lifecycleVars(ListenTerm) /\ WF_lifecycleVars(ListenHup) /\ WF_lifecycleVars(ListenInt)
  /\ WF_lifecycleVars(Quit) /\ WF_lifecycleVars(Hup) /\ WF_lifecycleVars(Check) /\ WF_lifecycleVars(Shutdown) /\ WF_lifecycleVars(Refresh)
  /\ \A t \in Targets : WF_lifecycleVars(RoundEnds(t)) /\ WF_lifecycleVars(OldRoundEnds(t))

LifecycleSpec == LifecycleInit /\ [][LifecycleNext]_lifecycleVars /\ Fairness

-----------------------------------------------------------------------------
(* Properties *)

(* Every variable has its type, and nothing waits for a receiver that is    *)
(* not there.                                                              *)
LifecycleTypeOK ==
  /\ role \in {"master", "agent"} /\ source \in Sources(role)
  /\ config \in Sources(role) \cup {"none"}
  /\ pc \in {"load", "build", "term", "hup", "wait", "check", "stopping", "exited", "failed", "killed"}
  /\ outcome \in {"none", "quit", "reload"}
  /\ pending \subseteq listening /\ listening \subseteq installed /\ installed \subseteq Signals
  /\ emitting \subseteq Targets /\ old \subseteq Targets
  /\ edits \in 0..MaxEdits /\ faults \in 0..MaxFaults /\ vouched \in BOOLEAN

(* The daemon never runs tasks of two generations at once: two Stores      *)
(* have a Mutex each for a series, and the tasks of the old generation      *)
(* write through the old one.                                              *)
OneGeneration ==
  role = "master" => old = {} /\ (emitting # {} => Probing \/ Ended \/ pc = "stopping")

(* A reload never costs the probing that goes on.  While the file does not  *)
(* load, or the master is away or turns the agent down, none is made, but   *)
(* the agent's by SIGHUP, which asks the master only then; and a daemon     *)
(* that was reloaded goes down only when its port is taken, when the file   *)
(* does not build, or when it was changed after it was checked.            *)
ReloadsAreSafe ==
  [][ /\ (Probing /\ ~Probing' /\ outcome' = "reload" /\ ~Ended') =>
           \/ source \notin {"invalid", "unreachable", "unauthorized"}
           \/ role = "agent" /\ "HUP" \in pending
      /\ (role = "master" /\ outcome = "reload" /\ pc # "failed" /\ pc' = "failed") =>
           ~vouched \/ config = "unbuildable" \/ faults' > faults ]_lifecycleVars

(* A process does not outlive SIGTERMs or ctrl-cs that keep being received, *)
(* once no reload comes between: one that arrives while a reload is under   *)
(* way is lost, and has to be sent again.                                  *)
StopsWhenTold ==
  (<>[]("HUP" \notin pending) /\ []<>(pending \cap {"TERM", "INT"} # {})) => <>Ended

(* Once edits end with something that can be run, the agent runs it, and   *)
(* the daemon does if SIGHUP keeps being received; and once no more SIGHUPs *)
(* come, the process listens to all three signals again, whatever came     *)
(* before: broken files, reloads, a refresh, an absent master.             *)
FollowsSource ==
  /\ ( /\ <>[](source \in Configs)
       /\ role = "agent" \/ []<>("HUP" \in pending)) => <>[](Ended \/ config = source)
  /\ <>[](source \in Configs /\ "HUP" \notin pending) => []<>(Ended \/ listening = Signals)
=============================================================================
