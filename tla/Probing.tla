------------------------------ MODULE Probing ------------------------------
(***************************************************************************)
(* The probe tasks of run_targets (src/scheduler.rs) and the rounds they   *)
(* run (src/probe/): one task per target, each ticking once per step and   *)
(* then sending Pings requests one after the other, with a timeout each,    *)
(* over a network that loses, delays and duplicates replies.               *)
(*                                                                         *)
(* The clock counts ticks; a task that can run does so before the clock    *)
(* moves, so lateness comes from lookups and long rounds only.  The kinds   *)
(* "raw" and "ping" are the two sockets of the icmp probe.                  *)
(***************************************************************************)
EXTENDS Integers, Sequences, FiniteSets

CONSTANTS
  Setups,      \* the instances one run looks at, see SetupType
  Pings,       \* database.pings
  Step         \* database.step

(* Config::validate asks for three pings; from 65536 on `pings as u16'      *)
(* would wrap.                                                             *)
ASSUME PingsAssumption == Pings \in 3..65535 /\ Step \in Nat \ {0}

Kinds == {"raw", "ping", "dns", "tcp", "http", "phoenix", "exec"}

(* kinds[t] is the probe of task t; all tasks probe one host.  offsets are *)
(* the phases the tasks may start at, lookup the longest a resolver takes, *)
(* name tells whether the host is a name or an address; rounds bounds the   *)
(* rounds of a task, and dups the replies the network delivers twice.      *)
SetupType == [kinds : Seq(Kinds), timeout : Nat \ {0}, interval : Nat,
              offsets : SUBSET Nat, lookup : Nat, name : BOOLEAN,
              rounds : Nat, dups : Nat]

ASSUME SetupsAssumption ==
  /\ Setups \subseteq SetupType
  /\ \A s \in Setups : s.offsets \subseteq 0..(Step - 1) /\ (s.name \/ s.lookup = 0)

VARIABLES
  setup,    \* the instance of this behaviour
  now,      \* the clock
  task,     \* task[t]: the probe task of target t and its newest round
  inbox,    \* inbox[t]: what reached the socket of t's round, unread
  flying,   \* requests whose reply may still arrive
  dups,     \* replies delivered twice so far
  last      \* history: when each task's previous round was

vars == <<setup, now, task, inbox, flying, dups, last>>

Tasks   == DOMAIN setup.kinds
Kind(t) == setup.kinds[t]

Raw == {"raw"}
Icmp == {"raw", "ping"}
(* Probes that keep one socket for a round and tell replies apart by number. *)
Numbered == {"raw", "ping", "dns", "phoenix"}

-----------------------------------------------------------------------------
(* Helpers *)

Request(t) == [task |-> t, round |-> task[t].round, seq |-> task[t].seq]

At(ph, t) == task[t].ph = ph

(* The first phase of a round once its address and socket are there. *)
Opening(k) == IF k = "phoenix" THEN "connect" ELSE IF k = "exec" THEN "run" ELSE "send"

(* Mutant of NextDue: missed ticks are caught up (MissedTickBehavior::Burst). *)
NextDueBurst(due) == due + Step

(* MissedTickBehavior::Delay: a late tick shifts the ones after it. *)
NextDue(due) == IF now > due THEN now + Step ELSE due + Step

(* The round of t ends: what its socket did not read is gone, and so are   *)
(* replies no other socket would get.                                      *)
Close(t, rtts, errors, ok) ==
  /\ task' = [task EXCEPT ![t].ph = "idle", ![t].rtts = rtts, ![t].errors = errors, ![t].ok = ok]
  /\ inbox' = [inbox EXCEPT ![t] = <<>>]
  /\ flying' = IF Kind(t) \in Raw THEN flying ELSE {q \in flying : q.task # t}
  /\ last' = [last EXCEPT ![t] = [tick |-> task[t].tick, at |-> task[t].at,
                                  wait |-> task[t].wait, end |-> now]]
  /\ UNCHANGED <<setup, now, dups>>

(* Ok(round): every emitter gets it. *)
Finish(t, rtts, errors) == Close(t, rtts, errors, TRUE)

(* Err: "round failed" is logged, and nothing is emitted. *)
Fail(t) == Close(t, <<>>, {}, FALSE)

NextPing(t, rtts, errors, unread) ==
  /\ task' = [task EXCEPT ![t].ph = "pace", ![t].seq = @ + 1, ![t].rtts = rtts,
                          ![t].errors = errors]
  /\ inbox' = [inbox EXCEPT ![t] = unread]
  /\ UNCHANGED <<setup, now, flying, dups, last>>

(* Mutant of PingDone: `..=' instead of `..'. *)
PingDoneOneMore(t, rtts, errors, unread) ==
  IF task[t].seq = Pings THEN Finish(t, rtts, errors) ELSE NextPing(t, rtts, errors, unread)

(* The ping is over, answered or lost: pace, unless it was the last one. *)
PingDone(t, rtts, errors, unread) ==
  IF task[t].seq + 1 = Pings
  THEN Finish(t, rtts, errors)
  ELSE NextPing(t, rtts, errors, unread)

-----------------------------------------------------------------------------
Unstarted == [ph |-> "idle", due |-> 0, tick |-> 0, at |-> 0, wait |-> 0, round |-> 0,
              seq |-> 0, t0 |-> 0, rtts |-> <<>>, heard |-> {}, errors |-> {}, ok |-> TRUE]
NoRound == [tick |-> 0, at |-> 0, wait |-> 0, end |-> 0]

(* Every task sleeps out its offset; the interval's first tick is at once. *)
Init ==
  /\ setup \in Setups
  /\ now = 0
  /\ \E offset \in [Tasks -> setup.offsets] :
       task = [t \in Tasks |-> [Unstarted EXCEPT !.due = offset[t]]]
  /\ inbox = [t \in Tasks |-> <<>>]
  /\ flying = {}
  /\ dups = 0
  /\ last = [t \in Tasks |-> NoRound]

(* tick.tick(): the next round begins by looking its host up. *)
Wake(t) ==
  /\ At("idle", t) /\ now >= task[t].due /\ task[t].round < setup.rounds
  /\ task' = [task EXCEPT ![t] = [Unstarted EXCEPT
       !.ph = "lookup", !.due = NextDue(task[t].due), !.tick = now, !.at = now,
       !.round = task[t].round + 1]]
  /\ UNCHANGED <<setup, now, inbox, flying, dups, last>>

(* The address is known and the socket open.  Rounds are dated after the   *)
(* lookup, but an exec probe's before it.                                  *)
Prepare(t) ==
  /\ At("lookup", t)
  /\ task' = [task EXCEPT ![t].ph = Opening(Kind(t)), ![t].t0 = now,
                          ![t].at = IF Kind(t) = "exec" THEN @ ELSE now,
                          ![t].wait = IF Kind(t) = "exec" THEN 0 ELSE now - task[t].tick]
  /\ UNCHANGED <<setup, now, inbox, flying, dups, last>>

(* No address, or no socket.  http and exec go on with 0.0.0.0, and tcp and *)
(* phoenix open nothing here.                                              *)
PrepareFails(t) ==
  /\ At("lookup", t)
  /\ Kind(t) \in Icmp \cup {"dns"} \/ (setup.name /\ Kind(t) \in {"tcp", "phoenix"})
  /\ Fail(t)

(* phoenix: connect_async. *)
Connect(t) ==
  /\ At("connect", t)
  /\ task' = [task EXCEPT ![t].ph = "send"]
  /\ UNCHANGED <<setup, now, inbox, flying, dups, last>>

(* phoenix: a socket that refuses or does not answer is total loss. *)
ConnectFails(t) == At("connect", t) /\ Finish(t, <<>>, {})

Send(t) ==
  /\ At("send", t)
  /\ task' = [task EXCEPT ![t].ph = "await", ![t].t0 = now]
  /\ flying' = flying \cup {[task |-> t, round |-> task[t].round, seq |-> task[t].seq, at |-> now]}
  /\ UNCHANGED <<setup, now, inbox, dups, last>>

(* A send that fails loses an icmp or dns round altogether; phoenix keeps   *)
(* what it has and counts the rest as lost.                                *)
SendFails(t) ==
  /\ At("send", t)
  /\ \/ Kind(t) \in Icmp \cup {"dns"} /\ Fail(t)
     \/ Kind(t) = "phoenix" /\ Finish(t, task[t].rtts, {})

-----------------------------------------------------------------------------
(* The network *)

SocketOpen(t) == task[t].ph \in {"send", "await", "pace"}

(* Whether the kernel gives task t the reply to request q: a raw socket    *)
(* sees every reply of its host, a ping or udp socket and a stream its own *)
(* round's, and a connection attempt only its own.                         *)
Hears(t, q) ==
  /\ SocketOpen(t)
  /\ CASE Kind(t) \in Raw                 -> Kind(q.task) \in Raw
       [] Kind(t) \in Numbered \ Raw      -> q.task = t /\ q.round = task[t].round
       [] OTHER                           -> At("await", t) /\ [task |-> q.task,
                                             round |-> q.round, seq |-> q.seq] = Request(t)

(* A stream keeps its order. *)
InOrder(q) ==
  Kind(q.task) = "phoenix" => \A o \in flying : o.task = q.task => q.seq <= o.seq

OnTime(t, q) == q.task = t /\ q.round = task[t].round /\ now < q.at + setup.timeout

(* The reply to q arrives, and again later if the network doubles it. *)
Arrive(q) ==
  /\ \E t \in Tasks : Hears(t, q)
  /\ InOrder(q)
  /\ inbox' = [t \in Tasks |-> IF Hears(t, q) THEN Append(inbox[t], q) ELSE inbox[t]]
  /\ task' = [t \in Tasks |->
       IF Hears(t, q) /\ OnTime(t, q)
       THEN [task[t] EXCEPT !.heard = @ \cup {q.seq}] ELSE task[t]]
  /\ \/ flying' = flying \ {q} /\ UNCHANGED dups
     \/ /\ dups < setup.dups /\ Kind(q.task) \in Icmp \cup {"dns"}
        /\ dups' = dups + 1 /\ UNCHANGED flying
  /\ UNCHANGED <<setup, now, last>>

-----------------------------------------------------------------------------
(* Waiting for the reply *)

(* Mutant of Accepted: all requests of a round carry one number. *)
AcceptedAny(t, q) == TRUE

(* parse_reply, is_response, is_reply: the number must be the one awaited. *)
Accepted(t, q) == q.seq = task[t].seq

Sample(t, q) ==
  [of |-> [task |-> q.task, round |-> q.round, seq |-> q.seq],
   seq |-> task[t].seq, rtt |-> now - task[t].t0]

Answered(t) ==
  PingDone(t, Append(task[t].rtts, Sample(t, Head(inbox[t]))), task[t].errors, Tail(inbox[t]))

Ignore(t) ==
  /\ inbox' = [inbox EXCEPT ![t] = Tail(@)]
  /\ UNCHANGED <<setup, now, task, flying, dups, last>>

(* Mutants of Read: a stale packet ends the wait; it starts it again. *)
ReadGivesUp(t) ==
  /\ At("await", t) /\ inbox[t] # <<>>
  /\ IF Accepted(t, Head(inbox[t])) THEN Answered(t)
     ELSE PingDone(t, task[t].rtts, task[t].errors, Tail(inbox[t]))
ReadRestarts(t) ==
  /\ At("await", t) /\ inbox[t] # <<>>
  /\ IF Accepted(t, Head(inbox[t])) THEN Answered(t)
     ELSE /\ inbox' = [inbox EXCEPT ![t] = Tail(@)]
          /\ task' = [task EXCEPT ![t].t0 = now]
          /\ UNCHANGED <<setup, now, flying, dups, last>>

(* recv: the awaited reply is a sample, any other packet is passed over. *)
Read(t) ==
  /\ At("await", t) /\ inbox[t] # <<>>
  /\ IF Accepted(t, Head(inbox[t])) THEN Answered(t) ELSE Ignore(t)

(* The ping's timeout: a loss. *)
TimeOut(t) ==
  /\ At("await", t) /\ now >= task[t].t0 + setup.timeout
  /\ PingDone(t, task[t].rtts, task[t].errors, inbox[t])

(* An error from the socket: it fails an icmp round, ends a phoenix one    *)
(* (so does a close), and is a loss of this ping for the others.           *)
RecvFails(t) ==
  /\ At("await", t) /\ inbox[t] = <<>>
  /\ \/ Kind(t) \in Icmp /\ Fail(t)
     \/ Kind(t) = "phoenix" /\ Finish(t, task[t].rtts, {})
     \/ /\ Kind(t) \in {"dns", "tcp", "http"}
        /\ PingDone(t, task[t].rtts, task[t].errors \cup {task[t].seq}, <<>>)

(* pace: the rest of the interval since the ping was sent. *)
Paced(t) ==
  /\ At("pace", t) /\ now >= task[t].t0 + setup.interval
  /\ task' = [task EXCEPT ![t].ph = "send"]
  /\ UNCHANGED <<setup, now, inbox, flying, dups, last>>

(* exec: the command ended and printed n numbers; parse_rtts takes at most *)
(* Pings of them.                                                          *)
RunEnds(t) ==
  /\ At("run", t)
  /\ \E n \in 0..Pings + 1 :
       Finish(t, [i \in 1..(IF n > Pings THEN Pings ELSE n) |->
                    [of |-> [Request(t) EXCEPT !.seq = i - 1], seq |-> i - 1, rtt |-> 0]], {})

(* exec: it could not be run, or round_timeout killed it. *)
RunFails(t) == At("run", t) /\ Fail(t)

(* exec: a number too large for a Duration panics; the task is gone, and    *)
(* nothing in run_targets notices.                                         *)
RunPanics(t) ==
  /\ At("run", t)
  /\ task' = [task EXCEPT ![t].ph = "dead", ![t].ok = FALSE]
  /\ UNCHANGED <<setup, now, inbox, flying, dups, last>>

(* The clock moves once no task can. *)
MustRun(t) ==
  LET r == task[t] IN
  CASE r.ph = "idle"                -> now >= r.due /\ r.round < setup.rounds
    [] r.ph = "lookup"              -> now >= r.tick + setup.lookup
    [] r.ph \in {"connect", "run"}  -> now >= r.t0 + setup.timeout
    [] r.ph = "send"                -> TRUE
    [] r.ph = "await"               -> inbox[t] # <<>> \/ now >= r.t0 + setup.timeout
    [] r.ph = "pace"                -> now >= r.t0 + setup.interval
    [] r.ph \in {"dead", "stopped"} -> FALSE

Going(t) == IF At("idle", t) THEN task[t].round < setup.rounds
            ELSE task[t].ph \notin {"dead", "stopped"}

Tick ==
  /\ \A t \in Tasks : ~MustRun(t)
  /\ \E t \in Tasks : Going(t)
  /\ now' = now + 1
  /\ UNCHANGED <<setup, task, inbox, flying, dups, last>>

(* tasks.shutdown() aborts every round wherever it waits. *)
Stop ==
  /\ \A t \in Tasks : ~At("stopped", t)
  /\ task' = [t \in Tasks |-> [Unstarted EXCEPT !.ph = "stopped"]]
  /\ inbox' = [t \in Tasks |-> <<>>]
  /\ flying' = {}
  /\ UNCHANGED <<setup, now, dups, last>>

Next ==
  \/ \E t \in Tasks : \/ Wake(t) \/ Prepare(t) \/ PrepareFails(t)
                      \/ Connect(t) \/ ConnectFails(t)
                      \/ Send(t) \/ SendFails(t)
                      \/ Read(t) \/ TimeOut(t) \/ RecvFails(t) \/ Paced(t)
                      \/ RunEnds(t) \/ RunFails(t) \/ RunPanics(t)
  \/ \E q \in flying : Arrive(q)
  \/ Tick
  \/ Stop

Spec == Init /\ [][Next]_vars

-----------------------------------------------------------------------------
(* Properties *)

Req == [task : Tasks, round : Nat, seq : 0..(Pings - 1)]
SampleType == [of : Req, seq : 0..(Pings - 1), rtt : Nat]
Phases == {"idle", "lookup", "connect", "run", "send", "await", "pace", "dead", "stopped"}

(* Every variable has its type; a round never has more samples than it sent *)
(* pings (loss_pct subtracts the two).                                     *)
TypeOK ==
  /\ setup \in Setups
  /\ now \in Nat /\ dups \in 0..setup.dups
  /\ \A t \in Tasks :
       /\ task[t].ph \in Phases
       /\ task[t].round \in 0..setup.rounds /\ task[t].seq \in 0..(Pings - 1)
       /\ task[t].at - task[t].tick \in 0..setup.lookup
       /\ Len(task[t].rtts) <= Pings
       /\ \A i \in DOMAIN task[t].rtts : task[t].rtts[i] \in SampleType
       /\ \A i \in DOMAIN inbox[t] : inbox[t][i].at \in 0..now
  /\ \A q \in flying : q.at <= now

InRound(t) == task[t].ph \in {"connect", "run", "send", "await", "pace"}

(* The median of a round is about its own pings: each sample is the answer *)
(* to one of them, none is counted twice, and none is older than the       *)
(* timeout, however many stale, doubled or reordered replies come in.  A   *)
(* raw socket alone takes other rounds' replies to the same host for its   *)
(* own, as all of them carry the process id.                               *)
SampleIsOwn ==
  \A t \in Tasks :
    LET rtts == task[t].rtts IN
    /\ \A i, j \in DOMAIN rtts : i < j => rtts[i].seq < rtts[j].seq
    /\ \A i \in DOMAIN rtts :
         LET s == rtts[i] IN
         /\ s.of.seq = s.seq /\ s.rtt <= setup.timeout
         /\ \/ s.of.task = t /\ s.of.round = task[t].round
            \/ Kind(t) \in Raw /\ Kind(s.of.task) \in Raw

(* A ping counts as lost only if its reply did not reach the socket in     *)
(* time, or the socket reported an error while it was awaited: stale       *)
(* packets in front of the reply never cost it.                            *)
LossIsReal ==
  \A t \in Tasks : (At("idle", t) /\ task[t].ok) =>
    task[t].heard \subseteq
      task[t].errors \cup {task[t].rtts[i].seq : i \in DOMAIN task[t].rtts}

Slowest == IF setup.timeout > setup.interval THEN setup.timeout ELSE setup.interval

(* A round that cannot be answered ends in time: no flood of packets makes *)
(* a ping wait beyond its timeout, so the round takes at most Pings times  *)
(* the slower of timeout and interval (and phoenix's connect before).      *)
RoundBounded ==
  \A t \in Tasks : InRound(t) =>
    now - (task[t].tick + task[t].wait) <=
      (IF Kind(t) \in {"phoenix", "exec"} THEN setup.timeout ELSE 0)
      + (IF Kind(t) = "exec" THEN setup.lookup ELSE 0)
      + task[t].seq * Slowest + (IF At("pace", t) THEN 0 ELSE setup.timeout)

Slot(time) == time \div Step

(* Which slots of the store a target's rounds fall into: ticks are never   *)
(* less than a step apart, so two rounds share a slot (and the store drops  *)
(* the second) only if the lookup was slower before the first one; a slot  *)
(* stays empty only after a round longer than the step or a changed lookup. *)
SlotsExplained ==
  \A t \in Tasks : (InRound(t) /\ task[t].round > 1) =>
    LET one == last[t]
        two == task[t]
    IN  /\ two.tick - one.tick >= Step
        /\ Slot(two.at) = Slot(one.at) => one.wait > two.wait
        /\ Slot(two.at) # Slot(one.at) + 1 =>
             one.end > one.tick + Step \/ one.wait # two.wait
=============================================================================
