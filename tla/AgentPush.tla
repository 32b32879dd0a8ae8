----------------------------- MODULE AgentPush -----------------------------
(***************************************************************************)
(* A remote agent and its master (src/agent/mod.rs, agent_results in       *)
(* src/web/mod.rs): finished rounds go through a bounded channel to a push *)
(* loop, which keeps them in a bounded buffer and posts the whole buffer   *)
(* until the master has answered.  A reload of the agent starts a second   *)
(* push loop while the first one drains.                                   *)
(*                                                                         *)
(* One target: its rounds are numbered in the order they were started, and *)
(* the master's store keeps a round only if it is newer than all it has.   *)
(***************************************************************************)
EXTENDS Naturals, Sequences, FiniteSets, SequencesExt

CONSTANTS
  MaxRounds,    \* rounds the agent makes in a run
  ChanCap,      \* capacity of the channel (1024)
  MaxBuffer,    \* MAX_BUFFER (10000)
  BodyLimit,    \* rounds that fit the HTTP server's default body limit
  MaxLoops,     \* push loops started in a run: 1 + reloads
  MaxOutages,   \* outages of the master in a run
  MaxLate       \* requests given up and still on their way at any time

ASSUME AgentAssumption ==
  /\ {MaxRounds, ChanCap, MaxBuffer, BodyLimit, MaxLoops} \subseteq Nat \ {0}
  /\ {MaxOutages, MaxLate} \subseteq Nat

Rounds == 1..MaxRounds
Loops  == 1..MaxLoops

VARIABLES
  emitted,  \* the number of rounds made so far
  cur,      \* the push loop rounds go to, 0 while the assignment is fetched
  started,  \* push loops started so far
  loop,     \* loop[g]: the push loop g
  late,     \* requests given up by the agent that the master may still get
  up,       \* the master is up
  assigned, \* the master's configuration has the target for this agent
  outages,
  stored,   \* rounds in the master's series, survives its outages
  dropped   \* history: rounds lost, with the place that lost them

agent  == <<emitted, cur, started, loop>>
master == <<up, assigned, outages, stored>>
vars   == <<agent, late, master, dropped>>

-----------------------------------------------------------------------------
Lost == {d[1] : d \in dropped}

Drop(rounds, how) == dropped' = dropped \cup (rounds \X {how})

NoLoop == [st |-> "none", chan |-> <<>>, buffer |-> <<>>, req |-> <<>>, closed |-> FALSE]

Init ==
  /\ emitted = 0 /\ cur = 1 /\ started = 1
  /\ loop = [g \in Loops |-> IF g = 1 THEN [NoLoop EXCEPT !.st = "run"] ELSE NoLoop]
  /\ late = {}
  /\ up = TRUE /\ assigned = TRUE /\ outages = 0
  /\ stored = {} /\ dropped = {}

(* PushEmitter::emit: try_send, never waits. *)
Emit ==
  /\ cur # 0 /\ emitted < MaxRounds
  /\ emitted' = emitted + 1
  /\ IF Len(loop[cur].chan) < ChanCap
     THEN loop' = [loop EXCEPT ![cur].chan = Append(@, emitted + 1)] /\ UNCHANGED dropped
     ELSE Drop({emitted + 1}, "channel full") /\ UNCHANGED loop
  /\ UNCHANGED <<cur, started, late, master>>

(* Mutant of Recv: the buffer has no bound. *)
RecvUnbounded(g) ==
  /\ loop[g].st = "run" /\ loop[g].chan # <<>>
  /\ loop' = [loop EXCEPT ![g].chan = Tail(@), ![g].buffer = Append(@, Head(loop[g].chan))]
  /\ UNCHANGED <<emitted, cur, started, late, master, dropped>>

(* push_loop's recv branch; the oldest round makes room. *)
Recv(g) ==
  LET b == Append(loop[g].buffer, Head(loop[g].chan))
      n == IF Len(b) > MaxBuffer THEN Len(b) - MaxBuffer ELSE 0
  IN
  /\ loop[g].st = "run" /\ loop[g].chan # <<>>
  /\ loop' = [loop EXCEPT ![g].chan = Tail(@), ![g].buffer = SubSeq(b, n + 1, Len(b))]
  /\ Drop(ToSet(SubSeq(b, 1, n)), "buffer full")
  /\ UNCHANGED <<emitted, cur, started, late, master>>

Drained(g) == loop[g].closed /\ loop[g].chan = <<>>

(* try_push posts the whole buffer at a tick; the loop waits for the       *)
(* answer and receives nothing meanwhile.                                  *)
Post(g, st) ==
  /\ loop[g].st = "run" /\ loop[g].buffer # <<>>
  /\ loop' = [loop EXCEPT ![g].st = st, ![g].req = loop[g].buffer]
  /\ UNCHANGED <<emitted, cur, started, late, master, dropped>>

Push(g) == Post(g, "wait")

(* One last try once the channel is closed and empty. *)
LastPush(g) == Drained(g) /\ Post(g, "last")

(* The channel is closed and there is nothing left to push. *)
Finish(g) ==
  /\ loop[g].st = "run" /\ Drained(g) /\ loop[g].buffer = <<>>
  /\ loop' = [loop EXCEPT ![g] = NoLoop]
  /\ UNCHANGED <<emitted, cur, started, late, master, dropped>>

-----------------------------------------------------------------------------
(* The master *)

(* Mutant of Newer: the batch is recorded from its newest round back. *)
NewerBackwards(batch) ==
  {n \in ToSet(batch) : (\A m \in stored : n > m) /\ \A m \in ToSet(batch) : n >= m}

(* The store's record for each round of a batch in turn: a round that is   *)
(* not newer than all it has is skipped, first write wins.  Batches ascend. *)
Newer(batch) == {n \in ToSet(batch) : \A m \in stored : n > m}

(* agent_results answers for every round of the batch, those it skips as    *)
(* not this agent's target and those the store skips included.             *)
Handle(batch) ==
  LET kept == IF assigned THEN Newer(batch) ELSE {} IN
  /\ stored' = stored \cup kept
  /\ Drop(ToSet(batch) \ (stored \cup kept \cup Lost),
          IF assigned THEN "out of order" ELSE "not assigned")

Waiting(g) == loop[g].st \in {"wait", "last"}

(* Mutants of Answer: the buffer is cleared whatever the answer; the push   *)
(* loop returns on an error.                                               *)
AnswerClears(g, ok) ==
  loop' = [loop EXCEPT ![g] =
    IF @.st = "last" THEN NoLoop ELSE [@ EXCEPT !.st = "run", !.req = <<>>, !.buffer = <<>>]]
AnswerReturns(g, ok) ==
  loop' = [loop EXCEPT ![g] =
    IF @.st = "last" \/ ~ok THEN NoLoop
    ELSE [@ EXCEPT !.st = "run", !.req = <<>>, !.buffer = <<>>]]

(* The outcome of try_push: the buffer is cleared on success only, and the *)
(* last try of a closed loop ends it either way.                           *)
Answer(g, ok) ==
  loop' = [loop EXCEPT ![g] =
    IF @.st = "last" THEN NoLoop
    ELSE [@ EXCEPT !.st = "run", !.req = <<>>,
                   !.buffer = IF ok THEN <<>> ELSE loop[g].buffer]]

DropIfLast(g) ==
  IF loop[g].st = "last" THEN Drop(ToSet(loop[g].req) \ stored, "last push") ELSE UNCHANGED dropped

(* The request arrives, is handled and answered. *)
Accept(g) ==
  /\ Waiting(g) /\ up /\ Len(loop[g].req) <= BodyLimit
  /\ Handle(loop[g].req)
  /\ Answer(g, TRUE)
  /\ UNCHANGED <<emitted, cur, started, late, up, assigned, outages>>

(* 413: the request is answered, with an error. *)
Refuse(g) ==
  /\ Waiting(g) /\ up /\ Len(loop[g].req) > BodyLimit
  /\ Answer(g, FALSE) /\ DropIfLast(g)
  /\ UNCHANGED <<emitted, cur, started, late, master>>

(* The connection fails or the answer does not come within the client's    *)
(* timeout; the request may still be handled later, or have been already.  *)
GiveUp(g) ==
  /\ Waiting(g)
  /\ Answer(g, FALSE)
  /\ \/ UNCHANGED late
     \/ late' = late \cup {loop[g].req} /\ Cardinality(late') <= MaxLate
  /\ DropIfLast(g)
  /\ UNCHANGED <<emitted, cur, started, master>>

HandleLate(batch) ==
  /\ up /\ Len(batch) <= BodyLimit
  /\ Handle(batch)
  /\ late' = late \ {batch}
  /\ UNCHANGED <<agent, up, assigned, outages>>

(* The master dies after the first n rounds of a batch; the connection breaks. *)
DieInside(g) ==
  /\ Waiting(g) /\ up /\ Len(loop[g].req) <= BodyLimit /\ outages < MaxOutages
  /\ \E n \in 0..(Len(loop[g].req) - 1) :
       stored' = stored \cup IF assigned THEN Newer(SubSeq(loop[g].req, 1, n)) ELSE {}
  /\ Answer(g, FALSE) /\ DropIfLast(g)
  /\ up' = FALSE /\ outages' = outages + 1
  /\ UNCHANGED <<emitted, cur, started, late, assigned>>

GoDown ==
  /\ up /\ outages < MaxOutages
  /\ up' = FALSE /\ outages' = outages + 1
  /\ UNCHANGED <<agent, late, assigned, stored, dropped>>

ComeUp ==
  /\ ~up /\ up' = TRUE
  /\ assigned' \in BOOLEAN
  /\ UNCHANGED <<agent, late, outages, stored, dropped>>

-----------------------------------------------------------------------------
(* SIGHUP or a changed assignment: the sender of the channel is dropped and *)
(* the old push loop goes on by itself.                                    *)
Reload ==
  /\ cur # 0 /\ started < MaxLoops
  /\ loop' = [loop EXCEPT ![cur].closed = TRUE]
  /\ cur' = 0
  /\ UNCHANGED <<emitted, started, late, master, dropped>>

(* The assignment is fetched, which takes a master that is up. *)
Fetch ==
  /\ cur = 0 /\ up
  /\ cur' = started + 1 /\ started' = started + 1
  /\ loop' = [loop EXCEPT ![started + 1] = [NoLoop EXCEPT !.st = "run"]]
  /\ UNCHANGED <<emitted, late, master, dropped>>

(* The agent's process is stopped or killed: what it holds is gone. *)
HeldBy(g) == ToSet(loop[g].chan) \cup ToSet(loop[g].buffer)
Stop ==
  /\ started < MaxLoops
  /\ Drop((UNION {HeldBy(g) : g \in Loops}) \ stored, "agent stopped")
  /\ loop' = [g \in Loops |-> NoLoop]
  /\ late' \in SUBSET (late \cup {loop[g].req : g \in {h \in Loops : Waiting(h)}})
  /\ Cardinality(late') <= MaxLate
  /\ cur' = 0
  /\ UNCHANGED <<emitted, started, master>>

LoopStep(g) == Recv(g) \/ Push(g) \/ LastPush(g) \/ Finish(g)

Next ==
  \/ Emit
  \/ \E g \in Loops : LoopStep(g) \/ Accept(g) \/ Refuse(g) \/ GiveUp(g) \/ DieInside(g)
  \/ \E batch \in late : HandleLate(batch)
  \/ GoDown \/ ComeUp
  \/ Reload \/ Fetch \/ Stop

Spec == Init /\ [][Next]_vars

(* The push loops run, an outage ends, and a request that is sent again    *)
(* and again gets through some time: the network loses, but not always.    *)
FairSpec ==
  /\ Spec
  /\ WF_vars(ComeUp) /\ WF_vars(Fetch)
  /\ \A g \in Loops :
       /\ SF_vars(Recv(g)) /\ WF_vars(Push(g) \/ LastPush(g)) /\ WF_vars(Finish(g))
       /\ SF_vars(Accept(g)) /\ WF_vars(Refuse(g) \/ GiveUp(g) \/ Accept(g))

-----------------------------------------------------------------------------
(* Properties *)

Held == UNION {HeldBy(g) : g \in Loops}
LostBy(how) == {d[1] : d \in {e \in dropped : e[2] = how}}

Batch == {s \in UNION {[1..n -> Rounds] : n \in 0..MaxBuffer} :
            \A i, j \in DOMAIN s : i < j => s[i] < s[j]}

(* Every variable has its type, and every queue is in the order the rounds *)
(* were started in and within its capacity.                                *)
TypeOK ==
  /\ emitted \in 0..MaxRounds /\ cur \in 0..MaxLoops /\ started \in Loops
  /\ \A g \in Loops :
       /\ loop[g].st \in {"none", "run", "wait", "last"}
       /\ loop[g].buffer \in Batch /\ loop[g].req \in Batch
       /\ loop[g].chan \in Seq(Rounds) /\ Len(loop[g].chan) <= ChanCap
       /\ loop[g].closed \in BOOLEAN
  /\ late \subseteq Batch /\ stored \subseteq Rounds
  /\ <<up, assigned>> \in BOOLEAN \X BOOLEAN

(* Every round an agent makes is in the store, or still in its hands, or   *)
(* was lost in one of the places that give rounds up: clearing the buffer  *)
(* on an answer forgets nothing else.                                      *)
NothingVanishes == 1..emitted \subseteq stored \cup Held \cup Lost

(* Between one push loop and the master, retried, duplicated and late      *)
(* batches and a crash inside one never make the store skip a round as too *)
(* old that it does not have: first-write-wins is safe against retries.    *)
(* (Two push loops that overlap after a reload can.)                       *)
RetriesKeepOrder == started = 1 => LostBy("out of order") = {}

(* A buffered round is eventually stored, or makes room for a newer one.   *)
Delivered ==
  \A n \in Rounds : (n \in Held) ~> (n \in stored \cup Lost)

(* So it is unless a backlog has outgrown what the master takes at once.    *)
TooBig == \E g \in Loops : Len(loop[g].buffer) > BodyLimit
DeliveredUnlessTooBig ==
  \A n \in Rounds : (n \in Held) ~> (n \in stored \cup Lost \/ TooBig)
=============================================================================
