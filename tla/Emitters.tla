------------------------------ MODULE Emitters ------------------------------
(***************************************************************************)
(* What a finished round meets beside the store (src/emit, LiveEmitter and *)
(* live_loop in src/web/mod.rs): one sink of a kind in each generation of  *)
(* the daemon, and the service, or the web client, behind it.              *)
(*                                                                         *)
(*   "influx"      a queue, a batch, a post for each batch                 *)
(*   "graphite"    a queue and one connection                              *)
(*   "prometheus"  counters and gauges in memory                           *)
(*   "live"        tokio's broadcast channel and one web client            *)
(*                                                                         *)
(* The emissions are numbered: n stands for the round log[n].  A sink of a  *)
(* generation whose senders are all dropped drains what it has and ends.   *)
(***************************************************************************)
EXTENDS Naturals, Sequences, SequencesExt, FiniteSets, Functions, TLC

CONSTANTS
  ChanCap,    \* capacity of the queue of an influx or graphite sink (4096)
  MaxBatch,   \* MAX_BATCH of influx.rs (1000)
  FeedCap     \* rounds the broadcast channel retains (256)

ASSUME EmittersAssumption == {ChanCap, MaxBatch, FeedCap} \subseteq Nat \ {0}

Kinds == {"influx", "graphite", "prometheus", "live"}

VARIABLES
  kind,     \* the kind of sink the configuration has
  log,      \* history: the rounds emitted, each [key, slot, gen]
  sink,     \* sink[g]: the sink of generation g
  service,  \* "up", "stalled" (nothing is answered or read) or "down"
  troubles, \* changes for the worse that the service still makes
  out,      \* the emissions the service or the client got, in that order
  lost      \* history: <<n, how, the service then>>

evars == <<kind, log, sink, service, troubles, out, lost>>

NoSink == [queue |-> <<>>, hand |-> <<>>, doing |-> "none", tries |-> 0, conn |-> "none",
           lagged |-> FALSE, entries |-> <<>>]

EmittersInit(kinds, worse) ==
  /\ kind \in kinds
  /\ log = <<>> /\ sink = <<>> /\ out = <<>> /\ lost = {}
  /\ service = "up" /\ troubles = worse

Losing(ns, how) == lost' = lost \cup {<<n, how, service>> : n \in ns}

(* The sink of a new generation: the senders have a task, the feed gets     *)
(* one with a web client.                                                  *)
Spawned ==
  [NoSink EXCEPT !.doing = CASE kind \in {"influx", "graphite"} -> "idle"
                             [] kind = "live" -> "away" [] OTHER -> "none"]

-----------------------------------------------------------------------------
(* Emitter::emit, never waiting *)

(* PromState::observe. *)
Observe(entries, n) ==
  LET key == log'[n].key
      before == IF key \in DOMAIN entries THEN entries[key].rounds ELSE 0
  IN [k \in DOMAIN entries \cup {key} |->
        IF k = key THEN [slot |-> log'[n].slot, rounds |-> before + 1] ELSE entries[k]]

(* try_send: a full queue drops the newest. *)
OfferQueue(g, n) ==
  IF Len(sink[g].queue) < ChanCap
  THEN sink' = [sink EXCEPT ![g].queue = Append(@, n)] /\ UNCHANGED lost
  ELSE Losing({n}, "full") /\ UNCHANGED sink

(* broadcast: what the client has not read is overwritten, oldest first. *)
OfferFeed(g, n) ==
  IF sink[g].doing \in {"away", "done"} THEN Losing({n}, "nobody") /\ UNCHANGED sink
  ELSE IF Len(sink[g].queue) < FeedCap
  THEN sink' = [sink EXCEPT ![g].queue = Append(@, n)] /\ UNCHANGED lost
  ELSE /\ sink' = [sink EXCEPT ![g].queue = Append(Tail(@), n), ![g].lagged = TRUE]
       /\ Losing({Head(sink[g].queue)}, "lagged")

(* The round goes to the sink of generation g. *)
EmitTo(g, round) ==
  LET n == Len(log) + 1 IN
  /\ log' = Append(log, [key |-> round.key, slot |-> round.slot, gen |-> g])
  /\ CASE kind \in {"influx", "graphite"} -> OfferQueue(g, n)
       [] kind = "live" -> OfferFeed(g, n)
       [] OTHER -> /\ sink' = [sink EXCEPT ![g].entries = Observe(@, n)]
                   /\ UNCHANGED lost
  /\ UNCHANGED <<kind, service, troubles, out>>

-----------------------------------------------------------------------------
(* The influx sender *)

(* flush takes the batch; the loop waits for the answer. *)
Flush(s) == [s EXCEPT !.doing = "post"]

(* Mutant of InfluxRecv: `>' instead of `>='. *)
InfluxRecvOver(g) ==
  LET s == [sink[g] EXCEPT !.queue = Tail(@), !.hand = Append(@, Head(sink[g].queue))] IN
  /\ kind = "influx" /\ sink[g].doing = "idle" /\ sink[g].queue # <<>>
  /\ sink' = [sink EXCEPT ![g] = IF Len(s.hand) > MaxBatch THEN Flush(s) ELSE s]
  /\ UNCHANGED <<kind, log, service, troubles, out, lost>>

(* The batch grows to MAX_BATCH. *)
InfluxRecv(g) ==
  LET s == [sink[g] EXCEPT !.queue = Tail(@), !.hand = Append(@, Head(sink[g].queue))] IN
  /\ kind = "influx" /\ sink[g].doing = "idle" /\ sink[g].queue # <<>>
  /\ sink' = [sink EXCEPT ![g] = IF Len(s.hand) >= MaxBatch THEN Flush(s) ELSE s]
  /\ UNCHANGED <<kind, log, service, troubles, out, lost>>

(* Mutant of InfluxTick: only full batches are posted. *)
InfluxTickFull(g) ==
  /\ kind = "influx" /\ sink[g].doing = "idle" /\ Len(sink[g].hand) >= MaxBatch
  /\ sink' = [sink EXCEPT ![g] = Flush(@)]
  /\ UNCHANGED <<kind, log, service, troubles, out, lost>>

(* Every flush_secs. *)
InfluxTick(g) ==
  /\ kind = "influx" /\ sink[g].doing = "idle" /\ sink[g].hand # <<>>
  /\ sink' = [sink EXCEPT ![g] = Flush(@)]
  /\ UNCHANGED <<kind, log, service, troubles, out, lost>>

Posted(g) == sink' = [sink EXCEPT ![g].doing = "idle", ![g].hand = <<>>]

(* The batch is written and answered with success. *)
InfluxAccepts(g) ==
  /\ kind = "influx" /\ sink[g].doing = "post" /\ service = "up"
  /\ out' = out \o sink[g].hand
  /\ Posted(g)
  /\ UNCHANGED <<kind, log, service, troubles, lost>>

(* The post is refused or its connection breaks, before or after the batch  *)
(* was written: either way the sender gives the batch up.                  *)
InfluxFails(g) ==
  /\ kind = "influx" /\ sink[g].doing = "post" /\ service = "down"
  /\ \/ Losing(ToSet(sink[g].hand), "refused") /\ UNCHANGED out
     \/ out' = out \o sink[g].hand /\ UNCHANGED lost
  /\ Posted(g)
  /\ UNCHANGED <<kind, log, service, troubles>>

-----------------------------------------------------------------------------
(* The graphite sender *)

GraphiteRecv(g) ==
  /\ kind = "graphite" /\ sink[g].doing = "idle" /\ sink[g].queue # <<>>
  /\ sink' = [sink EXCEPT ![g].doing = "send", ![g].hand = <<Head(sink[g].queue)>>,
                          ![g].queue = Tail(@), ![g].tries = 0]
  /\ UNCHANGED <<kind, log, service, troubles, out, lost>>

Sending(g) == kind = "graphite" /\ sink[g].doing = "send"
PayloadDone(s) == [s EXCEPT !.doing = "idle", !.hand = <<>>]

Connect(g) ==
  /\ Sending(g) /\ sink[g].conn = "none" /\ service = "up"
  /\ sink' = [sink EXCEPT ![g].conn = "live"]
  /\ UNCHANGED <<kind, log, service, troubles, out, lost>>

ConnectFails(g) ==
  /\ Sending(g) /\ sink[g].conn = "none" /\ service = "down"
  /\ sink' = [sink EXCEPT ![g] = PayloadDone(@)]
  /\ Losing(ToSet(sink[g].hand), "refused")
  /\ UNCHANGED <<kind, log, service, troubles, out>>

(* write_all is content with the socket's buffer: what goes into a          *)
(* connection whose other end is gone is lost and nobody knows.            *)
Write(g) ==
  /\ Sending(g)
  /\ \/ sink[g].conn = "live" /\ service = "up" /\ out' = out \o sink[g].hand /\ UNCHANGED lost
     \/ sink[g].conn = "dead" /\ Losing(ToSet(sink[g].hand), "unread") /\ UNCHANGED out
  /\ sink' = [sink EXCEPT ![g] = PayloadDone(@)]
  /\ UNCHANGED <<kind, log, service, troubles>>

(* Mutant of WriteFails: the payload is dropped with the connection. *)
WriteFailsDrops(g) ==
  /\ Sending(g) /\ sink[g].conn = "dead"
  /\ sink' = [sink EXCEPT ![g] = [PayloadDone(@) EXCEPT !.conn = "none"]]
  /\ Losing(ToSet(sink[g].hand), "refused")
  /\ UNCHANGED <<kind, log, service, troubles, out>>

(* The stream is dropped and the payload tried once more. *)
WriteFails(g) ==
  /\ Sending(g) /\ sink[g].conn = "dead"
  /\ IF sink[g].tries = 0
     THEN sink' = [sink EXCEPT ![g].conn = "none", ![g].tries = 1] /\ UNCHANGED lost
     ELSE /\ sink' = [sink EXCEPT ![g] = [PayloadDone(@) EXCEPT !.conn = "none"]]
          /\ Losing(ToSet(sink[g].hand), "refused")
  /\ UNCHANGED <<kind, log, service, troubles, out>>

-----------------------------------------------------------------------------
(* live_loop *)

(* A client opens the page. *)
Subscribe(g) ==
  /\ kind = "live" /\ sink[g].doing = "away" /\ service = "up"
  /\ sink' = [sink EXCEPT ![g].doing = "idle"]
  /\ UNCHANGED <<kind, log, service, troubles, out, lost>>

FeedRecv(g) ==
  /\ kind = "live" /\ sink[g].doing = "idle" /\ ~sink[g].lagged /\ sink[g].queue # <<>>
  /\ sink' = [sink EXCEPT ![g].doing = "send", ![g].hand = <<Head(sink[g].queue)>>, ![g].queue = Tail(@)]
  /\ UNCHANGED <<kind, log, service, troubles, out, lost>>

(* RecvError::Lagged: go on with the oldest round retained. *)
FeedLagged(g) ==
  /\ kind = "live" /\ sink[g].doing = "idle" /\ sink[g].lagged
  /\ sink' = [sink EXCEPT ![g].lagged = FALSE]
  /\ UNCHANGED <<kind, log, service, troubles, out, lost>>

FeedSend(g) ==
  /\ kind = "live" /\ sink[g].doing = "send" /\ service = "up"
  /\ out' = out \o sink[g].hand
  /\ sink' = [sink EXCEPT ![g].doing = "idle", ![g].hand = <<>>]
  /\ UNCHANGED <<kind, log, service, troubles, lost>>

(* The client went away. *)
FeedLeft(g) ==
  /\ kind = "live" /\ sink[g].doing \in {"idle", "send"} /\ service = "down"
  /\ Losing(ToSet(sink[g].queue) \cup ToSet(sink[g].hand), "left")
  /\ sink' = [sink EXCEPT ![g] = [NoSink EXCEPT !.doing = "away"]]
  /\ UNCHANGED <<kind, log, service, troubles, out>>

-----------------------------------------------------------------------------
(* The senders of g are dropped: the rest is flushed, and the task ends. *)
Drain(g) ==
  /\ sink[g].doing \in {"idle", "away"}
  /\ sink[g].queue = <<>> /\ ~sink[g].lagged
  /\ sink' = [sink EXCEPT ![g] = IF sink[g].hand # <<>> THEN Flush(@) ELSE [NoSink EXCEPT !.doing = "done"]]
  /\ UNCHANGED <<kind, log, service, troubles, out, lost>>

(* The service *)

Broken(s) == IF s.conn = "live" THEN [s EXCEPT !.conn = "dead"] ELSE s

Worsen(to) ==
  /\ service \notin {to, "down"} /\ troubles > 0
  /\ troubles' = troubles - 1 /\ service' = to
  /\ sink' = IF to = "down" THEN [g \in DOMAIN sink |-> Broken(sink[g])] ELSE sink
  /\ UNCHANGED <<kind, log, out, lost>>

Mend ==
  /\ service # "up" /\ service' = "up"
  /\ UNCHANGED <<kind, log, sink, troubles, out, lost>>

SinkStep(g) ==
  \/ InfluxRecv(g) \/ InfluxTick(g) \/ InfluxAccepts(g) \/ InfluxFails(g)
  \/ GraphiteRecv(g) \/ Connect(g) \/ ConnectFails(g) \/ Write(g) \/ WriteFails(g)
  \/ FeedRecv(g) \/ FeedLagged(g) \/ FeedSend(g) \/ FeedLeft(g)

ServiceStep == Worsen("stalled") \/ Worsen("down") \/ Mend
=============================================================================
