# dabping in TLA+

dabping pings targets once a step, keeps the results in round-robin files,
raises alerts, keeps a status page with incidents, and can do the probing from
remote agents.  This directory models the parts of it that hold state over time,
model-checks them on small instances and proves some of their properties for
every value of the parameters.

Paths below are relative to `src/src/` of the repository.  `PROJECT.json` maps
every definition to the lines it stands for.

## The system

| component | state | operations | who calls it |
|---|---|---|---|
| series file, `store/series.rs` | a memory-mapped file: `last_update`, per archive the window in progress and a ring of rows | `open_or_create`, `record`, `fetch` | the Store, under the series' Mutex |
| Store, `store/mod.rs` | a map of open series under one Mutex, a Mutex per series | `record`, `fetch`, `series` | the store emitter, web handlers, `dump`, `seed` |
| status engine, `status/mod.rs` | `target_state`, `comp_state`, histories, the incident log in memory and on disk, each under a Mutex | `process_round`, `manual_update`, `manual_resolve`, `new` (replay) | probe tasks, `agent_results`, web handlers |
| alerter, `alert/mod.rs`, `alert/pattern.rs` | per target a ring of rounds, per alert `raised` and the last notification | `process_round`, `emit`; patterns match the ring | probe tasks, `agent_results` |
| notifiers, `alert/notify.rs` | none | `dispatch` | a task per notification |
| agent, `agent/mod.rs` | an assignment, a bounded channel, a push loop with a bounded buffer | `fetch_config`, `assignment_changed`, `emit`, `push_loop`, `try_push` | probe tasks, SIGHUP |
| master's ingest, `web/mod.rs` | the agents' secrets and allowed paths of a generation | `agent_auth`, `agent_config`, `agent_results` | agents over HTTP |
| scheduler, `scheduler.rs` | a task per target, the signal receivers | `run_targets`, `wait_for_signal` | `main.rs`, `agent/mod.rs` |
| daemon, `main.rs` | a configuration and everything built from it | `run`, `run_once`, one-shot commands | the operator |
| configuration, `config.rs` | none | `load`, `validate`, `flatten_targets` | `run_once`, SIGHUP, `check-config` |
| emitters, `emit/` | queues (Influx, Graphite), a connection (Graphite), counters (Prometheus) | `emit`, a task per queue | probe tasks, `agent_results` |
| live feed, `web/mod.rs` | a broadcast channel, a reader per web client | `emit`, `live_loop` | probe tasks, `agent_results` |
| probes, `probe/` | none between rounds; in a round a socket, the awaited number, a deadline | `round`, `await_reply`, `pace`, `resolve` | the scheduler's tasks |

A probe task finishes a round and hands it to every emitter in turn: the store,
the alerter, the status engine, the exporters, or on an agent the push channel.
Nothing but these calls, the Mutexes inside the components and the agents' HTTP
requests connects the parts.

### What is hard in it

- *In-place writes.*  A round goes into the mapped file in dozens of stores, without
  a journal, and the process can be killed between any two (`series.rs:176-203`).
- *Consolidation over gaps.*  A round may skip any number of windows and whole turns
  of a ring; rows are recognised by their timestamps only (`series.rs:187`, `:254`).
- *Several locks for one decision.*  The status engine computes, publishes and logs a
  component's change under three locks, taken one after the other
  (`status/mod.rs:331-348`); a Store's map and its series have separate Mutexes.
- *Crashes over an append-only log*, and a replay that must accept it
  (`status/mod.rs:168-191`, `:213-221`).
- *Retries.*  An agent cannot know whether a batch whose answer it lost was stored
  (`agent/mod.rs:281-297`); its channel and buffer are bounded.
- *Generations.*  A reload builds everything anew while handlers and push loops of
  the old generation still run (`main.rs:230-300`, `scheduler.rs:80-110`).
- *Notifications* are sent by tasks that overtake each other (`alert/mod.rs:231`).
- *Replies* are stale, doubled, reordered or another round's (`icmp.rs:76-112`, `:171`), and a round may outlast
  its step (`scheduler.rs:65-70`).
- *Sinks* stall, refuse and break while rounds keep coming, and measurement never waits for them
  (`influx.rs:36-75`, `graphite.rs:38-61`, `web/mod.rs:256-275`).
- *Inheritance* of five settings over a tree of any depth, each by itself (`config.rs:550-557`).

### What makes each component correct

| component | properties |
|---|---|
| series | a row is the consolidation of exactly the rounds accepted in its window; the newest `rows` windows are all there; the first write of a slot wins; a query never gets another window's value; a kill damages two windows at most |
| Store | one mapping and one Mutex per file; nobody works on a file of another layout |
| status engine | one open incident per component, ids stable, memory is the replay of the file, a recovered component has no open incident |
| alerter | an alert is raised exactly when its pattern says so of the rounds seen; receivers end up with the truth |
| agent and master | a round is stored, held or given up in a known place; retries lose nothing; what is buffered is delivered |
| daemon and scheduler | one generation at a time; a reload that was checked survives; a broken file changes nothing; the process stops when told |
| probes | a sample answers one of the round's own pings; a ping answered in time is not lost; a round ends in time; ticks stay a step apart |
| configuration | a leaf has the settings of the closest section; somebody measures it and can; no two measurers share a series |
| master's ingest | what is acknowledged is recorded, failed or not the agent's; nothing else enters an agent's series |
| emitters, live feed | an emission is in one place: held, delivered or lost for a known reason; nothing twice, in order; sinks recover |

`PROJECT.json` lists the hazards, at their lines, with the properties that cover them.

## The modules

| module | models | extends / instantiates |
|---|---|---|
| `Series` | `record` as one atomic step, over all archives | |
| `SeriesFetch` | `fetch`, the charts' ranking and the uptime days, as operators over the states of `Series` | extends `Series` |
| `SeriesSteps` | `record` store by store, with kills | extends and implements `Series` |
| `FoldTheorems` | induction over numbers and finite sets, least and greatest elements, and lemmas about sums | |
| `SeriesProofs` | proofs of `Series`, `SeriesFetch` and `SeriesSteps` | extends `SeriesFetch`, `SeriesSteps`, `FoldTheorems` |
| `IncidentBook` | what the status page promises of incidents, abstractly | |
| `StatusEngine` | the engine at the level of its critical sections and log writes | implements `IncidentBook` |
| `StatusEngineProofs` | proofs of `IncidentBook` and of `StatusEngine`, and that the engine implements the book | extends `IncidentBook`, `StatusEngine`, `FoldTheorems` |
| `AgentPush` | agents' channels, push loops, the network, the master's ingest | |
| `AgentPushProofs` | proofs of `AgentPush` | extends `AgentPush` |
| `Pattern` | matching of alert patterns, and what a pattern means | |
| `Alerts` | the alerter for one target, and its dispatch tasks | extends `Pattern` |
| `AlertsProofs` | proofs of `Pattern` and `Alerts` | extends `Alerts`, `FoldTheorems` |
| `StoreFiles` | the Stores' maps and Mutexes, creation and validation of files | |
| `StoreFilesProofs` | proofs of `StoreFiles` | extends `StoreFiles` |
| `Lifecycle` | generations of the daemon and of an agent, signals, reloads | |
| `Probing` | the probe tasks, their ticks, and rounds of all kinds of probes over a network | |
| `SchedulerProofs` | proofs of `Lifecycle` and `Probing` | extends both |
| `ConfigTree` | a configuration: flattening, acceptance, assignments, keys of series | |
| `Emitters` | the Influx, Graphite and Prometheus sinks and the live feed, and the service behind them | |
| `Master` | loads, ingest of an agent's rounds, recording and emitting, reloads | extends `ConfigTree`, `Emitters` |
| `MasterProofs` | proofs of `Master` with the modules it extends | extends `Master`, `FoldTheorems` |

`MC*` modules define the instances TLC checks.  Definitions whose comment begins
with *Mutant of* are plausible mistakes in the definition they stand beside; each
checked property is known to fail with one of them, so none holds by accident.

### Series

State: `lastUpdate` is the header field at offset 24, `acc[a]` the accumulator in the
header of archive `a` (`start` is `acc_start`), `row[a][s]` the row in slot `s`.
Time is counted in steps, so `align` (`series.rs:178`) has already happened.  The fields of a
data point go through the same code independently, and the model keeps one.  A
mean is kept as (sum, count), so no rounding is hidden.  `accepted` is a history of
what was recorded and the base of `Reference`, what a row should say.

`Record` is `record` with the loop over the archives: `RolledAcc` and `RolledRows` are the
branch for a stale window (`series.rs:187-193`), `Accumulate` the fields,
`Completes`/`Finalize` the branch of the last slot of a window.  `Skip` is the early
return.  A fresh file is all zeroes: rows say they hold window 0, and 0 in
`lastUpdate` means "nothing yet".  `TimeAssumption` says that the clock is past the first
window after the epoch.

`SeriesSteps` has one action per group of stores, in the order of the code; `Kill` ends a
call anywhere and the next one goes on from the file.  What was stored before a kill
survives it (the pages belong to the kernel); power loss, and a compiler that would
reorder the stores, are not modelled.

`SeriesFetch` translates the choice of the archive, the stride and the row test.  `TopPoint` is what
`top_targets` finds of a target, `DayPoint` the rows `uptime_days` averages into a day; `ViewsExact` compares both with the
rounds accepted.

### Status engine

One action per critical section: `Round` (the history and `target_state` locks; both only
touch the target's own entry), `Compute` (`component_severity` under the `target_state` lock),
`Swap` (under the `comp_state` lock), `Transition` (the decision under the incident lock), then
`WriteBody` and `WriteNewline` for the two writes of `writeln!`, with the incident lock
held.  A task's `todo` is the part of `by_target[t]` it has not come to, as a set of places in the table, of
which it takes the least.  A target's severity is an input: its patterns are those of `Pattern`.  `Crash` stands for a crash, a stop or a reload between any two steps;
`Start` replays the log and refuses a line that holds two events.  `NewlineFails` is the second write
failing: the event is in the file and not in memory; `cut` remembers which cuts a crash or a full disk made.

`IncidentBook` sees of it a sequence of incidents, open or resolved.  The refinement
maps the book to the memory while the engine is up, and to the replay of the file
while it is not.  `StatusEngineProofs` proves it.

### Agents

Rounds of one target, numbered as they start.  `Emit` is `PushEmitter::emit` (`try_send`),
`Recv`, `Push`, `LastPush` and `Finish` are `push_loop`'s branches, `Accept`, `Refuse`, `GiveUp` and
`DieInside` the outcomes of `try_push`, with the master's `agent_results` inside them; a
request given up may be handled later (`late`).  `Reload` drops the sender, and the old loop drains beside the new
one.  Every round that is lost is put into `dropped` with the place that lost it.

### Alerts

`Round` is `process_round` followed by `emit`, which spawns one task per notification;
`Dispatch` and `DispatchFails` are a task's turn at a receiver.  `Pattern!Matches` follows the
backtracking of `rec` as a set of possible rests; `Means` says the same without an algorithm
and is what the alerts are compared with.  `AlertsProofs` proves that they agree.

### Store

A call of `record` or `fetch` goes through `Store::series` (`LookUp`), the parts of `open_or_create`
(`Exists`, `Open`, `SetLen`, `InitHeaders`, `Validate`) with the map's Mutex held, and the series' own
Mutex.  A target is the sequence of its dot-separated parts, because
`set_extension` (`store/mod.rs:186`) replaces the last one.  `MakeStore` is a reload, after which the old Store's calls
go on, or another process beside the daemon.

### Lifecycle

`pc` follows `run_once`, `run_targets` and `wait_for_signal`.  Tokio's signals are modelled by what they do:
a handler is installed by the first receiver and never removed; a signal without a
receiver is lost; several wait as one.  `RoundStarts`/`RoundEnds` bound the part of a task between two awaits, where an
abort has no effect; `Stop` waits for it (`tasks.shutdown().await`), `Refresh`, which drops
`run_targets`, does not.

### Probing

One record per task: the phase of its round, the ping awaited, the samples.  `Wake` is `tick.tick()` with
`MissedTickBehavior::Delay`, `Prepare`/`PrepareFails` `resolve` and the opening of the socket, then `Send`, `Read`, `TimeOut`,
`RecvFails` and `Paced` go through one ping as `round`, `await_reply` and `pace` do; the differences between the probes
are conditions on `Kind(t)`.  A tcp or http ping is a request whose only reader is that ping; an exec round is one
command; a phoenix round has a connection whose order is kept.  The ICMP probe has two kinds, for its two sockets: a raw
one hears every reply of its host (`Hears`), and all of them carry the process id, so `Accepted` looks at the number only.  `Arrive` delivers
a reply, late or twice.  The clock moves when no task can go on, so lateness comes from slow lookups and long rounds; a runtime
that polls a ready task late, and a phoenix `send` or `close` that blocks, are left out.

### Configuration

`Here` is `Inherited` at each node, a function on the settings somebody gave (`own @@ inherited`); `Wrong` gathers the `bail!`s of `flatten_node`
and `Accepts` those of `validate`, as their order decides only which error is shown.  Text that becomes a path is a sequence of tokens,
because quoted TOML keys may hold slashes: `PathOf` joins keys, `Parts` splits the result as
`validate_target_path` does.  `Meant` says without an algorithm what an accepted configuration means.

### Master and emitters

The state of a generation is its `AppState` (`app[g]`) and its sink (`sink[g]`).  `Load`, `LoadFails`, `StartFails` and `Reload` are
`run` and `run_once`; `PolledRound` is a probe task's round, `Fetch` `agent_config`, `HandleRound` one turn of the loop in `agent_results`,
in the generation the request came to.  `Finished` hands a round to the store (`Store`, which may fail) and then to the
sink (`EmitTo`).  The agent is reduced to what bears on this: it keeps what is not acknowledged and sends it again.

In `Emitters`, `InfluxRecv`, `InfluxTick`, `InfluxAccepts` and `InfluxFails` are the branches of `sender` and `flush`, `GraphiteRecv` to
`WriteFails` those of the Graphite sender with its one reconnect, `FeedRecv` to `FeedLeft` those of `live_loop`; `Drain` is the end of a task whose senders are gone.
`service` answers (`up`), does not (`stalled`) or breaks connections (`down`).  Emissions are numbered, `out` is what the service got, and `lost` says how each of the
others was lost.

## The runs

| run | question | states |
|---|---|---|
| `series` | Do four archives of all three functions hold what the accepted rounds say, over any rounds with gaps, duplicates and unknowns? What does any query get in any state, and what do the charts and uptime days make of it? | 4 096 |
| `series_steps` | Is the sequence of stores the same as one atomic `Record`, and what do two kills between any two stores spoil? | 1.4 million |
| `status` | Does the engine keep the book, is its memory the file's replay, and does the log load again? Does a recovery resolve its incident, when tasks do not overlap? | 1.5 million |
| `status_race` | ... and when they do? **It does not.** | |
| `agent_push` | Where can a round be lost, and is what is buffered delivered? | 116 605 |
| `agent_body_limit` | ... also when the backlog is large? **It is not.** | |
| `alerts` | Is an alert raised when its pattern means it, repeated, and told truthfully? | 571 526 |
| `store_files` | Do callers of several Stores share a Mutex, and a finished file of their layout? | 305 986 |
| `store_names` | ... and does each target have a file of its own? **It does not.** | |
| `lifecycle` | Do daemon and agent reload, stop and keep probing as they should? | 21 373 |
| `probing` | Are a round's samples answers to its own pings, in time, over any network? Which slots do rounds fall into? | 1.5 million |
| `master` | Does a configuration mean what it says? Is every acknowledged round and every emission accounted for, and do the sinks recover? | 169 438 |

### Bounds, and why they are enough

`series` has windows of one, two and three rounds and rings of two and three rows over six
slots, so that windows are complete, sparse or void and rings wrap; two values tell a sum, a minimum and a maximum apart.  `MinTime` is
past the longest window.  Of its archives one fits and covers a query, others only fit, or neither; queries go over the whole clock with no
budget and one of two points, and `MaxFetchPoints` = 5 is passed by the longest.  A day is two slots and the charts look back two.
`series_steps` has a raw archive whose ring wraps and one with windows of two
rounds, the smallest with a window in progress between two calls, so that a call passes through a stale, a running and a completed
window; two kills let the second hit what the first left.

`status` has a component of two targets and one that shares a target with it, with different
`incident_at`, so partial and major outages and one round that changes both occur.  `MaxEvents` = 4 stops new rounds once four
events are logged; those under way go on, so an incident opens, is updated, resolves
and another opens.  One fault (crash or failed write) is enough for each single failure; two in a
row are not explored.  `status_race` needs neither.

`agent_push` shrinks the channel to 1, the buffer to 3 and the body to 2 rounds, so that each of
the three limits is passed with four rounds; two push loops give one reload or restart, one outage
one crash inside a batch.  With `MaxLate` = 1 one lost request may arrive later.  A stopped agent
that starts again goes on numbering its rounds, as time does.

`alerts` uses a pattern with a span between two losses and one with `==U`, exact and wild
elements; five rounds are more than the ring of four.  `MinHistory` is 1 instead of 8, which makes the ring as short as the
patterns allow: a ring of eight can only remember more.  One notification of each kind
and alert is in flight at once (`MaxTasks` = 2).

`store_files` has two targets, two callers, two Stores of two layouts and one fault; the second Store stands for a
reload and for another process.  `lifecycle` has two targets, so that one may emit while the other does not, and two
edits, so that a broken file can be repaired.

`probing` takes each probe by itself, with timeouts shorter and longer than the interval, rounds that outlast the step (four ticks), a
lookup of up to one tick, one doubled reply and three pings (the least `validate` allows); and two raw sockets beside each other, for one round.
Tasks of other kinds do not meet: they share nothing but the clock.  Two rounds of a task show every relation of neighbouring slots, three
that a shift stays.

`master` loads some 2 800 configurations: chains of three nested sections with every combination of the
settings that bear on each other at each level (the third node of the chain is the deepest inheritance that is not a
repetition), and one change at a time of a base configuration for each check of `validate`.  Ten setups run: queues, batches and the feed of two, three or four
rounds, one reload, one lost answer, one failed record, one or two changes of the service for the worse.  One agent and one sink are enough,
for agents share nothing but the emitters, and a sink does not look at another.

`CHECK_DEADLOCK FALSE` stands where a bound on rounds, log, faults or processes ends the run; `series` and
`series_steps` keep deadlock checking on, because a late round can always be skipped.

### Fairness

- `AgentPush!FairSpec`: push loops run (tokio polls a ready task); a tick pushes a
  non-empty buffer; a request ends one way or another (the client has a timeout); an
  outage ends; and strong fairness of `Accept`, a network that loses requests but not all of them
  for ever, and of `Recv`, for `select!` picks its ready branches at random.  Rounds, reloads, stops and outages are free.
- `Lifecycle!Fairness`: weak fairness of the steps the process takes by itself,
  `Quit` and `Hup` among them, because `select!` serves a receiver that stays ready.  Edits and
  signals are free, and so are rounds, except that one that emits ends (emitting does not wait).

- `Master!Fairness`: weak fairness of a load, of the handling of a request and of the sinks' steps: tokio polls a ready
  task.  A post, a connect or a write to a service that is up ends, with an answer or an error; one to a stalled service need not (the
  Influx client has no timeout).  `SinksRecover` supposes that the service stays up from some time on; rounds, reloads and its troubles are free.

### Disagreements with the documentation

Three runs end in a violation, each recorded under `findings`:

- `status_race`: incidents are "auto-resolved" (`README.md:35`).  Two tasks of one component may swap
  `comp_state` in one order and take the incident lock in the other, so that the recovery is logged before
  the outage and the incident stays open.  `ResolvedWhenAlone` shows that nothing else breaks the promise but a
  restart (`comp_state` starts operational, `status/mod.rs:295`, while the incidents are replayed) and a failed write.
- `agent_body_limit`: agents "buffer up to ~10k rounds" (`README.md:116-118`).  The whole backlog is one JSON body, and
  axum's default limit of 2 MB refuses it for good.
- `store_names`: "file-per-target" (`store/mod.rs:1`) and mappings "guarded by the per-series Mutex"
  (`series.rs:105-106`).  `example.com` and `example.org` get one file and two Mutexes.

Others were met on the way and have no run of their own:

- `series.rs:27-29` calls a torn row self-invalidating by its `ts`; `finalize` writes the `ts` first (`:343`), so a kill leaves a
  valid row with the fields of the row it replaced.  `KillSpoilsTwoWindows` bounds the damage and says that such a row is written again.
- `last_update` is written last (`:202`): after a kill the same slot is accumulated again, so a window may count a round
  twice.  `KillSpoilsTwoWindows` excepts such windows.
- `fetch` tests the budget with span / period (`:221`) but returns a row more, so an archive that "fits" may be
  sampled, although the comment at `:235-236` says only the coarsest is.
- A fresh row is taken for window 0 (`:255`), although `:208-209` promises NaN.  `FetchExact` leaves window 0 out.
- A crash or a full disk between an event and its newline (`status/mod.rs:218`) glues the next event to the line, and the log,
  "crash-safe" in `README.md:225`, does not load any more.  `StartsUnlessCut` says that nothing else has this effect.
- "ALL validation happens at load" (`README.md:180`): agents with the web server disabled pass it, `check-config` and the check of a reload, and
  stop the daemon in `run_once` (`main.rs:285`).  `Starts` in `ConfigTree` is that test; `ReloadsAreSafe` excepts it.
- `validate` takes names of agents that `gen-agent` refuses (`main.rs:140-148`); with some the store refuses the agent's series, and its rounds are acknowledged and lost
  (`IngestAccounted`, through `Storable`).
- A quoted key with a slash makes two leaves of one path: they share a series (`KeysApart` excepts such keys).
- Two ICMP rounds to one address on raw sockets take each other's replies (`icmp.rs:171`): `SampleIsOwn` excepts them.
- After a slower lookup than the last, two rounds may share a slot of the store, which drops the second, as `started` is taken after the
  lookup (`icmp.rs:42-43`): `SlotsExplained` says when.
- A batch that is sent again is emitted again: counters and sinks see its rounds twice (`web/mod.rs:389`); `SinksAccount` counts with it.
- The agent's channel drops the newest round (`agent/mod.rs:243`), although `:224-225` says the oldest go first; a reload while the
  master is away gives the buffer up after one try (`:268`).
- A refresh takes any answer of 200 for an assignment (`:214`), although `:202-203` says a bad response waits.
- SIGTERM is lost while a reload is under way or an agent waits for its master (`scheduler.rs:93-109`, `agent/mod.rs:152-168`);
  `StopsWhenTold` asks for it to be sent again.  SIGHUP to an agent whose master is away stops its probing.

## The proofs

TLAPS checks what follows for every value of the constants under the assumptions named in the modules.  TLC
checked each inductive invariant, or its parts, on the bounds of the runs before it was proved.  All safety properties
that the passing runs check are theorems; what is left to TLC is listed below.

**`FoldTheorems`** has what the others need of induction.  The library's induction theorems take an operator as
a parameter, which no installed prover can instantiate; stated of a *set*
they can be: a set of numbers that holds 0 and the successors of its
members holds all numbers (`AllNat`), and likewise for finite sets (`AllSubsets`), from the existence of a least number.  A sum over a finite set
(`MapThenSumSet`) is a recursive CHOOSE; `Rec` says what a solution of its equation is, `RecExists` and `RecUnique`
that there is exactly one, so `SumPick` may take out any element.  `SumBlocks` sums a range of blocks block by block.

**`SeriesProofs`** (`RrasAssumption`, `ValuesAssumption`, `TimeAssumption`: any table
`Config::validate` accepts, any values, any stretch of the clock; `NaN` is not itself a fraction).  The inductive invariant is

    Inv   == TypeOK /\ AccKnown /\ HistoryBound /\ AccFaithful /\ RowsPlaced /\ RowsRetained
    Worth == the window in progress is what its rounds make, and so is each row

`RowsRetained`, the ring's promise, is not inductive by itself: that finalizing a window late does
not replace a newer row needs `RowsPlaced` (rows are behind the window in progress) and
the arithmetic of slots (`SlotsApart`: two windows of one slot are a ring's length apart); that no window is
finalized twice or not at all needs `AccFaithful` (the window in progress is that of
`last_update`); and that a window starts with no rounds needs `HistoryBound`.  `AccKnown`, that a counted
field has a value, is what types need.  The step is split by archive: what rolling to a
new window does (`RolledRowsFacts`), what finalizing adds (`NextRowsFacts`), how the counts of a window grow
(`KnownStep`, `NextAccFacts`).  `Worth` is about values: a sum, a least or a greatest over the rounds of a window grows by the
newest round (`FoldTheorems`), and a row that is behind the window in progress
is not disturbed by it.  With `Inv` it gives `RowsFaithful`.

From `RowsFaithful` and `RowsRetained` follows what queries return (`FetchIsExact`): the archive chosen covers the query or
is the one that reaches back furthest, each point's stamp is a window of that archive, and the row in its slot is that
window's or is not used.  The bound on points is arithmetic of spans, periods and strides.  `ViewsAreExact` needs in addition that a
day's mean over windows is the mean over its rounds (`SumBlocks`) and that the charts' look-back is not cut by the budget
(`LookBack < MaxFetchPoints`: five steps against a million points).
The theorems are `TypeCorrect`, `AccumulatorFaithful`, `RowsInPlace`,
`RingRetains`, `RowsAreFaithful`, `FetchIsExact`, `ViewsAreExact`, and the action properties `NoRegress` and `FirstWriteStays`.

**`SeriesProofs`**, the steps: `StepInv` says of a call how far it is, whatever kills came before it.  `before` is the file as it was when the call
began; archives ahead of `rec.a` are as they were (`Untouched`), those behind hold what the atomic `Record` makes of them (`Finished`), and the one at work is
where the next write finds it (`PartAcc`, `PartRows`, one case for each write).  A lemma for each write takes it to the next; `FirstFound`
is the choice of the first write of an archive, `CommitFacts` that the last write has completed `Record`, so the mapping, under which the file is `before`, makes
every step a stutter but `Commit`, which is `Record` (`RecordIsAtomic`).  All theorems of `Series` then hold of what a caller finds who takes the series' Mutex.

After a kill `before` is no longer a file `Series` could have left, and `Inv` is lost for good.  `KillsSpoilTwo` rests on what is left of it:

- `SalvageInv`, of each archive of `before` and the windows that are `hit`: the window in progress is not older than the newest round's
  (`AccPlaced`), and unless it is `hit` it is worth its rounds (`AccTrue`) and is there (`AccThere`); rows lie in
  their slots (`RowPlaced`); a row that is not `hit` is of a settled window and worth its rounds (`RowTrue`); and settled windows of the newest
  ring that are not `hit` have their row (`RingFull`).  `newest`, the last slot any call aimed at, bounds the ring: a killed call may have
  reused the slot of a window that is still within `rows` of `last_update`.  `Aims` are the windows a call writes for, its own and the one in progress:
  a kill damages nothing else (`KillSalvages`), and a commit keeps all of it and adds its round (`CommitSalvages`).
- `TornInv`, of every store: a row is torn only while the accumulator is still at its window (`TornRowHeals`), since
  the accumulator moves on only when no row of its archive is torn (`PhaseWhole`).

**`StatusEngineProofs`**, the book: for any set of components it has one open incident per component
(`OneOpenIncident`) and never renumbers, drops or reopens any (`Permanent`), from `BookInv`, the type and `OneOpen`.

**`StatusEngineProofs`**, the engine (`StatusAssumption`: components are distinct and have targets, as `parse_components` demands).  The inductive invariant is

    EngineInv == EngineTypes /\ TasksOk /\ LockOk /\ DownIsBlank /\ LinesEnd /\ BookKept /\ InTurn

- `LockOk`: whoever holds the incident lock has something to write, and the last line of the file is the event in hand.
- `LinesEnd`: lines end but for that one, which is `StartsUnlessCut`.
- `BookKept`: memory is the replay of the lines written out, and a good book (`GoodLog`: ids are numbers, one open incident
  per component).  That the next event keeps it good is no matter of the state alone: the decision was made when the lock was
  taken, up to two writes ago.  `Fits` says what the holder may still write and that it suits the book, and each write leaves a rest that fits.
- `InTurn`: as long as nothing overlaps, one task at most is at work; the board is right except for the components it has
  yet to come to (`BoardRight`); a component shown operational has no open incident except the one whose transition is being
  logged (`RecoveryTold`); and the holder writes what ends it (`WritesAnswers`).

`Replay` is a fold over the file, and a fold is a recursive CHOOSE too: `RecLog` is its equation, `ReplayAppend` the consequence that
one more line is one more `Apply`.  `EngineIsBook` is the refinement `ImplementsBook`: initial states map to an empty book (`EmptyLogFacts`), and
each step maps to an entry opened, an entry resolved, or a stutter (`EngineMoves`) --
while the engine is up from `Fits`, and for a crash and a start from `BookKept`, because the replay is the memory, with the event whose
newline is missing (`HalfWritten`).  `OneOpenInEngine` says of the engine itself what `OneOpenIncident` says of the book.

**`AgentPushProofs`** (`AgentAssumption`: all capacities positive).  `Inv == PushInv /\ NothingVanishes /\ RetryInv`.
`PushInv` is about queues: channel and buffer ascend, the channel is newer than the buffer, requests are what was buffered; without it
nothing bounds what trimming drops.  `NothingVanishes` is then inductive, action by action, with a round's
possible places.  `RetriesKeepOrder` needs `RetryInv`: no request on its way, late ones included, leaves out a round that is
not settled but older than one it holds, and the store has nothing newer than such a round.  It holds for one push loop only, as
the property says: two of them race after a reload.

**`AlertsProofs`** (`AlertsAssumption`: finitely many alerts, patterns that `Pattern::parse` lets through, so spans of 1 to 64
rounds and at least one element that is not a span).  It begins with the matcher.  `Matches` folds a pattern from its last element, a
recursive CHOOSE again, of which `RecMatch` is the equation; `Left` is what the ways to match the elements from place *i* on may leave, and
`LeftStep` that it obeys the same equation, so by induction over the places, from the last down, the matcher finds what there is
(`MatcherRight`).  `RingSuffices` is the other half: a way to match takes no more rounds than `Depth`, and every round taken stands at the same
distance from the end of the ring as from the end of all rounds.  With `PushKeeps`, that the ring remains the end of all
rounds, `RaisedMeant` follows.  The inductive invariant is

    AlertsInv == Kept /\ RaisedIsMeant /\ OneInFlight /\ Carried /\ Knowing

`LastWordIsTrue` speaks of the moments when nothing is in flight; before, what is in flight says what is the case
(`Carried`) and those it has passed know it already or are among the missed (`Knowing`).  It takes that an alert has one notification in flight
(`OneInFlight`).  `StillRepeated` is the action property.

**`StoreFilesProofs`** (`StoreAssumption`).  `MapInv` says why a Store maps a target once
(`MappedOnce`): the map's Mutex has one holder (`OneHolder`), what the holder is about to open is not in the map (`NotYetOpen`), and what was
opened is (`OpenedIsOpen`).  `FileInv` is about the disk: a file that no fault and no second creator spoilt
has one creator at most, who finds what he left (`SoleCreator`); one that is half done has a creator
(`HalfDoneHasCreator`), so `validate` never sees it; and a mapped one is complete, with the Store's layout (`MappedIsReady`).
`WorkOnReady` and `RefusedForAReason` follow.

**`SchedulerProofs`**, the generations (`LifecycleAssumption`; a configuration is none of the words the model has for sources that are
not one).  `LifecycleTypeOK` is nearly inductive: it relates `pc`, role and handlers.  `LifeInv` adds what holds between two generations: only the
daemon checks a file before it reloads, a round is open only where tasks run, a daemon has no old rounds, and what was
vouched for loads until it is edited.  `OneGenerationOnly` and the action property `ReloadsSafe` follow.

**`SchedulerProofs`**, the probes (`PingsAssumption`, `SetupsAssumption`).  `ProbeInv` says of each task by itself:

- `Timely`: a budget of time per phase, which the clock does not pass; the end of a round is within the last (`RoundsAreBounded`).
- `Spaced`: a tick is a step after the last, or the round before it outlasted its step (`SlotsAreExplained`).
- `Own`: samples rise by sequence number, none is ahead of the pings sent, what is in the socket belongs to the round
  or both sockets are raw (`SamplesAreOwn`).
- `Counted`: a ping that is past has a sample or an error, or was not heard and every reply to it comes too late
  (`LossesAreReal`).  It must follow replies that have not arrived yet, as one may arrive in the step after its deadline.

**`MasterProofs`** (`MasterAssumption`: configurations are tables in tables named by texts, nothing else is asked of them;
`EmittersAssumption`: capacities are positive).  The inductive invariant is

    MasterInv == IngestInv /\ AccountInv /\ FeedInv /\ FreshInv /\ CountInv /\ BoundInv

- `IngestInv`: what each generation runs is what it loaded (`Loaded`); the agent measures what a generation allowed it
  (`AgentInv`); the outbox ascends and ends with all that is not acknowledged (`OutboxInv`); a request is the beginning of it
  (`RequestInv`); and of the rounds handled, acknowledged ones included, each was recorded, failed or was
  rejected (`SeriesInv`).  The store drops what is not newer than the series, so it must also hold that whatever is not newer has been
  answered before, which rests on the agent's keys being distinct (an agent's key ends with `@` and its name; `PathOf` is a recursion over
  the address, of which `RecPath` is the equation).  `IngestIsAccounted` follows.
- `AccountInv`: each sink is in order and within its capacities (`SinkInv`), and an emission has one place among what sinks
  hold, what came out and what was lost (`PlaceInv`).  "In one place" is proved of sets, `Placed` and `Everywhere`; that the
  numbers of places sum to 1 is a last step (`OnePlace`).  What happens to a sink is one of a few moves: taking a round, taking from the queue into the
  hand, passing on, losing.
- `FreshInv`: unless an answer was lost, slots rise per key.  An agent's round is recorded and emitted before it is acknowledged, so the rounds it has yet
  to send must be newer than all that was emitted (`Ahead`), and no handler may be left over from before a reload (`Unheard`).
- `CountInv`: the counter of a key is the number of its emissions, its slot the newest of them.

`MasterTypeCorrect` and `SinksAccountForAll` follow.  `ConfigMeans` (the property `ConfigIsMeant`) needs of the invariant only that `Load` is the one step to a new
generation; the rest is about one configuration, of any shape (`AcceptedIsMeant`):

- `Here` recurs from a section to its parent.  `Said` is its closed form, each setting from the closest section that gives it; it solves the
  equation `RecHere`, and so is what the recursion computes.  What a leaf has (`LeafInherits`) and that it is measured
  (`LeafMeasured`) follow from it and from `Wrong` refusing the rest.
- Two paths without slashes in their names are one only if the addresses are (`PathsApart`), and a key is cut at its first `@` (`FirstAt`),
  which is the one before the agent's name, as no path of a target holds any; so keys are apart (`AcceptedKeysApart`).
  An agent's key is storable when the path is and the name is one that gen-agent takes (`KeyStorable`).

Model-checked and not proved:

- Liveness, `DeliveredUnlessTooBig`, `StopsWhenTold`, `FollowsSource` and `SinksRecover`: it rests on fairness and ENABLED, which are
  out of the prover's reach.

## Not modelled

- The text of things: TOML, durations, patterns, urls, packets, metrics lines, pages.  They parse or do not.
- Routing and the templates of the web server, its static files, the web client; the output of the one-shot commands.
- The alerter and the status engine as emitters of `Master`: both know targets by path, and an agent's key is never one, so
  rounds of agents do not reach them.
- Several web clients, and several agents: they share nothing but what is modelled.
- What the kernel buffers for a Graphite sink that stalls without closing: the write then waits.
- The delivery of a notification beyond success or failure.
- Overlapping rounds of one target in the status engine and the alerter: a target has one task, and agents' rounds do not reach them.
- A round number of 65 536 pings or more (`pings as u16`, `icmp.rs:57`): `PingsAssumption`.
- A target a component lists twice: `by_target` then holds the component twice, and the task looks at it twice in a row.

## Plan

1. The hazards no property covers yet: an alert a reload forgets (`alert/mod.rs:142`), a notifier that hangs (`alert/notify.rs:53`),
   a probe whose duration overflows (`probe/exec.rs:74`).
2. The safety part of what liveness rests on, as theorems: that whatever waits is heard by an action that stays enabled until it is taken.
