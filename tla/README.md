# Veya in TLA+

Veya is a durable execution runtime for agents. A *run* is one execution of an
agent body; the body's decisions, the tasks they become, the signals that
arrive for it and the external actions its tools perform are all rows in a
store (PostgreSQL, or an in-memory store with the same rules). Any number of
processes read and write those rows: there is no leader, no process keeps
state another one needs, and each may die between any two transactions. The
code is correct if what the rows say survives that.

This directory models that protocol, checks it with TLC on small instances and
proves its safety with TLAPS for every instance. Paths below are relative to
`src/`.

## 1. Inventory

| Component | State | Operations | Correct when |
|---|---|---|---|
| Run engine (`internal/engine/engine.go`, `fanout.go`) | `runs` row (status, version, `available_at`), `run_events` log | `StartRun`, `Advance` (read, resume a wait, ask the body, commit one decision), `park`, `repark`, `dispatch`, `finish` | concurrent callers look like one interpreter of the body; a finished run stays finished; a started run finishes |
| Task engine (`internal/engine/tasks.go`) | `tasks`, `leases` rows | `ClaimTask`, `Heartbeat`, `CompleteTask`, `FailTask` | one current owner, the last attempt's result, a bounded number of attempts |
| Signals (`internal/engine/signals.go`) | `signals` table | `DeliverSignal`; consumption is an event | each taken once, by the wait that asked for it, oldest first |
| Recovery scan (`internal/engine/runtime.go`) | none | republish PENDING tasks, advance runs that are owed a decision, choose the pause until the next scan | nothing is stranded by a crash; no park is slept through |
| Worker loop (`internal/worker/worker.go`) | one claim in hand | receive, claim, heartbeat beside the tool, report | a worker that lost its lease changes nothing |
| Lease reaper (`internal/lease/reaper.go`) | none | requeue or bury a task whose lease expired | takes over exactly the attempts that are lost |
| Outbox relay (`internal/outbox/relay.go`) | `task_outbox` rows | read a batch, publish, mark | every task waiting to be claimed is announced |
| Dispatchers (`internal/dispatch/inproc`, `postgres`, `jetstream`) | a channel; `tasks.available_at`; a stream | `Publish`, `Claim`, `Close` | may lose and repeat, but only where they say so; a PENDING task is claimed in the end |
| Effect executor and ledger (`internal/effects/executor.go`, `reconcile.go`) | `effects` rows | `Execute`: reserve, mark RUNNING, call, record; resolve an ambiguous row | an external action is not repeated unless that is harmless; the row does not lie |
| Effect reconciler (`internal/effects/reconciler.go`) | none | sweep: mark, ask the provider, record | settles what can be settled, never un-settles |
| Operator commands (`cmd/veya/effects.go`, `signal.go`) | none | `effects resolve`, `signal` | a human's ruling is applied to the row they looked at |
| Python SDK (`sdk/python/veya`) | body state, rebuilt by replay | `decide` replays the history and returns the next decision | same history, same decision |
| SDK gateway (`internal/sdk/gateway`) and worker session (`sdk/python/veya/session.py`) | sessions, calls in flight; a thread pool and an outbound queue | register, route a call, answer, stop, close | every caller of a closed session is told; answers reach their own call; a call goes only to a worker it was meant for |
| Stores (`internal/store/memory`, `postgres`) | all of the above | transactions, compare-and-swap on version, status and token | PostgreSQL's concurrent transactions commit what serial ones could |
| Wire conversion (`internal/sdk/wire/wire.go`), tool registry (`internal/tool`) | none | accept or refuse a worker's tools, decisions, failures | what is let in can be carried out; what is unknown is never taken for a promise |
| Static decider (`internal/decider`) | none: history is its memory | decide the next step of a list | moves only with completions |
| Retry policy (`internal/core/tool.go`) | none | delay after the n-th failure | follows its curve, its cap and its jitter |
| HTTP, wiring, migrations, commands, clock, generated code, meeting agent, conformance tests | | | I/O, construction and scripts |

How they interact: every component talks to the others only through the store,
except that the dispatcher carries task identities to workers, the engine asks
the body through the gateway, and the executor calls a provider. The engine,
the scan, workers and senders of signals all call `Advance` on the same run;
the executor, the reconciler and the operator all write the same effect row.

What is hard, and where a test would hardly go: transactions of one run meet
statement by statement in PostgreSQL, where a read may be stale before the next
statement and two transactions may wait for each other; `Advance` is five separate
reads, a round trip and one transaction with nothing held in between; fencing
protects the task row but not the effect row, whose only guard is the status a
write expects; a provider may act after its caller has given up; a released
park and a suspension in the log are two records of one fact; deliveries are
lost, repeated and late by design. `PROJECT.json` lists these hazards one by
one, each at its line.

## 2. Modules

| Module | Models | Composed of |
|---|---|---|
| `TaskLease` | one task from dispatch to outcome: row, lease, outbox, relay, scan, channel, workers, reaper | refines `TaskContract` |
| `TaskContract` | what the runtime promises about a task: attempts one after another, each with one holder, the last one's result | abstract |
| `TaskLeaseProofs` | theorems about `TaskLease`: types, fencing, whose result counts, what the store promises about a task, and the refinement of `TaskContract` | extends `TaskLease` |
| `RunLoop` | one run under concurrent `Advance` callers: waits, signals, fan-out, finishing | takes "a task settles" from `TaskLease`; refines `RunContract` |
| `RunContract` | what the engine promises about a run: one sequential interpreter of the body | abstract |
| `EffectLedger` | one external action: overlapping attempts of `Execute`, the provider, reconcilers, the operator | takes "an attempt may be overtaken" from `TaskLease` |
| `Gateway` | the worker protocol: sessions, the calls routed to them, the process at the other end | says which errors `RunLoop`'s `Decide` and `EffectLedger`'s call start from |
| `MemoryStore` | what the engine believes of its store: whole transactions, one after another, as the in-memory store runs them | abstract |
| `PostgresStore` | the same transactions as the statements they send, on several connections at READ COMMITTED | refines `MemoryStore` |
| `Dispatchers` | relay, scan and workers around the JetStream and PostgreSQL dispatchers | takes claims and reports from `TaskLease` in short form |
| `Joins` | when a fan-out has finished waiting | used by `RunLoop` and `Wire` |
| `Wire` | what the runtime makes of a worker's messages and declarations | used by `Gateway` |
| `StaticDecider` | the decider that walks a list | |
| `Timing` | retry delays and the recovery loop's pauses | used by `MCDispatchers` |
| `RunLoopProofs`, `EffectLedgerProofs`, `GatewayProofs`, `DispatchersProofs`, `PostgresStoreProofs` | theorems about the module each is named after | each extends its module |
| `WireProofs`, `TimingProofs` | theorems about `Wire`, `Joins`, `StaticDecider`; about `Timing` | |
| `MCTaskLease`, `MCRunLoop`, `MCEffectLedger`, `MCGateway`, `MCPostgresStore`, `MCDispatchers` | instances for TLC | |

In every module but `PostgresStore` a store transaction is one action, which is
what `PostgresStore`'s refinement of `MemoryStore` (proved, `StoreImplementsMemory`)
justifies for the writes to runs, tasks, leases, events, deliveries and signals;
whatever lies between two transactions, or between a read and the write that
uses it, is a separate action, so that others act there and the process may
die there. Definitions named `Fault...` are plausible mistakes in the code; no
specification uses them, and each must break the property it is paired with in
`PROJECT.json`.

### TaskLease

`task[t]`, `lease[t]` and `outbox[t][k]` are the rows (`k` is the attempt number
the delivery was enqueued at), `history[t]` the events about the task, `queue`
the channel, `batch`/`sent` the relay's batch between read and mark, `scan` the
recovery scan's list, `worker[w]` a worker loop with the token it was given,
`beats` the heartbeats sent and not yet committed. `announced` is a history
variable.

Actions follow the code: `Dispatch`; `RelayReads`, `RelayPublishes`,
`RelayPublishFails`, `RelayMarks`, `RelayStops`; `ScanReads`, `ScanPublishes`;
`Receive`, `ClaimTask`, `ClaimRefused`, `ClaimErrors`; `Heartbeat` and the three
ways it comes back; `ToolReturns`, `CompleteTask`, `FailTask`, `ReportRejected`,
`ReportErrors`; `Reclaim`; and the environment: `LeaseExpires` (at any moment,
which covers slow workers and skewed clocks), `BackoffElapses`, `RuntimeCrash`
(the channel and the batches are lost), `WorkerCrash` (the claim in hand is lost;
its lease then expires).

Left out: payloads, the tool, and several tasks competing for a worker (tasks
share only the channel and the workers, and `Tasks` is a parameter of the
proofs).

### RunLoop

`run` is the row with its version and `available_at`, `history` the log, `task[k]`
whether task `k` is in flight or settled, `stored` the signals table, `due` the
instants that have passed, and `caller[c]` how far one goroutine's `Advance`
has got and what it read on the way. A caller's snapshot of the history is a
prefix, so it is kept as a length. An instant is written as the number of the
step that set it.

`stored` is in the order of commits; the order in which waits take signals is not
that one. The store sorts by `created_at`, then `signal_id`, and `created_at` is the
clock of the process that delivers the signal, read before its INSERT. The constant
`Rank` is a signal's place in that order. Nothing relates it to when a signal is
stored, so overlapping deliveries, skewed clocks and equal stamps are all covered;
since any sender may store its signal at any time, one rank is enough for TLC, and
the proofs are for all of them.

`Program` is the agent body as the sequence of durable steps it awaits (a call,
a fan-out with its join, a sleep, a wait with or without a deadline, each
catching its failure or not) and `Ending` what it does after the last. `Position`
and `Decision` are `Agent.decide` of the Python SDK on such a body: replay from
the top, stop at the first step history has no answer for.

`GetRun`, `ReadHistory`, `NotWaiting`/`CheckWait`, `Repark`, `Release`, `ReGetRun`,
`ReReadHistory`, `StillJoining`, `Decide` (and the two ways it fails) and then one
of `Dispatch`, `Park`, `Finish` are one `Advance`. `StartRun`, `ScanOnce`,
`CompleteTask`, `FailTask`, `SendSignal`/`DeliverSignal` begin one. `Bury` is the
reaper's, and advances nobody. A caller may die anywhere.

Left out: payload comparison during replay, a body whose control flow depends
on results, several runs (they share nothing but the store).

### EffectLedger

`effect` is the row's status, `attempt[a]` the `Execute` of the task's `a`-th
attempt, `request[a]` what became of the request it sent, `acts` how often the
provider acted, `forgotten` whether the provider's key retention has lapsed,
`sweep[r]` a reconciler's `settle`, `command` the operator's `effects resolve`.
`ahead` is how many other unresolved rows were updated before this one: a sweep reads
`Batch` rows (50 by default), oldest `updated_at` first, so this one is among them only
if fewer than `Batch` are ahead (`UnresolvedEffects`). A write to this row puts it
behind others (`Writes`; more may be ahead than before, up to the bound `Backlog`);
other rows are settled or written at any time, or never (`OthersMove`).
`ruled` is a history variable. Attempts overlap freely: a lease may lapse under
a worker at any point, and nothing tells a call already under way.

`Reserve`, `LoadExisting`, `MarkUnknown`, `Resolve`, `Query`, `RecordReconciled`,
`MarkRunning`, `CallSent`/`CallNotSent`, `CallAnswered`/`CallUnanswered` and
`RecordOutcome` are `Execute`; the `Sweep...` actions are the reconciler;
`ResolveReads` and `ResolveWrites` the operator's command. The provider
(`ProviderActs`, `RequestLost`) is external: it may act after its caller has
given up, it deduplicates if the class says so and it still remembers the key,
and it answers lookups truthfully as of the moment it is asked. The operator is
assumed to be truthful in the same sense. A sweep asks about any tool that has a
reconciler, whatever its class; that no UNRECONCILABLE tool has one is assumed
(the registry does not enforce what the class says).

Left out: tools of class NONE (no row), responses and references, the EFFECT
events (nothing reads them to decide), the age a row must reach before a sweep
looks at it (any row may be old enough).

### Gateway

`session[i]` is the i-th session to register: how far its stream handler has got
(`pump`), whether the stream is alive, what the worker declared, whether it is
closed or its worker stopping, and the call counter. `listed` is `byAgent`,
`pending[i]` the table of waiting calls, `down`, `running` and `up` the requests on
the way, in the worker's pool and the answers on the way back, `call[c]` how far
a call has got, `reply[c]` its channel. `ran` is a history variable.

`Register`, `Acknowledge`, `PumpReads`, `PumpEnds` and `Remove` are the stream's
handler; `WorkerReads`, `HandlerActs`, `HandlerAnswers`, `HandlerCannotAnswer` and
`WorkerStops` the Python worker; `MakeDecide` or `LookupTool`, then `PickDecider` or
`PickForTool`, `BeginCall`, `SendRequest` and one of `ReceiveReply`, `ContextEnds`,
`SessionDone` are one call. `StreamDies` at any moment: a broken connection, a
drain that timed out, a worker killed with or without its handlers.

A registration is accepted or refused by `Wire`'s rules (`RegistrationAccepted`),
and what a failure proves is `Wire`'s `Failure`. The checks of the protocol version
and of an empty agent name or version are left out: they refuse more, in the same
way. `RightWorkerActs` compares a worker with the class its caller was given at
`Lookup`; the ledger row of an earlier attempt may have been written under an older
class.

Left out: several agents and tools, whose turn it is (round-robin picks one of
the candidates; the model lets it be any), the size of the worker's pool.

### MemoryStore and PostgresStore

`MemoryStore` has the working copy `db` of one run and one of its tasks, and one
action per transaction of the engine and the reaper: `ClaimTask`, `CompleteTask`,
`FailTask`, `Heartbeat`, `Reclaim`, `Dispatch`, `Park`, `Finish`, `DeliverSignal`. Each is
composed of the functions of `core.Tx` it calls. A transaction that returns an
error discards its copy and is no step.

`PostgresStore` has the committed `rows`, `events`, `outbox` and `signals`, and per
connection `tx[s]`: which statement of which transaction is next (`Program`, in the
order the engine sends them), the rows it has written, the keys it has inserted,
the locks it holds and what it has read. Each statement is an action. A plain
SELECT (`GetTask`, `GetLease`, `NextSeq`) takes no lock; an UPDATE or a SELECT FOR
UPDATE waits for the holder and re-evaluates its condition on what was
committed; an INSERT waits for an uncommitted insert of the same key and fails
if it commits; the foreign key of `events` and `signals` locks the run's row FOR
KEY SHARE. A circle of waiting sessions is broken by aborting one of them, and a
connection may be lost at any statement. The lock table, snapshots and waits
are PostgreSQL's and are marked external. `claimed` holds the tokens whose
worker has not reported; `last` is the transaction just refused and its error.

Every process reads its own clock, and a lease is written with one and judged with
another (`tasks.go:46,107,181`, `leases.go:98`). `now` is the clock that is furthest
behind, and no clock is more than `Skew` ahead of it: a statement uses any instant
from the one read when the clock was read to `now + Skew` (`Instants`), and a sweep of
the reaper begins at any instant of `now..now + Skew`. `Skew` is assumed to be smaller than
`LeaseTTL`. That is needed, not a convenience: with equal values TLC shows a reaper
taking away the lease of an attempt claimed after it read the task's row, with the
attempt count of the one before (`DecidedOnCurrentRow` fails). The default lease
is 30 s.

A heartbeat's context is cancelled before its worker reports, and `database/sql`
rolls such a transaction back, so a heartbeat does not begin to write after its
report has begun; the memory store ignores contexts, and there it may
(`TaskLease` covers that case).

Left out: the effect table (its transactions are single conditional statements,
which `EffectLedger` has), read-only lists, migrations.

### Dispatchers

One deployment with either transport. `queued` and `unacked` are copies of a
message in the JetStream stream and in the hands of a consumer, `hidden` is the
visibility timeout of the PostgreSQL poller, `due` and `backingOff` are unpublished
outbox rows, `relay` the two lists of a sweep in progress. `Junk` is a message
that does not decode. `lost` is a history variable: the delivery was dropped by the
stream's age limit, by a worker that died between acknowledging and claiming, or by
a claim that failed, since `Publish` last succeeded.

`RelayPublish`, `RelayMark`, `Scan`; `Take` (PostgreSQL) and `FetchOne` (JetStream,
which terminates an unreadable message and acknowledges a readable one before
it is claimed); `ClaimTask`, `ClaimErrors` (a store error or `ErrLeaseHeld`: the worker
logs it and goes on), `Report`, `WorkerDies`, `Reclaim`, `Close`, `Restart`; and the
timers `BackoffElapses`, `VisibilityElapses`, `AckWaitElapses`, `MaxAgeDrops`. Crashes, lost
answers and drops share one budget, `MaxFaults`.

### Joins, Wire, StaticDecider, Timing

Pure functions, one operator per function of the source. A conversion is
modelled by what it accepts and what it makes of it: an unset field has
protobuf's zero value, an enumerator this build does not know is refused or
asserts nothing. `JoinString` and `joinFrom` are the passage of a join policy
through the event that records it, where only a quorum keeps its number.
Instants in `Wire` are 64-bit. `Timing` gives fractions as numerator and
denominator and rounds where the code computes in floating point.

## 3. Runs

| Run | Checks | States | Why the bounds are enough |
|---|---|---|---|
| `task_lease` | `TypeOK`, `OneCurrentOwner`, `LatestAttemptWins`, `HistoryAgreesWithRow`, `RetryBudget`, `DeliveryIntent`, `SettledIsFinal`, `TokensGrow`, refinement of `TaskContract`, `EveryTaskSettles` | 344,333 | two workers and two attempts give an old and a new owner at every stage, a duplicate delivery in a channel of depth two, a lost channel, a retry with and without backoff, a burial |
| `run_signals` | `TypeOK`, `OneTimeline`, `TakenInOrder`, `WakesAreOwed`, `ParkMatchesHistory`, `FinishedStaysFinished` | 508,842 | two waits on one name, the second with a deadline; three signals, one under another name, each stored at any time whatever its rank, so that a signal may come early, late, twice, in vain or as the run finishes; two callers, one of which may die |
| `run_tasks` | `FinishedStaysFinished`, refinement of `RunContract`, `RunSettles` | 133,222 | an ANY join whose loser outlives it, a sleep, a cancel, burials; two callers and one crash anywhere |
| `effects` | `TypeOK`, `IntentFirst`, `UnreconcilableActsOnce`, `CommittedIsTrue`, `CompletedIsRecorded`, `CommittedIsFinal`, `QueryableSettles` | 757,800 | two overlapping attempts, a reconciler and an operator, every class: each pair of writers meets at every status; a batch of one and one other row, so that the row is in a sweep's reach and out of it |
| `gateway` | `TypeOK`, `AnswersMatch`, `CertaintyIsHonest`, `NobodyWaitsOnClosed`, `RightWorkerActs`, `GoneIsTold` | 582,659 | two calls in flight on one session or on two, of different kinds; the second session serves the same body without the tool or is a deploy of another version that reclassifies it, and three registrations must be refused, at either; each session may say goodbye or break at any step |
| `pg_store` | `TypeOK`, `DecidedOnCurrentRow`, `LeaseHeldIsSkew`, refinement of `MemoryStore` | 698,606 | two connections run any two of the nine transactions against each other, statement by statement, one after another for the whole life of a run and a task with two attempts; leases of two ticks expire, clocks differ by one, the clock is read before a lock is waited for, a signal id is delivered twice, a version is stale |
| `dispatch` | `TypeOK`, `NothingUnaccounted`, `EveryPendingTaskIsClaimed`, `PoisonLeaves` | 133,151 | both transports; two workers, three attempts, two copies of a message and three faults, so that any two faults meet and a third follows; tasks share only the workers, so one is enough |

`run_tasks` uses no symmetry because it checks a liveness property; `pg_store`
treats its connections as interchangeable.

The `ASSUME`s of the modules state what the proofs need of the constants; TLC
evaluates each on the run of its module. Two are facts rather than conditions:
`DecisionsAreReachable` (`MCGateway`: every kind of decision is accepted in some
form and refused in another, so that the theorems about accepted decisions speak
of something) and `BackoffFollowsPolicy` (`MCDispatchers`: the retry delay equals
initial * multiplier^(n-1) cut off at the cap, less at most the jitter's share,
for 800 policies and four attempts).

The remaining runs each show a sentence of the repository that the code does
not keep; TLC finds the behaviour described.

| Run | The repository says | What happens |
|---|---|---|
| `run_missed` | un-parking in the signal's transaction makes the wake-up transactional (`engine/signals.go:53`) | `repark` compares a version that `ReleaseRun` does not change; it overwrites the release, and the run sleeps on a wait whose signal is stored |
| `run_buried` | a task that used its last attempt fails the run on the next advance (`lease/reaper.go:255`) | no failure is recorded and nobody advances; the scan then asks for the same task for ever |
| `run_escalated` | an escalated task stops the run whatever shape it is in (`engine/tasks.go:241`) | recording the escalation and failing the run are two transactions; an `Advance` between them completes the run |
| `effect_twice` | the unique constraint on the key prevents a duplicate external call (`README.md:403`) | a lookup says "not executed" while the earlier attempt's request is on its way, and the action is performed again |
| `pg_dropped` | a deadlock means "read again and retry", "which is exactly what ErrConflict tells the caller to do" (`store/postgres/errors.go:84`) | `CompleteTask` locks task, then lease, the reaper lease, then task; when PostgreSQL aborts the completion, its `ErrConflict` is logged as a task that is no longer running (`engine/tasks.go:123`) and the result of a worker that still owns the task is dropped |

Six more counterexamples have a configuration, to be run by hand:

- `MCRunDeadline.cfg` (`DeadlineKept`): `wait_for` with a timeout raises when the
  deadline passes (`agent.py:429`), but a caller that released the previous wait
  re-reads the run and issues a wait another caller has already recorded, this
  time without its deadline.
- `MCEffectFailed.cfg` (`FailedIsTrue`): FAILED means it definitely did not happen
  (`core/effect.go:55`), but an attempt's "nothing was sent" is written over a row
  that stands for another attempt's request too.
- `MCDispatchBackoff.cfg` (`BackoffIsKept`): `task_outbox.available_at` delays a retry's
  redelivery (`README.md:1436`), but the scan republishes every PENDING task
  (`engine/runtime.go:156`) and the PostgreSQL poller looks at `tasks.available_at`,
  which a retry does not set (`dispatch/postgres/postgres.go:187`).
- `MCRunOrder.cfg` (`TakenAsTheyArrived`): a wait consumes the signals of its name in
  arrival order (`core/storetest/signals.go:109`, `migrations/0004_signals.sql:27`), but
  they are taken by `created_at`, the sender's clock before its insert
  (`store/postgres/signals.go:54`): one that arrives second may be taken first. What
  does hold is `TakenInOrder`: no signal is taken past one that was both sent and
  stored before it.
- `MCEffectStarved.cfg` (`UnsettleableStopsNone`): the reconciler settles effects no live
  task will ever settle, and one unsettleable effect must not stop the others
  (`effects/reconciler.go:13,148`), but a row it cannot settle keeps its `updated_at`
  and so its place; once such rows fill the batch (`reconciler.go:136`), an effect the
  provider could answer for is never read again.
- `MCPostgresSkew.cfg` (`DroppedClaimIsRedundant`): a claim refused with `ErrLeaseHeld`
  means that "another worker got there first, or this is a redundant delivery"
  (`worker.go:150`), but a claimer whose clock is behind the last owner's meets the
  released lease: the task is PENDING, nobody has claimed it, and its delivery is
  dropped. `tasks.go:28` admits skew, and the scan repairs it.

Further sentences that the models contradict, for which no run is kept because
less depends on them: a caller that released a timer may append a second
RUN_COMPLETED, and a wait may be recorded twice in the log (`engine.go:484`: the
re-read run's status and pending wait are not looked at; neither changes the
outcome, except for the deadline above); a heartbeat in
flight may re-extend a lease its worker has just released (`worker.go:168`;
in the memory store only, it delays the next claim until the lease lapses); a run may be
parked with tasks in flight after an ANY or QUORUM join (`core/run.go:37` says
never); a signal may be stored after its run has finished (`signals.go:41`).

Observations on dispatch: `jetstream.go:30-35` calls a delivery lost after its
acknowledgement "a latency cost on a path that only runs after a crash"; a claim that fails
(`worker.go:157`), or that is aborted by a deadlock and dropped as a conflict, loses it
without one. The scan repairs all of them, within its interval.

Observations on the stores: under READ COMMITTED `ClaimTask` returns the task row it
read before its own update, so the attempt number a worker is given may be one
behind, in the TASK_CLAIMED event too, if a whole attempt ran in between.
`memory.go:29` takes it that a caller
correct under serialization is correct under a weaker level too; here the
caller's copy differs and the row does not, which is what `ImplementsMemory` says.

Observations on conversions and timing: a tool's key retention is a number of
seconds multiplied by 10^9 in 64 bits (`wire.go:182`) and may wrap; a retry
policy without a cap outgrows a `Duration` (`core/tool.go:148`); a park that falls
due between the scan's clock reading and the question to the store is not in
the answer and waits for the next scan, at most one interval.

Observations on the worker protocol, all behaviours of `Gateway`: a handler that
fails while building its reply only logs it (`session.py:263`), and since a
`Decide` has no deadline the caller waits until the worker leaves; `stop` queues
the goodbye at once, so calls still being handled become ambiguous, although
`serve.py:86` speaks of letting the session finish; a worker that leaves while it
decides fails the run, since `ErrWorkerGone` is not `ErrUnavailable`
(`decider.go:52`).

Deadlock checking is off where the system may rightly stop: a run that has
finished, a task that has settled, a wait nobody signals.

### Fairness

Used only for the liveness properties.

- `TaskLease`: the scan, the reaper and the worker loops run on tickers and
  loops, so whatever they can keep doing they do (weak fairness; `GoesOn` is a
  worker that has a delivery); a lease that is no longer renewed lapses; a tool
  returns. Strong fairness on some worker taking from the channel and on
  claiming says that not every delivery is lost to a crash. The relay needs
  none: the scan alone suffices, which is its purpose.
- `RunLoop`: the scan runs, a caller between two steps goes on unless it dies, the
  clock runs, not every attempt to reach the body fails, and a task settles
  (which is what `EveryTaskSettles` says). The scan reads at most 100 runs,
  ORDER BY `run_id`; that this one's turn comes is part of the assumption, and holds
  while the runs in front of it can be advanced. No sender is obliged to send. `EagerSpec`
  assumes more (every caller reaches the body, every instant comes), so that the
  two temporal counterexamples, `run_missed` and `run_buried`, are not excused by
  somebody who was left behind.
- `EffectLedger`: an `Execute` that has begun goes on or dies; the sweep runs on
  a ticker; lookups of a provider that can be asked and the reconciler's own
  transactions do not fail for ever. Each of these speaks of a row the sweep has
  read, and reading needs fewer than `Batch` rows ahead. Nothing makes the other rows
  move: `QueryableSettles` promises a settlement only if the batch is not filled again
  and again by rows ahead, and `MCEffectStarved.cfg` shows that the exception is real. The provider is obliged to nothing.
- `Gateway`: the gateway's own goroutines run, one per session and one per call.
  No worker is obliged to answer, and no context to end.
- `Dispatchers`: the scan, the reaper and the workers' loops run, a claim or report
  under way ends, the visibility and acknowledgement timers fire, a process
  that stopped is restarted. Not every claim fails (failed claims count against
  the fault budget). The relay and the backoff timer need no fairness,
  and a stream may go on dropping what it holds while the fault budget lasts.
- `PostgresStore` has only safety properties.

## 4. Proofs

`TaskLeaseProofs` proves, for every set of tasks and workers, every retry budget
and every channel depth (assumptions: `NoTask` is not a task, the budget and the
depth are positive):

- `TypeCorrect`: `Spec => []TypeOK`. `TypeOK` is not inductive, because nothing in
  it stops a claim from counting past the budget. `TypeInv` adds `AttemptLeft`
  (a task that can still be claimed has an attempt left; this is where
  `Exhausted` at the failure and at the reclaim matters) and `BusyWithTask` (a
  worker that is not idle names a task).
- `Fencing`: `Spec => []OneCurrentOwner`. The invariant is inductive given
  `TypeInv`, and the shape of the proof is the argument for fencing tokens.
  Every action either keeps all tokens and adds no holder (`OwnerFrame`), or
  raises one task's token above every token in anybody's hands (claim and
  reclaim), or ends the one holder of the current token together with its
  task's RUNNING status (the reports, `OwnerAfterReport`).
- `ResultIsLatest`: `Spec => []LatestAttemptWins`. A TASK_COMPLETED is appended
  only under the current token, when `OneCurrentOwner` says that the reporter
  holds the attempt the row is on; after it the row is COMPLETED and no
  action appends anything.

The second half of the module is what the store promises about a task. Nearly all of
it follows from one lemma, `StoreSteps`: for all its workers, relays, scans and
crashes, the system moves a task's row and its log in five ways (created,
claimed, completed, put back, buried) or not at all, and one task at a time.

- `SettledForGood` (`SettledIsFinal`): none of the five ways starts at a settled row.
- `RowAndLogAgree` (`HistoryAgreesWithRow`): each way appends the event that says
  where the row now stands.
- `BudgetHolds` (`RetryBudget`): the claims in the log carry distinct attempt
  numbers, none beyond the row's, and the row's never exceeds the budget.
- `TokensOnlyGrow` (`TokensGrow`): an action property, from `TypeInv` and
  `OneCurrentOwner`, which bounds every token in anybody's hands by the lease's.
- `DeliveriesAreOwed` (`DeliveryIntent`): the strengthening says that what a relay
  is about to mark as published was accepted by a `Publish`.
- `LeasesImplementContract` (`Spec => ImplementsContract`): each of the five ways is
  a step of `TaskContract` under the refinement mapping, everything else a stutter.

`RunLoopProofs` proves, for every agent body, every set of callers and signals and
any number of crashes (assumptions: the body is a finite sequence of steps of the
known kinds, a fan-out has a join the wire accepts, `NoSignal` is not a signal,
`Rank` gives every signal a place of its own):

- `RunInvariant` (`[]RunInv`), on which the rest stands. `Advance` reads, asks and
  commits with nothing held in between; what makes the commit sound is that whatever
  is appended to the log, except a task's outcome, comes with a new version. So a
  caller whose version is still the row's has missed task outcomes only
  (`OnlyOutcomesMissed`), and those change neither the open wait nor the step the
  body stands at, unless that step's own task has settled, which the task's row
  tells. `Follows` says of each caller that what it carries (a repark, a wake-up, a
  decision) is what the history it has read calls for; `TaskLog`, `NothingAhead` and
  `BegunFirst` relate rows and log: nothing exists of a step the body has not
  reached. `StoreMove` lists the seven ways the store changes, and for each the
  body's position moves by at most one.
- `TypeCorrect` (`TypeOK`), `RunNeverForks` (`OneTimeline`), `WakesAnswer`
  (`WakesAreOwed`), `ParkAgrees` (`ParkMatchesHistory`) are parts of that invariant;
  `EndIsFinal` (`FinishedStaysFinished`) is an action property that follows from it.
- `SignalsTakenInOrder` (`TakenInOrder`): a caller about to take a signal was right
  when it looked (nothing before it, in either order, was untaken in the history it
  had read), whatever is stored later arrives after it, and a commit with a current
  version has missed no taking.
- `EngineImplementsContract` (`Spec => ImplementsContract`): the seven ways are steps
  of the one sequential interpreter of `RunContract`.

TLC has checked `RunInv` as an invariant of both configured instances and of two
more bodies (a wait before a fan-out, an uncaught failure).

`EffectLedgerProofs` proves, for every set of classes and reconcilers and every
number of attempts (assumptions: the classes are among the three that have a row, at
least one attempt):

- `TypeCorrect`: `TypeOK` bounds how often the provider has acted, which is not
  inductive. `TypeInv` adds that attempts are claimed in turn, that an attempt that
  has not sent has no request, that `load` finds a row, and that the provider has
  acted at most once per request (`ActsAreAnswered`, by cardinality).
- `WriteAhead` (`IntentFirst`), `CommittedIsEvidence` (`CommittedIsTrue`),
  `CompletionIsRecorded` (`CompletedIsRecorded`): `LedgerInv` adds `Evidence`, which
  says of everybody about to write COMMITTED that the action has been performed.
- `CommittedStands` (`CommittedIsFinal`): every write names the status it expects,
  and none expects COMMITTED.
- `UnreconcilableOnce` (`UnreconcilableActsOnce`): `Exclusive` says that of such a
  class at most one attempt is past `MarkRunning`, that nobody ever gets as far as
  asking the provider, and that the others can no longer reach the call.

`GatewayProofs` proves, for any finite number of calls (`CallAssumption`), any number
of sessions and whatever the workers declare:

- `GatewayInvariant` (`[]GatewayInv`). A call's record forgets its session and its
  id when it returns, while its request may still be on the wire or in a handler.
  So the invariant speaks of the requests themselves: what bears the id of a
  waiting call is its own (`IdsAreOwn`), a request is in one place (`OneRequest`),
  and once answered it is nowhere (`AnswersAreTrue`). Ids are not reused because the
  counter is at or above every id in circulation (`IdsGiven`); it stays bounded
  because each call takes one (`IdsLast`), which is the only use of the finiteness
  assumption.
- `TypeCorrect` (`TypeOK`), `RepliesReachTheirCalls` (`AnswersMatch`), `ClaimsHold`
  (`CertaintyIsHonest`), `ClosedWakesAll` (`NobodyWaitsOnClosed`), `OnlyTheRightWorker`
  (`RightWorkerActs`) follow from it.

`DispatchersProofs` proves, for every set of tasks and workers and every bound:

- `TypeCorrect`: `TypeInv` adds `AttemptLeft`, `RowPerAttempt` (outbox rows on the
  books never outnumber the attempts), `SweptIsDue` (a sweep marks rows that are
  still there) and `OneRunner` (one worker runs a task, and its row says so).
- `NothingIsDropped` (`NothingUnaccounted`): the invariant counts the outbox rows that
  remain when the sweep in progress has marked its own (`Owed`); a PENDING task has
  one of those, or a message, or a worker with the message in hand, or was
  dropped at one of the three places. It is stated of JetStream only: with PostgreSQL
  the PENDING row is itself the queue.

`PostgresStoreProofs` proves, for any number of connections and signals, every retry
budget, lease duration, skew and bound (assumptions: budget, duration and the version's
bound are positive, the clock's bound is a natural number, the skew is smaller than the
lease's duration):

- `StoreInvariant` (`[]StoreInv`), on which the rest stands. `Sound(s)` says of one
  transaction in progress what its next statement makes of its kind: the locks it
  has taken (`Locked`) and the rows it has written (`Wrote`), so that a drafted row is
  a locked one; that a drafted transition starts from the committed row and a
  drafted lease from the committed token (`TaskDraft`, `LeaseDraft`, `RunDraft`); that
  its events carry the numbers after the end of the log (`LogDraft`); and, of the
  task row it read without a lock, that it is the committed one whenever the
  transaction can still go through (`Reads`). `Apart` says that two transactions
  never hold the same row or number. One case needs more than locks: the reaper
  reads the task's row, then acquires the lease with the instant at which its
  sweep began. A claim or a heartbeat that commits in between leaves a lease that
  expires after that instant (`Outlives`; here the skew must be smaller than the
  lease's duration), so the reaper finds it held and gives up,
  and the attempt count it read is never used for another attempt. `Counted` bounds
  tokens, deliveries and versions by the attempts; `Unowned` says that a task that
  waits for a claim has neither a lease beyond `now + Skew` nor a worker that can extend one.
  Locks are what makes the induction go through: nobody commits to a row another
  transaction has drafted (`OthersKeep`).
- `TypeCorrect` (`TypeOK`), `DecisionsAreCurrent` (`DecidedOnCurrentRow`) and
  `HeldLeasesAreSkew` (`LeaseHeldIsSkew`) follow from it: the first from `Reads`,
  `LeaseDraft` and the locks held at the end, the second from `Unowned`.
- `StoreImplementsMemory` (`Spec => ImplementsMemory`): a commit is one of six things
  (`Commits`), each of which is a transaction of `MemoryStore` at the instant the
  statement used; no other step changes what is committed.

TLC has checked `StoreInv` on the instance of `pg_store`, and by simulation with three
connections.

`WireProofs` proves, for every message a worker can send (any strings, any number
of calls, any 64-bit instants) and every history:

- `JoinStaysSatisfied`: a join that is over stays over as more children settle;
  by cases on the policy.
- `AcceptedFanOutJoins`: a fan-out the wire accepts has a join that is open at the
  start and over at the end, also after history has recorded and returned it.
  It rests on `JoinOpensAndEnds` (every valid policy has both exits) and
  `JoinSurvivesHistory` (what `String` wrote, `joinFrom` reads).
- `AcceptedSuspensionIsScheduled`: no 64-bit instant reaches the sentinel year
  9999, so only a wait without a deadline is parked for ever.
- `WireRuleIsRegistryRule`: the wire's rule for tools is the registry's, which is
  what its comment claims.
- `StaticMovesWithCompletions`: appending an event moves the static decider by one
  if it is a completion and not at all otherwise, by cardinality of the set of
  completions.

`TimingProofs` proves `ScanPausesAreBounded` (a pause lies between its positive
floor and the interval, whatever the store answers) and `ParkedRunsAreMet` (a park
that lay ahead when the store was asked is met by its instant, or one floor after
the pause was computed).

Only model-checked:

- liveness (`EveryTaskSettles`, `RunSettles`, `QueryableSettles`, `GoneIsTold`,
  `EveryPendingTaskIsClaimed`, `PoisonLeaves`): the prover does not handle fairness;
- the retry curve (`BackoffFollowsPolicy`): what a recursive function computes
  needs an induction, which the installed provers cannot do;
- what the constants of a run instantiate (`DecisionsAreReachable`).

## 5. Not modelled

- Wiring, commands, the HTTP layer's authentication and status codes, migrations:
  construction and I/O. What the `signal` and `effects resolve` commands do to the
  store is modelled.
- Generated protobuf code, and the parts of `wire.go` that copy a history event
  field by field.
- The conformance suite (`internal/core/storetest`): tests, read as statements of
  what the stores promise.
- The meeting agent and its tools: a script.
- Isolation anomalies between different runs: every transaction touches one run.
- Fairness of the gateway's round-robin between workers (one cursor per agent is
  shared by all versions).
- Payload comparison in the Python SDK's replay and its determinism lint.

## 6. Plan

Done: `TaskLease` and `RunLoop` with their contracts, `EffectLedger`, `Gateway`, the
two stores and the refinement between them, the cross-process dispatchers, the
pure functions; theorems for every safety property of every state machine and for
all three refinements.

What would extend it: several runs sharing a gateway session, with the round-robin
as it is; the effect rows' statements in `PostgresStore`; replay with payload
comparison in `RunLoop`'s `Decide`.
