---------------------------- MODULE Dispatchers ----------------------------
(***************************************************************************)
(* The two dispatchers that cross processes, internal/dispatch/jetstream   *)
(* and internal/dispatch/postgres, between the outbox relay and the        *)
(* recovery scan on one side and the workers' Claim on the other.          *)
(*                                                                         *)
(* JetStream is a work queue: Publish waits for the server's confirmation, *)
(* a message is acknowledged before the task is claimed, an unacknowledged *)
(* one comes back, and an old one is dropped.  PostgreSQL has no queue:    *)
(* the tasks table is one, Publish does nothing, and taking a task pushes  *)
(* its available_at forward.                                               *)
(*                                                                         *)
(* Time is left out: what a timer allows is an action of its own.          *)
(***************************************************************************)
EXTENDS Integers, FiniteSets

CONSTANTS
    Tasks, Workers,
    Junk,         \* a message this build cannot read
    Transports,   \* which dispatchers the instance covers
    MaxAttempts,  \* tries a task gets
    MaxCopies,    \* bound: copies of one message in the stream
    MaxFaults     \* bound: crashes, lost answers and dropped messages

Messages == Tasks \cup {Junk}
Nobody == "nobody"

ASSUME DispatchAssumption ==
    /\ Junk \notin Tasks
    /\ Transports \subseteq {"jetstream", "postgres"}
    /\ MaxAttempts \in Nat \ {0} /\ MaxCopies \in Nat \ {0} /\ MaxFaults \in Nat

VARIABLES
    transport,  \* the dispatcher this deployment uses
    status,     \* tasks.status
    attempt,    \* tasks.attempt
    hidden,     \* tasks.available_at lies in the future
    due,        \* unpublished outbox rows that are ready
    backingOff, \* unpublished outbox rows whose available_at lies in the future
    relay,      \* what the sweep in progress has published, and failed to
    queued,     \* JetStream: copies of a message waiting in the stream
    unacked,    \* JetStream: copies delivered and not acknowledged
    worker,     \* where each worker's loop is
    closed,     \* Close was called on the process's dispatcher
    lost,       \* the task's last delivery is gone without a claim
    faults

storeVars  == <<status, attempt, hidden, due, backingOff>>
streamVars == <<queued, unacked>>
vars == <<transport, storeVars, relay, streamVars, worker, closed, lost, faults>>

Idle == [at |-> "claiming", task |-> Nobody]
Dead == [at |-> "dead", task |-> Nobody]

NoSweep == [delivered |-> {}, failed |-> {}]

Fault == faults < MaxFaults /\ faults' = faults + 1
NoFault == UNCHANGED faults

(* Publish.                                                                *)

Stored(t) ==
    /\ queued[t] + unacked[t] < MaxCopies
    /\ queued' = [queued EXCEPT ![t] = @ + 1]
    /\ lost' = [lost EXCEPT ![t] = FALSE]
    /\ UNCHANGED unacked

\* nil means that the message is in the stream; an error does not mean that it
\* is not, since the confirmation may be what was lost.
JetStreamPublish(t, ok) ==
    \/ ok /\ Stored(t) /\ NoFault
    \/ ~ok /\ Stored(t) /\ Fault
    \/ ~ok /\ Fault /\ UNCHANGED <<streamVars, lost>>

\* The committed row is the publish.
PostgresPublish(t, ok) == ok /\ NoFault /\ UNCHANGED <<streamVars, lost>>

Publish(t, ok) ==
    /\ ~closed
    /\ \/ transport = "jetstream" /\ JetStreamPublish(t, ok)
       \/ transport = "postgres" /\ PostgresPublish(t, ok)

(* The outbox relay and the recovery scan.                                 *)

\* RelayOnce, second step: one ready row is published and the sweep remembers
\* how that went.  A closed dispatcher ends the loop with the rest unpublished.
RelayPublish(t) ==
    /\ due[t] > 0 /\ t \notin relay.delivered \cup relay.failed
    /\ \E ok \in BOOLEAN :
          /\ Publish(t, ok)
          /\ relay' = IF ok THEN [relay EXCEPT !.delivered = @ \cup {t}]
                            ELSE [relay EXCEPT !.failed = @ \cup {t}]
    /\ UNCHANGED <<transport, storeVars, worker, closed>>

\* MarkDelivered removes the row from the pending ones; FailDelivery leaves it.
Marked(done) == due' = [t \in Tasks |-> IF t \in done THEN due[t] - 1 ELSE due[t]]

FaultFailuresMarked ==
    /\ relay # NoSweep /\ relay' = NoSweep
    /\ Marked(relay.delivered \cup relay.failed)
    /\ UNCHANGED <<transport, status, attempt, hidden, backingOff, streamVars, worker,
                   closed, lost, faults>>

\* mark: the whole batch in one transaction.
RelayMark ==
    /\ relay # NoSweep /\ relay' = NoSweep
    /\ Marked(relay.delivered)
    /\ UNCHANGED <<transport, status, attempt, hidden, backingOff, streamVars, worker,
                   closed, lost, faults>>

FaultScanFirstAttempts(t) == status[t] = "PENDING" /\ attempt[t] = 0

\* PendingTasks: available_at is the row's own, not the outbox's.
PendingTasks(t) == status[t] = "PENDING" /\ ~hidden[t]

\* ScanOnce publishes every pending task; a failure is only logged.
Scan(t) ==
    /\ PendingTasks(t)
    /\ \E ok \in BOOLEAN : Publish(t, ok)
    /\ UNCHANGED <<transport, storeVars, relay, worker, closed>>

\* A retry's backoff instant passes.
BackoffElapses(t) ==
    /\ backingOff[t] > 0
    /\ backingOff' = [backingOff EXCEPT ![t] = @ - 1]
    /\ due' = [due EXCEPT ![t] = @ + 1]
    /\ UNCHANGED <<transport, status, attempt, hidden, relay, streamVars, worker, closed,
                   lost, faults>>

(* The PostgreSQL dispatcher.                                              *)

Hand(w, t) == worker' = [worker EXCEPT ![w] = [at |-> "has", task |-> t]]

\* One statement: the next dispatchable task, deferred by Visibility.
Take(w) ==
    /\ transport = "postgres" /\ ~closed /\ worker[w] = Idle
    /\ \E t \in Tasks :
          /\ status[t] = "PENDING" /\ ~hidden[t]
          /\ hidden' = [hidden EXCEPT ![t] = TRUE]
          /\ Hand(w, t)
    /\ UNCHANGED <<transport, status, attempt, due, backingOff, relay, streamVars, closed,
                   lost, faults>>

VisibilityElapses(t) ==
    /\ hidden[t]
    /\ hidden' = [hidden EXCEPT ![t] = FALSE]
    /\ UNCHANGED <<transport, status, attempt, due, backingOff, relay, streamVars, worker,
                   closed, lost, faults>>

(* The JetStream dispatcher.                                               *)

\* An acknowledgement, or a termination, that does not arrive leaves the
\* message to be redelivered.
Settle(m) ==
    /\ queued' = [queued EXCEPT ![m] = @ - 1]
    /\ \/ UNCHANGED unacked /\ NoFault
       \/ unacked' = [unacked EXCEPT ![m] = @ + 1] /\ Fault

FaultIgnored(m) ==
    /\ queued' = [queued EXCEPT ![m] = @ - 1]
    /\ unacked' = [unacked EXCEPT ![m] = @ + 1]
    /\ NoFault

\* Unreadable: terminated, so that it does not come back for ever.
Term(m) == Settle(m)

\* DecodeDelivery: the envelope's version is known and it names a task.
Readable(m) == m # Junk

\* fetchOne: acknowledged before the claim is attempted.
FetchOne(w) ==
    /\ transport = "jetstream" /\ ~closed /\ worker[w] = Idle
    /\ \E m \in Messages :
          /\ queued[m] > 0
          /\ IF Readable(m)
             THEN Settle(m) /\ Hand(w, m)
             ELSE Term(m) /\ UNCHANGED worker
    /\ UNCHANGED <<transport, storeVars, relay, closed, lost>>

AckWaitElapses(m) ==
    /\ unacked[m] > 0
    /\ unacked' = [unacked EXCEPT ![m] = @ - 1]
    /\ queued' = [queued EXCEPT ![m] = @ + 1]
    /\ UNCHANGED <<transport, storeVars, relay, worker, closed, lost, faults>>

\* MaxAge: the server drops what nobody fetched in time.
MaxAgeDrops(m) ==
    /\ queued[m] > 0 /\ Fault
    /\ queued' = [queued EXCEPT ![m] = @ - 1]
    /\ lost' = IF m \in Tasks THEN [lost EXCEPT ![m] = TRUE] ELSE lost
    /\ UNCHANGED <<transport, storeVars, relay, unacked, worker, closed>>

(* Workers.                                                                *)

\* The conditional claim: a delivery of a task that is not PENDING is dropped.
ClaimTask(w) ==
    LET t == worker[w].task
    IN  /\ worker[w].at = "has"
        /\ IF status[t] = "PENDING"
           THEN /\ status' = [status EXCEPT ![t] = "RUNNING"]
                /\ attempt' = [attempt EXCEPT ![t] = @ + 1]
                /\ worker' = [worker EXCEPT ![w].at = "runs"]
           ELSE /\ worker' = [worker EXCEPT ![w] = Idle]
                /\ UNCHANGED <<status, attempt>>
        /\ UNCHANGED <<transport, hidden, due, backingOff, relay, streamVars, closed, lost, faults>>

\* The store answers ErrLeaseHeld (a clock behind the last owner's) or an error:
\* the worker logs it and drops the delivery, acknowledged long ago.
ClaimErrors(w) ==
    /\ worker[w].at = "has" /\ Fault
    /\ worker' = [worker EXCEPT ![w] = Idle]
    /\ lost' = [lost EXCEPT ![worker[w].task] = TRUE]
    /\ UNCHANGED <<transport, storeVars, relay, streamVars, closed>>

FaultOneTryTooMany(t) ==
    /\ status' = [status EXCEPT ![t] = "PENDING"]
    /\ due' = [due EXCEPT ![t] = @ + 1] /\ UNCHANGED backingOff

\* Back to PENDING with an outbox row, ready at once or after a backoff.
Requeue(t) ==
    /\ status' = [status EXCEPT ![t] = IF attempt[t] < MaxAttempts THEN "PENDING" ELSE "SETTLED"]
    /\ IF attempt[t] < MaxAttempts
       THEN \/ due' = [due EXCEPT ![t] = @ + 1] /\ UNCHANGED backingOff
            \/ backingOff' = [backingOff EXCEPT ![t] = @ + 1] /\ UNCHANGED due
       ELSE UNCHANGED <<due, backingOff>>

\* CompleteTask or FailTask.
Report(w) ==
    LET t == worker[w].task
    IN  /\ worker[w].at = "runs"
        /\ worker' = [worker EXCEPT ![w] = Idle]
        /\ \/ /\ status' = [status EXCEPT ![t] = "SETTLED"]
              /\ UNCHANGED <<due, backingOff>>
           \/ Requeue(t)
        /\ UNCHANGED <<transport, attempt, hidden, relay, streamVars, closed, lost, faults>>

\* Its process dies, or Claim returned an error and its loop returned it.  A
\* delivery it was holding is gone with it.
WorkerDies(w) ==
    /\ worker[w] # Dead /\ Fault
    /\ worker' = [worker EXCEPT ![w] = Dead]
    /\ lost' = IF worker[w].at = "has" THEN [lost EXCEPT ![worker[w].task] = TRUE] ELSE lost
    /\ UNCHANGED <<transport, storeVars, relay, streamVars, closed>>

\* The reaper gives back a task whose owner is gone, to be delivered at once.
Reclaim(t) ==
    /\ status[t] = "RUNNING"
    /\ ~\E w \in Workers : worker[w] = [at |-> "runs", task |-> t]
    /\ status' = [status EXCEPT ![t] = IF attempt[t] < MaxAttempts THEN "PENDING" ELSE "SETTLED"]
    /\ due' = IF attempt[t] < MaxAttempts THEN [due EXCEPT ![t] = @ + 1] ELSE due
    /\ UNCHANGED <<transport, attempt, hidden, backingOff, relay, streamVars, worker, closed,
                   lost, faults>>

\* Close: Claim answers ErrDispatcherClosed and a waiting worker's loop ends;
\* Publish is refused, so the relay's sweep records what it did publish.
Close ==
    /\ ~closed /\ Fault /\ closed' = TRUE
    /\ worker' = [w \in Workers |-> IF worker[w] = Idle THEN Dead ELSE worker[w]]
    /\ UNCHANGED <<transport, storeVars, relay, streamVars, lost>>

\* The process comes back, with its workers and a fresh sweep.
Restart ==
    /\ closed \/ \E w \in Workers : worker[w] = Dead
    /\ closed' = FALSE
    /\ worker' = [w \in Workers |-> IF worker[w] = Dead THEN Idle ELSE worker[w]]
    /\ relay' = NoSweep
    /\ UNCHANGED <<transport, storeVars, streamVars, lost, faults>>

\* Every task was committed with its outbox row.
Init ==
    /\ transport \in Transports
    /\ status = [t \in Tasks |-> "PENDING"] /\ attempt = [t \in Tasks |-> 0]
    /\ hidden = [t \in Tasks |-> FALSE]
    /\ due = [t \in Tasks |-> 1] /\ backingOff = [t \in Tasks |-> 0]
    /\ relay = NoSweep
    /\ queued = [m \in Messages |-> IF m = Junk /\ transport = "jetstream" THEN 1 ELSE 0]
    /\ unacked = [m \in Messages |-> 0]
    /\ worker = [w \in Workers |-> Idle]
    /\ closed = FALSE /\ lost = [t \in Tasks |-> FALSE] /\ faults = 0

Next ==
    \/ \E t \in Tasks :
          \/ RelayPublish(t) \/ Scan(t) \/ BackoffElapses(t)
          \/ VisibilityElapses(t) \/ Reclaim(t)
    \/ \E m \in Messages : AckWaitElapses(m) \/ MaxAgeDrops(m)
    \/ \E w \in Workers :
          \/ Take(w) \/ FetchOne(w) \/ ClaimTask(w) \/ ClaimErrors(w)
          \/ Report(w) \/ WorkerDies(w)
    \/ RelayMark \/ Close \/ Restart

\* Loops with tickers run again and again, timers fire, and a process that
\* stopped is started again; nothing is assumed of which delivery comes next.
Fairness ==
    /\ \A t \in Tasks :
          /\ WF_vars(Scan(t)) /\ WF_vars(VisibilityElapses(t)) /\ WF_vars(Reclaim(t))
    /\ \A m \in Messages : WF_vars(AckWaitElapses(m))
    /\ \A w \in Workers : WF_vars(ClaimTask(w)) /\ WF_vars(Report(w))
    /\ WF_vars(\E w \in Workers : Take(w)) /\ WF_vars(\E w \in Workers : FetchOne(w))
    /\ WF_vars(Restart)

Spec == Init /\ [][Next]_vars /\ Fairness

(* Properties.                                                             *)

\* Every row, message count and bound keeps its range; in particular no task is
\* tried more often than its budget.
TypeOK ==
    /\ status \in [Tasks -> {"PENDING", "RUNNING", "SETTLED"}]
    /\ attempt \in [Tasks -> 0..MaxAttempts] /\ hidden \in [Tasks -> BOOLEAN]
    /\ due \in [Tasks -> 0..MaxAttempts] /\ backingOff \in [Tasks -> 0..MaxAttempts]
    /\ relay \in [delivered : SUBSET Tasks, failed : SUBSET Tasks]
    /\ \A m \in Messages : queued[m] \in Nat /\ unacked[m] \in Nat
                           /\ queued[m] + unacked[m] <= MaxCopies
    /\ faults \in 0..MaxFaults

\* With JetStream a PENDING task has an outbox row, a message or a worker that
\* will bring it to a claim, or lost its delivery in one of three places: the
\* stream's age limit, a death between the acknowledgement and the claim, and a
\* claim that failed.  A publish reported as done was done.  (PostgreSQL has no
\* delivery to lose: the PENDING row is the queue.)
NothingUnaccounted ==
    transport = "jetstream" =>
        \A t \in Tasks :
            status[t] = "PENDING" =>
                \/ due[t] + backingOff[t] > 0
                \/ queued[t] + unacked[t] > 0
                \/ \E w \in Workers : worker[w] = [at |-> "has", task |-> t]
                \/ lost[t]

\* Whatever is dropped, repeated, hidden or unreadable, and whoever dies, a
\* PENDING task is claimed in the end: the scan finds it.
EveryPendingTaskIsClaimed == \A t \in Tasks : status[t] = "PENDING" ~> status[t] # "PENDING"

\* A message nobody can read leaves the queue instead of going round for ever.
PoisonLeaves == <>[](queued[Junk] + unacked[Junk] = 0)

\* A retry that is backing off is not run before its instant.
BackoffIsKept == \A t \in Tasks : backingOff[t] > 0 => status[t] # "RUNNING"
=============================================================================
