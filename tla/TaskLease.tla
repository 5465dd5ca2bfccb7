----------------------------- MODULE TaskLease -----------------------------
(***************************************************************************)
(* One task's life from dispatch to outcome: the task row, its lease and   *)
(* fencing token, the outbox row that announces it, the relay and the      *)
(* recovery scan that publish it, the in-process channel that carries it,  *)
(* the workers that claim, heartbeat and report, and the reaper.           *)
(*                                                                         *)
(* Every store transaction is one action, because RunInTx is atomic.       *)
(* Everything between two transactions is a separate action, because       *)
(* another process may act there and the process may die there.            *)
(*                                                                         *)
(* Time is abstracted to the two questions the code asks of it. A lease is *)
(* live or it has expired (LeaseExpires lets it lapse at any moment, which *)
(* covers slow workers and skewed clocks alike), and an outbox row is      *)
(* delayed or it is ready.                                                 *)
(***************************************************************************)
EXTENDS Naturals, Sequences

CONSTANTS Tasks,        \* the tasks a run may dispatch
          Workers,      \* worker loops, each handling one task at a time
          NoTask,       \* what an idle worker is working on
          MaxAttempts,  \* Task.MaxAttempts, the retry budget
          QueueCap      \* depth of the in-process channel

ASSUME TasksAssumption    == NoTask \notin Tasks
ASSUME AttemptsAssumption == MaxAttempts \in Nat \ {0}
ASSUME QueueAssumption    == QueueCap \in Nat \ {0}

VARIABLES task,     \* task[t]: the row in the tasks table
          lease,    \* lease[t]: the row in the leases table; token 0 is no row
          outbox,   \* outbox[t][k]: the delivery enqueued after k attempts
          history,  \* history[t]: the run's events that concern task t
          queue,    \* the dispatcher's channel
          batch,    \* rows the relay has read and not yet published
          sent,     \* rows the relay has published and not yet marked
          announced,\* history variable: rows some Publish call accepted
          scan,     \* tasks the recovery scan has read and not yet published
          worker,   \* worker[w]: what each worker loop is doing
          beats     \* heartbeats sent and not yet committed: <<task, token>>

store     == <<task, lease, outbox, history>>
transport == <<queue, batch, sent, announced, scan>>
vars      == <<task, lease, outbox, history, queue, batch, sent, announced,
               scan, worker, beats>>

Attempts    == 0..MaxAttempts
Deliveries  == 0..(MaxAttempts - 1)
Rows        == Tasks \X Deliveries
TaskStatus  == {"ABSENT", "PENDING", "RUNNING", "COMPLETED", "DEAD_LETTER"}
IsTerminal(s) == s \in {"COMPLETED", "DEAD_LETTER"}
RowStatus   == {"none", "delayed", "ready", "published"}
EventTypes  == {"TASK_CREATED", "TASK_CLAIMED", "TASK_COMPLETED", "TASK_FAILED",
                "TASK_RETRY_SCHEDULED", "TASK_DEAD_LETTERED", "LEASE_EXPIRED"}
Event       == [type : EventTypes, attempt : Attempts, final : BOOLEAN]

(***************************************************************************)
(* A worker is idle, has received a task identity from the channel, is     *)
(* running the tool, has learnt that it lost the lease, or is about to     *)
(* report how the tool ended.                                              *)
(***************************************************************************)
Outcomes == {"succeeded", "failed", "escalated"}
Holding  == {"working", "lost"} \cup Outcomes
WorkerPC == {"idle", "received"} \cup Holding
Idle     == [pc |-> "idle", task |-> NoTask, token |-> 0, attempt |-> 0]

Holds(w, t) == worker[w].pc \in Holding /\ worker[w].task = t

----------------------------------------------------------------------------
(***************************************************************************)
(* Faulty variants of definitions below, each a plausible mistake in the   *)
(* code it stands beside. No specification uses them; substituting one     *)
(* must break the property that guards against it.                         *)
(***************************************************************************)
FaultTokenReused(l)      == [token |-> IF l.token = 0 THEN 1 ELSE l.token, live |-> TRUE]
FaultNoTokenCheck(l, k)  == TRUE
FaultRowDeleted(l)       == [token |-> 0, live |-> FALSE]
FaultOneTooMany(x)       == x.attempt > MaxAttempts
FaultNoFollowUp(x, retry) ==
    << [type |-> "TASK_FAILED", attempt |-> x.attempt, final |-> ~retry] >>
FaultClaimAnyStatus(t)   == ~lease[t].live
FaultScanFirstAttempt    == {t \in Tasks : task[t].status = "PENDING" /\ task[t].attempt = 0}
FaultFailedCountsAsSent(r) ==
    /\ r \in batch
    /\ batch' = batch \ {r}
    /\ sent' = sent \cup {r}
    /\ UNCHANGED <<store, queue, announced, scan, worker, beats>>

----------------------------------------------------------------------------
(***************************************************************************)
(* Rows of the store.                                                      *)
(***************************************************************************)
Expired(l)          == ~l.live
AssertToken(l, k)   == l.token = k
AcquireLease(l)     == [token |-> l.token + 1, live |-> TRUE]
ExtendLease(l)      == [token |-> l.token, live |-> TRUE]
ReleaseLease(l)     == [token |-> l.token, live |-> FALSE]

Exhausted(x)        == x.attempt >= MaxAttempts

TransitionTask(x, to) ==
    [status  |-> to,
     attempt |-> IF to = "RUNNING" THEN x.attempt + 1 ELSE x.attempt]

Evt(type, x, final) == [type |-> type, attempt |-> x.attempt, final |-> final]

(***************************************************************************)
(* What each way of ending an attempt appends. A reclaim that buries the   *)
(* task appends no TASK_FAILED.                                            *)
(***************************************************************************)
FailEvents(x, retry) ==
    <<Evt("TASK_FAILED", x, ~retry),
      Evt(IF retry THEN "TASK_RETRY_SCHEDULED" ELSE "TASK_DEAD_LETTERED", x, FALSE)>>

ReclaimEvents(x, dead) ==
    <<Evt("LEASE_EXPIRED", x, FALSE),
      Evt(IF dead THEN "TASK_DEAD_LETTERED" ELSE "TASK_RETRY_SCHEDULED", x, FALSE)>>

EnqueueDelivery(t, delayed) ==
    outbox' = [outbox EXCEPT ![t][task[t].attempt] =
                   IF delayed THEN "delayed" ELSE "ready"]

----------------------------------------------------------------------------
(***************************************************************************)
(* The engine creates a task, the event that records it and the intent to  *)
(* deliver it in one transaction.                                          *)
(***************************************************************************)
Dispatch(t) ==
    /\ task[t].status = "ABSENT"
    /\ task' = [task EXCEPT ![t] = TransitionTask(@, "PENDING")]
    /\ history' = [history EXCEPT ![t] =
                       Append(@, Evt("TASK_CREATED", task[t], FALSE))]
    /\ EnqueueDelivery(t, FALSE)
    /\ UNCHANGED <<lease, transport, worker, beats>>

(***************************************************************************)
(* The relay: read the ready rows, publish each, then mark what published. *)
(* A publish blocks while the channel is full. A failed publish leaves its *)
(* row pending. A shutdown in the middle of a batch marks what was sent,   *)
(* as if the rest had failed; a failed mark, or a crash, is RelayStops.    *)
(***************************************************************************)
ReadyRows == {r \in Rows : outbox[r[1]][r[2]] = "ready"}

RelayReads ==
    /\ batch = {} /\ sent = {}
    /\ ReadyRows # {}
    /\ batch' = ReadyRows
    /\ UNCHANGED <<store, queue, sent, announced, scan, worker, beats>>

Publish(t) ==
    /\ Len(queue) < QueueCap
    /\ queue' = Append(queue, t)

RelayPublishes(r) ==
    /\ r \in batch
    /\ Publish(r[1])
    /\ batch' = batch \ {r}
    /\ sent' = sent \cup {r}
    /\ announced' = announced \cup {r}
    /\ UNCHANGED <<store, scan, worker, beats>>

RelayPublishFails(r) ==
    /\ r \in batch
    /\ batch' = batch \ {r}
    /\ UNCHANGED <<store, queue, sent, announced, scan, worker, beats>>

RelayMarks ==
    /\ batch = {} /\ sent # {}
    /\ outbox' = [t \in Tasks |-> [k \in Deliveries |->
                      IF <<t, k>> \in sent THEN "published" ELSE outbox[t][k]]]
    /\ sent' = {}
    /\ UNCHANGED <<task, lease, history, queue, batch, announced, scan,
                   worker, beats>>

RelayStops ==
    /\ batch # {} \/ sent # {}
    /\ batch' = {} /\ sent' = {}
    /\ UNCHANGED <<store, queue, announced, scan, worker, beats>>

(***************************************************************************)
(* The recovery scan lists every PENDING task and publishes each, whether  *)
(* or not its outbox row was already published and whether or not that row *)
(* is still backing off.                                                   *)
(***************************************************************************)
PendingTasks == {t \in Tasks : task[t].status = "PENDING"}

ScanReads ==
    /\ scan = {}
    /\ PendingTasks # {}
    /\ scan' = PendingTasks
    /\ UNCHANGED <<store, queue, batch, sent, announced, worker, beats>>

ScanPublishes(t) ==
    /\ t \in scan
    /\ Publish(t)
    /\ scan' = scan \ {t}
    /\ UNCHANGED <<store, batch, sent, announced, worker, beats>>

----------------------------------------------------------------------------
(***************************************************************************)
(* A worker takes the next identity off the channel and tries to claim it. *)
(***************************************************************************)
Receive(w) ==
    /\ worker[w].pc = "idle"
    /\ queue # <<>>
    /\ worker' = [worker EXCEPT ![w] = [pc |-> "received", task |-> Head(queue),
                                        token |-> 0, attempt |-> 0]]
    /\ queue' = Tail(queue)
    /\ UNCHANGED <<store, batch, sent, announced, scan, beats>>

Claimable(t) == task[t].status = "PENDING" /\ Expired(lease[t])

ClaimTask(w) ==
    LET t == worker[w].task
        x == TransitionTask(task[t], "RUNNING")
    IN  /\ worker[w].pc = "received"
        /\ Claimable(t)
        /\ task' = [task EXCEPT ![t] = x]
        /\ lease' = [lease EXCEPT ![t] = AcquireLease(@)]
        /\ history' = [history EXCEPT ![t] =
                           Append(@, Evt("TASK_CLAIMED", x, FALSE))]
        /\ worker' = [worker EXCEPT ![w] =
                          [pc |-> "working", task |-> t,
                           token |-> AcquireLease(lease[t]).token,
                           attempt |-> x.attempt]]
        /\ UNCHANGED <<outbox, transport, beats>>

(***************************************************************************)
(* ErrConflict, ErrLeaseHeld or a store error: the transaction rolls back  *)
(* and the worker drops the delivery.                                      *)
(***************************************************************************)
ClaimRefused(w) ==
    /\ worker[w].pc = "received"
    /\ ~Claimable(worker[w].task)
    /\ worker' = [worker EXCEPT ![w] = Idle]
    /\ UNCHANGED <<store, transport, beats>>

ClaimErrors(w) ==
    /\ worker[w].pc = "received"
    /\ Claimable(worker[w].task)
    /\ worker' = [worker EXCEPT ![w] = Idle]
    /\ UNCHANGED <<store, transport, beats>>

(***************************************************************************)
(* keepAlive runs beside the tool. The heartbeat is sent while the worker  *)
(* works and lands later, possibly after the worker has reported: stopping *)
(* the goroutine does not wait for the call in flight. A rejected          *)
(* heartbeat tells a worker that still runs the tool that it lost the      *)
(* lease; one that has already moved on to reporting does not look again.  *)
(***************************************************************************)
Heartbeat(w) ==
    /\ worker[w].pc = "working"
    /\ <<worker[w].task, worker[w].token>> \notin beats
    /\ beats' = beats \cup {<<worker[w].task, worker[w].token>>}
    /\ UNCHANGED <<store, transport, worker>>

HeartbeatLands(b) ==
    /\ b \in beats
    /\ AssertToken(lease[b[1]], b[2])
    /\ lease' = [lease EXCEPT ![b[1]] = ExtendLease(@)]
    /\ beats' = beats \ {b}
    /\ UNCHANGED <<task, outbox, history, transport, worker>>

HeartbeatFenced(b) ==
    /\ b \in beats
    /\ ~AssertToken(lease[b[1]], b[2])
    /\ worker' = [w \in Workers |->
                      IF worker[w].pc = "working" /\ worker[w].task = b[1]
                                                  /\ worker[w].token = b[2]
                      THEN [worker[w] EXCEPT !.pc = "lost"] ELSE worker[w]]
    /\ beats' = beats \ {b}
    /\ UNCHANGED <<store, transport>>

HeartbeatErrors(b) ==
    /\ b \in beats
    /\ beats' = beats \ {b}
    /\ UNCHANGED <<store, transport, worker>>

ToolReturns(w, outcome) ==
    /\ worker[w].pc = "working"
    /\ worker' = [worker EXCEPT ![w].pc = outcome]
    /\ UNCHANGED <<store, transport, beats>>

StopsAfterLosingLease(w) ==
    /\ worker[w].pc = "lost"
    /\ worker' = [worker EXCEPT ![w] = Idle]
    /\ UNCHANGED <<store, transport, beats>>

----------------------------------------------------------------------------
(***************************************************************************)
(* Reports. Both check the token and the RUNNING status in the transaction *)
(* that writes.                                                            *)
(***************************************************************************)
MayReport(w) ==
    LET t == worker[w].task
    IN  AssertToken(lease[t], worker[w].token) /\ task[t].status = "RUNNING"

CompleteTask(w) ==
    LET t == worker[w].task
    IN  /\ worker[w].pc = "succeeded"
        /\ MayReport(w)
        /\ task' = [task EXCEPT ![t] = TransitionTask(@, "COMPLETED")]
        /\ lease' = [lease EXCEPT ![t] = ReleaseLease(@)]
        /\ history' = [history EXCEPT ![t] =
                           Append(@, Evt("TASK_COMPLETED", worker[w], FALSE))]
        /\ worker' = [worker EXCEPT ![w] = Idle]
        /\ UNCHANGED <<outbox, transport, beats>>

Retries(w) == worker[w].pc = "failed" /\ ~Exhausted(task[worker[w].task])

FailTask(w, delayed) ==
    LET t == worker[w].task
        retry == Retries(w)
    IN  /\ worker[w].pc \in {"failed", "escalated"}
        /\ MayReport(w)
        /\ task' = [task EXCEPT ![t] =
                        TransitionTask(@, IF retry THEN "PENDING" ELSE "DEAD_LETTER")]
        /\ lease' = [lease EXCEPT ![t] = ReleaseLease(@)]
        /\ history' = [history EXCEPT ![t] = @ \o FailEvents(task[t], retry)]
        /\ IF retry THEN EnqueueDelivery(t, delayed) ELSE UNCHANGED outbox
        /\ worker' = [worker EXCEPT ![w] = Idle]
        /\ UNCHANGED <<transport, beats>>

(***************************************************************************)
(* A fenced or conflicting report is dropped, and so is one the store      *)
(* could not write: the task then stays RUNNING until its lease lapses.    *)
(***************************************************************************)
ReportRejected(w) ==
    /\ worker[w].pc \in Outcomes
    /\ ~MayReport(w)
    /\ worker' = [worker EXCEPT ![w] = Idle]
    /\ UNCHANGED <<store, transport, beats>>

ReportErrors(w) ==
    /\ worker[w].pc \in Outcomes
    /\ MayReport(w)
    /\ worker' = [worker EXCEPT ![w] = Idle]
    /\ UNCHANGED <<store, transport, beats>>

----------------------------------------------------------------------------
(***************************************************************************)
(* The reaper takes an expired lease over, which bumps the token, and      *)
(* requeues or buries the task in the same transaction.                    *)
(***************************************************************************)
Reclaim(t) ==
    LET dead == Exhausted(task[t])
    IN  /\ task[t].status = "RUNNING"
        /\ Expired(lease[t])
        /\ lease' = [lease EXCEPT ![t] = ReleaseLease(AcquireLease(@))]
        /\ task' = [task EXCEPT ![t] =
                        TransitionTask(@, IF dead THEN "DEAD_LETTER" ELSE "PENDING")]
        /\ history' = [history EXCEPT ![t] = @ \o ReclaimEvents(task[t], dead)]
        /\ IF dead THEN UNCHANGED outbox ELSE EnqueueDelivery(t, FALSE)
        /\ UNCHANGED <<transport, worker, beats>>

(***************************************************************************)
(* Time passing, and processes dying. A worker that dies forgets what it   *)
(* was doing; a runtime that dies loses the channel and its loops' work.   *)
(***************************************************************************)
LeaseExpires(t) ==
    /\ lease[t].live
    /\ lease' = [lease EXCEPT ![t].live = FALSE]
    /\ UNCHANGED <<task, outbox, history, transport, worker, beats>>

BackoffElapses(t, k) ==
    /\ outbox[t][k] = "delayed"
    /\ outbox' = [outbox EXCEPT ![t][k] = "ready"]
    /\ UNCHANGED <<task, lease, history, transport, worker, beats>>

WorkerCrash(w) ==
    /\ worker[w].pc # "idle"
    /\ worker' = [worker EXCEPT ![w] = Idle]
    /\ UNCHANGED <<store, transport, beats>>

RuntimeCrash ==
    /\ <<queue, scan>> # << <<>>, {} >>
    /\ queue' = <<>> /\ batch' = {} /\ sent' = {} /\ scan' = {}
    /\ UNCHANGED <<store, announced, worker, beats>>

----------------------------------------------------------------------------
Init ==
    /\ task = [t \in Tasks |-> [status |-> "ABSENT", attempt |-> 0]]
    /\ lease = [t \in Tasks |-> [token |-> 0, live |-> FALSE]]
    /\ outbox = [t \in Tasks |-> [k \in Deliveries |-> "none"]]
    /\ history = [t \in Tasks |-> <<>>]
    /\ queue = <<>>
    /\ batch = {} /\ sent = {} /\ announced = {} /\ scan = {}
    /\ worker = [w \in Workers |-> Idle]
    /\ beats = {}

WorkerSteps(w) ==
    \/ Receive(w) \/ ClaimTask(w) \/ ClaimRefused(w) \/ ClaimErrors(w)
    \/ Heartbeat(w) \/ StopsAfterLosingLease(w)
    \/ \E o \in Outcomes : ToolReturns(w, o)
    \/ CompleteTask(w) \/ ReportRejected(w) \/ ReportErrors(w)
    \/ \E d \in BOOLEAN : FailTask(w, d)
    \/ WorkerCrash(w)

RelaySteps ==
    \/ RelayReads \/ RelayMarks \/ RelayStops
    \/ \E r \in Rows : RelayPublishes(r) \/ RelayPublishFails(r)

TaskSteps(t) ==
    \/ Dispatch(t) \/ ScanPublishes(t) \/ Reclaim(t) \/ LeaseExpires(t)
    \/ \E k \in Deliveries : BackoffElapses(t, k)

BeatSteps == \E b \in beats :
    HeartbeatLands(b) \/ HeartbeatFenced(b) \/ HeartbeatErrors(b)

Next ==
    \/ \E w \in Workers : WorkerSteps(w)
    \/ \E t \in Tasks : TaskSteps(t)
    \/ RelaySteps
    \/ BeatSteps
    \/ ScanReads
    \/ RuntimeCrash

Spec == Init /\ [][Next]_vars

(***************************************************************************)
(* Fairness, for the liveness property only. The relay, the scan, the      *)
(* reaper and the worker loops all run on tickers, so whatever they can    *)
(* keep doing they do. Time passes for a lease and for a backoff. A tool   *)
(* returns. Strong fairness on the claim and on taking from the channel    *)
(* says only that not every delivery of a task is lost to a crash.         *)
(***************************************************************************)

\* The steps a worker's loop takes of its own accord once it has a delivery.
GoesOn(w) ==
    \/ ClaimTask(w) \/ ClaimRefused(w)
    \/ StopsAfterLosingLease(w) \/ \E o \in Outcomes : ToolReturns(w, o)
    \/ CompleteTask(w) \/ ReportRejected(w) \/ \E d \in BOOLEAN : FailTask(w, d)

Fairness ==
    /\ WF_vars(ScanReads)
    /\ \A t \in Tasks :
        /\ SF_vars(ScanPublishes(t))
        /\ WF_vars(Reclaim(t))
        /\ WF_vars(LeaseExpires(t))
        /\ SF_vars(\E w \in Workers : worker[w].task = t /\ ClaimTask(w))
    /\ SF_vars(\E w \in Workers : Receive(w))
    /\ \A w \in Workers : WF_vars(GoesOn(w))

LiveSpec == Spec /\ Fairness

----------------------------------------------------------------------------
(***************************************************************************)
(* Properties.                                                             *)
(***************************************************************************)

\* Every variable has the shape the store and the loops give it.
TypeOK ==
    /\ task \in [Tasks -> [status : TaskStatus, attempt : Attempts]]
    /\ lease \in [Tasks -> [token : Nat, live : BOOLEAN]]
    /\ outbox \in [Tasks -> [Deliveries -> RowStatus]]
    /\ history \in [Tasks -> Seq(Event)]
    /\ queue \in Seq(Tasks)
    /\ batch \subseteq Rows /\ sent \subseteq Rows /\ announced \subseteq Rows
    /\ scan \subseteq Tasks
    /\ worker \in [Workers -> [pc : WorkerPC, task : Tasks \cup {NoTask},
                               token : Nat, attempt : Attempts]]
    /\ beats \subseteq Tasks \X Nat

\* Fencing, as ClaimTask and reclaim promise it: of all the workers that still
\* believe they own a task (frozen, slow, about to report), at most one holds
\* the token the lease row is at, and only while the task is RUNNING on the
\* very attempt that worker was given. Nobody can present a token that has not
\* been issued yet.
OneCurrentOwner ==
    /\ \A v, w \in Workers : \A t \in Tasks :
          /\ Holds(v, t) /\ worker[v].token = lease[t].token
          /\ Holds(w, t) /\ worker[w].token = lease[t].token
          => v = w
    /\ \A w \in Workers : \A t \in Tasks : Holds(w, t) =>
          /\ worker[w].token <= lease[t].token
          /\ worker[w].token = lease[t].token =>
                /\ task[t].status = "RUNNING"
                /\ worker[w].attempt = task[t].attempt

\* The result replay will read is the result of the latest attempt: however
\* many attempts overlapped, a task's history holds at most one TASK_COMPLETED,
\* nothing about the task follows it, and it was reported by the worker that
\* held the last claim (CompleteTask's token check).
LatestAttemptWins ==
    \A t \in Tasks : \A i \in DOMAIN history[t] :
        history[t][i].type = "TASK_COMPLETED" =>
            /\ i = Len(history[t])
            /\ task[t].status = "COMPLETED"
            /\ history[t][i].attempt = task[t].attempt

\* The tasks row and the event log never disagree about where a task stands,
\* although some transitions append one event and some two.
HistoryAgreesWithRow ==
    \A t \in Tasks :
        LET last == history[t][Len(history[t])].type
        IN  CASE task[t].status = "ABSENT"      -> history[t] = <<>>
              [] task[t].status = "PENDING"     -> history[t] # <<>> /\
                     last \in {"TASK_CREATED", "TASK_RETRY_SCHEDULED"}
              [] task[t].status = "RUNNING"     -> history[t] # <<>> /\
                     last = "TASK_CLAIMED"
              [] task[t].status = "COMPLETED"   -> history[t] # <<>> /\
                     last = "TASK_COMPLETED"
              [] task[t].status = "DEAD_LETTER" -> history[t] # <<>> /\
                     last = "TASK_DEAD_LETTERED"

\* Where the claims of a task stand in its history.
ClaimsIn(t) == {i \in DOMAIN history[t] : history[t][i].type = "TASK_CLAIMED"}

\* A tool is started at most MaxAttempts times for one task, across retries,
\* reclaims and duplicate deliveries: a task that is runnable has an attempt
\* left, and the attempt number in the row counts the claims in history.
RetryBudget ==
    \A t \in Tasks :
        /\ task[t].status = "PENDING" => task[t].attempt < MaxAttempts
        /\ task[t].attempt <= MaxAttempts
        /\ \A i, j \in ClaimsIn(t) :
               i # j => history[t][i].attempt # history[t][j].attempt

\* The outbox contract of dispatch, FailTask, reclaim and RelayOnce: a task
\* that is waiting to be claimed always has the delivery of that attempt on
\* the books, and a row is marked published only after a Publish accepted it.
DeliveryIntent ==
    \A t \in Tasks :
        /\ task[t].status = "PENDING" => outbox[t][task[t].attempt] # "none"
        /\ \A k \in Deliveries :
               outbox[t][k] = "published" => <<t, k>> \in announced

\* A settled task stays settled: no late report, heartbeat, reclaim or
\* duplicate delivery changes its row or adds an event about it.
SettledIsFinal ==
    [][\A t \in Tasks : IsTerminal(task[t].status) =>
          task'[t] = task[t] /\ history'[t] = history[t]]_vars

\* The token only grows, and every change of hands (a claim, a reclaim) makes
\* it strictly larger, releases included: a token never names two owners.
TokensGrow ==
    [][\A t \in Tasks :
          /\ lease'[t].token >= lease[t].token
          /\ task[t].status # "RUNNING" /\ task'[t].status = "RUNNING" =>
                lease'[t].token > lease[t].token
                /\ \A w \in Workers : Holds(w, t) => worker[w].token < lease'[t].token]_vars

\* The refinement mapping onto TaskContract: the phase is the row's status,
\* and the result is the attempt that reported the recorded TASK_COMPLETED.
AbsPhase == [t \in Tasks |->
    CASE task[t].status = "ABSENT"      -> "absent"
      [] task[t].status = "PENDING"     -> "open"
      [] task[t].status = "RUNNING"     -> "held"
      [] task[t].status = "COMPLETED"   -> "done"
      [] task[t].status = "DEAD_LETTER" -> "dead"]

AbsClaims == [t \in Tasks |-> task[t].attempt]

AbsResult == [t \in Tasks |->
    IF task[t].status = "COMPLETED" THEN history[t][Len(history[t])].attempt ELSE 0]

Contract == INSTANCE TaskContract
    WITH phase <- AbsPhase, claims <- AbsClaims, result <- AbsResult

\* With all its deliveries, leases and crashes, the machinery implements the
\* contract: one holder at a time, a bounded number of attempts, and the last
\* attempt's result.
ImplementsContract == Contract!Spec

\* Every dispatched task is eventually completed or dead lettered, whatever
\* deliveries, heartbeats, reports and processes are lost on the way: none is
\* open for ever. (No task becomes ABSENT again, so this is PENDING ~> terminal.)
EveryTaskSettles ==
    \A t \in Tasks : []<>(task[t].status = "ABSENT" \/ IsTerminal(task[t].status))
============================================================================
