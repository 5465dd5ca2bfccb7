--------------------------- MODULE PostgresStore ---------------------------
(***************************************************************************)
(* internal/store/postgres: the same transactions as MemoryStore, as the   *)
(* statements they send, run by several connections at READ COMMITTED.     *)
(*                                                                         *)
(* A session is a connection with the transaction in progress on it.  A    *)
(* plain SELECT reads committed rows; a statement that locks a row waits   *)
(* for the transactions holding a conflicting lock and then sees what they *)
(* committed; an INSERT waits for the uncommitted insert of the same key;  *)
(* an insert into events or signals ends by locking the run's row FOR KEY  *)
(* SHARE (its foreign key).  Locks are kept to the end.  Sessions that     *)
(* wait in a circle are resolved by aborting one.                          *)
(*                                                                         *)
(* One run, and one of its tasks: an Advance may commit while the task is  *)
(* open because the task may be one child of a fan-out.  Any worker that   *)
(* ever claimed the task may still report, once.                           *)
(***************************************************************************)
EXTENDS Integers, Sequences, FiniteSets, FiniteSetsExt, Relation

CONSTANTS
    Sessions,     \* pooled connections in use
    Signals,      \* ids under which senders deliver signals
    MaxAttempts,  \* tries a task gets
    LeaseTTL,     \* engine.Config.LeaseTTL
    Skew,         \* how far the clocks of two processes may be apart
    MaxNow,       \* bound: the clock stops here
    MaxVersion    \* bound: a run at this version is only finished, never parked

ASSUME StoreAssumption ==
    /\ MaxAttempts \in Nat \ {0} /\ LeaseTTL \in Nat \ {0}
    /\ Skew \in Nat /\ Skew < LeaseTTL
    /\ MaxNow \in Nat /\ MaxVersion \in Nat \ {0}

VARIABLES
    rows,      \* committed rows of runs, tasks and leases
    events,    \* committed events: seq -> event
    outbox,    \* committed rows of task_outbox
    signals,   \* committed rows of signals
    now,       \* the clock of the process that is furthest behind
    tx,        \* the transaction of each session
    claimed,   \* tokens of claims whose worker has not reported yet
    last       \* the transaction that was just refused, and the error it got

vars == <<rows, events, outbox, signals, now, tx, claimed, last>>

NoTask == [status |-> "NONE", attempt |-> 0]
NoRows == [run   |-> [status |-> "RUNNING", version |-> 0, parked |-> FALSE],
           task  |-> NoTask,
           lease |-> [token |-> 0, expires |-> 0]]

\* A transaction in progress: the next statement, the locks it holds, the rows
\* it wrote and the values it gave them, the keys it inserted, what it has read
\* and what it was called with.
NoTx == [kind |-> "none", pc |-> 0, locks |-> {}, wrote |-> {}, draft |-> NoRows,
         inserted |-> << >>, signals |-> {}, enqueued |-> 0,
         seen |-> NoTask, seq |-> 0, token |-> 0, at |-> 0,
         version |-> 0, escalated |-> FALSE, sig |-> 0]

Nothing == [kind |-> "none", token |-> 0, err |-> "nil"]

\* The statements of each transaction, in the order the engine sends them.
\* "References" is the foreign-key check at the end of an INSERT; the
\* transactions of Advance hold the run's row FOR UPDATE already.
Program(kind) ==
    CASE kind = "claim"     -> <<"GetTask", "TransitionTask", "AcquireLease",
                                 "NextSeq", "AppendEvent", "References">>
      [] kind = "complete"  -> <<"GetTask", "GetLease", "TransitionTask", "ReleaseLease",
                                 "NextSeq", "AppendEvent", "References">>
      [] kind = "fail"      -> <<"GetTask", "GetLease", "TransitionTask", "ReleaseLease",
                                 "NextSeq", "AppendEvent", "References",
                                 "NextSeq", "AppendEvent", "EnqueueDelivery">>
      [] kind = "heartbeat" -> <<"ExtendLease">>
      [] kind = "reclaim"   -> <<"GetTask", "AcquireLease", "NextSeq", "AppendEvent",
                                 "References", "TransitionTask", "NextSeq", "AppendEvent",
                                 "EnqueueDelivery", "ReleaseLease">>
      [] kind = "dispatch"  -> <<"AdvanceRun", "CreateTask", "NextSeq", "AppendEvent",
                                 "EnqueueDelivery">>
      [] kind = "park"      -> <<"AdvanceRun", "NextSeq", "AppendEvent">>
      [] kind = "finish"    -> <<"AdvanceRun", "NextSeq", "AppendEvent">>
      [] kind = "signal"    -> <<"RecordSignal", "References", "ReleaseRun">>
      [] OTHER              -> << >>

Busy(s) == tx[s].kind # "none"
AtEnd(s) == Busy(s) /\ tx[s].pc > Len(Program(tx[s].kind))
Statement(s) == IF Busy(s) /\ ~AtEnd(s) THEN Program(tx[s].kind)[tx[s].pc] ELSE "none"

\* What a statement of s reads: the committed rows under its own writes.
View(s) == [run   |-> IF "run" \in tx[s].wrote THEN tx[s].draft.run ELSE rows.run,
            task  |-> IF "task" \in tx[s].wrote THEN tx[s].draft.task ELSE rows.task,
            lease |-> IF "lease" \in tx[s].wrote THEN tx[s].draft.lease ELSE rows.lease]

(* Locks.                                                                  *)

\* Strengths of the row locks PostgreSQL takes: SELECT ... FOR UPDATE, a
\* plain UPDATE, and the foreign-key check's FOR KEY SHARE.
LockOf(statement) ==
    CASE statement = "TransitionTask"                              -> {<<"task", "update">>}
      [] statement = "AdvanceRun"                                  -> {<<"run", "update">>}
      [] statement \in {"AcquireLease", "ExtendLease", "ReleaseLease"} -> {<<"lease", "nokey">>}
      [] statement = "ReleaseRun"                                  -> {<<"run", "nokey">>}
      [] statement = "References"                                  -> {<<"run", "share">>}
      [] OTHER                                                     -> {}

Conflict(a, b) ==
    /\ a[1] = b[1]
    /\ "update" \in {a[2], b[2]} \/ (a[2] = "nokey" /\ b[2] = "nokey")

\* The sessions whose transaction has to end before the next statement of s runs.
Blockers(s) ==
    {t \in Sessions \ {s} :
        /\ Busy(t) /\ Statement(s) # "none"
        /\ \/ \E wanted \in LockOf(Statement(s)), held \in tx[t].locks : Conflict(wanted, held)
           \/ Statement(s) = "AppendEvent" /\ tx[s].seq \in DOMAIN tx[t].inserted
           \/ Statement(s) = "RecordSignal" /\ tx[s].sig \in tx[t].signals}

WaitsFor == [s, t \in Sessions |-> t \in Blockers(s)]

Ready(s, statement) == Statement(s) = statement /\ Blockers(s) = {}

(* The ends of a transaction: RunInTx commits when its function returns    *)
(* nil and rolls back otherwise.                                           *)

End(s, err) ==
    /\ tx' = [tx EXCEPT ![s] = NoTx]
    /\ last' = IF err \in {"nil", "lost"} THEN Nothing
               ELSE [kind |-> tx[s].kind, token |-> tx[s].token, err |-> err]
    /\ UNCHANGED now

Rollback(s, err) ==
    /\ End(s, err)
    /\ UNCHANGED <<rows, events, outbox, signals, claimed>>

\* The caller of a commit whose answer is lost gets an error all the same.
Commit(s) ==
    /\ AtEnd(s)
    /\ rows' = View(s)
    /\ events' = [k \in DOMAIN events \cup DOMAIN tx[s].inserted |->
                    IF k \in DOMAIN events THEN events[k] ELSE tx[s].inserted[k]]
    /\ outbox' = outbox + tx[s].enqueued
    /\ signals' = signals \cup tx[s].signals
    /\ \/ /\ End(s, "nil")
          /\ claimed' = IF tx[s].kind = "claim" THEN claimed \cup {tx[s].token} ELSE claimed
       \/ End(s, "lost") /\ UNCHANGED claimed

\* The instants passed to these are read between the previous statement and them.
ReadsClock(t, pc) ==
    /\ pc \in DOMAIN Program(t.kind)
    /\ Program(t.kind)[pc] \in {"AcquireLease", "ReleaseLease"}

\* The statement is done: its lock is held, its writes are in the draft.
Continue(s, t) ==
    /\ tx' = [tx EXCEPT ![s] =
                [t EXCEPT !.pc = @ + 1,
                          !.at = IF t.kind = "reclaim" THEN @
                                 ELSE IF ReadsClock(t, t.pc + 1) THEN now ELSE 0,
                          !.locks = @ \cup LockOf(Statement(s))]]
    /\ last' = Nothing
    /\ UNCHANGED <<rows, events, outbox, signals, now, claimed>>

WriteRun(s, run) ==
    [tx[s] EXCEPT !.draft = [@ EXCEPT !.run = run], !.wrote = @ \cup {"run"}]
WriteTask(s, task) ==
    [tx[s] EXCEPT !.draft = [@ EXCEPT !.task = task], !.wrote = @ \cup {"task"}]
WriteLease(s, lease) ==
    [tx[s] EXCEPT !.draft = [@ EXCEPT !.lease = lease], !.wrote = @ \cup {"lease"}]

(* The statements.                                                         *)

\* The reaper's transaction ends here when somebody already dealt with the task.
GetTask(s) ==
    /\ Ready(s, "GetTask")
    /\ IF tx[s].kind = "reclaim" /\ View(s).task.status # "RUNNING"
       THEN Rollback(s, "nil")
       ELSE Continue(s, [tx[s] EXCEPT !.seen = View(s).task])

\* assertToken's plain read of the lease.
GetLease(s) ==
    /\ Ready(s, "GetLease")
    /\ IF View(s).lease.token = tx[s].token
       THEN Continue(s, tx[s])
       ELSE Rollback(s, "ErrFenced")

FaultOneMoreTry(s) == tx[s].seen.attempt <= MaxAttempts /\ ~tx[s].escalated

\* retry is decided from the row GetTask read.
Retries(s) == tx[s].seen.attempt < MaxAttempts /\ ~tx[s].escalated

From(s) == IF tx[s].kind = "claim" THEN "PENDING" ELSE "RUNNING"

To(s) ==
    CASE tx[s].kind = "claim"    -> "RUNNING"
      [] tx[s].kind = "complete" -> "COMPLETED"
      [] OTHER                   -> IF Retries(s) THEN "PENDING" ELSE "DEAD_LETTER"

FaultTrustsItsRead(s) ==
    LET task == View(s).task
    IN  /\ Ready(s, "TransitionTask")
        /\ IF tx[s].seen.status = From(s)
           THEN Continue(s, WriteTask(s,
                    [status |-> To(s),
                     attempt |-> task.attempt + (IF To(s) = "RUNNING" THEN 1 ELSE 0)]))
           ELSE Rollback(s, "ErrConflict")

TransitionTask(s) ==
    LET task == View(s).task
    IN  /\ Ready(s, "TransitionTask")
        /\ IF task.status = From(s)
           THEN Continue(s, WriteTask(s,
                    [status |-> To(s),
                     attempt |-> task.attempt + (IF To(s) = "RUNNING" THEN 1 ELSE 0)]))
           ELSE Rollback(s, "ErrConflict")

\* The process reads its own clock after the previous statement returned and
\* before this one is sent, which may be long before its lock is granted.  The
\* reaper uses the instant its own clock showed when its sweep began.
Instants(s) == IF tx[s].kind = "reclaim" THEN {tx[s].at} ELSE tx[s].at..now + Skew

\* One upsert: a live lease matches no row.  To the reaper that is no error.
AcquireLease(s) ==
    LET lease == View(s).lease
    IN  /\ Ready(s, "AcquireLease")
        /\ \E at \in Instants(s) :
              IF lease.token > 0 /\ lease.expires > at
              THEN Rollback(s, IF tx[s].kind = "reclaim" THEN "nil" ELSE "ErrLeaseHeld")
              ELSE Continue(s, [WriteLease(s, [token   |-> lease.token + 1,
                                                   expires |-> at + LeaseTTL])
                                EXCEPT !.token = lease.token + 1])

\* Both fenced updates: no row matches a stale token.
Fenced(s, expires) ==
    IF View(s).lease.token = tx[s].token
    THEN Continue(s, WriteLease(s, [token |-> tx[s].token, expires |-> expires]))
    ELSE Rollback(s, "ErrFenced")

FaultBeatsOn(s) ==
    /\ Ready(s, "ExtendLease")
    /\ \E at \in Instants(s) : Fenced(s, at + LeaseTTL)

\* The report cancels the heartbeat's context, and database/sql rolls back a
\* transaction whose context ended before its Commit.
ExtendLease(s) ==
    /\ Ready(s, "ExtendLease")
    /\ IF tx[s].token \in claimed
       THEN \E at \in Instants(s) : Fenced(s, at + LeaseTTL)
       ELSE Rollback(s, "lost")

FaultUnfencedRelease(s) ==
    /\ Ready(s, "ReleaseLease")
    /\ \E at \in Instants(s) :
          Continue(s, WriteLease(s, [token |-> View(s).lease.token, expires |-> at]))

ReleaseLease(s) ==
    /\ Ready(s, "ReleaseLease")
    /\ \E at \in Instants(s) : Fenced(s, at)

AdvanceRun(s) ==
    LET run == View(s).run
    IN  /\ Ready(s, "AdvanceRun")
        /\ IF run.version # tx[s].version
           THEN Rollback(s, "ErrConflict")
           ELSE Continue(s, WriteRun(s,
                    [status  |-> IF tx[s].kind = "finish" THEN "COMPLETED" ELSE "RUNNING",
                     version |-> run.version + 1,
                     parked  |-> tx[s].kind = "park"]))

\* UNIQUE (run_id, step_id).
CreateTask(s) ==
    /\ Ready(s, "CreateTask")
    /\ IF View(s).task.status # "NONE"
       THEN Rollback(s, "ErrTaskExists")
       ELSE Continue(s, WriteTask(s, [status |-> "PENDING", attempt |-> 0]))

\* MAX(seq) + 1 over what is committed and what this transaction inserted.
NextSeq(s) ==
    /\ Ready(s, "NextSeq")
    /\ Continue(s, [tx[s] EXCEPT !.seq =
            Max({0} \cup DOMAIN events \cup DOMAIN tx[s].inserted) + 1])

EventTypes(s) ==
    LET followUp == IF Retries(s) THEN "TASK_RETRY_SCHEDULED" ELSE "TASK_DEAD_LETTERED"
    IN  CASE tx[s].kind = "claim"    -> <<"TASK_CLAIMED">>
          [] tx[s].kind = "complete" -> <<"TASK_COMPLETED">>
          [] tx[s].kind = "fail"     -> <<"TASK_FAILED", followUp>>
          [] tx[s].kind = "reclaim"  -> <<"LEASE_EXPIRED", followUp>>
          [] tx[s].kind = "dispatch" -> <<"TASK_CREATED">>
          [] tx[s].kind = "park"     -> <<"SIGNAL_WAIT_STARTED">>
          [] tx[s].kind = "finish"   -> <<"RUN_COMPLETED">>

\* PRIMARY KEY (run_id, seq).
AppendEvent(s) ==
    LET nth == IF DOMAIN tx[s].inserted = {} THEN 1 ELSE 2
        ev  == [type |-> EventTypes(s)[nth], token |-> tx[s].token]
    IN  /\ Ready(s, "AppendEvent")
        /\ IF tx[s].seq \in DOMAIN events
           THEN Rollback(s, "ErrSeqConflict")
           ELSE Continue(s, [tx[s] EXCEPT
                   !.inserted = [k \in DOMAIN @ \cup {tx[s].seq} |->
                                   IF k = tx[s].seq THEN ev ELSE tx[s].inserted[k]],
                   !.seq = 0])

References(s) == Ready(s, "References") /\ Continue(s, tx[s])

\* Only a task that is PENDING again is announced.
EnqueueDelivery(s) ==
    /\ Ready(s, "EnqueueDelivery")
    /\ Continue(s, [tx[s] EXCEPT !.enqueued =
            IF View(s).task.status = "PENDING" THEN @ + 1 ELSE @])

\* PRIMARY KEY (run_id, signal_id): a repeat is success to the sender.
RecordSignal(s) ==
    /\ Ready(s, "RecordSignal")
    /\ IF tx[s].sig \in signals
       THEN Rollback(s, "ErrSignalExists")
       ELSE Continue(s, [tx[s] EXCEPT !.signals = {tx[s].sig}])

ReleaseRun(s) ==
    /\ Ready(s, "ReleaseRun")
    /\ Continue(s, WriteRun(s, [View(s).run EXCEPT !.parked = FALSE]))

\* PostgreSQL breaks a circle by aborting one of its members; translate makes
\* of that error what a lost compare-and-swap is: ErrConflict.
DeadlockDetected(s) ==
    /\ Blockers(s) # {} /\ TransitiveClosure(WaitsFor, Sessions)[s, s]
    /\ Rollback(s, "ErrConflict")

\* The connection, or the process using it, is gone.
Disconnect(s) == Busy(s) /\ ~AtEnd(s) /\ Rollback(s, "lost")

(* The callers.                                                            *)

Open(kind) == [NoTx EXCEPT !.kind = kind]

Begin(s, t) ==
    /\ ~Busy(s)
    /\ tx' = [tx EXCEPT ![s] = [t EXCEPT !.pc = 1,
                 !.at = IF t.kind = "heartbeat" THEN now ELSE @]]
    /\ last' = Nothing
    /\ UNCHANGED <<rows, events, outbox, signals, now>>

\* A delivery, first or repeated, reaches a worker.
ClaimTask(s) ==
    /\ rows.task.status # "NONE"
    /\ Begin(s, Open("claim")) /\ UNCHANGED claimed

\* A worker reports once, however long ago it claimed.
Report(s) ==
    \E token \in claimed :
        /\ claimed' = claimed \ {token}
        /\ \/ Begin(s, [Open("complete") EXCEPT !.token = token])
           \/ \E escalated \in BOOLEAN :
                 Begin(s, [Open("fail") EXCEPT !.token = token, !.escalated = escalated])

Heartbeat(s) ==
    /\ \E token \in claimed : Begin(s, [Open("heartbeat") EXCEPT !.token = token])
    /\ UNCHANGED claimed

\* A sweep that listed the lease as expired by the reaper's clock.
Reclaim(s) ==
    /\ rows.lease.token > 0 /\ rows.task.status \in {"PENDING", "RUNNING"}
    /\ \E at \in now..now + Skew :
          /\ rows.lease.expires <= at
          /\ Begin(s, [Open("reclaim") EXCEPT !.at = at])
    /\ UNCHANGED claimed

\* GetRun came before the transaction, so the version may be stale in it.
Advance(s) ==
    /\ rows.run.status = "RUNNING"
    /\ \E kind \in {"dispatch", "park", "finish"} :
          /\ kind = "park" => rows.run.version < MaxVersion
          /\ Begin(s, [Open(kind) EXCEPT !.version = rows.run.version])
    /\ UNCHANGED claimed

DeliverSignal(s) ==
    /\ rows.run.status = "RUNNING"
    /\ \E sig \in Signals : Begin(s, [Open("signal") EXCEPT !.sig = sig])
    /\ UNCHANGED claimed

ClockTicks ==
    /\ now < MaxNow /\ now' = now + 1
    /\ last' = Nothing
    /\ UNCHANGED <<rows, events, outbox, signals, tx, claimed>>

Init ==
    /\ rows = NoRows
    /\ events = << >> /\ outbox = 0 /\ signals = {}
    /\ now = 0
    /\ tx = [s \in Sessions |-> NoTx]
    /\ claimed = {} /\ last = Nothing

Execute(s) ==
    \/ GetTask(s) \/ GetLease(s) \/ TransitionTask(s)
    \/ AcquireLease(s) \/ ExtendLease(s) \/ ReleaseLease(s)
    \/ AdvanceRun(s) \/ CreateTask(s) \/ NextSeq(s) \/ AppendEvent(s) \/ References(s)
    \/ EnqueueDelivery(s) \/ RecordSignal(s) \/ ReleaseRun(s)
    \/ Commit(s) \/ DeadlockDetected(s)

Next ==
    \/ \E s \in Sessions :
          \/ Execute(s) \/ Disconnect(s)
          \/ ClaimTask(s) \/ Report(s) \/ Heartbeat(s) \/ Reclaim(s)
          \/ Advance(s) \/ DeliverSignal(s)
    \/ ClockTicks

Spec == Init /\ [][Next]_vars

(* Properties.                                                             *)

\* The committed rows keep their ranges: no task is tried more often than its
\* budget, however stale the row a retry was decided from.
TypeOK ==
    /\ rows.run \in [status : {"RUNNING", "COMPLETED"}, version : 0..MaxVersion + 2,
                        parked : BOOLEAN]
    /\ rows.task \in [status : {"NONE", "PENDING", "RUNNING", "COMPLETED", "DEAD_LETTER"},
                         attempt : 0..MaxAttempts]
    /\ rows.lease \in [token : 0..2 * MaxAttempts, expires : 0..MaxNow + Skew + LeaseTTL]
    /\ now \in 0..MaxNow /\ outbox \in 0..MaxAttempts /\ signals \subseteq Signals

\* A report or a reclaim reads the task, and a report the lease, without a
\* lock, and decides the retry from the attempt it read.  When it commits, that
\* attempt is the one running and its token is the current one (the reaper's:
\* the next one): whatever other sessions committed in between, the lock taken
\* afterwards and the fence at ReleaseLease stop the transaction.
DecidedOnCurrentRow ==
    \A s \in Sessions :
        AtEnd(s) /\ tx[s].kind \in {"complete", "fail", "reclaim"} =>
            /\ rows.task.status = "RUNNING" /\ rows.task.attempt = tx[s].seen.attempt
            /\ tx[s].token = IF tx[s].kind = "reclaim" THEN rows.lease.token + 1
                                                       ELSE rows.lease.token

\* A claim that found the task PENDING is refused with ErrLeaseHeld only
\* because clocks differ, and what it met has no longer to run than they differ:
\* no heartbeat, reclaim or lost answer leaves a lease behind on a task that
\* nobody owns.
LeaseHeldIsSkew ==
    last.err = "ErrLeaseHeld" => Skew > 0 /\ rows.lease.expires <= now + Skew

\* A claim refused with ErrLeaseHeld, which the worker drops as "already claimed
\* elsewhere" (worker.go), was about a task that somebody else claimed.
DroppedClaimIsRedundant == last.err = "ErrLeaseHeld" => rows.task.status # "PENDING"

\* READ COMMITTED does not show: every commit is one transaction of the
\* serial store, on rows, log, tokens, deliveries and signals, and nothing
\* else changes them.
Memory == INSTANCE MemoryStore
    WITH db <- [run |-> rows.run, task |-> rows.task, lease |-> rows.lease,
                log |-> events, deliveries |-> outbox, signals |-> signals]
ImplementsMemory == Memory!MemorySpec

\* A report that was dropped with "no longer running" (tasks.go) was about a
\* task that is no longer running under the reporter's token.
DroppedReportIsStale ==
    last.kind \in {"complete", "fail"} /\ last.err = "ErrConflict"
        => ~(rows.task.status = "RUNNING" /\ rows.lease.token = last.token)
=============================================================================
