---------------------------- MODULE MemoryStore ----------------------------
(***************************************************************************)
(* What the engine believes of its store: transactions take effect one at  *)
(* a time.  The store of internal/store/memory is exactly this, because it *)
(* holds one mutex for a whole transaction and swaps a private copy in.    *)
(* PostgresStore is shown to implement it.                                 *)
(*                                                                         *)
(* One run with one task.  db is the copy-on-write state; a transaction    *)
(* that returns an error discards its copy, so only the ones that commit   *)
(* are steps.  at is the instant the transaction read from its process's   *)
(* clock, before it commits and up to Skew ahead of now, the slowest one.  *)
(***************************************************************************)
EXTENDS Integers, Sequences

CONSTANTS
    Signals,      \* ids under which senders deliver signals
    MaxAttempts,  \* tries a task gets (core.RetryPolicy.MaxAttempts)
    LeaseTTL,     \* engine.Config.LeaseTTL
    Skew          \* how far the clocks of two processes may be apart

VARIABLES db, now

memVars == <<db, now>>

Instants == 0..now + Skew

(* The write surface of core.Tx, as functions of the working copy.         *)

\* A claim consumes an attempt; every other transition leaves the count alone.
TransitionTask(d, to) ==
    [d EXCEPT !.task.status = to,
              !.task.attempt = IF to = "RUNNING" THEN @ + 1 ELSE @]

Held(d, at) == d.lease.token > 0 /\ d.lease.expires > at

AcquireLease(d, at, expires) ==
    [d EXCEPT !.lease = [token |-> d.lease.token + 1, expires |-> expires]]

ExtendLease(d, expires) == [d EXCEPT !.lease.expires = expires]

\* Expired, not deleted: the token lives in the row and keeps counting.
ReleaseLease(d, at) == [d EXCEPT !.lease.expires = at]

\* nil AvailableAt clears the park.
AdvanceRun(d, status, parked) ==
    [d EXCEPT !.run = [status |-> status, version |-> @.version + 1, parked |-> parked]]

CreateTask(d) == [d EXCEPT !.task = [status |-> "PENDING", attempt |-> 0]]

\* NextSeq and the conditional append, with nobody in between.
\* token is the ownership the event was written under, 0 for events of the run.
AppendEvent(d, type, token) == [d EXCEPT !.log = Append(@, [type |-> type, token |-> token])]

EnqueueDelivery(d) == [d EXCEPT !.deliveries = @ + 1]

RecordSignal(d, sig) == [d EXCEPT !.signals = @ \cup {sig}]

ReleaseRun(d) == [d EXCEPT !.run.parked = FALSE]

RunInTx(working) == db' = working /\ UNCHANGED now

(* The transactions.                                                       *)

ClaimTask(at) ==
    /\ db.task.status = "PENDING"
    /\ ~Held(db, at)
    /\ RunInTx(AppendEvent(AcquireLease(TransitionTask(db, "RUNNING"), at, at + LeaseTTL),
                           "TASK_CLAIMED", db.lease.token + 1))

CompleteTask(at) ==
    /\ db.task.status = "RUNNING"
    /\ RunInTx(AppendEvent(ReleaseLease(TransitionTask(db, "COMPLETED"), at),
                           "TASK_COMPLETED", db.lease.token))

Exhausted(d) == d.task.attempt >= MaxAttempts

\* Back to PENDING with the intent to deliver it again, or buried without.
GiveBack(d, first, retry) ==
    LET token == d.lease.token
    IN  IF retry
        THEN EnqueueDelivery(AppendEvent(AppendEvent(TransitionTask(d, "PENDING"), first, token),
                                         "TASK_RETRY_SCHEDULED", token))
        ELSE AppendEvent(AppendEvent(TransitionTask(d, "DEAD_LETTER"), first, token),
                         "TASK_DEAD_LETTERED", token)

FailTask(at, escalated) ==
    /\ db.task.status = "RUNNING"
    /\ RunInTx(ReleaseLease(GiveBack(db, "TASK_FAILED", ~Exhausted(db) /\ ~escalated), at))

Heartbeat(at) ==
    /\ db.lease.token > 0
    /\ RunInTx(ExtendLease(db, at + LeaseTTL))

Reclaim(at) ==
    /\ db.task.status = "RUNNING"
    /\ ~Held(db, at)
    /\ RunInTx(ReleaseLease(GiveBack(AcquireLease(db, at, at), "LEASE_EXPIRED", ~Exhausted(db)),
                            at))

Dispatch ==
    /\ db.run.status = "RUNNING"
    /\ db.task.status = "NONE"
    /\ RunInTx(EnqueueDelivery(AppendEvent(CreateTask(AdvanceRun(db, "RUNNING", FALSE)),
                                           "TASK_CREATED", 0)))

Park ==
    /\ db.run.status = "RUNNING"
    /\ RunInTx(AppendEvent(AdvanceRun(db, "RUNNING", TRUE), "SIGNAL_WAIT_STARTED", 0))

Finish ==
    /\ db.run.status = "RUNNING"
    /\ RunInTx(AppendEvent(AdvanceRun(db, "COMPLETED", FALSE), "RUN_COMPLETED", 0))

DeliverSignal(sig) ==
    /\ sig \notin db.signals
    /\ RunInTx(ReleaseRun(RecordSignal(db, sig)))

ClockTicks == now' = now + 1 /\ UNCHANGED db

MemoryInit ==
    /\ db = [run        |-> [status |-> "RUNNING", version |-> 0, parked |-> FALSE],
             task       |-> [status |-> "NONE", attempt |-> 0],
             lease      |-> [token |-> 0, expires |-> 0],
             log        |-> << >>,
             deliveries |-> 0,
             signals    |-> {}]
    /\ now = 0

MemoryNext ==
    \/ \E at \in Instants :
          \/ ClaimTask(at) \/ CompleteTask(at) \/ Heartbeat(at) \/ Reclaim(at)
          \/ \E escalated \in BOOLEAN : FailTask(at, escalated)
    \/ Dispatch \/ Park \/ Finish
    \/ \E sig \in Signals : DeliverSignal(sig)
    \/ ClockTicks

MemorySpec == MemoryInit /\ [][MemoryNext]_memVars
=============================================================================
