-------------------------- MODULE TaskLeaseProofs --------------------------
(***************************************************************************)
(* Theorems about TaskLease, for every set of tasks and workers, every     *)
(* retry budget and every channel depth.                                   *)
(***************************************************************************)
EXTENDS TaskLease, TLAPS

(***************************************************************************)
(* TypeOK is not inductive. The attempt number stays in range because a    *)
(* task that can still be claimed has an attempt left, and the rows an     *)
(* action touches exist because a busy worker is busy with a task.         *)
(***************************************************************************)
AttemptLeft ==
    \A t \in Tasks : task[t].status \in {"ABSENT", "PENDING"} =>
                         task[t].attempt < MaxAttempts

BusyWithTask ==
    \A w \in Workers : worker[w].pc # "idle" => worker[w].task \in Tasks

TypeInv == TypeOK /\ AttemptLeft /\ BusyWithTask

\* The rows start in shape.
LEMMA TypeInit == Init => TypeInv
  BY AttemptsAssumption
  DEF Init, TypeInv, TypeOK, AttemptLeft, BusyWithTask, Attempts, Deliveries,
      Rows, TaskStatus, RowStatus, WorkerPC, Holding, Outcomes, Idle, Event

(***************************************************************************)
(* What the writes that several actions share leave in the store.          *)
(***************************************************************************)
LEMMA AppendShape ==
  ASSUME TypeInv, NEW t \in Tasks, NEW e \in Event,
         history' = [history EXCEPT ![t] = Append(@, e)]
  PROVE  history' \in [Tasks -> Seq(Event)]
  <1>1. Append(history[t], e) \in Seq(Event)
    BY DEF TypeInv, TypeOK
  <1> QED
    BY <1>1 DEF TypeInv, TypeOK

\* Two events keep the log's shape.
LEMMA AppendTwoShape ==
  ASSUME TypeInv, NEW t \in Tasks, NEW e \in Event, NEW f \in Event,
         history' = [history EXCEPT ![t] = @ \o <<e, f>>]
  PROVE  history' \in [Tasks -> Seq(Event)]
  <1>1. <<e, f>> \in Seq(Event)
    OBVIOUS
  <1>2. history[t] \o <<e, f>> \in Seq(Event)
    BY <1>1 DEF TypeInv, TypeOK
  <1> QED
    BY <1>2 DEF TypeInv, TypeOK

\* The events of a failure have the shape of events.
LEMMA FailEventsShape ==
  ASSUME NEW x \in [status : TaskStatus, attempt : Attempts], NEW retry \in BOOLEAN
  PROVE  \E e \in Event, f \in Event : FailEvents(x, retry) = <<e, f>>
  <1> DEFINE e == Evt("TASK_FAILED", x, ~retry)
             f == Evt(IF retry THEN "TASK_RETRY_SCHEDULED"
                      ELSE "TASK_DEAD_LETTERED", x, FALSE)
  <1>1. (~retry) \in BOOLEAN
    OBVIOUS
  <1>2. \A v \in BOOLEAN : Evt("TASK_FAILED", x, v) \in Event
    BY DEF Evt, Event, EventTypes
  <1>3. e \in Event
    BY <1>1, <1>2
  <1>4. f \in Event
    BY DEF Evt, Event, EventTypes
  <1>5. FailEvents(x, retry) = <<e, f>>
    BY DEF FailEvents
  <1> QED
    BY <1>3, <1>4, <1>5

\* So have those of a reclaim.
LEMMA ReclaimEventsShape ==
  ASSUME NEW x \in [status : TaskStatus, attempt : Attempts], NEW dead \in BOOLEAN
  PROVE  \E e \in Event, f \in Event : ReclaimEvents(x, dead) = <<e, f>>
  BY DEF ReclaimEvents, Evt, Event, EventTypes

\* A delivery is enqueued in shape.
LEMMA EnqueueShape ==
  ASSUME TypeInv, NEW t \in Tasks, task[t].attempt < MaxAttempts,
         NEW delayed \in BOOLEAN, EnqueueDelivery(t, delayed)
  PROVE  outbox' \in [Tasks -> [Deliveries -> RowStatus]]
  <1>1. task[t].attempt \in Deliveries
    BY AttemptsAssumption DEF TypeInv, TypeOK, Attempts, Deliveries
  <1> QED
    BY <1>1 DEF TypeInv, TypeOK, EnqueueDelivery, RowStatus

\* A worker that stops is idle.
LEMMA IdleShape ==
  ASSUME TypeInv, NEW w \in Workers, worker' = [worker EXCEPT ![w] = Idle]
  PROVE  /\ worker' \in [Workers -> [pc : WorkerPC, task : Tasks \cup {NoTask},
                                     token : Nat, attempt : Attempts]]
         /\ BusyWithTask'
  BY AttemptsAssumption DEF TypeInv, TypeOK, BusyWithTask, Idle, WorkerPC, Attempts

\* Every step keeps the shapes.
LEMMA TypeStep == TypeInv /\ [Next]_vars => TypeInv'
  <1> SUFFICES ASSUME TypeInv, [Next]_vars PROVE TypeInv'
    OBVIOUS
  <1> USE AttemptsAssumption, TasksAssumption
  <1>1. ASSUME NEW t \in Tasks, Dispatch(t) PROVE TypeInv'
    <2>1. outbox' \in [Tasks -> [Deliveries -> RowStatus]]
      BY <1>1, EnqueueShape DEF Dispatch, TypeInv, AttemptLeft
    <2>2. Evt("TASK_CREATED", task[t], FALSE) \in Event
      BY DEF Evt, Event, EventTypes, TypeInv, TypeOK
    <2>3. history' \in [Tasks -> Seq(Event)]
      BY <1>1, <2>2, AppendShape DEF Dispatch
    <2>4. task' \in [Tasks -> [status : TaskStatus, attempt : Attempts]]
      BY <1>1 DEF Dispatch, TypeInv, TypeOK, TransitionTask, TaskStatus
    <2>5. AttemptLeft'
      BY <1>1 DEF Dispatch, TypeInv, TypeOK, AttemptLeft, TransitionTask
    <2> QED
      BY <1>1, <2>1, <2>3, <2>4, <2>5
      DEF Dispatch, TypeInv, TypeOK, BusyWithTask, transport
  <1>2. ASSUME NEW w \in Workers, ClaimTask(w) PROVE TypeInv'
    <2> DEFINE t == worker[w].task
    <2> DEFINE x == TransitionTask(task[t], "RUNNING")
    <2>1. t \in Tasks /\ task[t].attempt \in Attempts /\ task[t].attempt < MaxAttempts
      BY <1>2 DEF ClaimTask, Claimable, TypeInv, TypeOK, AttemptLeft, BusyWithTask
    <2>2. x.attempt \in Attempts /\ x.status = "RUNNING" /\ x = [status |-> x.status, attempt |-> x.attempt]
      BY <2>1 DEF TransitionTask, Attempts
    <2>3. Evt("TASK_CLAIMED", x, FALSE) \in Event
      BY <2>2 DEF Evt, Event, EventTypes
    <2>4. history' \in [Tasks -> Seq(Event)]
      BY <1>2, <2>1, <2>3, AppendShape DEF ClaimTask
    <2>5. task' = [task EXCEPT ![t] = x]
      BY <1>2 DEF ClaimTask
    <2>6. task' \in [Tasks -> [status : TaskStatus, attempt : Attempts]]
      BY <2>2, <2>5 DEF TypeInv, TypeOK, TaskStatus
    <2>7. AttemptLeft'
      BY <2>2, <2>5 DEF TypeInv, TypeOK, AttemptLeft
    <2>8. lease' \in [Tasks -> [token : Nat, live : BOOLEAN]]
      BY <1>2, <2>1 DEF ClaimTask, TypeInv, TypeOK, AcquireLease
    <2>9. worker' = [worker EXCEPT ![w] = [pc |-> "working", task |-> t,
                        token |-> lease[t].token + 1, attempt |-> x.attempt]]
      BY <1>2 DEF ClaimTask, AcquireLease
    <2>10. worker' \in [Workers -> [pc : WorkerPC, task : Tasks \cup {NoTask},
                                    token : Nat, attempt : Attempts]]
      BY <2>1, <2>2, <2>9 DEF TypeInv, TypeOK, WorkerPC, Holding
    <2>11. BusyWithTask'
      BY <2>1, <2>9 DEF TypeInv, TypeOK, BusyWithTask
    <2> QED
      BY <1>2, <2>4, <2>6, <2>7, <2>8, <2>10, <2>11
      DEF ClaimTask, TypeInv, TypeOK, transport
  <1>3. ASSUME NEW w \in Workers, CompleteTask(w) PROVE TypeInv'
    <2> DEFINE t == worker[w].task
    <2>1. t \in Tasks
      BY <1>3 DEF CompleteTask, TypeInv, BusyWithTask
    <2>2. Evt("TASK_COMPLETED", worker[w], FALSE) \in Event
      BY DEF Evt, Event, EventTypes, TypeInv, TypeOK
    <2>3. history' \in [Tasks -> Seq(Event)]
      BY <1>3, <2>1, <2>2, AppendShape DEF CompleteTask
    <2>4. task' \in [Tasks -> [status : TaskStatus, attempt : Attempts]]
      BY <1>3, <2>1 DEF CompleteTask, TypeInv, TypeOK, TransitionTask, TaskStatus
    <2>5. AttemptLeft'
      BY <1>3, <2>1 DEF CompleteTask, TypeInv, TypeOK, AttemptLeft, TransitionTask
    <2>6. lease' \in [Tasks -> [token : Nat, live : BOOLEAN]]
      BY <1>3, <2>1 DEF CompleteTask, TypeInv, TypeOK, ReleaseLease
    <2>7. worker' = [worker EXCEPT ![w] = Idle]
      BY <1>3 DEF CompleteTask
    <2> QED
      BY <1>3, <2>3, <2>4, <2>5, <2>6, <2>7, IdleShape DEF CompleteTask, TypeInv, TypeOK, transport
  <1>4. ASSUME NEW w \in Workers, NEW d \in BOOLEAN, FailTask(w, d) PROVE TypeInv'
    <2> DEFINE t == worker[w].task
               next == IF Retries(w) THEN "PENDING" ELSE "DEAD_LETTER"
    <2>1. t \in Tasks
      BY <1>4 DEF FailTask, TypeInv, BusyWithTask
    <2>2. Retries(w) \in BOOLEAN /\ (Retries(w) => task[t].attempt < MaxAttempts)
      BY <2>1 DEF Retries, Exhausted, TypeInv, TypeOK, Attempts
    <2>3. PICK e \in Event, f \in Event : FailEvents(task[t], Retries(w)) = <<e, f>>
      BY <2>1, <2>2, FailEventsShape DEF TypeInv, TypeOK
    <2>4. history' \in [Tasks -> Seq(Event)]
      BY <1>4, <2>1, <2>3, AppendTwoShape DEF FailTask
    <2>5. task' = [task EXCEPT ![t] = [status |-> next, attempt |-> @.attempt]]
      BY <1>4 DEF FailTask, TransitionTask
    <2>6. task' \in [Tasks -> [status : TaskStatus, attempt : Attempts]]
      BY <2>1, <2>5 DEF TypeInv, TypeOK, TaskStatus
    <2>7. AttemptLeft'
      BY <2>1, <2>2, <2>5 DEF TypeInv, TypeOK, AttemptLeft
    <2>8. lease' \in [Tasks -> [token : Nat, live : BOOLEAN]]
      BY <1>4, <2>1 DEF FailTask, TypeInv, TypeOK, ReleaseLease
    <2>9. outbox' \in [Tasks -> [Deliveries -> RowStatus]]
      <3>1. CASE Retries(w)
        BY <1>4, <2>1, <2>2, <3>1, EnqueueShape DEF FailTask
      <3>2. CASE ~Retries(w)
        BY <1>4, <3>2 DEF FailTask, TypeInv, TypeOK
      <3> QED
        BY <3>1, <3>2
    <2>10. worker' = [worker EXCEPT ![w] = Idle]
      BY <1>4 DEF FailTask
    <2> QED
      BY <1>4, <2>4, <2>6, <2>7, <2>8, <2>9, <2>10, IdleShape DEF FailTask, TypeInv, TypeOK, transport
  <1>5. ASSUME NEW t \in Tasks, Reclaim(t) PROVE TypeInv'
    <2> DEFINE dead == Exhausted(task[t])
               next == IF dead THEN "DEAD_LETTER" ELSE "PENDING"
    <2>1. dead \in BOOLEAN /\ (~dead => task[t].attempt < MaxAttempts)
      BY DEF Exhausted, TypeInv, TypeOK, Attempts
    <2>2. PICK e \in Event, f \in Event : ReclaimEvents(task[t], dead) = <<e, f>>
      BY <2>1, ReclaimEventsShape DEF TypeInv, TypeOK
    <2>3. history' \in [Tasks -> Seq(Event)]
      BY <1>5, <2>2, AppendTwoShape DEF Reclaim
    <2>4. task' = [task EXCEPT ![t] = [status |-> next, attempt |-> @.attempt]]
      BY <1>5 DEF Reclaim, TransitionTask
    <2>5. task' \in [Tasks -> [status : TaskStatus, attempt : Attempts]]
      BY <2>4 DEF TypeInv, TypeOK, TaskStatus
    <2>6. AttemptLeft'
      BY <2>1, <2>4 DEF TypeInv, TypeOK, AttemptLeft
    <2>7. lease' \in [Tasks -> [token : Nat, live : BOOLEAN]]
      BY <1>5 DEF Reclaim, TypeInv, TypeOK, ReleaseLease, AcquireLease
    <2>8. outbox' \in [Tasks -> [Deliveries -> RowStatus]]
      <3>1. CASE dead
        BY <1>5, <3>1 DEF Reclaim, TypeInv, TypeOK
      <3>2. CASE ~dead
        BY <1>5, <2>1, <3>2, EnqueueShape DEF Reclaim
      <3> QED
        BY <3>1, <3>2
    <2> QED
      BY <1>5, <2>3, <2>5, <2>6, <2>7, <2>8
      DEF Reclaim, TypeInv, TypeOK, BusyWithTask, transport
  <1>6. ASSUME NEW w \in Workers, Receive(w) PROVE TypeInv'
    <2>1. Head(queue) \in Tasks /\ Tail(queue) \in Seq(Tasks)
      BY <1>6 DEF Receive, TypeInv, TypeOK
    <2>2. worker' = [worker EXCEPT ![w] = [pc |-> "received", task |-> Head(queue),
                                           token |-> 0, attempt |-> 0]]
      BY <1>6 DEF Receive
    <2>3. worker' \in [Workers -> [pc : WorkerPC, task : Tasks \cup {NoTask},
                                   token : Nat, attempt : Attempts]]
      BY <2>1, <2>2 DEF TypeInv, TypeOK, WorkerPC, Attempts
    <2>4. BusyWithTask'
      BY <2>1, <2>2 DEF TypeInv, TypeOK, BusyWithTask
    <2> QED
      BY <1>6, <2>1, <2>3, <2>4 DEF Receive, TypeInv, TypeOK, AttemptLeft, store
  <1>7. ASSUME NEW w \in Workers,
               \/ ClaimRefused(w) \/ ClaimErrors(w) \/ StopsAfterLosingLease(w)
               \/ ReportRejected(w) \/ ReportErrors(w) \/ WorkerCrash(w)
        PROVE TypeInv'
    <2>1. worker' = [worker EXCEPT ![w] = Idle] /\ UNCHANGED <<store, transport, beats>>
      BY <1>7 DEF ClaimRefused, ClaimErrors, StopsAfterLosingLease,
                  ReportRejected, ReportErrors, WorkerCrash
    <2> QED
      BY <2>1, IdleShape DEF TypeInv, TypeOK, AttemptLeft, store, transport
  <1>8. ASSUME NEW w \in Workers, Heartbeat(w) PROVE TypeInv'
    <2>1. <<worker[w].task, worker[w].token>> \in Tasks \X Nat
      BY <1>8 DEF Heartbeat, TypeInv, TypeOK, BusyWithTask
    <2> QED
      BY <1>8, <2>1 DEF Heartbeat, TypeInv, TypeOK, AttemptLeft, BusyWithTask, store, transport
  <1>9. ASSUME NEW w \in Workers, NEW o \in Outcomes, ToolReturns(w, o) PROVE TypeInv'
    BY <1>9 DEF ToolReturns, TypeInv, TypeOK, AttemptLeft, BusyWithTask, store,
                transport, WorkerPC, Holding, Outcomes
  <1>10. ASSUME NEW b \in beats, HeartbeatLands(b) PROVE TypeInv'
    BY <1>10 DEF HeartbeatLands, ExtendLease, TypeInv, TypeOK, AttemptLeft,
                 BusyWithTask, transport
  <1>11. ASSUME NEW b \in beats, HeartbeatFenced(b) PROVE TypeInv'
    <2>1. \A w \in Workers :
            worker'[w] \in {worker[w], [worker[w] EXCEPT !.pc = "lost"]}
            /\ (worker[w].pc = "idle" => worker'[w] = worker[w])
      BY <1>11 DEF HeartbeatFenced
    <2>2. \A w \in Workers : worker[w] \in [pc : WorkerPC, task : Tasks \cup {NoTask},
                                             token : Nat, attempt : Attempts]
      BY DEF TypeInv, TypeOK
    <2>3. worker' \in [Workers -> [pc : WorkerPC, task : Tasks \cup {NoTask},
                                   token : Nat, attempt : Attempts]]
      BY <1>11, <2>2 DEF HeartbeatFenced, WorkerPC, Holding
    <2>4. BusyWithTask'
      BY <2>1, <2>2 DEF TypeInv, BusyWithTask
    <2> QED
      BY <1>11, <2>3, <2>4 DEF HeartbeatFenced, TypeInv, TypeOK, AttemptLeft, store, transport
  <1>12. ASSUME NEW b \in beats, HeartbeatErrors(b) PROVE TypeInv'
    BY <1>12 DEF HeartbeatErrors, TypeInv, TypeOK, AttemptLeft, BusyWithTask,
                 store, transport
  <1>13. ASSUME NEW t \in Tasks, LeaseExpires(t) PROVE TypeInv'
    <2>1. lease' \in [Tasks -> [token : Nat, live : BOOLEAN]]
      <3> DEFINE e == FALSE
      <3>1. e \in BOOLEAN /\ lease' = [lease EXCEPT ![t].live = e]
        BY <1>13 DEF LeaseExpires
      <3>2. lease \in [Tasks -> [token : Nat, live : BOOLEAN]]
        BY DEF TypeInv, TypeOK
      <3> HIDE DEF e
      <3> QED
        BY <3>1, <3>2
    <2>2. UNCHANGED <<task, outbox, history, queue, batch, sent, announced, scan, worker, beats>>
      BY <1>13 DEF LeaseExpires, transport
    <2> QED
      BY <2>1, <2>2 DEF TypeInv, TypeOK, AttemptLeft, BusyWithTask
  <1>14. ASSUME NEW t \in Tasks, NEW k \in Deliveries, BackoffElapses(t, k) PROVE TypeInv'
    BY <1>14 DEF BackoffElapses, TypeInv, TypeOK, AttemptLeft, BusyWithTask,
                 transport, RowStatus
  <1>15. ASSUME NEW r \in Rows, RelayPublishes(r) \/ RelayPublishFails(r) PROVE TypeInv'
    <2>1. r[1] \in Tasks
      BY DEF Rows
    <2>2. CASE RelayPublishes(r)
      BY <2>1, <2>2 DEF RelayPublishes, Publish, TypeInv, TypeOK, AttemptLeft,
                        BusyWithTask, store
    <2>3. CASE RelayPublishFails(r)
      BY <2>3 DEF RelayPublishFails, TypeInv, TypeOK, AttemptLeft, BusyWithTask, store
    <2> QED
      BY <1>15, <2>2, <2>3
  <1>16. ASSUME NEW t \in Tasks, ScanPublishes(t) PROVE TypeInv'
    BY <1>16 DEF ScanPublishes, Publish, TypeInv, TypeOK, AttemptLeft, BusyWithTask, store
  <1>17. CASE RelayMarks
    <2>1. outbox' \in [Tasks -> [Deliveries -> RowStatus]]
      BY <1>17 DEF RelayMarks, TypeInv, TypeOK, RowStatus
    <2> QED
      BY <1>17, <2>1 DEF RelayMarks, TypeInv, TypeOK, AttemptLeft, BusyWithTask
  <1>18. CASE RelayReads \/ RelayStops \/ ScanReads \/ RuntimeCrash
    <2> USE DEF TypeInv, TypeOK, AttemptLeft, BusyWithTask, store
    <2>1. CASE RelayReads
      BY <2>1 DEF RelayReads, ReadyRows
    <2>2. CASE RelayStops
      BY <2>2 DEF RelayStops
    <2>3. CASE ScanReads
      BY <2>3 DEF ScanReads, PendingTasks
    <2>4. CASE RuntimeCrash
      BY <2>4 DEF RuntimeCrash
    <2> QED
      BY <1>18, <2>1, <2>2, <2>3, <2>4
  <1>19. CASE UNCHANGED vars
    BY <1>19 DEF vars, TypeInv, TypeOK, AttemptLeft, BusyWithTask
  <1> QED
    BY <1>1, <1>2, <1>3, <1>4, <1>5, <1>6, <1>7, <1>8, <1>9, <1>10, <1>11, <1>12,
       <1>13, <1>14, <1>15, <1>16, <1>17, <1>18, <1>19
    DEF Next, WorkerSteps, RelaySteps, TaskSteps, BeatSteps

\* The store's rows, the channel and the loops keep their shapes, and the
\* attempt counter never passes MaxAttempts, in every execution of TaskLease.
THEOREM TypeCorrect == Spec => []TypeOK
  <1>1. TypeInv => TypeOK
    BY DEF TypeInv
  <1> QED
    BY <1>1, TypeInit, TypeStep, PTL DEF Spec

----------------------------------------------------------------------------
(***************************************************************************)
(* Fencing. OneCurrentOwner is inductive given TypeInv: a token is issued  *)
(* only by adding one to the largest token ever issued for that task, so   *)
(* whoever was current before a claim or a reclaim is not current after.   *)
(* Most steps leave every token, row and holder alone; OwnerFrame covers   *)
(* them all.                                                               *)
(***************************************************************************)
HoldersKept ==
    \A w \in Workers : worker'[w].pc \in Holding =>
        /\ worker[w].pc \in Holding
        /\ worker'[w].task = worker[w].task
        /\ worker'[w].token = worker[w].token
        /\ worker'[w].attempt = worker[w].attempt

TokensKept == \A t \in Tasks : lease'[t].token = lease[t].token

(***************************************************************************)
(* The steps that touch a task row, a lease, the history or a worker; all  *)
(* the others only move deliveries about.                                  *)
(***************************************************************************)
LEMMA StepCases ==
  ASSUME [Next]_vars
  PROVE  \/ \E t \in Tasks : Dispatch(t) \/ Reclaim(t) \/ LeaseExpires(t)
         \/ \E w \in Workers :
              \/ Receive(w) \/ ClaimTask(w) \/ CompleteTask(w)
              \/ \E d \in BOOLEAN : FailTask(w, d)
              \/ \E o \in Outcomes : ToolReturns(w, o)
              \/ ClaimRefused(w) \/ ClaimErrors(w) \/ StopsAfterLosingLease(w)
              \/ ReportRejected(w) \/ ReportErrors(w) \/ WorkerCrash(w)
         \/ \E b \in beats : HeartbeatLands(b) \/ HeartbeatFenced(b)
         \/ UNCHANGED <<task, lease, history, worker>>
  <1> DEFINE Quiet == UNCHANGED <<task, lease, history, worker>>
  <1>1. ASSUME NEW w \in Workers, Heartbeat(w) PROVE Quiet
    BY <1>1 DEF Heartbeat, store
  <1>2. ASSUME NEW b \in beats, HeartbeatErrors(b) PROVE Quiet
    BY <1>2 DEF HeartbeatErrors, store
  <1>3. ASSUME NEW t \in Tasks, NEW k \in Deliveries, BackoffElapses(t, k) PROVE Quiet
    BY <1>3 DEF BackoffElapses
  <1>4. ASSUME NEW t \in Tasks, ScanPublishes(t) PROVE Quiet
    BY <1>4 DEF ScanPublishes, store
  <1>5. CASE RelaySteps
    BY <1>5 DEF RelaySteps, RelayReads, RelayMarks, RelayStops, RelayPublishes,
                RelayPublishFails, store
  <1>6. CASE ScanReads \/ RuntimeCrash
    BY <1>6 DEF ScanReads, RuntimeCrash, store
  <1>7. CASE UNCHANGED vars
    BY <1>7 DEF vars
  <1> QED
    BY <1>1, <1>2, <1>3, <1>4, <1>5, <1>6, <1>7
    DEF Next, WorkerSteps, TaskSteps, BeatSteps

\* No row changes, no token is lost and nobody new holds one: the owner stays.
LEMMA OwnerFrame ==
  ASSUME OneCurrentOwner, HoldersKept, TokensKept, UNCHANGED task
  PROVE  OneCurrentOwner'
  BY DEF OneCurrentOwner, HoldersKept, TokensKept, Holds

\* A worker that goes back to idle takes no claim with it.
LEMMA IdleKeepsHolders ==
  ASSUME TypeInv, NEW w \in Workers, worker' = [worker EXCEPT ![w] = Idle]
  PROVE  HoldersKept /\ worker'[w].pc \notin Holding
  BY DEF TypeInv, TypeOK, HoldersKept, Idle, Holding, Outcomes

\* After a report by the current owner nobody is current, so what the report
\* wrote to the row contradicts nobody's claim.
LEMMA OwnerAfterReport ==
  ASSUME TypeInv, OneCurrentOwner, NEW w \in Workers, worker[w].pc \in Holding,
         NEW t \in Tasks, worker[w].task = t, worker[w].token = lease[t].token,
         worker' = [worker EXCEPT ![w] = Idle], TokensKept,
         \A s \in Tasks \ {t} : task'[s] = task[s]
  PROVE  OneCurrentOwner'
  <1>1. HoldersKept /\ worker'[w].pc \notin Holding
    BY IdleKeepsHolders
  <1>2. \A v \in Workers : Holds(v, t)' => worker'[v].token # lease'[t].token
    BY <1>1 DEF OneCurrentOwner, Holds, HoldersKept, TokensKept
  <1> QED
    BY <1>1, <1>2 DEF OneCurrentOwner, Holds, HoldersKept, TokensKept

\* Every step keeps at most one current owner.
LEMMA OwnerStep == TypeInv /\ OneCurrentOwner /\ [Next]_vars => OneCurrentOwner'
  <1> SUFFICES ASSUME TypeInv, OneCurrentOwner, [Next]_vars PROVE OneCurrentOwner'
    OBVIOUS
  <1>1. ASSUME NEW t \in Tasks, Dispatch(t) PROVE OneCurrentOwner'
    <2>1. /\ UNCHANGED <<lease, worker>>
          /\ task[t].status = "ABSENT"
          /\ \A s \in Tasks \ {t} : task'[s] = task[s]
      BY <1>1 DEF Dispatch, TypeInv, TypeOK
    <2>2. \A v \in Workers : Holds(v, t) => worker[v].token # lease[t].token
      BY <2>1 DEF OneCurrentOwner
    <2> QED
      BY <2>1, <2>2 DEF OneCurrentOwner, Holds
  <1>2. ASSUME NEW w \in Workers, ClaimTask(w) PROVE OneCurrentOwner'
    <2>1. PICK t \in Tasks : worker[w].task = t
      BY <1>2 DEF ClaimTask, TypeInv, BusyWithTask
    <2>2. /\ lease'[t].token = lease[t].token + 1
          /\ \A s \in Tasks \ {t} : lease'[s] = lease[s] /\ task'[s] = task[s]
          /\ task'[t].status = "RUNNING"
      BY <1>2, <2>1 DEF ClaimTask, AcquireLease, TransitionTask, TypeInv, TypeOK
    <2>3. /\ worker'[w].task = t /\ worker'[w].token = lease'[t].token
          /\ worker'[w].attempt = task'[t].attempt
          /\ \A v \in Workers \ {w} : worker'[v] = worker[v]
      BY <1>2, <2>1 DEF ClaimTask, AcquireLease, TransitionTask, TypeInv, TypeOK
    <2>4. \A v \in Workers \ {w} : Holds(v, t)' => worker'[v].token < lease'[t].token
      <3> TAKE v \in Workers \ {w}
      <3> HAVE Holds(v, t)'
      <3>1. Holds(v, t)
        BY <2>3 DEF Holds
      <3>2. worker[v].token <= lease[t].token /\ worker[v].token \in Nat /\ lease[t].token \in Nat
        BY <2>1, <3>1 DEF OneCurrentOwner, TypeInv, TypeOK
      <3> QED
        BY <2>2, <2>3, <3>2
    <2>5. \A v \in Workers \ {w} : \A s \in Tasks \ {t} : Holds(v, s)' => Holds(v, s)
      BY <2>3 DEF Holds
    <2>6. lease'[t].token \in Nat
      BY <2>1, <2>2 DEF TypeInv, TypeOK
    <2>7. \A v \in Workers, s \in Tasks : Holds(v, s)' =>
             /\ worker'[v].token <= lease'[s].token
             /\ worker'[v].token = lease'[s].token =>
                   /\ task'[s].status = "RUNNING"
                   /\ worker'[v].attempt = task'[s].attempt
      <3> TAKE v \in Workers, s \in Tasks
      <3> HAVE Holds(v, s)'
      <3>1. CASE v = w
        BY <2>2, <2>3, <2>6, <3>1 DEF Holds
      <3>2. CASE v # w /\ s = t
        <4>1. worker'[v].token < lease'[t].token
          BY <2>4, <3>2
        <4>2. worker'[v].token \in Nat
          BY <2>3, <3>2 DEF TypeInv, TypeOK
        <4> QED
          BY <2>6, <4>1, <4>2, <3>2
      <3>3. CASE v # w /\ s # t
        BY <2>2, <2>3, <2>5, <3>3 DEF OneCurrentOwner
      <3> QED
        BY <3>1, <3>2, <3>3
    <2>8. \A u, v \in Workers : \A s \in Tasks :
             /\ Holds(u, s)' /\ worker'[u].token = lease'[s].token
             /\ Holds(v, s)' /\ worker'[v].token = lease'[s].token
             => u = v
      <3> SUFFICES ASSUME NEW u \in Workers, NEW v \in Workers, NEW s \in Tasks,
                          Holds(u, s)', worker'[u].token = lease'[s].token,
                          Holds(v, s)', worker'[v].token = lease'[s].token
                   PROVE  u = v
        OBVIOUS
      <3>1. CASE s = t
        BY <2>4, <2>6, <3>1
      <3>2. CASE s # t
        <4>1. u # w /\ v # w
          BY <2>3, <3>2 DEF Holds
        <4> QED
          BY <2>2, <2>3, <2>5, <3>2, <4>1 DEF OneCurrentOwner
      <3> QED
        BY <3>1, <3>2
    <2> QED
      BY <2>7, <2>8 DEF OneCurrentOwner
  <1>3. ASSUME NEW w \in Workers, CompleteTask(w) PROVE OneCurrentOwner'
    <2>1. /\ worker[w].task \in Tasks /\ worker[w].pc \in Holding
          /\ worker[w].token = lease[worker[w].task].token
      BY <1>3 DEF CompleteTask, MayReport, AssertToken, TypeInv, BusyWithTask,
                  Holding, Outcomes
    <2>2. TokensKept
      BY <1>3, <2>1 DEF CompleteTask, ReleaseLease, TokensKept, TypeInv, TypeOK
    <2>3. /\ worker' = [worker EXCEPT ![w] = Idle]
          /\ \A s \in Tasks \ {worker[w].task} : task'[s] = task[s]
      BY <1>3 DEF CompleteTask, TypeInv, TypeOK
    <2> QED
      BY <2>1, <2>2, <2>3, OwnerAfterReport
  <1>4. ASSUME NEW w \in Workers, NEW d \in BOOLEAN, FailTask(w, d) PROVE OneCurrentOwner'
    <2>1. /\ worker[w].task \in Tasks /\ worker[w].pc \in Holding
          /\ worker[w].token = lease[worker[w].task].token
      BY <1>4 DEF FailTask, MayReport, AssertToken, TypeInv, BusyWithTask,
                  Holding, Outcomes
    <2>2. TokensKept
      BY <1>4, <2>1 DEF FailTask, ReleaseLease, TokensKept, TypeInv, TypeOK
    <2>3. /\ worker' = [worker EXCEPT ![w] = Idle]
          /\ \A s \in Tasks \ {worker[w].task} : task'[s] = task[s]
      BY <1>4 DEF FailTask, TypeInv, TypeOK
    <2> QED
      BY <2>1, <2>2, <2>3, OwnerAfterReport
  <1>5. ASSUME NEW t \in Tasks, Reclaim(t) PROVE OneCurrentOwner'
    <2>1. /\ worker' = worker
          /\ lease'[t].token = lease[t].token + 1
          /\ \A s \in Tasks \ {t} : lease'[s] = lease[s] /\ task'[s] = task[s]
      BY <1>5 DEF Reclaim, ReleaseLease, AcquireLease, TypeInv, TypeOK
    <2>2. \A v \in Workers : Holds(v, t) =>
             worker[v].token <= lease'[t].token /\ worker[v].token # lease'[t].token
      <3> TAKE v \in Workers
      <3> HAVE Holds(v, t)
      <3>1. worker[v].token <= lease[t].token /\ worker[v].token \in Nat /\ lease[t].token \in Nat
        BY DEF OneCurrentOwner, TypeInv, TypeOK
      <3> QED
        BY <2>1, <3>1
    <2> QED
      BY <2>1, <2>2 DEF OneCurrentOwner, Holds
  <1>6. ASSUME NEW w \in Workers, Receive(w) PROVE OneCurrentOwner'
    <2>1. HoldersKept
      BY <1>6 DEF Receive, HoldersKept, Holding, Outcomes, TypeInv, TypeOK
    <2> QED
      BY <1>6, <2>1, OwnerFrame DEF Receive, store, TokensKept
  <1>7. ASSUME NEW w \in Workers,
               \/ ClaimRefused(w) \/ ClaimErrors(w) \/ StopsAfterLosingLease(w)
               \/ ReportRejected(w) \/ ReportErrors(w) \/ WorkerCrash(w)
        PROVE OneCurrentOwner'
    <2>1. worker' = [worker EXCEPT ![w] = Idle] /\ UNCHANGED store
      BY <1>7 DEF ClaimRefused, ClaimErrors, StopsAfterLosingLease,
                  ReportRejected, ReportErrors, WorkerCrash
    <2> QED
      BY <2>1, IdleKeepsHolders, OwnerFrame DEF store, TokensKept
  <1>8. ASSUME NEW w \in Workers, NEW o \in Outcomes, ToolReturns(w, o) PROVE OneCurrentOwner'
    <2>1. HoldersKept
      BY <1>8 DEF ToolReturns, HoldersKept, Holding, Outcomes, TypeInv, TypeOK
    <2> QED
      BY <1>8, <2>1, OwnerFrame DEF ToolReturns, store, TokensKept
  <1>9. ASSUME NEW b \in beats, HeartbeatLands(b) PROVE OneCurrentOwner'
    <2>1. TokensKept /\ HoldersKept
      BY <1>9 DEF HeartbeatLands, ExtendLease, TokensKept, HoldersKept, TypeInv, TypeOK
    <2> QED
      BY <1>9, <2>1, OwnerFrame DEF HeartbeatLands
  <1>10. ASSUME NEW b \in beats, HeartbeatFenced(b) PROVE OneCurrentOwner'
    <2>1. \A w \in Workers : worker[w] \in [pc : WorkerPC, task : Tasks \cup {NoTask},
                                            token : Nat, attempt : Attempts]
      BY DEF TypeInv, TypeOK
    <2>2. HoldersKept
      BY <1>10, <2>1 DEF HeartbeatFenced, HoldersKept, Holding
    <2> QED
      BY <1>10, <2>2, OwnerFrame DEF HeartbeatFenced, store, TokensKept
  <1>11. ASSUME NEW t \in Tasks, LeaseExpires(t) PROVE OneCurrentOwner'
    <2>1. TokensKept /\ HoldersKept
      BY <1>11 DEF LeaseExpires, TokensKept, HoldersKept, TypeInv, TypeOK
    <2> QED
      BY <1>11, <2>1, OwnerFrame DEF LeaseExpires
  <1>12. CASE UNCHANGED <<task, lease, worker>>
    BY <1>12 DEF OneCurrentOwner, Holds
  <1> QED
    BY <1>1, <1>2, <1>3, <1>4, <1>5, <1>6, <1>7, <1>8, <1>9, <1>10, <1>11, <1>12, StepCases

\* Nobody owns anything at first.
LEMMA OwnerInit == Init => OneCurrentOwner
  BY DEF Init, OneCurrentOwner, Holds, Idle, Holding, Outcomes

\* However many workers hold a task at once (frozen, slow, restarted), at most
\* one holds the token its lease row is at, and that one holds the attempt the
\* RUNNING row is on; so at most one of them can ever have its report accepted.
THEOREM Fencing == Spec => []OneCurrentOwner
  <1>1. Init => TypeInv /\ OneCurrentOwner
    BY TypeInit, OwnerInit
  <1>2. TypeInv /\ OneCurrentOwner /\ [Next]_vars => (TypeInv /\ OneCurrentOwner)'
    BY TypeStep, OwnerStep
  <1> QED
    BY <1>1, <1>2, PTL DEF Spec

----------------------------------------------------------------------------
(***************************************************************************)
(* The recorded result. A task that is not COMPLETED has no TASK_COMPLETED *)
(* in its history, and a COMPLETED one is never written again; the worker  *)
(* whose report is accepted is the current owner, so by OneCurrentOwner    *)
(* the result it records is that of the attempt the row is on.             *)
(***************************************************************************)
ResultOK(t) ==
    \A i \in DOMAIN history[t] : history[t][i].type = "TASK_COMPLETED" =>
        /\ i = Len(history[t])
        /\ task[t].status = "COMPLETED"
        /\ history[t][i].attempt = task[t].attempt

\* One event appended: a result is that of the latest attempt.
LEMMA ResultAfterOne ==
  ASSUME TypeInv, LatestAttemptWins, NEW t \in Tasks,
         task[t].status # "COMPLETED", NEW e \in Event,
         history' = [history EXCEPT ![t] = Append(@, e)],
         \/ e.type # "TASK_COMPLETED"
         \/ task'[t].status = "COMPLETED" /\ e.attempt = task'[t].attempt
  PROVE  ResultOK(t)'
  <1>1. history[t] \in Seq(Event) /\ history'[t] = Append(history[t], e)
    BY DEF TypeInv, TypeOK
  <1>2. \A i \in DOMAIN history[t] : history[t][i].type # "TASK_COMPLETED"
    BY DEF LatestAttemptWins
  <1>3. SUFFICES ASSUME NEW i \in DOMAIN history'[t],
                        history'[t][i].type = "TASK_COMPLETED"
                 PROVE  /\ i = Len(history'[t])
                        /\ task'[t].status = "COMPLETED"
                        /\ history'[t][i].attempt = task'[t].attempt
    BY DEF ResultOK
  <1>4. i \in 1..(Len(history[t]) + 1) /\ Len(history'[t]) = Len(history[t]) + 1
    BY <1>1
  <1>5. i = Len(history[t]) + 1
    <2>1. ASSUME i \in 1..Len(history[t]) PROVE FALSE
      BY <1>1, <1>2, <1>3, <2>1
    <2> QED
      BY <1>1, <1>4, <2>1
  <1>6. history'[t][i] = e
    BY <1>1, <1>5
  <1> QED
    BY <1>3, <1>4, <1>5, <1>6

\* Two events appended, neither of them a result.
LEMMA ResultAfterTwo ==
  ASSUME TypeInv, LatestAttemptWins, NEW t \in Tasks,
         task[t].status # "COMPLETED", NEW e \in Event, NEW f \in Event,
         history' = [history EXCEPT ![t] = @ \o <<e, f>>],
         e.type # "TASK_COMPLETED", f.type # "TASK_COMPLETED"
  PROVE  ResultOK(t)'
  <1>1. history[t] \in Seq(Event) /\ history'[t] = history[t] \o <<e, f>>
    BY DEF TypeInv, TypeOK
  <1>2. \A i \in DOMAIN history[t] : history[t][i].type # "TASK_COMPLETED"
    BY DEF LatestAttemptWins
  <1>3. \A i \in DOMAIN history'[t] : history'[t][i].type # "TASK_COMPLETED"
    <2> SUFFICES ASSUME NEW i \in DOMAIN history'[t]
                 PROVE  history'[t][i].type # "TASK_COMPLETED"
      OBVIOUS
    <2>1. i \in 1..(Len(history[t]) + 2) /\ Len(history[t]) \in Nat
      BY <1>1
    <2>2. CASE i \in 1..Len(history[t])
      BY <1>1, <1>2, <2>2
    <2>3. CASE i = Len(history[t]) + 1
      BY <1>1, <2>3
    <2>4. CASE i = Len(history[t]) + 2
      BY <1>1, <2>4
    <2> QED
      BY <2>1, <2>2, <2>3, <2>4
  <1> QED
    BY <1>3 DEF ResultOK

\* The other tasks are as they were.
LEMMA ResultFrame ==
  ASSUME LatestAttemptWins, NEW t \in Tasks, ResultOK(t)',
         \A s \in Tasks \ {t} : task'[s] = task[s] /\ history'[s] = history[s]
  PROVE  LatestAttemptWins'
  BY DEF LatestAttemptWins, ResultOK

\* Every step keeps the result with the latest attempt.
LEMMA ResultStep ==
  TypeInv /\ OneCurrentOwner /\ LatestAttemptWins /\ [Next]_vars => LatestAttemptWins'
  <1> SUFFICES ASSUME TypeInv, OneCurrentOwner, LatestAttemptWins, [Next]_vars
               PROVE  LatestAttemptWins'
    OBVIOUS
  <1>1. ASSUME NEW t \in Tasks, Dispatch(t) PROVE LatestAttemptWins'
    <2>1. PICK e \in Event : e = Evt("TASK_CREATED", task[t], FALSE)
      BY DEF Evt, Event, EventTypes, TypeInv, TypeOK
    <2>2. ResultOK(t)'
      BY <1>1, <2>1, ResultAfterOne DEF Dispatch, Evt
    <2>3. \A s \in Tasks \ {t} : task'[s] = task[s] /\ history'[s] = history[s]
      BY <1>1 DEF Dispatch, TypeInv, TypeOK
    <2> QED
      BY <2>2, <2>3, ResultFrame
  <1>2. ASSUME NEW w \in Workers, ClaimTask(w) PROVE LatestAttemptWins'
    <2>1. PICK t \in Tasks : worker[w].task = t
      BY <1>2 DEF ClaimTask, TypeInv, BusyWithTask
    <2> DEFINE x == TransitionTask(task[t], "RUNNING")
    <2>2. x.attempt \in Attempts
      BY <1>2, <2>1, AttemptsAssumption
      DEF ClaimTask, Claimable, TransitionTask, TypeInv, TypeOK, AttemptLeft, Attempts
    <2>3. PICK e \in Event : e = Evt("TASK_CLAIMED", x, FALSE)
      BY <2>2 DEF Evt, Event, EventTypes
    <2>4. e.type # "TASK_COMPLETED"
      BY <2>3 DEF Evt
    <2>5. /\ task[t].status = "PENDING"
          /\ history' = [history EXCEPT ![t] = Append(@, e)]
      BY <1>2, <2>1, <2>3 DEF ClaimTask, Claimable
    <2>6. ResultOK(t)'
      BY <2>4, <2>5, ResultAfterOne
    <2>7. \A s \in Tasks \ {t} : task'[s] = task[s] /\ history'[s] = history[s]
      BY <1>2, <2>1 DEF ClaimTask, TypeInv, TypeOK
    <2> QED
      BY <2>6, <2>7, ResultFrame
  <1>3. ASSUME NEW w \in Workers, CompleteTask(w) PROVE LatestAttemptWins'
    <2>1. PICK t \in Tasks : worker[w].task = t
      BY <1>3 DEF CompleteTask, TypeInv, BusyWithTask
    <2>2. PICK e \in Event : e = Evt("TASK_COMPLETED", worker[w], FALSE)
      BY DEF Evt, Event, EventTypes, TypeInv, TypeOK
    <2>3. worker[w].attempt = task[t].attempt
      BY <1>3, <2>1 DEF CompleteTask, MayReport, AssertToken, OneCurrentOwner,
                        Holds, Holding, Outcomes
    <2>4. task'[t].status = "COMPLETED" /\ task'[t].attempt = task[t].attempt
      BY <1>3, <2>1 DEF CompleteTask, TransitionTask, TypeInv, TypeOK
    <2>5. ResultOK(t)'
      BY <1>3, <2>1, <2>2, <2>3, <2>4, ResultAfterOne DEF CompleteTask, MayReport, Evt
    <2>6. \A s \in Tasks \ {t} : task'[s] = task[s] /\ history'[s] = history[s]
      BY <1>3, <2>1 DEF CompleteTask, TypeInv, TypeOK
    <2> QED
      BY <2>5, <2>6, ResultFrame
  <1>4. ASSUME NEW w \in Workers, NEW d \in BOOLEAN, FailTask(w, d) PROVE LatestAttemptWins'
    <2>1. PICK t \in Tasks : worker[w].task = t
      BY <1>4 DEF FailTask, TypeInv, BusyWithTask
    <2>2. Retries(w) \in BOOLEAN
      BY DEF Retries
    <2>3. PICK e \in Event, f \in Event :
             /\ FailEvents(task[t], Retries(w)) = <<e, f>>
             /\ e.type # "TASK_COMPLETED" /\ f.type # "TASK_COMPLETED"
      <3>1. PICK e \in Event, f \in Event : FailEvents(task[t], Retries(w)) = <<e, f>>
        BY <2>2, FailEventsShape DEF TypeInv, TypeOK
      <3>2. e.type # "TASK_COMPLETED" /\ f.type # "TASK_COMPLETED"
        BY <3>1 DEF FailEvents, Evt
      <3> QED
        BY <3>1, <3>2
    <2>4. ResultOK(t)'
      BY <1>4, <2>1, <2>3, ResultAfterTwo DEF FailTask, MayReport
    <2>5. \A s \in Tasks \ {t} : task'[s] = task[s] /\ history'[s] = history[s]
      BY <1>4, <2>1 DEF FailTask, TypeInv, TypeOK
    <2> QED
      BY <2>4, <2>5, ResultFrame
  <1>5. ASSUME NEW t \in Tasks, Reclaim(t) PROVE LatestAttemptWins'
    <2>1. PICK e \in Event, f \in Event :
             /\ ReclaimEvents(task[t], Exhausted(task[t])) = <<e, f>>
             /\ e.type # "TASK_COMPLETED" /\ f.type # "TASK_COMPLETED"
      <3>1. PICK e \in Event, f \in Event :
               ReclaimEvents(task[t], Exhausted(task[t])) = <<e, f>>
        <4>1. Exhausted(task[t]) \in BOOLEAN
          BY DEF Exhausted
        <4> QED
          BY <4>1, ReclaimEventsShape DEF TypeInv, TypeOK
      <3>2. e.type # "TASK_COMPLETED" /\ f.type # "TASK_COMPLETED"
        BY <3>1 DEF ReclaimEvents, Evt
      <3> QED
        BY <3>1, <3>2
    <2>2. ResultOK(t)'
      BY <1>5, <2>1, ResultAfterTwo DEF Reclaim
    <2>3. \A s \in Tasks \ {t} : task'[s] = task[s] /\ history'[s] = history[s]
      BY <1>5 DEF Reclaim, TypeInv, TypeOK
    <2> QED
      BY <2>2, <2>3, ResultFrame
  <1>6. CASE UNCHANGED <<task, history>>
    BY <1>6 DEF LatestAttemptWins
  <1>7. ASSUME NEW w \in Workers,
               \/ Receive(w) \/ ClaimRefused(w) \/ ClaimErrors(w)
               \/ StopsAfterLosingLease(w) \/ ReportRejected(w) \/ ReportErrors(w)
               \/ WorkerCrash(w) \/ \E o \in Outcomes : ToolReturns(w, o)
        PROVE  UNCHANGED <<task, history>>
    BY <1>7 DEF Receive, ClaimRefused, ClaimErrors, StopsAfterLosingLease,
                ReportRejected, ReportErrors, WorkerCrash, ToolReturns, store
  <1>8. ASSUME NEW b \in beats, HeartbeatLands(b) \/ HeartbeatFenced(b)
        PROVE  UNCHANGED <<task, history>>
    BY <1>8 DEF HeartbeatLands, HeartbeatFenced, store
  <1>9. ASSUME NEW t \in Tasks, LeaseExpires(t) PROVE UNCHANGED <<task, history>>
    BY <1>9 DEF LeaseExpires
  <1> QED
    BY <1>1, <1>2, <1>3, <1>4, <1>5, <1>6, <1>7, <1>8, <1>9, StepCases

\* A task's history holds at most one TASK_COMPLETED; it is the last word on
\* the task and carries the result of the task's last attempt, whichever
\* attempts overlapped and in whatever order their reports arrived.
THEOREM ResultIsLatest == Spec => []LatestAttemptWins
  <1> DEFINE Inv == TypeInv /\ OneCurrentOwner /\ LatestAttemptWins
  <1>1. Init => LatestAttemptWins
    BY DEF Init, LatestAttemptWins
  <1>2. Init => Inv
    BY <1>1, TypeInit, OwnerInit
  <1>3. Inv /\ [Next]_vars => Inv'
    BY TypeStep, OwnerStep, ResultStep
  <1> QED
    BY <1>2, <1>3, PTL DEF Spec

(***************************************************************************)
(* What the store promises about a task: its event log agrees with its     *)
(* row, its retry budget holds, a settled task stays settled, tokens only  *)
(* grow, deliveries stay on the books, and the whole machinery implements  *)
(* TaskContract.                                                           *)
(*                                                                         *)
(* Most of it follows from one lemma, StoreSteps: for all its actors the   *)
(* system moves a task's row and its log in only five ways.                *)
(***************************************************************************)

Appends(t, type, attempt) ==
    \E e \in Event : /\ e.type = type /\ e.attempt = attempt
                     /\ history'[t] = Append(history[t], e)

AppendsTwo(t, types, type) ==
    \E e \in Event, f \in Event : /\ e.type \in types /\ f.type = type
                                  /\ history'[t] = history[t] \o <<e, f>>

RowMoves(t, from, to) ==
    /\ task[t].status = from /\ task'[t].status = to
    /\ task'[t].attempt = IF to = "RUNNING" THEN task[t].attempt + 1 ELSE task[t].attempt

OnlyTask(t) ==
    \A s \in Tasks : s # t => task'[s] = task[s] /\ history'[s] = history[s]

Created(t)   == RowMoves(t, "ABSENT", "PENDING")
                /\ Appends(t, "TASK_CREATED", task[t].attempt)
Claimed(t)   == RowMoves(t, "PENDING", "RUNNING")
                /\ Appends(t, "TASK_CLAIMED", task'[t].attempt)
Completed(t) == RowMoves(t, "RUNNING", "COMPLETED")
                /\ Appends(t, "TASK_COMPLETED", task[t].attempt)
Requeued(t)  == RowMoves(t, "RUNNING", "PENDING") /\ task[t].attempt < MaxAttempts
                /\ AppendsTwo(t, {"TASK_FAILED", "LEASE_EXPIRED"}, "TASK_RETRY_SCHEDULED")
Buried(t)    == RowMoves(t, "RUNNING", "DEAD_LETTER")
                /\ AppendsTwo(t, {"TASK_FAILED", "LEASE_EXPIRED"}, "TASK_DEAD_LETTERED")

StoreStep(t) ==
    /\ OnlyTask(t)
    /\ Created(t) \/ Claimed(t) \/ Completed(t) \/ Requeued(t) \/ Buried(t)

\* Every step of the task engine changes the rows in one of these ways or not
\* at all.
LEMMA StoreSteps ==
  ASSUME TypeInv, OneCurrentOwner, [Next]_vars
  PROVE  (\E t \in Tasks : StoreStep(t)) \/ UNCHANGED <<task, history>>
  <1> DEFINE Goal == (\E t \in Tasks : StoreStep(t)) \/ UNCHANGED <<task, history>>
  <1>1. ASSUME NEW t \in Tasks, Dispatch(t) PROVE Goal
    <2>1. PICK e \in Event : e = Evt("TASK_CREATED", task[t], FALSE)
      BY DEF Evt, Event, EventTypes, TypeInv, TypeOK
    <2>2. RowMoves(t, "ABSENT", "PENDING") /\ OnlyTask(t)
      BY <1>1 DEF Dispatch, TransitionTask, RowMoves, OnlyTask, TypeInv, TypeOK
    <2>3. Appends(t, "TASK_CREATED", task[t].attempt)
      BY <1>1, <2>1 DEF Dispatch, Appends, Evt, TypeInv, TypeOK
    <2> QED
      BY <2>2, <2>3 DEF StoreStep, Created
  <1>2. ASSUME NEW w \in Workers, ClaimTask(w) PROVE Goal
    <2>1. PICK t \in Tasks : worker[w].task = t
      BY <1>2 DEF ClaimTask, TypeInv, BusyWithTask
    <2> DEFINE x == TransitionTask(task[t], "RUNNING")
    <2>2. x.attempt \in Attempts /\ x.attempt = task[t].attempt + 1 /\ x.status = "RUNNING"
      BY <1>2, <2>1, AttemptsAssumption
      DEF ClaimTask, Claimable, TransitionTask, TypeInv, TypeOK, AttemptLeft, Attempts
    <2>3. PICK e \in Event : e = Evt("TASK_CLAIMED", x, FALSE)
      BY <2>2 DEF Evt, Event, EventTypes
    <2>4. task[t].status = "PENDING" /\ task'[t] = x /\ history'[t] = Append(history[t], e)
      BY <1>2, <2>1, <2>3 DEF ClaimTask, Claimable, TypeInv, TypeOK
    <2>5. OnlyTask(t)
      BY <1>2, <2>1 DEF ClaimTask, OnlyTask, TypeInv, TypeOK
    <2>6. e.type = "TASK_CLAIMED" /\ e.attempt = x.attempt
      BY <2>3 DEF Evt
    <2> QED
      BY <2>2, <2>4, <2>5, <2>6 DEF StoreStep, Claimed, RowMoves, Appends
  <1>3. ASSUME NEW w \in Workers, CompleteTask(w) PROVE Goal
    <2>1. PICK t \in Tasks : worker[w].task = t
      BY <1>3 DEF CompleteTask, TypeInv, BusyWithTask
    <2>2. PICK e \in Event : e = Evt("TASK_COMPLETED", worker[w], FALSE)
      BY DEF Evt, Event, EventTypes, TypeInv, TypeOK
    <2>3. worker[w].attempt = task[t].attempt
      BY <1>3, <2>1 DEF CompleteTask, MayReport, AssertToken, OneCurrentOwner,
                        Holds, Holding, Outcomes
    <2>4. RowMoves(t, "RUNNING", "COMPLETED") /\ OnlyTask(t)
      BY <1>3, <2>1 DEF CompleteTask, MayReport, TransitionTask, RowMoves, OnlyTask,
                        TypeInv, TypeOK
    <2>5. Appends(t, "TASK_COMPLETED", task[t].attempt)
      BY <1>3, <2>1, <2>2, <2>3 DEF CompleteTask, Appends, Evt, TypeInv, TypeOK
    <2> QED
      BY <2>4, <2>5 DEF StoreStep, Completed
  <1>4. ASSUME NEW w \in Workers, NEW d \in BOOLEAN, FailTask(w, d) PROVE Goal
    <2>1. PICK t \in Tasks : worker[w].task = t
      BY <1>4 DEF FailTask, TypeInv, BusyWithTask
    <2>2. Retries(w) \in BOOLEAN /\ (Retries(w) => task[t].attempt < MaxAttempts)
      BY <2>1, AttemptsAssumption DEF Retries, Exhausted, TypeInv, TypeOK, Attempts
    <2>3. PICK e \in Event, f \in Event : FailEvents(task[t], Retries(w)) = <<e, f>>
      BY <2>2, FailEventsShape DEF TypeInv, TypeOK
    <2>4. /\ e.type = "TASK_FAILED"
          /\ f.type = IF Retries(w) THEN "TASK_RETRY_SCHEDULED" ELSE "TASK_DEAD_LETTERED"
      BY <2>3 DEF FailEvents, Evt
    <2>5. /\ RowMoves(t, "RUNNING", IF Retries(w) THEN "PENDING" ELSE "DEAD_LETTER")
          /\ OnlyTask(t)
      BY <1>4, <2>1 DEF FailTask, MayReport, TransitionTask, RowMoves, OnlyTask,
                        TypeInv, TypeOK
    <2>6. history'[t] = history[t] \o <<e, f>>
      BY <1>4, <2>1, <2>3 DEF FailTask, TypeInv, TypeOK
    <2> QED
      BY <2>2, <2>4, <2>5, <2>6 DEF StoreStep, Requeued, Buried, AppendsTwo
  <1>5. ASSUME NEW t \in Tasks, Reclaim(t) PROVE Goal
    <2> DEFINE dead == Exhausted(task[t])
    <2>1. dead \in BOOLEAN /\ (~dead => task[t].attempt < MaxAttempts)
      BY AttemptsAssumption DEF Exhausted, TypeInv, TypeOK, Attempts
    <2>2. PICK e \in Event, f \in Event : ReclaimEvents(task[t], dead) = <<e, f>>
      BY <2>1, ReclaimEventsShape DEF TypeInv, TypeOK
    <2>3. /\ e.type = "LEASE_EXPIRED"
          /\ f.type = IF dead THEN "TASK_DEAD_LETTERED" ELSE "TASK_RETRY_SCHEDULED"
      BY <2>2 DEF ReclaimEvents, Evt
    <2>4. /\ RowMoves(t, "RUNNING", IF dead THEN "DEAD_LETTER" ELSE "PENDING")
          /\ OnlyTask(t)
      BY <1>5 DEF Reclaim, TransitionTask, RowMoves, OnlyTask, TypeInv, TypeOK
    <2>5. history'[t] = history[t] \o <<e, f>>
      BY <1>5, <2>2 DEF Reclaim, TypeInv, TypeOK
    <2> QED
      BY <2>1, <2>3, <2>4, <2>5 DEF StoreStep, Requeued, Buried, AppendsTwo
  <1>6. ASSUME NEW w \in Workers,
               \/ Receive(w) \/ ClaimRefused(w) \/ ClaimErrors(w)
               \/ StopsAfterLosingLease(w) \/ ReportRejected(w) \/ ReportErrors(w)
               \/ WorkerCrash(w) \/ \E o \in Outcomes : ToolReturns(w, o)
        PROVE  Goal
    BY <1>6 DEF Receive, ClaimRefused, ClaimErrors, StopsAfterLosingLease,
                ReportRejected, ReportErrors, WorkerCrash, ToolReturns, store
  <1>7. ASSUME NEW b \in beats, HeartbeatLands(b) \/ HeartbeatFenced(b) PROVE Goal
    BY <1>7 DEF HeartbeatLands, HeartbeatFenced, store
  <1>8. ASSUME NEW t \in Tasks, LeaseExpires(t) PROVE Goal
    BY <1>8 DEF LeaseExpires
  <1>9. CASE UNCHANGED <<task, lease, history, worker>>
    BY <1>9
  <1> QED
    BY <1>1, <1>2, <1>3, <1>4, <1>5, <1>6, <1>7, <1>8, <1>9, StepCases

\* An event that was there stays where it was; what is new is at the end.
LEMMA AppendedOne ==
  ASSUME NEW S, NEW s \in Seq(S), NEW e \in S
  PROVE  LET r == Append(s, e)
         IN  /\ r # <<>> /\ r[Len(r)] = e
             /\ \A i \in DOMAIN r : \/ i \in DOMAIN s /\ r[i] = s[i]
                                    \/ i = Len(s) + 1 /\ r[i] = e
  OBVIOUS

\* Two events appended come last.
LEMMA AppendedTwo ==
  ASSUME NEW S, NEW s \in Seq(S), NEW e \in S, NEW f \in S
  PROVE  LET r == s \o <<e, f>>
         IN  /\ r # <<>> /\ r[Len(r)] = f
             /\ \A i \in DOMAIN r : \/ i \in DOMAIN s /\ r[i] = s[i]
                                    \/ i \notin DOMAIN s /\ r[i] \in {e, f}
  <1> DEFINE r == s \o <<e, f>>
  <1>1. <<e, f>> \in Seq(S) /\ Len(<<e, f>>) = 2 /\ Len(s) \in Nat
    OBVIOUS
  <1>2. r \in Seq(S) /\ Len(r) = Len(s) + 2 /\ DOMAIN r = 1..(Len(s) + 2)
    BY <1>1
  <1>3. r[Len(s) + 1] = e /\ r[Len(s) + 2] = f
    BY <1>1
  <1>4. \A i \in 1..Len(s) : r[i] = s[i]
    BY <1>1
  <1>5. \A i \in DOMAIN r : i \in DOMAIN s \/ i = Len(s) + 1 \/ i = Len(s) + 2
    BY <1>1, <1>2
  <1>6. r # <<>>
    BY <1>1, <1>2
  <1>7. DOMAIN s = 1..Len(s) /\ Len(s) + 1 \notin DOMAIN s /\ Len(s) + 2 \notin DOMAIN s
    BY <1>1
  <1> HIDE DEF r
  <1>8. \A i \in DOMAIN r : \/ i \in DOMAIN s /\ r[i] = s[i]
                            \/ i \notin DOMAIN s /\ r[i] \in {e, f}
    BY <1>3, <1>4, <1>5, <1>7
  <1> QED
    BY <1>2, <1>3, <1>6, <1>8 DEF r

----------------------------------------------------------------------------
(***************************************************************************)
(* The invariant of the store that the results below share.                *)
(***************************************************************************)
StoreInv == TypeInv /\ OneCurrentOwner

\* The rows start in order.
LEMMA StoreInit == Init => StoreInv
  BY TypeInit, OwnerInit DEF StoreInv

\* Every step keeps them so.
LEMMA StoreInvStep == StoreInv /\ [Next]_vars => StoreInv'
  BY TypeStep, OwnerStep DEF StoreInv

\* The rows stay in order.
LEMMA StoreInvariant == Spec => []StoreInv
  BY StoreInit, StoreInvStep, PTL DEF Spec

\* A completed or dead-lettered task is final: no late report, heartbeat,
\* reclaim or duplicate delivery writes its row or appends an event about it.
THEOREM SettledForGood == Spec => SettledIsFinal
  <1>1. StoreInv /\ [Next]_vars =>
          [\A t \in Tasks : IsTerminal(task[t].status) =>
              task'[t] = task[t] /\ history'[t] = history[t]]_vars
    <2> SUFFICES ASSUME StoreInv, [Next]_vars, NEW t \in Tasks, IsTerminal(task[t].status)
                 PROVE  task'[t] = task[t] /\ history'[t] = history[t]
      OBVIOUS
    <2>1. CASE UNCHANGED <<task, history>>
      BY <2>1
    <2>2. ASSUME NEW s \in Tasks, StoreStep(s) PROVE s # t /\ OnlyTask(s)
      BY <2>2 DEF StoreStep, Created, Claimed, Completed, Requeued, Buried, RowMoves,
                  IsTerminal
    <2> QED
      BY <2>1, <2>2, StoreSteps DEF OnlyTask, StoreInv
  <1> QED
    BY <1>1, StoreInvariant, PTL DEF Spec, SettledIsFinal

----------------------------------------------------------------------------
(***************************************************************************)
(* The row and the log. LastSays(t) is HistoryAgreesWithRow of one task.   *)
(***************************************************************************)
LastTypes(status) ==
    CASE status = "PENDING"     -> {"TASK_CREATED", "TASK_RETRY_SCHEDULED"}
      [] status = "RUNNING"     -> {"TASK_CLAIMED"}
      [] status = "COMPLETED"   -> {"TASK_COMPLETED"}
      [] status = "DEAD_LETTER" -> {"TASK_DEAD_LETTERED"}

LastSays(t) ==
    IF task[t].status = "ABSENT" THEN history[t] = <<>>
    ELSE history[t] # <<>> /\ history[t][Len(history[t])].type \in LastTypes(task[t].status)

\* HistoryAgreesWithRow, task by task.
LEMMA LastSaysAll ==
  ASSUME TypeInv
  PROVE  HistoryAgreesWithRow <=> \A t \in Tasks : LastSays(t)
  <1>1. \A t \in Tasks : task[t].status \in TaskStatus
    BY DEF TypeInv, TypeOK
  <1> QED
    BY <1>1 DEF HistoryAgreesWithRow, LastSays, LastTypes, TaskStatus

\* Every step keeps row and log in agreement.
LEMMA AgreementStep ==
  ASSUME StoreInv, [Next]_vars, \A t \in Tasks : LastSays(t)
  PROVE  \A t \in Tasks : LastSays(t)'
  <1>1. CASE UNCHANGED <<task, history>>
    BY <1>1 DEF LastSays
  <1>2. ASSUME NEW t \in Tasks, StoreStep(t) PROVE LastSays(t)'
    <2>1. history[t] \in Seq(Event)
      BY DEF StoreInv, TypeInv, TypeOK
    <2>2. CASE Created(t)
      BY <2>1, <2>2, AppendedOne DEF Created, RowMoves, Appends, LastSays, LastTypes
    <2>3. CASE Claimed(t)
      BY <2>1, <2>3, AppendedOne DEF Claimed, RowMoves, Appends, LastSays, LastTypes
    <2>4. CASE Completed(t)
      BY <2>1, <2>4, AppendedOne DEF Completed, RowMoves, Appends, LastSays, LastTypes
    <2>5. CASE Requeued(t)
      BY <2>1, <2>5, AppendedTwo DEF Requeued, RowMoves, AppendsTwo, LastSays, LastTypes
    <2>6. CASE Buried(t)
      BY <2>1, <2>6, AppendedTwo DEF Buried, RowMoves, AppendsTwo, LastSays, LastTypes
    <2> QED
      BY <1>2, <2>2, <2>3, <2>4, <2>5, <2>6 DEF StoreStep
  <1>3. ASSUME NEW t \in Tasks, StoreStep(t), NEW s \in Tasks, s # t PROVE LastSays(s)'
    BY <1>3 DEF StoreStep, OnlyTask, LastSays
  <1> QED
    BY <1>1, <1>2, <1>3, StoreSteps DEF StoreInv

\* The tasks row and the event log never disagree about where a task stands,
\* although they are separate tables and some transitions append two events.
THEOREM RowAndLogAgree == Spec => []HistoryAgreesWithRow
  <1> DEFINE Inv == StoreInv /\ HistoryAgreesWithRow
  <1>1. Init => Inv
    <2> SUFFICES ASSUME Init PROVE HistoryAgreesWithRow
      BY StoreInit
    <2>1. \A t \in Tasks : LastSays(t)
      BY DEF Init, LastSays
    <2> QED
      BY <2>1, LastSaysAll, TypeInit
  <1>2. Inv /\ [Next]_vars => Inv'
    <2> SUFFICES ASSUME Inv, [Next]_vars PROVE Inv'
      OBVIOUS
    <2>1. StoreInv' /\ TypeInv /\ TypeInv'
      BY StoreInvStep DEF StoreInv
    <2>2. \A t \in Tasks : LastSays(t)'
      BY <2>1, LastSaysAll, AgreementStep
    <2>3. HistoryAgreesWithRow'
      <3>1. \A t \in Tasks : task'[t].status \in TaskStatus
        BY <2>1 DEF TypeInv, TypeOK
      <3> QED
        BY <2>2, <3>1 DEF HistoryAgreesWithRow, LastSays, LastTypes, TaskStatus
    <2> QED
      BY <2>1, <2>2, <2>3
  <1> QED
    BY <1>1, <1>2, PTL DEF Spec

----------------------------------------------------------------------------
(***************************************************************************)
(* The retry budget. That the claims in a task's log carry distinct        *)
(* attempt numbers is inductive once none of them is beyond the row's.     *)
(***************************************************************************)
ClaimsAreDistinct(t) ==
    \A i, j \in ClaimsIn(t) : i # j => history[t][i].attempt # history[t][j].attempt
ClaimsAreCounted(t) ==
    \A i \in ClaimsIn(t) : history[t][i].attempt <= task[t].attempt

BudgetKept == \A t \in Tasks : ClaimsAreDistinct(t) /\ ClaimsAreCounted(t)

\* Events that are not claims change nothing.
LEMMA NoNewClaim ==
  ASSUME NEW t \in Tasks, ClaimsAreDistinct(t), ClaimsAreCounted(t),
         task'[t].attempt = task[t].attempt,
         \A i \in DOMAIN history'[t] : \/ i \in DOMAIN history[t] /\ history'[t][i] = history[t][i]
                                       \/ history'[t][i].type # "TASK_CLAIMED"
  PROVE  (ClaimsAreDistinct(t) /\ ClaimsAreCounted(t))'
  <1>1. \A i \in ClaimsIn(t)' : i \in ClaimsIn(t) /\ history'[t][i] = history[t][i]
    BY DEF ClaimsIn
  <1> QED
    BY <1>1 DEF ClaimsAreDistinct, ClaimsAreCounted

\* Every step keeps one claim per attempt.
LEMMA BudgetStep ==
  ASSUME StoreInv, [Next]_vars, BudgetKept
  PROVE  BudgetKept'
  <1>1. CASE UNCHANGED <<task, history>>
    BY <1>1 DEF BudgetKept, ClaimsAreDistinct, ClaimsAreCounted, ClaimsIn
  <1>2. ASSUME NEW t \in Tasks, StoreStep(t)
        PROVE  (ClaimsAreDistinct(t) /\ ClaimsAreCounted(t))'
    <2>1. /\ history[t] \in Seq(Event) /\ task[t].attempt \in Nat
          /\ ClaimsAreDistinct(t) /\ ClaimsAreCounted(t)
          /\ \A i \in DOMAIN history[t] : history[t][i].attempt \in Nat
      <3>1. history[t] \in Seq(Event) /\ task[t].attempt \in Attempts
        BY DEF StoreInv, TypeInv, TypeOK
      <3>2. \A i \in DOMAIN history[t] : history[t][i] \in Event
        BY <3>1
      <3>3. Attempts \subseteq Nat
        BY AttemptsAssumption DEF Attempts
      <3> QED
        BY <3>1, <3>2, <3>3 DEF BudgetKept, Event
    <2>2. CASE Claimed(t)
      <3>1. task'[t].attempt = task[t].attempt + 1
        BY <2>2 DEF Claimed, RowMoves
      <3>2. PICK e \in Event : /\ e.attempt = task[t].attempt + 1
                               /\ history'[t] = Append(history[t], e)
        BY <2>2, <3>1 DEF Claimed, Appends
      <3>3. \A i \in ClaimsIn(t)' :
               \/ /\ i \in ClaimsIn(t) /\ history'[t][i].attempt = history[t][i].attempt
                  /\ history'[t][i].attempt \in Nat /\ history'[t][i].attempt <= task[t].attempt
               \/ i = Len(history[t]) + 1 /\ history'[t][i].attempt = task[t].attempt + 1
        BY <2>1, <3>2, AppendedOne DEF ClaimsIn, ClaimsAreCounted
      <3>4. ClaimsAreDistinct(t)'
        BY <2>1, <3>3 DEF ClaimsAreDistinct
      <3>5. ClaimsAreCounted(t)'
        BY <2>1, <3>1, <3>3 DEF ClaimsAreCounted
      <3> QED
        BY <3>4, <3>5
    <2>3. CASE Created(t) \/ Completed(t)
      <3>1. PICK e \in Event : /\ e.type # "TASK_CLAIMED"
                               /\ history'[t] = Append(history[t], e)
        BY <2>3 DEF Created, Completed, Appends
      <3>2. task'[t].attempt = task[t].attempt
        BY <2>3 DEF Created, Completed, RowMoves
      <3> QED
        BY <2>1, <3>1, <3>2, AppendedOne, NoNewClaim
    <2>4. CASE Requeued(t) \/ Buried(t)
      <3>1. PICK e \in Event, f \in Event :
               /\ e.type # "TASK_CLAIMED" /\ f.type # "TASK_CLAIMED"
               /\ history'[t] = history[t] \o <<e, f>>
        BY <2>4 DEF Requeued, Buried, AppendsTwo
      <3>2. task'[t].attempt = task[t].attempt
        BY <2>4 DEF Requeued, Buried, RowMoves
      <3>3. \A i \in DOMAIN history'[t] :
               \/ i \in DOMAIN history[t] /\ history'[t][i] = history[t][i]
               \/ history'[t][i] \in {e, f}
        BY <2>1, <3>1, AppendedTwo
      <3> QED
        BY <2>1, <3>1, <3>2, <3>3, NoNewClaim
    <2> QED
      BY <1>2, <2>2, <2>3, <2>4 DEF StoreStep
  <1>3. ASSUME NEW t \in Tasks, StoreStep(t), NEW s \in Tasks, s # t
        PROVE  (ClaimsAreDistinct(s) /\ ClaimsAreCounted(s))'
    BY <1>3 DEF StoreStep, OnlyTask, BudgetKept, ClaimsAreDistinct, ClaimsAreCounted, ClaimsIn
  <1> QED
    BY <1>1, <1>2, <1>3, StoreSteps DEF BudgetKept, StoreInv

\* However deliveries are duplicated and attempts reclaimed, a tool is started
\* at most MaxAttempts times for one task: the claims in its log carry distinct
\* attempt numbers, none above the budget.
THEOREM BudgetHolds == Spec => []RetryBudget
  <1> DEFINE Inv == StoreInv /\ BudgetKept
  <1>1. Init => Inv
    <2> SUFFICES ASSUME Init PROVE BudgetKept
      BY StoreInit
    <2>1. ASSUME NEW t \in Tasks PROVE ClaimsIn(t) = {}
      <3>1. history[t] = <<>>
        BY DEF Init
      <3>2. DOMAIN history[t] = {}
        BY <3>1
      <3> QED
        BY <3>2 DEF ClaimsIn
    <2> QED
      BY <2>1 DEF BudgetKept, ClaimsAreDistinct, ClaimsAreCounted
  <1>2. Inv /\ [Next]_vars => Inv'
    BY StoreInvStep, BudgetStep
  <1>3. Inv => RetryBudget
    <2>1. StoreInv => \A t \in Tasks :
              /\ task[t].status = "PENDING" => task[t].attempt < MaxAttempts
              /\ task[t].attempt <= MaxAttempts
      <3> SUFFICES ASSUME StoreInv, NEW t \in Tasks
                   PROVE  /\ task[t].status = "PENDING" => task[t].attempt < MaxAttempts
                          /\ task[t].attempt <= MaxAttempts
        OBVIOUS
      <3>1. task[t].attempt \in 0..MaxAttempts
        BY DEF StoreInv, TypeInv, TypeOK, Attempts
      <3> QED
        BY <3>1, AttemptsAssumption DEF StoreInv, TypeInv, AttemptLeft
    <2> QED
      BY <2>1 DEF RetryBudget, BudgetKept, ClaimsAreDistinct
  <1> QED
    BY <1>1, <1>2, <1>3, PTL DEF Spec

----------------------------------------------------------------------------
(***************************************************************************)
(* Tokens.                                                                 *)
(***************************************************************************)
Grows(t) ==
    /\ lease'[t].token >= lease[t].token
    /\ task[t].status # "RUNNING" /\ task'[t].status = "RUNNING" =>
          lease'[t].token > lease[t].token

\* No step lowers a token.
LEMMA GrowsStep ==
  ASSUME StoreInv, [Next]_vars
  PROVE  \A t \in Tasks : Grows(t)
  <1> DEFINE Goal == \A t \in Tasks : Grows(t)
  <1>0. \A t \in Tasks : lease[t].token \in Nat
    BY DEF StoreInv, TypeInv, TypeOK
  <1>1. ASSUME \A t \in Tasks : /\ lease'[t].token = lease[t].token
                                /\ task'[t].status = "RUNNING" => task[t].status = "RUNNING"
        PROVE  Goal
    BY <1>0, <1>1 DEF Grows
  <1> USE DEF StoreInv, TypeInv, TypeOK
  <1>2. ASSUME NEW t \in Tasks, Dispatch(t) PROVE Goal
    BY <1>1, <1>2 DEF Dispatch, TransitionTask
  <1>3. ASSUME NEW w \in Workers, ClaimTask(w) PROVE Goal
    <2>1. PICK t \in Tasks : worker[w].task = t
      BY <1>3 DEF ClaimTask, BusyWithTask
    <2>2. /\ lease'[t].token = lease[t].token + 1
          /\ \A s \in Tasks : s # t => lease'[s] = lease[s] /\ task'[s] = task[s]
      BY <1>3, <2>1 DEF ClaimTask, AcquireLease
    <2>3. Grows(t)
      BY <1>0, <2>2 DEF Grows
    <2>4. ASSUME NEW s \in Tasks, s # t PROVE Grows(s)
      BY <1>0, <2>2, <2>4 DEF Grows
    <2> QED
      BY <2>3, <2>4
  <1>4. ASSUME NEW w \in Workers, CompleteTask(w) PROVE Goal
    BY <1>1, <1>4 DEF CompleteTask, TransitionTask, ReleaseLease, BusyWithTask
  <1>5. ASSUME NEW w \in Workers, NEW d \in BOOLEAN, FailTask(w, d) PROVE Goal
    BY <1>1, <1>5 DEF FailTask, TransitionTask, ReleaseLease, BusyWithTask
  <1>6. ASSUME NEW t \in Tasks, Reclaim(t) PROVE Goal
    <2>1. /\ lease'[t].token = lease[t].token + 1 /\ task'[t].status # "RUNNING"
          /\ \A s \in Tasks : s # t => lease'[s] = lease[s] /\ task'[s] = task[s]
      BY <1>6 DEF Reclaim, AcquireLease, ReleaseLease, TransitionTask
    <2>2. Grows(t)
      BY <1>0, <2>1 DEF Grows
    <2>3. ASSUME NEW s \in Tasks, s # t PROVE Grows(s)
      BY <1>0, <2>1, <2>3 DEF Grows
    <2> QED
      BY <2>2, <2>3
  <1>7. ASSUME NEW w \in Workers,
               \/ Receive(w) \/ ClaimRefused(w) \/ ClaimErrors(w)
               \/ StopsAfterLosingLease(w) \/ ReportRejected(w) \/ ReportErrors(w)
               \/ WorkerCrash(w) \/ \E o \in Outcomes : ToolReturns(w, o)
        PROVE  UNCHANGED <<task, lease>>
    BY <1>7 DEF Receive, ClaimRefused, ClaimErrors, StopsAfterLosingLease,
                ReportRejected, ReportErrors, WorkerCrash, ToolReturns, store
  <1>8. ASSUME NEW b \in beats, HeartbeatLands(b) PROVE Goal
    BY <1>1, <1>8 DEF HeartbeatLands, ExtendLease
  <1>9. ASSUME NEW b \in beats, HeartbeatFenced(b) PROVE UNCHANGED <<task, lease>>
    BY <1>9 DEF HeartbeatFenced, store
  <1>10. ASSUME NEW t \in Tasks, LeaseExpires(t) PROVE Goal
    BY <1>1, <1>10 DEF LeaseExpires
  <1>11. CASE UNCHANGED <<task, lease>>
    BY <1>1, <1>11
  <1> QED
    BY <1>2, <1>3, <1>4, <1>5, <1>6, <1>7, <1>8, <1>9, <1>10, <1>11, StepCases

\* A task's token never goes down, releases and reclaims included, and every
\* new owner gets one that is larger than any a holder can still present.
THEOREM TokensOnlyGrow == Spec => TokensGrow
  <1> DEFINE Body == \A t \in Tasks :
          /\ lease'[t].token >= lease[t].token
          /\ task[t].status # "RUNNING" /\ task'[t].status = "RUNNING" =>
                lease'[t].token > lease[t].token
                /\ \A w \in Workers : Holds(w, t) => worker[w].token < lease'[t].token
  <1>1. StoreInv /\ [Next]_vars => [Body]_vars
    <2> SUFFICES ASSUME StoreInv, [Next]_vars PROVE Body
      OBVIOUS
    <2>1. StoreInv' /\ \A t \in Tasks : Grows(t)
      BY StoreInvStep, GrowsStep
    <2>2. \A t \in Tasks : lease[t].token \in Nat /\ lease'[t].token \in Nat
      BY <2>1 DEF StoreInv, TypeInv, TypeOK
    <2>3. \A t \in Tasks, w \in Workers : worker[w].token \in Nat
             /\ (Holds(w, t) => worker[w].token <= lease[t].token)
      BY DEF StoreInv, TypeInv, TypeOK, OneCurrentOwner
    <2> QED
      BY <2>1, <2>2, <2>3 DEF Grows
  <1> QED
    BY <1>1, StoreInvariant, PTL DEF Spec, TokensGrow

----------------------------------------------------------------------------
(***************************************************************************)
(* The outbox. What the relay is about to mark published has been accepted *)
(* by a Publish; a row once written is never taken back.                   *)
(***************************************************************************)
SentIsAnnounced == sent \subseteq announced

\* Steps that touch neither status nor outbox owe nothing new.
LEMMA IntentFrame ==
  ASSUME DeliveryIntent, SentIsAnnounced, UNCHANGED outbox,
         announced \subseteq announced', sent' \subseteq announced',
         \A t \in Tasks : task'[t].status = "PENDING" => task'[t] = task[t]
  PROVE  DeliveryIntent' /\ SentIsAnnounced'
  BY DEF DeliveryIntent, SentIsAnnounced

\* A transaction that makes a task PENDING enqueues the delivery with it.
LEMMA IntentAfterEnqueue ==
  ASSUME TypeInv, DeliveryIntent, SentIsAnnounced, UNCHANGED <<sent, announced>>,
         NEW t \in Tasks, NEW delayed \in BOOLEAN,
         task[t].attempt < MaxAttempts, EnqueueDelivery(t, delayed),
         task'[t].attempt = task[t].attempt,
         \A s \in Tasks : s # t => task'[s] = task[s]
  PROVE  DeliveryIntent' /\ SentIsAnnounced'
  <1>1. task[t].attempt \in Deliveries
    BY AttemptsAssumption DEF TypeInv, TypeOK, Attempts, Deliveries
  <1>2. /\ outbox'[t][task[t].attempt] \in {"delayed", "ready"}
        /\ \A k \in Deliveries : k # task[t].attempt => outbox'[t][k] = outbox[t][k]
        /\ \A s \in Tasks : s # t => outbox'[s] = outbox[s]
    BY <1>1 DEF EnqueueDelivery, TypeInv, TypeOK
  <1>3. ASSUME NEW s \in Tasks, task'[s].status = "PENDING"
        PROVE  outbox'[s][task'[s].attempt] # "none"
    <2>1. CASE s = t
      BY <1>2, <2>1
    <2>2. CASE s # t
      BY <1>2, <1>3, <2>2 DEF DeliveryIntent
    <2> QED
      BY <2>1, <2>2
  <1>4. ASSUME NEW s \in Tasks, NEW k \in Deliveries, outbox'[s][k] = "published"
        PROVE  <<s, k>> \in announced'
    <2>1. outbox[s][k] = "published"
      BY <1>2, <1>4
    <2> QED
      BY <2>1 DEF DeliveryIntent
  <1> QED
    BY <1>3, <1>4 DEF DeliveryIntent, SentIsAnnounced

\* Every step leaves a delivery owed to whoever is PENDING.
LEMMA IntentStep ==
  ASSUME TypeInv, DeliveryIntent, SentIsAnnounced, [Next]_vars
  PROVE  DeliveryIntent' /\ SentIsAnnounced'
  <1> DEFINE Goal == DeliveryIntent' /\ SentIsAnnounced'
  <1> USE DEF transport
  <1>1. ASSUME NEW t \in Tasks, Dispatch(t) PROVE Goal
    <2>1. /\ task[t].attempt < MaxAttempts /\ task'[t].attempt = task[t].attempt
          /\ \A s \in Tasks : s # t => task'[s] = task[s]
      BY <1>1 DEF Dispatch, TransitionTask, TypeInv, TypeOK, AttemptLeft
    <2> QED
      BY <1>1, <2>1, IntentAfterEnqueue DEF Dispatch
  <1>2. ASSUME NEW w \in Workers, ClaimTask(w) \/ CompleteTask(w) PROVE Goal
    <2>1. worker[w].task \in Tasks
      BY <1>2 DEF ClaimTask, CompleteTask, TypeInv, BusyWithTask
    <2>2. \A t \in Tasks : task'[t].status = "PENDING" => task'[t] = task[t]
      <3>1. CASE ClaimTask(w)
        BY <2>1, <3>1 DEF ClaimTask, TransitionTask, TypeInv, TypeOK
      <3>2. CASE CompleteTask(w)
        BY <2>1, <3>2 DEF CompleteTask, TransitionTask, TypeInv, TypeOK
      <3> QED
        BY <1>2, <3>1, <3>2
    <2> QED
      BY <1>2, <2>2, IntentFrame DEF ClaimTask, CompleteTask, SentIsAnnounced
  <1>3. ASSUME NEW w \in Workers, NEW d \in BOOLEAN, FailTask(w, d) PROVE Goal
    <2>1. PICK t \in Tasks : worker[w].task = t
      BY <1>3 DEF FailTask, TypeInv, BusyWithTask
    <2>2. /\ task'[t].attempt = task[t].attempt
          /\ task'[t].status = IF Retries(w) THEN "PENDING" ELSE "DEAD_LETTER"
          /\ \A s \in Tasks : s # t => task'[s] = task[s]
      BY <1>3, <2>1 DEF FailTask, TransitionTask, TypeInv, TypeOK
    <2>3. CASE Retries(w)
      <3>1. task[t].attempt < MaxAttempts
        <4>1. task[t].attempt \in 0..MaxAttempts
          BY DEF TypeInv, TypeOK, Attempts
        <4> QED
          BY <2>1, <2>3, <4>1, AttemptsAssumption DEF Retries, Exhausted
      <3> QED
        BY <1>3, <2>1, <2>2, <2>3, <3>1, IntentAfterEnqueue DEF FailTask
    <2>4. CASE ~Retries(w)
      <3>1. \A s \in Tasks : task'[s].status = "PENDING" => task'[s] = task[s]
        BY <2>2, <2>4
      <3> QED
        BY <1>3, <2>4, <3>1, IntentFrame DEF FailTask, SentIsAnnounced
    <2> QED
      BY <2>3, <2>4
  <1>4. ASSUME NEW t \in Tasks, Reclaim(t) PROVE Goal
    <2> DEFINE dead == Exhausted(task[t])
    <2>1. /\ task'[t].attempt = task[t].attempt
          /\ task'[t].status = IF dead THEN "DEAD_LETTER" ELSE "PENDING"
          /\ \A s \in Tasks : s # t => task'[s] = task[s]
      BY <1>4 DEF Reclaim, TransitionTask, TypeInv, TypeOK
    <2>2. CASE ~dead
      <3>1. task[t].attempt < MaxAttempts
        <4>1. task[t].attempt \in 0..MaxAttempts
          BY DEF TypeInv, TypeOK, Attempts
        <4> QED
          BY <2>2, <4>1, AttemptsAssumption DEF Exhausted
      <3> QED
        BY <1>4, <2>1, <2>2, <3>1, IntentAfterEnqueue DEF Reclaim
    <2>3. CASE dead
      <3>1. \A s \in Tasks : task'[s].status = "PENDING" => task'[s] = task[s]
        BY <2>1, <2>3
      <3> QED
        BY <1>4, <2>3, <3>1, IntentFrame DEF Reclaim, SentIsAnnounced
    <2> QED
      BY <2>2, <2>3
  <1>5. ASSUME NEW t \in Tasks, NEW k \in Deliveries, BackoffElapses(t, k) PROVE Goal
    <2>1. /\ UNCHANGED <<task, sent, announced>>
          /\ outbox' = [outbox EXCEPT ![t][k] = "ready"]
      BY <1>5 DEF BackoffElapses
    <2>2. \A s \in Tasks, j \in Deliveries :
             outbox'[s][j] = outbox[s][j] \/ outbox'[s][j] = "ready"
      BY <2>1 DEF TypeInv, TypeOK
    <2>3. \A s \in Tasks : task[s].status = "PENDING" => task[s].attempt \in Deliveries
      BY AttemptsAssumption DEF TypeInv, TypeOK, AttemptLeft, Attempts, Deliveries
    <2> QED
      BY <2>1, <2>2, <2>3 DEF DeliveryIntent, SentIsAnnounced
  <1>6. CASE RelayMarks
    <2>1. /\ UNCHANGED <<task, announced>> /\ sent' = {}
          /\ \A s \in Tasks, j \in Deliveries :
               outbox'[s][j] = IF <<s, j>> \in sent THEN "published" ELSE outbox[s][j]
      BY <1>6 DEF RelayMarks
    <2>2. \A s \in Tasks : task[s].status = "PENDING" => task[s].attempt \in Deliveries
      BY AttemptsAssumption DEF TypeInv, TypeOK, AttemptLeft, Attempts, Deliveries
    <2> QED
      BY <2>1, <2>2 DEF DeliveryIntent, SentIsAnnounced
  <1>7. ASSUME UNCHANGED <<task, outbox>>, announced \subseteq announced',
               sent' \subseteq announced'
        PROVE  Goal
    BY <1>7, IntentFrame
  <1>8. ASSUME NEW r \in Rows, RelayPublishes(r) \/ RelayPublishFails(r) PROVE Goal
    BY <1>7, <1>8 DEF RelayPublishes, RelayPublishFails, SentIsAnnounced, store
  <1>9. CASE RelayReads \/ RelayStops \/ ScanReads \/ RuntimeCrash \/ UNCHANGED vars
    BY <1>7, <1>9 DEF RelayReads, RelayStops, ScanReads, RuntimeCrash, vars,
                      SentIsAnnounced, store
  <1>10. ASSUME UNCHANGED <<task, outbox, sent, announced>> PROVE Goal
    BY <1>7, <1>10 DEF SentIsAnnounced
  <1>11. ASSUME NEW w \in Workers,
                \/ Receive(w) \/ ClaimRefused(w) \/ ClaimErrors(w) \/ Heartbeat(w)
                \/ StopsAfterLosingLease(w) \/ ReportRejected(w) \/ ReportErrors(w)
                \/ WorkerCrash(w) \/ \E o \in Outcomes : ToolReturns(w, o)
         PROVE  Goal
    BY <1>10, <1>11 DEF Receive, ClaimRefused, ClaimErrors, Heartbeat, WorkerCrash,
         StopsAfterLosingLease, ReportRejected, ReportErrors, ToolReturns, store
  <1>12. CASE BeatSteps
    BY <1>10, <1>12 DEF BeatSteps, HeartbeatLands, HeartbeatFenced, HeartbeatErrors, store
  <1>13. ASSUME NEW t \in Tasks, ScanPublishes(t) \/ LeaseExpires(t) PROVE Goal
    BY <1>10, <1>13 DEF ScanPublishes, LeaseExpires, store
  <1> QED
    BY <1>1, <1>2, <1>3, <1>4, <1>5, <1>6, <1>8, <1>9, <1>11, <1>12, <1>13
    DEF Next, WorkerSteps, RelaySteps, TaskSteps

\* A PENDING task always has the delivery of its next attempt on the books, and
\* no row is marked published that no Publish accepted: whatever a crash takes
\* from the relay and its channel, the store still knows what is owed.
THEOREM DeliveriesAreOwed == Spec => []DeliveryIntent
  <1> DEFINE Inv == TypeInv /\ DeliveryIntent /\ SentIsAnnounced
  <1>1. Init => DeliveryIntent /\ SentIsAnnounced
    BY DEF Init, DeliveryIntent, SentIsAnnounced
  <1>2. Init => Inv
    BY <1>1, TypeInit
  <1>3. Inv /\ [Next]_vars => Inv'
    BY TypeStep, IntentStep
  <1> QED
    BY <1>2, <1>3, PTL DEF Spec

----------------------------------------------------------------------------
(***************************************************************************)
(* The refinement. Each of the five ways in which a row and its log can    *)
(* move is the step of TaskContract it should be.                          *)
(***************************************************************************)
PhaseOf(status) ==
    CASE status = "ABSENT"      -> "absent"
      [] status = "PENDING"     -> "open"
      [] status = "RUNNING"     -> "held"
      [] status = "COMPLETED"   -> "done"
      [] status = "DEAD_LETTER" -> "dead"

ResultOf(t) ==
    IF task[t].status = "COMPLETED" THEN history[t][Len(history[t])].attempt ELSE 0

\* The rows that are created are the contract's initial state.
LEMMA AbstractInit == Init => Contract!Init
  <1> SUFFICES ASSUME Init PROVE Contract!Init
    OBVIOUS
  <1>1. \A t \in Tasks : task[t].status = "ABSENT" /\ task[t].attempt = 0
    BY DEF Init
  <1>2. AbsPhase = [t \in Tasks |-> "absent"]
    BY <1>1 DEF AbsPhase
  <1>3. AbsClaims = [t \in Tasks |-> 0] /\ AbsResult = [t \in Tasks |-> 0]
    BY <1>1 DEF AbsClaims, AbsResult
  <1> QED
    BY <1>2, <1>3 DEF Contract!Init

\* How a store step on task t shows through the mapping.
LEMMA AbstractMove ==
  ASSUME NEW t \in Tasks, OnlyTask(t), NEW from \in TaskStatus, NEW to \in TaskStatus,
         RowMoves(t, from, to)
  PROVE  /\ AbsPhase[t] = PhaseOf(from) /\ AbsClaims[t] = task[t].attempt
         /\ AbsPhase' = [AbsPhase EXCEPT ![t] = PhaseOf(to)]
         /\ AbsClaims' = [AbsClaims EXCEPT ![t] = task'[t].attempt]
         /\ AbsResult' = [AbsResult EXCEPT ![t] = ResultOf(t)']
  <1>1. task[t].status = from /\ task'[t].status = to
    BY DEF RowMoves
  <1>2. \A s \in Tasks : s # t => task'[s] = task[s] /\ history'[s] = history[s]
    BY DEF OnlyTask
  <1>3. /\ AbsPhase = [s \in Tasks |-> PhaseOf(task[s].status)]
        /\ AbsPhase' = [s \in Tasks |-> PhaseOf(task'[s].status)]
    BY DEF AbsPhase, PhaseOf
  <1>4. /\ AbsResult = [s \in Tasks |-> ResultOf(s)]
        /\ AbsResult' = [s \in Tasks |-> ResultOf(s)']
        /\ \A s \in Tasks : s # t => ResultOf(s)' = ResultOf(s)
    BY <1>2 DEF AbsResult, ResultOf
  <1>5. AbsPhase[t] = PhaseOf(from) /\ AbsClaims[t] = task[t].attempt
    BY <1>1, <1>3 DEF AbsClaims
  <1>6. AbsPhase' = [AbsPhase EXCEPT ![t] = PhaseOf(to)]
    BY <1>1, <1>2, <1>3
  <1>7. AbsClaims' = [AbsClaims EXCEPT ![t] = task'[t].attempt]
    BY <1>2 DEF AbsClaims
  <1>8. AbsResult' = [AbsResult EXCEPT ![t] = ResultOf(t)']
    BY <1>4
  <1> QED
    BY <1>5, <1>6, <1>7, <1>8

\* Each way the rows change is a step of the contract or none.
LEMMA AbstractStep == StoreInv /\ [Next]_vars => [Contract!Next]_(Contract!contract)
  <1> SUFFICES ASSUME StoreInv, [Next]_vars PROVE [Contract!Next]_(Contract!contract)
    OBVIOUS
  <1>1. CASE UNCHANGED <<task, history>>
    BY <1>1 DEF Contract!contract, AbsPhase, AbsClaims, AbsResult
  <1>2. ASSUME NEW t \in Tasks, StoreStep(t) PROVE Contract!Next
    <2>1. /\ OnlyTask(t) /\ history[t] \in Seq(Event)
          /\ AbsResult = [s \in Tasks |-> ResultOf(s)]
          /\ task[t].attempt \in 0..MaxAttempts
      BY <1>2 DEF StoreStep, StoreInv, TypeInv, TypeOK, AbsResult, ResultOf, Attempts
    <2>2. ASSUME ResultOf(t)' = ResultOf(t), AbsResult' = [AbsResult EXCEPT ![t] = ResultOf(t)']
          PROVE  AbsResult' = AbsResult
      BY <2>1, <2>2
    <2>3. ASSUME task'[t].attempt = task[t].attempt, AbsClaims[t] = task[t].attempt,
                 AbsClaims' = [AbsClaims EXCEPT ![t] = task'[t].attempt]
          PROVE  AbsClaims' = AbsClaims
      BY <2>3 DEF AbsClaims
    <2> USE DEF TaskStatus, PhaseOf
    <2>4. CASE Created(t)
      <3>1. RowMoves(t, "ABSENT", "PENDING")
        BY <2>4 DEF Created
      <3>2. ResultOf(t)' = ResultOf(t) /\ task'[t].attempt = task[t].attempt
        BY <3>1 DEF RowMoves, ResultOf
      <3>3. Contract!Offer(t)
        BY <2>1, <2>2, <2>3, <3>1, <3>2, AbstractMove DEF Contract!Offer
      <3> QED
        BY <3>3 DEF Contract!Next
    <2>5. CASE Claimed(t)
      <3>1. RowMoves(t, "PENDING", "RUNNING")
        BY <2>5 DEF Claimed
      <3>2. /\ ResultOf(t)' = ResultOf(t) /\ task'[t].attempt = task[t].attempt + 1
            /\ task[t].attempt < MaxAttempts
        BY <3>1 DEF RowMoves, ResultOf, StoreInv, TypeInv, AttemptLeft
      <3>3. Contract!Take(t)
        BY <2>1, <2>2, <3>1, <3>2, AbstractMove DEF Contract!Take
      <3> QED
        BY <3>3 DEF Contract!Next
    <2>6. CASE Completed(t)
      <3>1. RowMoves(t, "RUNNING", "COMPLETED")
        BY <2>6 DEF Completed
      <3>2. PICK e \in Event : e.attempt = task[t].attempt /\ history'[t] = Append(history[t], e)
        BY <2>6 DEF Completed, Appends
      <3>3. ResultOf(t)' = task[t].attempt /\ task'[t].attempt = task[t].attempt
        BY <2>1, <3>1, <3>2, AppendedOne DEF RowMoves, ResultOf
      <3>4. Contract!Resolve(t)
        BY <2>1, <2>3, <3>1, <3>3, AbstractMove DEF Contract!Resolve
      <3> QED
        BY <3>4 DEF Contract!Next
    <2>7. CASE Requeued(t)
      <3>1. RowMoves(t, "RUNNING", "PENDING") /\ task[t].attempt < MaxAttempts
        BY <2>7 DEF Requeued
      <3>2. ResultOf(t)' = ResultOf(t) /\ task'[t].attempt = task[t].attempt
        BY <3>1 DEF RowMoves, ResultOf
      <3>3. Contract!GiveBack(t)
        BY <2>1, <2>2, <2>3, <3>1, <3>2, AbstractMove DEF Contract!GiveBack
      <3> QED
        BY <3>3 DEF Contract!Next
    <2>8. CASE Buried(t)
      <3>1. RowMoves(t, "RUNNING", "DEAD_LETTER")
        BY <2>8 DEF Buried
      <3>2. ResultOf(t)' = ResultOf(t) /\ task'[t].attempt = task[t].attempt
        BY <3>1 DEF RowMoves, ResultOf
      <3>3. Contract!GiveUp(t)
        BY <2>1, <2>2, <2>3, <3>1, <3>2, AbstractMove DEF Contract!GiveUp
      <3> QED
        BY <3>3 DEF Contract!Next
    <2> QED
      BY <1>2, <2>4, <2>5, <2>6, <2>7, <2>8 DEF StoreStep
  <1> QED
    BY <1>1, <1>2, StoreSteps DEF StoreInv

\* Leases, tokens, heartbeats, duplicate deliveries, crashes and overlapping
\* workers implement the contract that mentions none of them: attempts one
\* after the other, at most MaxAttempts, and the last one's result.
THEOREM LeasesImplementContract == Spec => ImplementsContract
  BY AbstractInit, AbstractStep, StoreInvariant, PTL
  DEF Spec, ImplementsContract, Contract!Spec
=============================================================================
