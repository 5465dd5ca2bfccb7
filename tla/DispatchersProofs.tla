------------------------- MODULE DispatchersProofs -------------------------
(***************************************************************************)
(* Theorems about Dispatchers, for every set of tasks and workers and      *)
(* every bound on attempts, copies and faults.                             *)
(***************************************************************************)
EXTENDS Dispatchers, TLAPS

(***************************************************************************)
(* What TypeOK needs to be inductive. An outbox row is written per         *)
(* attempt, so the rows on the books never outnumber the attempts; a sweep *)
(* marks only rows that are still there; and a report comes from the one   *)
(* worker that runs the task, whose row then says RUNNING.                 *)
(***************************************************************************)
Runs(w, t) == worker[w].at = "runs" /\ worker[w].task = t
Has(w, t)  == worker[w].at = "has" /\ worker[w].task = t

Shapes ==
    /\ transport \in {"jetstream", "postgres"} /\ closed \in BOOLEAN
    /\ queued \in [Messages -> Nat] /\ unacked \in [Messages -> Nat]
    /\ worker \in [Workers -> [at : {"claiming", "dead", "has", "runs"},
                               task : Tasks \cup {Nobody}]]
    /\ lost \in [Tasks -> BOOLEAN]
    /\ \A w \in Workers : worker[w].at \in {"has", "runs"} => worker[w].task \in Tasks

AttemptLeft == \A t \in Tasks : status[t] = "PENDING" => attempt[t] < MaxAttempts

RowPerAttempt ==
    \A t \in Tasks : due[t] + backingOff[t] <=
                         IF status[t] = "PENDING" THEN attempt[t] + 1 ELSE attempt[t]

SweptIsDue == \A t \in relay.delivered : due[t] > 0

OneRunner ==
    /\ \A w \in Workers, t \in Tasks : Runs(w, t) => status[t] = "RUNNING"
    /\ \A v, w \in Workers, t \in Tasks : Runs(v, t) /\ Runs(w, t) => v = w

TypeInv == TypeOK /\ Shapes /\ AttemptLeft /\ RowPerAttempt /\ SweptIsDue /\ OneRunner

WorkerRecord == [at : {"claiming", "dead", "has", "runs"}, task : Tasks \cup {Nobody}]

\* The committed tasks, one outbox row each and idle workers.
LEMMA TypeInit == Init => TypeInv
  <1> SUFFICES ASSUME Init PROVE TypeInv
    OBVIOUS
  <1> USE DispatchAssumption DEF Init
  <1>1. TypeOK
    BY DEF TypeOK, NoSweep, Messages
  <1>2. Shapes
    BY DEF Shapes, Messages, Idle
  <1>3. AttemptLeft /\ RowPerAttempt
    BY DEF AttemptLeft, RowPerAttempt
  <1>4. SweptIsDue
    BY DEF SweptIsDue, NoSweep
  <1>5. OneRunner
    BY DEF OneRunner, Runs, Idle
  <1> QED
    BY <1>1, <1>2, <1>3, <1>4, <1>5 DEF TypeInv

\* What a publish may do to the stream, whichever dispatcher is used and
\* whatever it answers.
PublishEffect(t, ok) ==
    /\ queued' \in [Messages -> Nat] /\ unacked' = unacked
    /\ \A m \in Messages : queued'[m] >= queued[m] /\ queued'[m] + unacked[m] <= MaxCopies
    /\ lost' \in [Tasks -> BOOLEAN]
    /\ \A s \in Tasks : lost'[s] = lost[s] \/ queued'[s] > 0
    /\ ok /\ transport = "jetstream" => queued'[t] > 0
    /\ faults' \in 0..MaxFaults

\* Both dispatchers publish that way.
LEMMA PublishEffects ==
  ASSUME TypeInv, NEW t \in Tasks, NEW ok \in BOOLEAN, Publish(t, ok)
  PROVE  PublishEffect(t, ok)
  <1>1. /\ t \in Messages /\ Tasks \subseteq Messages /\ MaxFaults \in Nat /\ MaxCopies \in Nat
        /\ queued \in [Messages -> Nat] /\ unacked \in [Messages -> Nat]
        /\ lost \in [Tasks -> BOOLEAN] /\ faults \in 0..MaxFaults
        /\ \A m \in Messages : queued[m] + unacked[m] <= MaxCopies
    BY DispatchAssumption DEF TypeInv, TypeOK, Shapes, Messages
  <1>2. Fault \/ NoFault => faults' \in 0..MaxFaults
    BY <1>1 DEF Fault, NoFault
  <1>3. CASE Stored(t) /\ (Fault \/ NoFault)
    <2>1. /\ queued' \in [Messages -> Nat] /\ queued'[t] = queued[t] + 1
          /\ \A m \in Messages : m # t => queued'[m] = queued[m]
          /\ unacked' = unacked /\ queued[t] + unacked[t] < MaxCopies
      BY <1>1, <1>3 DEF Stored
    <2>2. /\ lost' \in [Tasks -> BOOLEAN]
          /\ \A s \in Tasks : s # t => lost'[s] = lost[s]
      BY <1>1, <1>3 DEF Stored
    <2>3. \A m \in Messages : queued'[m] >= queued[m] /\ queued'[m] + unacked[m] <= MaxCopies
      BY <1>1, <2>1
    <2>4. queued'[t] > 0
      BY <1>1, <2>1
    <2> QED
      BY <1>2, <1>3, <2>1, <2>2, <2>3, <2>4 DEF PublishEffect
  <1>4. CASE UNCHANGED <<streamVars, lost>> /\ (Fault \/ NoFault)
             /\ ~(ok /\ transport = "jetstream")
    BY <1>1, <1>2, <1>4 DEF PublishEffect, streamVars
  <1> QED
    BY <1>3, <1>4 DEF Publish, JetStreamPublish, PostgresPublish

\* A message that was delivered or dropped is counted once less or moved.
LEMMA SettleEffects ==
  ASSUME TypeInv, NEW m \in Messages, queued[m] > 0, Settle(m)
  PROVE  /\ queued' \in [Messages -> Nat] /\ unacked' \in [Messages -> Nat]
         /\ \A n \in Messages : queued'[n] + unacked'[n] <= queued[n] + unacked[n]
         /\ \A n \in Messages : n # m => queued'[n] = queued[n] /\ unacked'[n] = unacked[n]
         /\ faults' \in 0..MaxFaults
  <1>1. /\ queued \in [Messages -> Nat] /\ unacked \in [Messages -> Nat]
        /\ faults \in 0..MaxFaults /\ MaxFaults \in Nat
    BY DispatchAssumption DEF TypeInv, TypeOK, Shapes
  <1>2. queued' \in [Messages -> Nat] /\ queued'[m] = queued[m] - 1
        /\ \A n \in Messages : n # m => queued'[n] = queued[n]
    BY <1>1 DEF Settle
  <1>3. CASE UNCHANGED unacked /\ NoFault
    BY <1>1, <1>2, <1>3 DEF NoFault
  <1>4. CASE unacked' = [unacked EXCEPT ![m] = @ + 1] /\ Fault
    <2>1. unacked' \in [Messages -> Nat] /\ unacked'[m] = unacked[m] + 1
          /\ \A n \in Messages : n # m => unacked'[n] = unacked[n]
      BY <1>1, <1>4
    <2> QED
      BY <1>1, <1>2, <1>4, <2>1 DEF Fault
  <1> QED
    BY <1>3, <1>4 DEF Settle

\* A worker's record changes and no other does.
LEMMA WorkerMoves ==
  ASSUME TypeInv, NEW w \in Workers, NEW x \in WorkerRecord,
         worker' = [worker EXCEPT ![w] = x]
  PROVE  /\ worker' \in [Workers -> WorkerRecord] /\ worker'[w] = x
         /\ \A v \in Workers : v # w => worker'[v] = worker[v]
  BY DEF TypeInv, Shapes, WorkerRecord

\* Every action keeps the ranges and what they rest on.
LEMMA TypeStep == TypeInv /\ [Next]_vars => TypeInv'
  <1> SUFFICES ASSUME TypeInv, [Next]_vars PROVE TypeInv'
    OBVIOUS
  <1>0. /\ MaxAttempts \in Nat /\ MaxFaults \in Nat /\ Tasks \subseteq Messages
        /\ TypeOK /\ Shapes /\ AttemptLeft /\ RowPerAttempt /\ SweptIsDue /\ OneRunner
        /\ Idle \in WorkerRecord /\ Dead \in WorkerRecord
    BY DispatchAssumption DEF TypeInv, Messages, Idle, Dead, WorkerRecord
  <1> USE DEF storeVars, streamVars
  <1>1. ASSUME NEW t \in Tasks, RelayPublish(t) PROVE TypeInv'
    <2>1. PICK ok \in BOOLEAN :
             /\ Publish(t, ok) /\ due[t] > 0
             /\ relay' = IF ok THEN [relay EXCEPT !.delivered = @ \cup {t}]
                               ELSE [relay EXCEPT !.failed = @ \cup {t}]
      BY <1>1 DEF RelayPublish
    <2>2. PublishEffect(t, ok)
      BY <2>1, PublishEffects
    <2>3. /\ relay' \in [delivered : SUBSET Tasks, failed : SUBSET Tasks]
          /\ relay'.delivered \subseteq relay.delivered \cup {t}
      BY <1>0, <2>1 DEF TypeOK
    <2>4. TypeOK' /\ Shapes'
      BY <1>0, <1>1, <2>2, <2>3 DEF RelayPublish, PublishEffect, TypeOK, Shapes
    <2>5. SweptIsDue'
      BY <1>0, <1>1, <2>1, <2>3 DEF RelayPublish, SweptIsDue
    <2> QED
      BY <1>0, <1>1, <2>4, <2>5
      DEF RelayPublish, TypeInv, AttemptLeft, RowPerAttempt, OneRunner, Runs
  <1>2. ASSUME NEW t \in Tasks, Scan(t) PROVE TypeInv'
    <2>1. PICK ok \in BOOLEAN : PublishEffect(t, ok)
      BY <1>2, PublishEffects DEF Scan
    <2>2. TypeOK' /\ Shapes'
      BY <1>0, <1>2, <2>1 DEF Scan, PublishEffect, TypeOK, Shapes
    <2> QED
      BY <1>0, <1>2, <2>2
      DEF Scan, TypeInv, AttemptLeft, RowPerAttempt, SweptIsDue, OneRunner, Runs
  <1>3. ASSUME NEW t \in Tasks, BackoffElapses(t) PROVE TypeInv'
    <2>1. /\ due[t] \in Nat /\ backingOff[t] \in Nat /\ attempt[t] \in Nat
          /\ due[t] + backingOff[t] <= MaxAttempts
      BY <1>0 DEF TypeOK, RowPerAttempt, AttemptLeft
    <2>2. /\ due'[t] = due[t] + 1 /\ backingOff'[t] = backingOff[t] - 1 /\ backingOff[t] > 0
          /\ \A s \in Tasks : s # t => due'[s] = due[s] /\ backingOff'[s] = backingOff[s]
      BY <1>0, <1>3 DEF BackoffElapses, TypeOK
    <2>3. due' \in [Tasks -> 0..MaxAttempts] /\ backingOff' \in [Tasks -> 0..MaxAttempts]
      BY <1>0, <1>3, <2>1, <2>2 DEF BackoffElapses, TypeOK
    <2>4. TypeOK' /\ Shapes'
      BY <1>0, <1>3, <2>3 DEF BackoffElapses, TypeOK, Shapes
    <2>5. RowPerAttempt'
      BY <1>0, <1>3, <2>1, <2>2 DEF BackoffElapses, RowPerAttempt
    <2>6. SweptIsDue'
      BY <1>0, <1>3, <2>1, <2>2 DEF BackoffElapses, SweptIsDue, TypeOK
    <2> QED
      BY <1>0, <1>3, <2>4, <2>5, <2>6
      DEF BackoffElapses, TypeInv, AttemptLeft, OneRunner, Runs
  <1>4. ASSUME NEW t \in Tasks, VisibilityElapses(t) PROVE TypeInv'
    <2>1. TypeOK' /\ Shapes'
      BY <1>0, <1>4 DEF VisibilityElapses, TypeOK, Shapes
    <2> QED
      BY <1>0, <1>4, <2>1
      DEF VisibilityElapses, TypeInv, AttemptLeft, RowPerAttempt, SweptIsDue, OneRunner, Runs
  <1>5. ASSUME NEW t \in Tasks, Reclaim(t) PROVE TypeInv'
    <2>1. /\ attempt[t] \in 0..MaxAttempts /\ due[t] \in Nat /\ backingOff[t] \in Nat
          /\ due[t] + backingOff[t] <= attempt[t]
      BY <1>0, <1>5 DEF Reclaim, TypeOK, RowPerAttempt
    <2>2. /\ status'[t] = IF attempt[t] < MaxAttempts THEN "PENDING" ELSE "SETTLED"
          /\ due'[t] = IF attempt[t] < MaxAttempts THEN due[t] + 1 ELSE due[t]
          /\ \A s \in Tasks : s # t => due'[s] = due[s] /\ status'[s] = status[s]
      BY <1>0, <1>5 DEF Reclaim, TypeOK
    <2>3. /\ status' \in [Tasks -> {"PENDING", "RUNNING", "SETTLED"}]
          /\ due' \in [Tasks -> 0..MaxAttempts]
      BY <1>0, <1>5, <2>1, <2>2 DEF Reclaim, TypeOK
    <2>4. TypeOK' /\ Shapes'
      BY <1>0, <1>5, <2>3 DEF Reclaim, TypeOK, Shapes
    <2>5. AttemptLeft' /\ RowPerAttempt'
      BY <1>0, <1>5, <2>1, <2>2 DEF Reclaim, AttemptLeft, RowPerAttempt
    <2>6. SweptIsDue'
      BY <1>0, <1>5, <2>1, <2>2 DEF Reclaim, SweptIsDue, TypeOK
    <2>7. \A w \in Workers : ~Runs(w, t)
      <3> SUFFICES ASSUME NEW w \in Workers, Runs(w, t) PROVE FALSE
        OBVIOUS
      <3>1. worker[w] = [at |-> "runs", task |-> t]
        BY <1>0 DEF Runs, Shapes
      <3> QED
        BY <1>5, <3>1 DEF Reclaim
    <2>8. OneRunner'
      BY <1>0, <1>5, <2>2, <2>7 DEF Reclaim, OneRunner, Runs
    <2> QED
      BY <2>4, <2>5, <2>6, <2>8 DEF TypeInv
  <1>6. ASSUME NEW m \in Messages, AckWaitElapses(m) PROVE TypeInv'
    <2>1. /\ queued \in [Messages -> Nat] /\ unacked \in [Messages -> Nat]
          /\ \A n \in Messages : queued[n] + unacked[n] <= MaxCopies
      BY <1>0 DEF TypeOK, Shapes
    <2>2. /\ queued' \in [Messages -> Nat] /\ unacked' \in [Messages -> Nat]
          /\ \A n \in Messages : queued'[n] + unacked'[n] = queued[n] + unacked[n]
      BY <1>6, <2>1 DEF AckWaitElapses
    <2>3. TypeOK' /\ Shapes'
      BY <1>0, <1>6, <2>1, <2>2 DEF AckWaitElapses, TypeOK, Shapes
    <2> QED
      BY <1>0, <1>6, <2>3
      DEF AckWaitElapses, TypeInv, AttemptLeft, RowPerAttempt, SweptIsDue, OneRunner, Runs
  <1>7. ASSUME NEW m \in Messages, MaxAgeDrops(m) PROVE TypeInv'
    <2>1. /\ queued \in [Messages -> Nat] /\ unacked \in [Messages -> Nat]
          /\ \A n \in Messages : queued[n] + unacked[n] <= MaxCopies
      BY <1>0 DEF TypeOK, Shapes
    <2>2. /\ queued' \in [Messages -> Nat] /\ unacked' = unacked
          /\ \A n \in Messages : queued'[n] <= queued[n]
          /\ faults' \in 0..MaxFaults
      BY <1>0, <1>7, <2>1 DEF MaxAgeDrops, Fault, TypeOK
    <2>3. \A n \in Messages : queued'[n] + unacked'[n] <= MaxCopies
      BY <2>1, <2>2, DispatchAssumption
    <2>4. lost' \in [Tasks -> BOOLEAN]
      BY <1>0, <1>7 DEF MaxAgeDrops, Shapes
    <2>5. TypeOK' /\ Shapes'
      BY <1>0, <1>7, <2>1, <2>2, <2>3, <2>4 DEF MaxAgeDrops, TypeOK, Shapes
    <2> QED
      BY <1>0, <1>7, <2>5
      DEF MaxAgeDrops, TypeInv, AttemptLeft, RowPerAttempt, SweptIsDue, OneRunner, Runs
  <1>8. ASSUME NEW w \in Workers, Take(w) PROVE TypeInv'
    <2>1. PICK t \in Tasks : hidden' = [hidden EXCEPT ![t] = TRUE] /\ Hand(w, t)
      BY <1>8 DEF Take
    <2> DEFINE x == [at |-> "has", task |-> t]
    <2>2. x \in WorkerRecord
      BY DEF WorkerRecord
    <2>3. /\ worker' \in [Workers -> WorkerRecord] /\ worker'[w] = x
          /\ \A v \in Workers : v # w => worker'[v] = worker[v]
      BY <2>1, <2>2, WorkerMoves DEF Hand
    <2>4. TypeOK' /\ Shapes'
      BY <1>0, <1>8, <2>1, <2>3 DEF Take, TypeOK, Shapes, WorkerRecord
    <2>5. OneRunner'
      BY <1>0, <1>8, <2>3 DEF Take, OneRunner, Runs
    <2> QED
      BY <1>0, <1>8, <2>4, <2>5 DEF Take, TypeInv, AttemptLeft, RowPerAttempt, SweptIsDue
  <1>9. ASSUME NEW w \in Workers, FetchOne(w) PROVE TypeInv'
    <2>1. PICK m \in Messages : /\ queued[m] > 0 /\ Settle(m)
                                /\ IF Readable(m) THEN Hand(w, m) ELSE UNCHANGED worker
      BY <1>9 DEF FetchOne, Term
    <2>2. /\ queued' \in [Messages -> Nat] /\ unacked' \in [Messages -> Nat]
          /\ \A n \in Messages : queued'[n] + unacked'[n] <= queued[n] + unacked[n]
          /\ faults' \in 0..MaxFaults
      BY <2>1, SettleEffects
    <2>3. \A n \in Messages : queued'[n] + unacked'[n] <= MaxCopies
      <3>1. /\ queued \in [Messages -> Nat] /\ unacked \in [Messages -> Nat]
            /\ \A n \in Messages : queued[n] + unacked[n] <= MaxCopies
        BY <1>0 DEF TypeOK, Shapes
      <3> QED
        BY <2>2, <3>1, DispatchAssumption
    <2>4. /\ worker' \in [Workers -> WorkerRecord]
          /\ \A v \in Workers : \/ worker'[v] = worker[v]
                                \/ worker'[v].at = "has" /\ worker'[v].task \in Tasks
      <3>1. CASE Readable(m)
        <4>1. m \in Tasks /\ [at |-> "has", task |-> m] \in WorkerRecord
          BY <3>1 DEF Readable, Messages, WorkerRecord
        <4> QED
          BY <2>1, <3>1, <4>1, WorkerMoves DEF Hand
      <3>2. CASE ~Readable(m)
        BY <1>0, <2>1, <3>2 DEF Shapes, WorkerRecord
      <3> QED
        BY <3>1, <3>2
    <2>5. TypeOK' /\ Shapes'
      BY <1>0, <1>9, <2>2, <2>3, <2>4 DEF FetchOne, TypeOK, Shapes, WorkerRecord
    <2>6. OneRunner'
      BY <1>0, <1>9, <2>4 DEF FetchOne, OneRunner, Runs
    <2> QED
      BY <1>0, <1>9, <2>5, <2>6 DEF FetchOne, TypeInv, AttemptLeft, RowPerAttempt, SweptIsDue
  <1>10. ASSUME NEW w \in Workers, ClaimTask(w) PROVE TypeInv'
    <2>1. PICK t \in Tasks : worker[w].task = t
      BY <1>0, <1>10 DEF ClaimTask, Shapes
    <2>2. CASE status[t] = "PENDING"
      <3>1. /\ status' = [status EXCEPT ![t] = "RUNNING"]
            /\ attempt' = [attempt EXCEPT ![t] = @ + 1]
            /\ worker' = [worker EXCEPT ![w] = [worker[w] EXCEPT !.at = "runs"]]
        BY <1>10, <2>1, <2>2 DEF ClaimTask
      <3>2. [worker[w] EXCEPT !.at = "runs"] \in WorkerRecord
        BY <1>0 DEF Shapes, WorkerRecord
      <3>3. /\ worker' \in [Workers -> WorkerRecord] /\ worker'[w].at = "runs" /\ worker'[w].task = t
            /\ \A v \in Workers : v # w => worker'[v] = worker[v]
        <4>1. /\ worker' \in [Workers -> WorkerRecord]
              /\ worker'[w] = [worker[w] EXCEPT !.at = "runs"]
              /\ \A v \in Workers : v # w => worker'[v] = worker[v]
          BY <1>0, <3>1, <3>2, WorkerMoves
        <4>2. worker[w] \in WorkerRecord
          BY <1>0 DEF Shapes, WorkerRecord
        <4> QED
          BY <2>1, <4>1, <4>2 DEF WorkerRecord
      <3>4. attempt[t] \in 0..MaxAttempts /\ attempt[t] < MaxAttempts
            /\ due[t] + backingOff[t] <= attempt[t] + 1
        BY <1>0, <2>2 DEF TypeOK, AttemptLeft, RowPerAttempt
      <3>5. /\ attempt'[t] = attempt[t] + 1 /\ status'[t] = "RUNNING"
            /\ \A s \in Tasks : s # t => attempt'[s] = attempt[s] /\ status'[s] = status[s]
            /\ attempt' \in [Tasks -> 0..MaxAttempts]
            /\ status' \in [Tasks -> {"PENDING", "RUNNING", "SETTLED"}]
        BY <1>0, <3>1, <3>4 DEF TypeOK
      <3>6. TypeOK' /\ Shapes'
        BY <1>0, <1>10, <3>3, <3>5 DEF ClaimTask, TypeOK, Shapes, WorkerRecord
      <3>7. AttemptLeft' /\ RowPerAttempt' /\ SweptIsDue'
        BY <1>0, <1>10, <3>4, <3>5 DEF ClaimTask, AttemptLeft, RowPerAttempt, SweptIsDue
      <3>8. OneRunner'
        BY <1>0, <2>2, <3>3, <3>5 DEF OneRunner, Runs
      <3> QED
        BY <3>6, <3>7, <3>8 DEF TypeInv
    <2>3. CASE status[t] # "PENDING"
      <3>1. worker' = [worker EXCEPT ![w] = Idle] /\ UNCHANGED <<status, attempt>>
        BY <1>10, <2>1, <2>3 DEF ClaimTask
      <3>2. /\ worker' \in [Workers -> WorkerRecord] /\ worker'[w] = Idle
            /\ \A v \in Workers : v # w => worker'[v] = worker[v]
        BY <1>0, <3>1, WorkerMoves
      <3>3. TypeOK' /\ Shapes'
        BY <1>0, <1>10, <3>1, <3>2 DEF ClaimTask, TypeOK, Shapes, WorkerRecord, Idle
      <3>4. OneRunner'
        BY <1>0, <3>1, <3>2 DEF OneRunner, Runs, Idle
      <3> QED
        BY <1>0, <1>10, <3>1, <3>3, <3>4
        DEF ClaimTask, TypeInv, AttemptLeft, RowPerAttempt, SweptIsDue
    <2> QED
      BY <2>2, <2>3
  <1>11. ASSUME NEW w \in Workers, Report(w) PROVE TypeInv'
    <2>1. PICK t \in Tasks : worker[w].task = t
      BY <1>0, <1>11 DEF Report, Shapes
    <2>2. Runs(w, t) /\ status[t] = "RUNNING"
      BY <1>0, <1>11, <2>1 DEF Report, Runs, OneRunner
    <2>3. /\ worker' \in [Workers -> WorkerRecord] /\ worker'[w] = Idle
          /\ \A v \in Workers : v # w => worker'[v] = worker[v]
      BY <1>0, <1>11, WorkerMoves DEF Report
    <2>4. /\ attempt[t] \in 0..MaxAttempts /\ due[t] \in Nat /\ backingOff[t] \in Nat
          /\ due[t] + backingOff[t] <= attempt[t]
      BY <1>0, <2>2 DEF TypeOK, RowPerAttempt
    <2>5. /\ status'[t] \in {"PENDING", "SETTLED"}
          /\ \A s \in Tasks : s # t => status'[s] = status[s]
          /\ status' \in [Tasks -> {"PENDING", "RUNNING", "SETTLED"}]
          /\ status'[t] = "PENDING" => attempt[t] < MaxAttempts
      BY <1>0, <1>11, <2>1 DEF Report, Requeue, TypeOK
    <2>6. \/ UNCHANGED <<due, backingOff>>
          \/ /\ status'[t] = "PENDING" /\ due' = [due EXCEPT ![t] = @ + 1]
             /\ UNCHANGED backingOff
          \/ /\ status'[t] = "PENDING" /\ backingOff' = [backingOff EXCEPT ![t] = @ + 1]
             /\ UNCHANGED due
      BY <1>0, <1>11, <2>1 DEF Report, Requeue, TypeOK
    <2>7. /\ due' \in [Tasks -> 0..MaxAttempts] /\ backingOff' \in [Tasks -> 0..MaxAttempts]
          /\ \A s \in Tasks : due'[s] >= due[s] /\ due[s] \in Nat
          /\ \A s \in Tasks : s # t => due'[s] = due[s] /\ backingOff'[s] = backingOff[s]
          /\ due'[t] + backingOff'[t] <=
                 IF status'[t] = "PENDING" THEN attempt[t] + 1 ELSE attempt[t]
      BY <1>0, <2>4, <2>5, <2>6 DEF TypeOK
    <2>8. TypeOK' /\ Shapes'
      BY <1>0, <1>11, <2>3, <2>5, <2>7 DEF Report, TypeOK, Shapes, WorkerRecord, Idle
    <2>9. AttemptLeft' /\ RowPerAttempt'
      BY <1>0, <1>11, <2>5, <2>7 DEF Report, AttemptLeft, RowPerAttempt
    <2>10. SweptIsDue'
      <3>1. relay' = relay /\ relay.delivered \subseteq Tasks
        BY <1>0, <1>11 DEF Report, TypeOK
      <3>2. ASSUME NEW s \in Tasks, due[s] > 0 PROVE due'[s] > 0
        <4>1. due[s] \in Nat /\ due'[s] \in Nat /\ due'[s] >= due[s]
          BY <2>7
        <4> QED
          BY <3>2, <4>1
      <3> QED
        BY <1>0, <3>1, <3>2 DEF SweptIsDue
    <2>11. OneRunner'
      BY <1>0, <2>2, <2>3, <2>5 DEF OneRunner, Runs, Idle
    <2> QED
      BY <2>8, <2>9, <2>10, <2>11 DEF TypeInv
  <1>12. ASSUME NEW w \in Workers, WorkerDies(w) PROVE TypeInv'
    <2>1. /\ worker' \in [Workers -> WorkerRecord] /\ worker'[w] = Dead
          /\ \A v \in Workers : v # w => worker'[v] = worker[v]
      BY <1>0, <1>12, WorkerMoves DEF WorkerDies
    <2>2. lost' \in [Tasks -> BOOLEAN] /\ faults' \in 0..MaxFaults
      BY <1>0, <1>12 DEF WorkerDies, Fault, Shapes, TypeOK
    <2>3. TypeOK' /\ Shapes'
      BY <1>0, <1>12, <2>1, <2>2 DEF WorkerDies, TypeOK, Shapes, WorkerRecord, Dead
    <2>4. OneRunner'
      BY <1>0, <1>12, <2>1 DEF WorkerDies, OneRunner, Runs, Dead
    <2> QED
      BY <1>0, <1>12, <2>3, <2>4 DEF WorkerDies, TypeInv, AttemptLeft, RowPerAttempt, SweptIsDue
  <1>13. ASSUME NEW w \in Workers, ClaimErrors(w) PROVE TypeInv'
    <2>1. /\ worker' \in [Workers -> WorkerRecord] /\ worker'[w] = Idle
          /\ \A v \in Workers : v # w => worker'[v] = worker[v]
      BY <1>0, <1>13, WorkerMoves DEF ClaimErrors
    <2>2. lost' \in [Tasks -> BOOLEAN] /\ faults' \in 0..MaxFaults
      BY <1>0, <1>13 DEF ClaimErrors, Fault, Shapes, TypeOK
    <2>3. TypeOK' /\ Shapes'
      BY <1>0, <1>13, <2>1, <2>2 DEF ClaimErrors, TypeOK, Shapes, WorkerRecord, Idle
    <2>4. OneRunner'
      BY <1>0, <1>13, <2>1 DEF ClaimErrors, OneRunner, Runs, Idle
    <2> QED
      BY <1>0, <1>13, <2>3, <2>4 DEF ClaimErrors, TypeInv, AttemptLeft, RowPerAttempt, SweptIsDue
  <1>14. CASE RelayMark
    <2>1. /\ \A t \in Tasks : due'[t] = IF t \in relay.delivered THEN due[t] - 1 ELSE due[t]
          /\ \A t \in Tasks : /\ due[t] \in 0..MaxAttempts /\ backingOff[t] \in Nat
                              /\ attempt[t] \in Nat
                              /\ t \in relay.delivered => due[t] > 0
      BY <1>0, <1>14 DEF RelayMark, Marked, TypeOK, SweptIsDue
    <2>2. due' \in [Tasks -> 0..MaxAttempts]
      BY <1>0, <1>14, <2>1 DEF RelayMark, Marked
    <2>3. TypeOK' /\ Shapes'
      BY <1>0, <1>14, <2>2 DEF RelayMark, NoSweep, TypeOK, Shapes
    <2>4. RowPerAttempt'
      BY <1>0, <1>14, <2>1 DEF RelayMark, RowPerAttempt
    <2> QED
      BY <1>0, <1>14, <2>3, <2>4
      DEF RelayMark, NoSweep, TypeInv, AttemptLeft, SweptIsDue, OneRunner, Runs
  <1>15. CASE Close \/ Restart
    <2>1. /\ worker' \in [Workers -> WorkerRecord]
          /\ \A v \in Workers : \/ worker'[v] = worker[v]
                                \/ worker'[v].at \in {"claiming", "dead"}
      <3>1. \A v \in Workers : worker'[v] \in {worker[v], Idle, Dead}
        BY <1>15 DEF Close, Restart
      <3>2. \E f \in [Workers -> WorkerRecord] : worker' = f
        <4>1. CASE Close
          BY <1>0, <4>1 DEF Close, Shapes, WorkerRecord
        <4>2. CASE Restart
          BY <1>0, <4>2 DEF Restart, Shapes, WorkerRecord
        <4> QED
          BY <1>15, <4>1, <4>2
      <3> QED
        BY <3>1, <3>2 DEF Idle, Dead
    <2>2. /\ faults' \in 0..MaxFaults /\ closed' \in BOOLEAN
          /\ relay' \in {relay, NoSweep}
      <3>1. CASE Close
        BY <1>0, <3>1 DEF Close, Fault, TypeOK
      <3>2. CASE Restart
        BY <1>0, <3>2 DEF Restart, TypeOK
      <3> QED
        BY <1>15, <3>1, <3>2
    <2>3. UNCHANGED <<transport, status, attempt, hidden, due, backingOff, queued, unacked, lost>>
      BY <1>15 DEF Close, Restart
    <2>4. TypeOK' /\ Shapes'
      BY <1>0, <2>1, <2>2, <2>3 DEF NoSweep, TypeOK, Shapes, WorkerRecord
    <2>5. OneRunner'
      BY <1>0, <2>1, <2>3 DEF OneRunner, Runs
    <2>6. SweptIsDue'
      BY <1>0, <2>2, <2>3 DEF SweptIsDue, NoSweep
    <2> QED
      BY <1>0, <2>3, <2>4, <2>5, <2>6 DEF TypeInv, AttemptLeft, RowPerAttempt
  <1>16. CASE UNCHANGED vars
    BY <1>0, <1>16
    DEF vars, TypeInv, TypeOK, Shapes, AttemptLeft, RowPerAttempt, SweptIsDue, OneRunner, Runs
  <1> QED
    BY <1>1, <1>2, <1>3, <1>4, <1>5, <1>6, <1>7, <1>8, <1>9, <1>10, <1>11, <1>12, <1>13,
       <1>14, <1>15, <1>16 DEF Next

\* Every row, message count and bound keeps its range, and no task is tried
\* more often than its budget, under either dispatcher.
THEOREM TypeCorrect == Spec => []TypeOK
  <1>1. TypeInv => TypeOK
    BY DEF TypeInv
  <1> QED
    BY <1>1, TypeInit, TypeStep, PTL DEF Spec

----------------------------------------------------------------------------
(***************************************************************************)
(* NothingUnaccounted is lost when a sweep marks a row whose message has   *)
(* been used up. Counting a row as owed only until the sweep has delivered *)
(* it makes the invariant inductive: by then the task has a message, or it *)
(* has been claimed and a later row was written for it.                    *)
(***************************************************************************)
Owed(t) == due[t] + backingOff[t] - (IF t \in relay.delivered THEN 1 ELSE 0)

Held(t) ==
    \/ Owed(t) > 0
    \/ transport = "postgres"
    \/ queued[t] + unacked[t] > 0
    \/ \E w \in Workers : Has(w, t)
    \/ lost[t]

DispatchInv == TypeInv /\ \A t \in Tasks : status[t] = "PENDING" => Held(t)

\* The types a task's account is computed in.
LEMMA AccountTypes ==
  ASSUME TypeInv, NEW t \in Tasks
  PROVE  /\ t \in Messages /\ due[t] \in Nat /\ backingOff[t] \in Nat /\ Owed(t) \in Int
         /\ queued[t] \in Nat /\ unacked[t] \in Nat /\ lost[t] \in BOOLEAN
  BY DispatchAssumption DEF TypeInv, TypeOK, Shapes, Messages, Owed

\* A step that takes nothing from a task's account keeps the task held.
LEMMA NothingTaken ==
  ASSUME TypeInv, TypeInv', NEW t \in Tasks, Held(t), transport' = transport,
         Owed(t)' >= Owed(t), queued'[t] + unacked'[t] >= queued[t] + unacked[t],
         \A w \in Workers : Has(w, t) => Has(w, t)',
         lost[t] => lost'[t]
  PROVE  Held(t)'
  <1>1. /\ Owed(t) \in Int /\ queued[t] \in Nat /\ unacked[t] \in Nat
    BY AccountTypes
  <1>2. /\ Owed(t)' \in Int /\ queued'[t] \in Nat /\ unacked'[t] \in Nat
    BY DispatchAssumption DEF TypeInv, TypeOK, Shapes, Messages, Owed
  <1> HIDE DEF Owed
  <1> QED
    BY <1>1, <1>2 DEF Held

\* The account opens with every task's own outbox row.
LEMMA AccountInit == Init => DispatchInv
  BY TypeInit DEF Init, DispatchInv, Held, Owed, NoSweep

\* One case per action; only the ones that move a row, a message or a worker
\* of the task have anything to show.
LEMMA AccountStep == DispatchInv /\ [Next]_vars => DispatchInv'
  <1> SUFFICES ASSUME DispatchInv, [Next]_vars PROVE DispatchInv'
    OBVIOUS
  <1>0. TypeInv /\ TypeInv'
    BY TypeStep DEF DispatchInv
  <1> SUFFICES ASSUME NEW t \in Tasks, status'[t] = "PENDING" PROVE Held(t)'
    BY <1>0 DEF DispatchInv
  <1> USE DEF storeVars, streamVars
  <1>a. /\ t \in Messages /\ due[t] \in Nat /\ backingOff[t] \in Nat /\ Owed(t) \in Int
        /\ queued[t] \in Nat /\ unacked[t] \in Nat /\ lost[t] \in BOOLEAN
        /\ queued'[t] \in Nat /\ unacked'[t] \in Nat /\ due'[t] \in Nat /\ backingOff'[t] \in Nat
        /\ status[t] = "PENDING" => Held(t)
        /\ relay.delivered \subseteq Tasks
    <2>1. /\ t \in Messages /\ due[t] \in Nat /\ backingOff[t] \in Nat /\ Owed(t) \in Int
          /\ queued[t] \in Nat /\ unacked[t] \in Nat /\ lost[t] \in BOOLEAN
      BY <1>0, AccountTypes
    <2> QED
      BY <1>0, <2>1 DEF DispatchInv, TypeInv, TypeOK, Shapes
  <1>1. ASSUME NEW s \in Tasks, RelayPublish(s) PROVE Held(t)'
    <2>1. PICK ok \in BOOLEAN :
             /\ Publish(s, ok) /\ PublishEffect(s, ok)
             /\ relay' = IF ok THEN [relay EXCEPT !.delivered = @ \cup {s}]
                               ELSE [relay EXCEPT !.failed = @ \cup {s}]
      BY <1>0, <1>1, PublishEffects DEF RelayPublish
    <2>2. CASE queued'[t] > 0 \/ transport = "postgres"
      BY <1>1, <1>a, <2>2 DEF Held, RelayPublish
    <2>3. CASE ~(queued'[t] > 0 \/ transport = "postgres")
      <3>1. transport = "jetstream"
        BY <1>0, <2>3 DEF TypeInv, Shapes
      <3>2. ~(ok /\ s = t) /\ lost'[t] = lost[t]
        BY <2>1, <2>3, <3>1 DEF PublishEffect
      <3>3. t \in relay'.delivered <=> t \in relay.delivered
        BY <1>0, <2>1, <3>2 DEF TypeInv, TypeOK
      <3>4. Owed(t)' = Owed(t)
        BY <1>1, <3>3 DEF Owed, RelayPublish
      <3>5. queued'[t] + unacked'[t] >= queued[t] + unacked[t]
        BY <1>a, <2>1 DEF PublishEffect
      <3>6. UNCHANGED <<transport, worker, status>>
        BY <1>1 DEF RelayPublish
      <3> HIDE DEF Owed
      <3>7. Owed(t)' >= Owed(t) /\ Held(t) /\ \A w \in Workers : Has(w, t) => Has(w, t)'
        BY <1>a, <3>4, <3>6 DEF Has
      <3> QED
        BY <1>0, <3>2, <3>5, <3>6, <3>7, NothingTaken
    <2> QED
      BY <2>2, <2>3
  <1>2. ASSUME NEW s \in Tasks, Scan(s) PROVE Held(t)'
    <2>1. PICK ok \in BOOLEAN : PublishEffect(s, ok)
      BY <1>0, <1>2, PublishEffects DEF Scan
    <2>2. CASE queued'[t] > 0
      BY <1>a, <2>2 DEF Held
    <2>3. CASE lost'[t] = lost[t]
      <3>1. queued'[t] + unacked'[t] >= queued[t] + unacked[t]
        BY <1>a, <2>1 DEF PublishEffect
      <3>2. Owed(t)' = Owed(t) /\ UNCHANGED <<transport, worker, status>>
        BY <1>2 DEF Scan, Owed
      <3> HIDE DEF Owed
      <3>3. Owed(t)' >= Owed(t) /\ Held(t) /\ \A w \in Workers : Has(w, t) => Has(w, t)'
        BY <1>a, <3>2 DEF Has
      <3> QED
        BY <1>0, <2>3, <3>1, <3>2, <3>3, NothingTaken
    <2> QED
      BY <2>1, <2>2, <2>3 DEF PublishEffect
  <1>3. ASSUME NEW s \in Tasks, BackoffElapses(s) PROVE Held(t)'
    <2>1. due'[t] + backingOff'[t] = due[t] + backingOff[t]
      BY <1>0, <1>3, <1>a DEF BackoffElapses, TypeInv, TypeOK
    <2>2. Owed(t)' = Owed(t)
      <3>1. relay' = relay
        BY <1>3 DEF BackoffElapses
      <3> QED
        BY <1>a, <2>1, <3>1 DEF Owed
    <2>3. UNCHANGED <<transport, status, queued, unacked, worker, lost>>
      BY <1>3 DEF BackoffElapses
    <2> HIDE DEF Owed
    <2> QED
      BY <1>a, <2>2, <2>3 DEF Held, Has
  <1>4. ASSUME NEW s \in Tasks, VisibilityElapses(s) PROVE Held(t)'
    BY <1>4, <1>a DEF VisibilityElapses, Held, Has, Owed
  <1>5. ASSUME NEW s \in Tasks, Reclaim(s) PROVE Held(t)'
    <2>1. CASE s = t
      <3>1. attempt[t] < MaxAttempts
        BY <1>0, <1>5, <2>1 DEF Reclaim, TypeInv, TypeOK
      <3>2. due'[t] = due[t] + 1 /\ backingOff' = backingOff /\ relay' = relay
        BY <1>0, <1>5, <2>1, <3>1 DEF Reclaim, TypeInv, TypeOK
      <3>3. t \in relay.delivered => due[t] > 0
        BY <1>0 DEF TypeInv, SweptIsDue
      <3>4. Owed(t)' > 0
        BY <1>a, <3>2, <3>3 DEF Owed
      <3> QED
        BY <3>4 DEF Held
    <2>2. CASE s # t
      <3>1. due'[t] = due[t] /\ status'[t] = status[t]
        BY <1>0, <1>5, <2>2 DEF Reclaim, TypeInv, TypeOK
      <3> QED
        BY <1>5, <1>a, <3>1 DEF Reclaim, Held, Has, Owed
    <2> QED
      BY <2>1, <2>2
  <1>6. ASSUME NEW m \in Messages, AckWaitElapses(m) PROVE Held(t)'
    <2>1. queued'[t] + unacked'[t] = queued[t] + unacked[t]
      BY <1>0, <1>6, <1>a DEF AckWaitElapses, TypeInv, Shapes
    <2> QED
      BY <1>6, <1>a, <2>1 DEF AckWaitElapses, Held, Has, Owed
  <1>7. ASSUME NEW m \in Messages, MaxAgeDrops(m) PROVE Held(t)'
    <2>1. CASE m = t
      <3>1. lost'[t]
        BY <1>0, <1>7, <2>1 DEF MaxAgeDrops, TypeInv, Shapes
      <3> QED
        BY <3>1 DEF Held
    <2>2. CASE m # t
      <3>1. queued'[t] = queued[t] /\ unacked'[t] = unacked[t] /\ lost'[t] = lost[t]
        BY <1>0, <1>7, <1>a, <2>2 DEF MaxAgeDrops, TypeInv, Shapes
      <3> QED
        BY <1>7, <1>a, <3>1 DEF MaxAgeDrops, Held, Has, Owed
    <2> QED
      BY <2>1, <2>2
  <1>8. ASSUME NEW w \in Workers, Take(w) PROVE Held(t)'
    BY <1>8 DEF Take, Held
  <1>9. ASSUME NEW w \in Workers, FetchOne(w) PROVE Held(t)'
    <2>1. PICK m \in Messages : /\ queued[m] > 0 /\ Settle(m)
                                /\ IF Readable(m) THEN Hand(w, m) ELSE UNCHANGED worker
      BY <1>9 DEF FetchOne, Term
    <2>2. \A n \in Messages : n # m => queued'[n] = queued[n] /\ unacked'[n] = unacked[n]
      BY <1>0, <2>1, SettleEffects
    <2>3. CASE m = t
      <3>1. Readable(m)
        BY <2>3, DispatchAssumption DEF Readable
      <3>2. Has(w, t)'
        BY <1>0, <2>1, <2>3, <3>1 DEF Hand, Has, TypeInv, Shapes
      <3> QED
        BY <3>2 DEF Held
    <2>4. CASE m # t
      <3>1. \A v \in Workers : Has(v, t) => Has(v, t)'
        <4>1. worker[w].at = "claiming"
          BY <1>9 DEF FetchOne, Idle
        <4>2. \A v \in Workers : v # w => worker'[v] = worker[v]
          BY <1>0, <2>1 DEF Hand, TypeInv, Shapes
        <4> QED
          BY <4>1, <4>2 DEF Has
      <3>2. queued'[t] = queued[t] /\ unacked'[t] = unacked[t]
        BY <1>a, <2>2, <2>4
      <3> QED
        BY <1>9, <1>a, <3>1, <3>2 DEF FetchOne, Held, Owed
    <2> QED
      BY <2>3, <2>4
  <1>10. ASSUME NEW w \in Workers, ClaimTask(w) PROVE Held(t)'
    <2>1. worker[w].task \in Tasks /\ status'[t] = status[t] /\ ~Has(w, t)
      <3>1. worker[w].at = "has" /\ worker[w].task \in Tasks
        BY <1>0, <1>10 DEF ClaimTask, TypeInv, Shapes
      <3>2. CASE status[worker[w].task] = "PENDING"
        <4>1. status' = [status EXCEPT ![worker[w].task] = "RUNNING"]
          BY <1>10, <3>2 DEF ClaimTask
        <4> QED
          BY <1>0, <3>1, <4>1 DEF Has, TypeInv, TypeOK
      <3>3. CASE status[worker[w].task] # "PENDING"
        BY <1>10, <3>1, <3>3 DEF ClaimTask, Has
      <3> QED
        BY <3>2, <3>3
    <2>2. \A v \in Workers : Has(v, t) => Has(v, t)'
      <3>1. \A v \in Workers : v # w => worker'[v] = worker[v]
        BY <1>0, <1>10 DEF ClaimTask, TypeInv, Shapes
      <3> QED
        BY <2>1, <3>1 DEF Has
    <2> QED
      BY <1>10, <1>a, <2>1, <2>2 DEF ClaimTask, Held, Owed
  <1>11. ASSUME NEW w \in Workers, Report(w) PROVE Held(t)'
    <2> DEFINE s == worker[w].task
    <2>1. s \in Tasks /\ worker[w].at = "runs"
      BY <1>0, <1>11 DEF Report, TypeInv, Shapes
    <2>2. \A v \in Workers : Has(v, t) => Has(v, t)'
      <3>1. \A v \in Workers : v # w => worker'[v] = worker[v]
        BY <1>0, <1>11 DEF Report, TypeInv, Shapes
      <3> QED
        BY <2>1, <3>1 DEF Has
    <2>3. relay' = relay /\ UNCHANGED <<transport, queued, unacked, lost>>
      BY <1>11 DEF Report
    <2> HIDE DEF s
    <2>4. CASE s = t
      <3>1. Requeue(t) /\ attempt[t] < MaxAttempts
        BY <1>0, <1>11, <2>4 DEF Report, Requeue, TypeInv, TypeOK, s
      <3>2. due'[t] + backingOff'[t] = due[t] + backingOff[t] + 1
        BY <1>0, <1>a, <3>1 DEF Requeue, TypeInv, TypeOK
      <3>3. t \in relay.delivered => due[t] > 0
        BY <1>0 DEF TypeInv, SweptIsDue
      <3>4. Owed(t)' > 0
        BY <1>a, <2>3, <3>2, <3>3 DEF Owed
      <3> QED
        BY <3>4 DEF Held
    <2>5. CASE s # t
      <3>1. due'[t] = due[t] /\ backingOff'[t] = backingOff[t] /\ status'[t] = status[t]
        BY <1>0, <1>11, <2>1, <2>5 DEF Report, Requeue, TypeInv, TypeOK, s
      <3>2. Owed(t)' = Owed(t)
        BY <2>3, <3>1 DEF Owed
      <3>3. Held(t)
        BY <1>a, <3>1
      <3> HIDE DEF Owed
      <3> QED
        BY <2>2, <2>3, <3>2, <3>3 DEF Held
    <2> QED
      BY <2>4, <2>5
  <1>12. ASSUME NEW w \in Workers, WorkerDies(w) PROVE Held(t)'
    <2>1. CASE Has(w, t)
      <3>1. lost'[t]
        BY <1>0, <1>12, <2>1 DEF WorkerDies, Has, TypeInv, Shapes
      <3> QED
        BY <3>1 DEF Held
    <2>2. CASE ~Has(w, t)
      <3>1. \A v \in Workers : Has(v, t) => Has(v, t)'
        <4>1. \A v \in Workers : v # w => worker'[v] = worker[v]
          BY <1>0, <1>12 DEF WorkerDies, TypeInv, Shapes
        <4> QED
          BY <2>2, <4>1 DEF Has
      <3>2. lost'[t] = lost[t]
        BY <1>0, <1>12, <2>2 DEF WorkerDies, Has, TypeInv, Shapes
      <3> QED
        BY <1>12, <1>a, <3>1, <3>2 DEF WorkerDies, Held, Owed
    <2> QED
      BY <2>1, <2>2
  <1>13. ASSUME NEW w \in Workers, ClaimErrors(w) PROVE Held(t)'
    <2>1. CASE Has(w, t)
      <3>1. lost'[t]
        BY <1>0, <1>13, <2>1 DEF ClaimErrors, Has, TypeInv, Shapes
      <3> QED
        BY <3>1 DEF Held
    <2>2. CASE ~Has(w, t)
      <3>1. \A v \in Workers : Has(v, t) => Has(v, t)'
        <4>1. \A v \in Workers : v # w => worker'[v] = worker[v]
          BY <1>0, <1>13 DEF ClaimErrors, TypeInv, Shapes
        <4> QED
          BY <2>2, <4>1 DEF Has
      <3>2. lost'[t] = lost[t]
        BY <1>0, <1>13, <2>2 DEF ClaimErrors, Has, TypeInv, Shapes
      <3> QED
        BY <1>13, <1>a, <3>1, <3>2 DEF ClaimErrors, Held, Owed
    <2> QED
      BY <2>1, <2>2
  <1>14. CASE RelayMark
    <2>1. due'[t] = IF t \in relay.delivered THEN due[t] - 1 ELSE due[t]
      BY <1>14 DEF RelayMark, Marked
    <2>2. Owed(t)' = Owed(t)
      BY <1>14, <1>a, <2>1 DEF RelayMark, NoSweep, Owed
    <2> HIDE DEF Owed
    <2> QED
      BY <1>14, <1>a, <2>2 DEF RelayMark, Held, Has
  <1>15. CASE Close \/ Restart
    <2>1. \A v \in Workers : Has(v, t) => Has(v, t)'
      BY <1>15 DEF Close, Restart, Has, Idle, Dead
    <2>2. relay'.delivered \subseteq relay.delivered
      BY <1>15 DEF Close, Restart, NoSweep
    <2>3. UNCHANGED <<transport, status, due, backingOff, queued, unacked, lost>>
      BY <1>15 DEF Close, Restart
    <2>4. Owed(t)' >= Owed(t) /\ Held(t)
      BY <1>a, <2>2, <2>3 DEF Owed
    <2>5. queued'[t] + unacked'[t] >= queued[t] + unacked[t] /\ (lost[t] => lost'[t])
      BY <1>a, <2>3
    <2> QED
      BY <1>0, <2>1, <2>3, <2>4, <2>5, NothingTaken
  <1>16. CASE UNCHANGED vars
    BY <1>16, <1>a DEF vars, Held, Has, Owed
  <1> QED
    BY <1>1, <1>2, <1>3, <1>4, <1>5, <1>6, <1>7, <1>8, <1>9, <1>10, <1>11, <1>12, <1>13,
       <1>14, <1>15, <1>16 DEF Next

\* With JetStream a PENDING task always has an outbox row, a message or a worker
\* that will bring it to a claim, unless its delivery was dropped in one of three
\* places: the stream's age limit, a death between the acknowledgement and the
\* claim, and a claim that failed. A publish reported as done was done.
THEOREM NothingIsDropped == Spec => []NothingUnaccounted
  <1>1. DispatchInv => NothingUnaccounted
    <2> SUFFICES ASSUME DispatchInv, transport = "jetstream",
                        NEW t \in Tasks, status[t] = "PENDING", Held(t)
                 PROVE  \/ due[t] + backingOff[t] > 0
                        \/ queued[t] + unacked[t] > 0
                        \/ \E w \in Workers : worker[w] = [at |-> "has", task |-> t]
                        \/ lost[t]
      BY DEF DispatchInv, NothingUnaccounted
    <2>1. Owed(t) > 0 => due[t] + backingOff[t] > 0
      BY AccountTypes DEF DispatchInv, Owed
    <2>2. \A w \in Workers : Has(w, t) => worker[w] = [at |-> "has", task |-> t]
      BY DEF DispatchInv, TypeInv, Shapes, Has
    <2> QED
      BY <2>1, <2>2 DEF Held
  <1> QED
    BY <1>1, AccountInit, AccountStep, PTL DEF Spec
=============================================================================
