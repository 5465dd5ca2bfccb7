------------------------ MODULE PostgresStoreProofs ------------------------
(***************************************************************************)
(* Theorems about PostgresStore, for any number of connections, signals    *)
(* and attempts, any lease duration and any bounds of clock and version.   *)
(*                                                                         *)
(* The inductive invariant says of a transaction in progress what its next *)
(* statement makes of its kind: which locks it holds, which rows it has    *)
(* drafted, and which of the rows it relied on are still as it read them.  *)
(***************************************************************************)
EXTENDS PostgresStore, SequenceTheorems, TLAPS

Reports    == {"complete", "fail"}
Advances   == {"dispatch", "park", "finish"}
TaskKinds  == {"claim", "complete", "fail", "heartbeat", "reclaim"}
Kinds      == TaskKinds \cup Advances \cup {"signal"}
RowStatus  == {"NONE", "PENDING", "RUNNING", "COMPLETED", "DEAD_LETTER"}
TaskRow    == [status : RowStatus, attempt : Nat]
LeaseRow   == [token : Nat, expires : Nat]
RunRow     == [status : {"RUNNING", "COMPLETED"}, version : Nat, parked : BOOLEAN]
EventNames == {"TASK_CREATED", "TASK_CLAIMED", "TASK_COMPLETED", "TASK_FAILED", "LEASE_EXPIRED",
               "TASK_RETRY_SCHEDULED", "TASK_DEAD_LETTERED", "SIGNAL_WAIT_STARTED",
               "RUN_COMPLETED"}
Event      == [type : EventNames, token : Nat]

\* The statement after the last one of each transaction.
Past == [claim |-> 7, complete |-> 8, fail |-> 11, heartbeat |-> 2, reclaim |-> 11,
         dispatch |-> 6, park |-> 4, finish |-> 4, signal |-> 4]

(* Where a transaction stands.                                             *)

Is(s, kinds, first) == tx[s].kind \in kinds /\ tx[s].pc >= first
At(s, kinds, pc)    == tx[s].kind \in kinds /\ tx[s].pc = pc

HasTask(s)  == Is(s, {"claim"}, 3) \/ Is(s, Reports, 4) \/ Is(s, {"reclaim"}, 7)
HasLease(s) == Is(s, {"claim"}, 4) \/ Is(s, Reports, 5) \/ Is(s, {"heartbeat"}, 2)
               \/ Is(s, {"reclaim"}, 3)
HasRun(s)   == Is(s, Advances, 2) \/ Is(s, {"signal"}, 4)
Creates(s)  == Is(s, {"dispatch"}, 3)

\* Has appended an event; has appended its second one.
Logged(s)   == Is(s, {"claim"}, 6) \/ Is(s, Reports, 7) \/ Is(s, {"reclaim"}, 5)
               \/ Is(s, {"dispatch"}, 5) \/ Is(s, {"park", "finish"}, 4)
LoggedTwo(s) == Is(s, {"fail"}, 10) \/ Is(s, {"reclaim"}, 9)

\* Holds a number for its next event.
Numbered(s) == At(s, {"claim"}, 5) \/ At(s, Reports, 6) \/ At(s, {"reclaim"}, 4)
               \/ At(s, {"dispatch"}, 4) \/ At(s, {"park", "finish"}, 3)
NumberedTwo(s) == At(s, {"fail"}, 9) \/ At(s, {"reclaim"}, 8)

Enqueues(s) == Is(s, {"fail"}, 11) \/ Is(s, {"reclaim"}, 10) \/ Is(s, {"dispatch"}, 6)

(* What holds of the transaction of one session.                           *)

Fields == {"kind", "pc", "locks", "wrote", "draft", "inserted", "signals", "enqueued",
           "seen", "seq", "token", "at", "version", "escalated", "sig"}

IsTx(x) == DOMAIN x = Fields /\ DOMAIN x.draft = {"run", "task", "lease"}

Shape(s) ==
    /\ IsTx(tx[s])
    /\ tx[s].kind \in Kinds \cup {"none"}
    /\ tx[s].pc \in Nat
    /\ Busy(s) => tx[s].pc \in 1..Past[tx[s].kind]
    /\ tx[s].draft.run \in RunRow /\ tx[s].draft.task \in TaskRow
    /\ tx[s].draft.lease \in LeaseRow /\ tx[s].seen \in TaskRow
    /\ tx[s].token \in Nat /\ tx[s].at \in 0..now + Skew /\ tx[s].version \in Nat
    /\ tx[s].seq \in Nat /\ tx[s].escalated \in BOOLEAN

\* The locks a transaction took it keeps, and it has written what it locked.
Locked(s) ==
    /\ HasTask(s) => <<"task", "update">> \in tx[s].locks
    /\ HasLease(s) => <<"lease", "nokey">> \in tx[s].locks
    /\ Is(s, Advances, 2) => <<"run", "update">> \in tx[s].locks
    /\ Is(s, {"signal"}, 4) => <<"run", "nokey">> \in tx[s].locks

Wrote(s) ==
    /\ "task" \in tx[s].wrote <=> HasTask(s) \/ Creates(s)
    /\ "lease" \in tx[s].wrote <=> HasLease(s)
    /\ "run" \in tx[s].wrote <=> HasRun(s)

\* A transition drafted is the one from the committed row.
TaskDraft(s) ==
    /\ HasTask(s) =>
          /\ rows.task.status = From(s)
          /\ tx[s].draft.task =
                [status |-> To(s),
                 attempt |-> rows.task.attempt + (IF tx[s].kind = "claim" THEN 1 ELSE 0)]
    /\ Creates(s) => rows.task.status = "NONE" /\ tx[s].draft.task = [status |-> "PENDING", attempt |-> 0]
    /\ tx[s].kind \in TaskKinds => rows.task.status # "NONE"

LeaseDraft(s) ==
    /\ Is(s, {"claim"}, 3) => rows.lease.expires <= now + Skew
    /\ At(s, {"claim"}, 3) => rows.lease.expires <= tx[s].at + Skew
    /\ Is(s, {"claim"}, 4) =>
          /\ tx[s].token = rows.lease.token + 1 /\ tx[s].draft.lease.token = tx[s].token
          /\ tx[s].draft.lease.expires - LeaseTTL \in rows.lease.expires..now + Skew
    /\ Is(s, Reports, 5) =>
          /\ rows.lease.token = tx[s].token /\ tx[s].draft.lease.token = tx[s].token
          /\ tx[s].draft.lease.expires <= now + Skew
    /\ Is(s, {"heartbeat"}, 2) =>
          /\ rows.lease.token = tx[s].token /\ tx[s].draft.lease.token = tx[s].token
          /\ tx[s].draft.lease.expires - LeaseTTL \in 0..now + Skew
          /\ rows.task.status = "RUNNING"
    /\ Is(s, {"reclaim"}, 3) =>
          /\ tx[s].token = rows.lease.token + 1 /\ tx[s].draft.lease.token = tx[s].token
          /\ tx[s].draft.lease.expires =
                tx[s].at + (IF tx[s].pc < 11 THEN LeaseTTL ELSE 0)
          /\ rows.lease.expires <= tx[s].at

\* The task row that was read without a lock: still the one that counts,
\* whenever the transaction can still go through.
Reads(s) ==
    /\ Is(s, Reports, 2) /\ rows.task.status = "RUNNING" /\ rows.lease.token = tx[s].token
          => rows.task.attempt = tx[s].seen.attempt
    /\ At(s, {"reclaim"}, 2) /\ rows.task.status = "RUNNING"
          => \/ rows.task.attempt = tx[s].seen.attempt
             \/ rows.lease.expires > tx[s].at
    /\ Is(s, {"reclaim"}, 3) /\ rows.task.status = "RUNNING"
          => rows.task.attempt = tx[s].seen.attempt

\* Whoever presents a token was given it; the reaper never escalates.
Presents(s) ==
    /\ tx[s].kind \in Reports \cup {"heartbeat"} => tx[s].token \in 1..rows.lease.token
    /\ tx[s].kind \in Reports => tx[s].token \notin claimed
    /\ tx[s].kind \in Advances => tx[s].token = 0
    /\ tx[s].kind = "reclaim" => tx[s].escalated = FALSE

RunDraft(s) ==
    /\ tx[s].kind \in Advances =>
          /\ tx[s].version <= rows.run.version
          /\ tx[s].version = rows.run.version => rows.run.status = "RUNNING"
    /\ tx[s].kind = "park" => tx[s].version < MaxVersion
    /\ Is(s, Advances, 2) =>
          /\ tx[s].version = rows.run.version
          /\ tx[s].draft.run =
                [status  |-> IF tx[s].kind = "finish" THEN "COMPLETED" ELSE "RUNNING",
                 version |-> rows.run.version + 1,
                 parked  |-> tx[s].kind = "park"]
    /\ Is(s, {"signal"}, 4) => tx[s].draft.run = [rows.run EXCEPT !.parked = FALSE]

\* Events are numbered from the end of the log, with nothing in between.
LogDraft(s) ==
    /\ DOMAIN tx[s].inserted =
          IF LoggedTwo(s) THEN {Len(events) + 1, Len(events) + 2}
          ELSE IF Logged(s) THEN {Len(events) + 1} ELSE {}
    /\ Logged(s) => tx[s].inserted[Len(events) + 1] =
                       [type |-> EventTypes(s)[1], token |-> tx[s].token]
    /\ LoggedTwo(s) => tx[s].inserted[Len(events) + 2] =
                          [type |-> EventTypes(s)[2], token |-> tx[s].token]
    /\ Numbered(s) => tx[s].seq \in 1..Len(events) + 1
    /\ NumberedTwo(s) => tx[s].seq = Len(events) + 2

Outgoing(s) ==
    /\ tx[s].enqueued = IF Enqueues(s) /\ tx[s].draft.task.status = "PENDING" THEN 1 ELSE 0
    /\ tx[s].kind = "signal" => tx[s].sig \in Signals
    /\ tx[s].signals = IF Is(s, {"signal"}, 2) THEN {tx[s].sig} ELSE {}
    /\ tx[s].signals \cap signals = {}

Sound(s) ==
    /\ Shape(s) /\ Locked(s) /\ Wrote(s) /\ TaskDraft(s) /\ LeaseDraft(s)
    /\ Reads(s) /\ Presents(s) /\ RunDraft(s) /\ LogDraft(s) /\ Outgoing(s)

(* What holds between two sessions.                                        *)

\* A claim or a heartbeat that may commit behind the reaper's back leaves a
\* lease that the reaper's instant does not find expired, because clocks differ
\* by less than a lease lasts.
Outlives(s, t) ==
    /\ At(t, {"reclaim"}, 2) /\ Is(s, {"claim"}, 3) =>
          IF tx[s].pc = 3 THEN tx[s].at + Skew >= tx[t].at ELSE tx[s].draft.lease.expires > tx[t].at
    /\ At(t, {"reclaim"}, 2) /\ tx[s].kind = "heartbeat" /\ rows.task.status = "RUNNING"
              /\ rows.task.attempt # tx[t].seen.attempt /\ rows.lease.token = tx[s].token
          => IF tx[s].pc = 1 THEN tx[s].at + Skew >= tx[t].at ELSE tx[s].draft.lease.expires > tx[t].at

Apart(s, t) ==
    /\ ~(HasTask(s) /\ HasTask(t))
    /\ ~(HasLease(s) /\ HasLease(t))
    /\ ~(HasRun(s) /\ HasRun(t))
    /\ ~(Logged(s) /\ Logged(t))
    /\ tx[s].signals \cap tx[t].signals = {}
    /\ Outlives(s, t)

(* What holds of the committed rows.                                       *)

RowsInv ==
    /\ rows = [run |-> rows.run, task |-> rows.task, lease |-> rows.lease]
    /\ rows.run \in RunRow /\ rows.task \in TaskRow /\ rows.lease \in LeaseRow
    /\ now \in 0..MaxNow /\ outbox \in Nat /\ signals \subseteq Signals
    /\ events \in Seq(Event)
    /\ claimed \subseteq 1..rows.lease.token

\* Bounds: every attempt moves the token at most twice and is announced once,
\* and a run is advanced for its parks, its task and its end.
Counted ==
    /\ rows.task.status = "NONE" =>
          rows.task.attempt = 0 /\ outbox = 0 /\ rows.lease = [token |-> 0, expires |-> 0]
    /\ rows.lease.token = 0 => rows.lease.expires = 0
    /\ rows.task.attempt <= MaxAttempts
    /\ rows.task.status = "PENDING" => rows.task.attempt < MaxAttempts
    /\ rows.lease.token <= 2 * rows.task.attempt - (IF rows.task.status = "RUNNING" THEN 1 ELSE 0)
    /\ outbox <= rows.task.attempt + (IF rows.task.status = "PENDING" THEN 1 ELSE 0)
    /\ rows.lease.expires <= MaxNow + Skew + LeaseTTL
    /\ rows.run.version <= MaxVersion + (IF rows.task.status = "NONE" THEN 0 ELSE 1)
                                      + (IF rows.run.status = "COMPLETED" THEN 1 ELSE 0)

\* A task that waits for a claim has no owner, and no lease that any clock
\* finds live once the clocks have moved on by what they differ.
Unowned ==
    /\ rows.task.status = "PENDING" => rows.lease.expires <= now + Skew
    /\ rows.lease.token \in claimed => rows.task.status = "RUNNING"

Refused == LeaseHeldIsSkew

StoreInv ==
    /\ tx = [s \in Sessions |-> tx[s]]
    /\ \A s \in Sessions : Sound(s)
    /\ \A s \in Sessions, t \in Sessions : s # t => Apart(s, t)
    /\ RowsInv /\ Counted /\ Unowned /\ Refused
----------------------------------------------------------------------------
(***************************************************************************)
(* Programs: which statement a transaction stands before.                  *)
(***************************************************************************)

\* The length of each program is one less than the position past it.
LEMMA Lengths == \A kind \in Kinds : Len(Program(kind)) + 1 = Past[kind]
BY DEF Kinds, TaskKinds, Advances, Program, Past

\* A statement stands only at its places in the programs.
LEMMA Places ==
    ASSUME NEW s \in Sessions, Shape(s)
    PROVE  /\ Statement(s) = "GetTask" <=> At(s, {"claim", "complete", "fail", "reclaim"}, 1)
           /\ Statement(s) = "GetLease" <=> At(s, Reports, 2)
           /\ Statement(s) = "TransitionTask" <=>
                 (At(s, {"claim"}, 2) \/ At(s, Reports, 3) \/ At(s, {"reclaim"}, 6))
           /\ Statement(s) = "AcquireLease" <=> (At(s, {"claim"}, 3) \/ At(s, {"reclaim"}, 2))
           /\ Statement(s) = "ReleaseLease" <=> (At(s, Reports, 4) \/ At(s, {"reclaim"}, 10))
           /\ Statement(s) = "ExtendLease" <=> At(s, {"heartbeat"}, 1)
           /\ Statement(s) = "AdvanceRun" <=> At(s, Advances, 1)
           /\ Statement(s) = "CreateTask" <=> At(s, {"dispatch"}, 2)
           /\ Statement(s) = "NextSeq" <=>
                 \/ At(s, {"claim"}, 4) \/ At(s, Reports, 5) \/ At(s, {"fail"}, 8)
                 \/ At(s, {"reclaim"}, 3) \/ At(s, {"reclaim"}, 7)
                 \/ At(s, {"dispatch"}, 3) \/ At(s, {"park", "finish"}, 2)
           /\ Statement(s) = "AppendEvent" <=> (Numbered(s) \/ NumberedTwo(s))
           /\ Statement(s) = "References" <=>
                 \/ At(s, {"claim"}, 6) \/ At(s, Reports, 7) \/ At(s, {"reclaim"}, 5)
                 \/ At(s, {"signal"}, 2)
           /\ Statement(s) = "EnqueueDelivery" <=>
                 (At(s, {"fail"}, 10) \/ At(s, {"reclaim"}, 9) \/ At(s, {"dispatch"}, 5))
           /\ Statement(s) = "RecordSignal" <=> At(s, {"signal"}, 1)
           /\ Statement(s) = "ReleaseRun" <=> At(s, {"signal"}, 3)
           /\ AtEnd(s) <=> tx[s].kind \in Kinds /\ tx[s].pc = Past[tx[s].kind]
<1> USE DEF Shape, Statement, Busy, AtEnd, At
<1> USE DEF Program, Past, Kinds, TaskKinds, Reports, Advances, Numbered, NumberedTwo
<1>1. CASE tx[s].kind = "none"
  BY <1>1
<1>2. CASE tx[s].kind = "claim"
  BY <1>2, Lengths
<1>3. CASE tx[s].kind = "complete"
  BY <1>3, Lengths
<1>4. CASE tx[s].kind = "fail"
  BY <1>4, Lengths
<1>5. CASE tx[s].kind = "heartbeat"
  BY <1>5, Lengths
<1>6. CASE tx[s].kind = "reclaim"
  BY <1>6, Lengths
<1>7. CASE tx[s].kind = "dispatch"
  BY <1>7, Lengths
<1>8. CASE tx[s].kind = "park"
  BY <1>8, Lengths
<1>9. CASE tx[s].kind = "finish"
  BY <1>9, Lengths
<1>10. CASE tx[s].kind = "signal"
  BY <1>10, Lengths
<1> QED
  BY <1>1, <1>2, <1>3, <1>4, <1>5, <1>6, <1>7, <1>8, <1>9, <1>10

(***************************************************************************)
(* What a statement that was executed leaves in the transaction.           *)
(***************************************************************************)

\* Continue moves the transaction on, with what the statement made of it.
LEMMA Continued ==
    ASSUME StoreInv, NEW s \in Sessions, NEW t, IsTx(t), Continue(s, t)
    PROVE  /\ tx' = [r \in Sessions |-> tx'[r]]
           /\ \A r \in Sessions : r # s => tx'[r] = tx[r]
           /\ IsTx(tx'[s])
           /\ tx'[s].pc = t.pc + 1 /\ tx'[s].kind = t.kind
           /\ tx'[s].locks = t.locks \cup LockOf(Statement(s))
           /\ tx'[s].wrote = t.wrote /\ tx'[s].draft = t.draft
           /\ tx'[s].inserted = t.inserted /\ tx'[s].signals = t.signals
           /\ tx'[s].enqueued = t.enqueued /\ tx'[s].seen = t.seen
           /\ tx'[s].seq = t.seq /\ tx'[s].token = t.token
           /\ tx'[s].version = t.version /\ tx'[s].escalated = t.escalated
           /\ tx'[s].sig = t.sig
           /\ tx'[s].at \in {t.at, now, 0}
           /\ t.kind = "reclaim" => tx'[s].at = t.at
           /\ t.kind = "claim" /\ t.pc = 2 => tx'[s].at = now
           /\ UNCHANGED <<rows, events, outbox, signals, now, claimed>>
<1> DEFINE a == IF t.kind = "reclaim" THEN t.at
                ELSE IF ReadsClock(t, t.pc + 1) THEN now ELSE 0
           l == t.locks \cup LockOf(Statement(s))
           y == [t EXCEPT !.pc = t.pc + 1, !.at = a, !.locks = l]
<1>1. a \in {t.at, now, 0} /\ (t.kind = "reclaim" => a = t.at)
  OBVIOUS
<1>2. t.kind = "claim" /\ t.pc = 2 => a = now
  BY DEF ReadsClock, Program
<1>3. tx' = [tx EXCEPT ![s] = y] /\ UNCHANGED <<rows, events, outbox, signals, now, claimed>>
  BY DEF Continue
<1>4. tx = [r \in Sessions |-> tx[r]]
  BY DEF StoreInv
<1> HIDE DEF a, l
<1>5. /\ DOMAIN y = Fields /\ y.pc = t.pc + 1 /\ y.at = a /\ y.locks = l
      /\ y.kind = t.kind /\ y.wrote = t.wrote /\ y.draft = t.draft
      /\ y.inserted = t.inserted /\ y.signals = t.signals
      /\ y.enqueued = t.enqueued /\ y.seen = t.seen
      /\ y.seq = t.seq /\ y.token = t.token
      /\ y.version = t.version /\ y.escalated = t.escalated /\ y.sig = t.sig
  BY DEF IsTx, Fields
<1> HIDE DEF y
<1>6. /\ tx'[s] = y /\ tx' = [r \in Sessions |-> tx'[r]]
      /\ \A r \in Sessions : r # s => tx'[r] = tx[r]
  BY <1>3, <1>4
<1>7. IsTx(y)
  BY <1>5 DEF IsTx
<1> QED
  BY <1>1, <1>2, <1>3, <1>5, <1>6, <1>7 DEF l

\* A statement that waits for nobody: nobody else has what it needs.
LEMMA Granted ==
    ASSUME StoreInv, NEW s \in Sessions, Blockers(s) = {}, NEW r \in Sessions, r # s
    PROVE  /\ Statement(s) = "TransitionTask" => ~HasTask(r)
           /\ Statement(s) \in {"AcquireLease", "ExtendLease", "ReleaseLease"} => ~HasLease(r)
           /\ Statement(s) \in {"AdvanceRun", "ReleaseRun"} => ~HasRun(r)
           /\ Statement(s) = "AppendEvent" => tx[s].seq \notin DOMAIN tx[r].inserted
           /\ Statement(s) = "RecordSignal" => tx[s].sig \notin tx[r].signals
<1> DEFINE st == Statement(s)
<1>1. Locked(r) /\ LogDraft(r) /\ Outgoing(r)
  BY DEF StoreInv, Sound
<1>2. ASSUME st # "none", Busy(r)
      PROVE  /\ \A w \in LockOf(st), h \in tx[r].locks : ~Conflict(w, h)
             /\ st = "AppendEvent" => tx[s].seq \notin DOMAIN tx[r].inserted
             /\ st = "RecordSignal" => tx[s].sig \notin tx[r].signals
  BY <1>2 DEF Blockers
<1>3. (HasTask(r) \/ HasLease(r) \/ HasRun(r)) => Busy(r)
  BY DEF HasTask, HasLease, HasRun, Is, Busy, Reports, Advances
<1>4. ~Busy(r) => DOMAIN tx[r].inserted = {} /\ tx[r].signals = {}
  BY <1>1 DEF LogDraft, Outgoing, Busy, Is, Logged, LoggedTwo, Reports
<1> HIDE DEF st
<1>5. ASSUME st = "TransitionTask", HasTask(r) PROVE FALSE
  BY <1>1, <1>2, <1>3, <1>5 DEF Locked, LockOf, Conflict
<1>6. ASSUME st \in {"AcquireLease", "ExtendLease", "ReleaseLease"}, HasLease(r) PROVE FALSE
  BY <1>1, <1>2, <1>3, <1>6 DEF Locked, LockOf, Conflict
<1>7. ASSUME st \in {"AdvanceRun", "ReleaseRun"}, HasRun(r) PROVE FALSE
  BY <1>1, <1>2, <1>3, <1>7 DEF Locked, LockOf, Conflict, HasRun
<1>8. /\ st = "AppendEvent" => tx[s].seq \notin DOMAIN tx[r].inserted
      /\ st = "RecordSignal" => tx[s].sig \notin tx[r].signals
  BY <1>2, <1>4
<1> QED
  BY <1>5, <1>6, <1>7, <1>8 DEF st

\* A clock that moves on takes the fastest one with it.
LEMMA Later ==
    ASSUME NEW m \in Nat, NEW n \in Nat, NEW d \in Nat, m <= n
    PROVE  m + d \in Nat /\ n + d \in Nat /\ m + d <= n + d
OBVIOUS

\* A transaction that no step touched still says the same of the same rows.
LEMMA Untouched ==
    ASSUME NEW r \in Sessions, Sound(r), tx'[r] = tx[r], now' \in Nat, now <= now', now \in Nat,
           rows.lease \in LeaseRow, UNCHANGED <<rows, events, signals>>, claimed' \subseteq claimed
    PROVE  Sound(r)'
<1> USE DEF Is, At, HasTask, HasLease, HasRun, Creates, Logged, LoggedTwo, Numbered, NumberedTwo,
            Enqueues, From, To, Retries, EventTypes, Busy
<1>1. (Shape(r) /\ Locked(r) /\ Wrote(r))'
  BY StoreAssumption DEF Sound, Shape, Locked, Wrote
<1>2. (TaskDraft(r) /\ Reads(r) /\ Presents(r) /\ RunDraft(r))'
  BY DEF Sound, TaskDraft, Reads, Presents, RunDraft
<1>3. LeaseDraft(r)'
  <2>1. /\ LeaseDraft(r) /\ tx[r].at \in 0..now + Skew /\ tx[r].draft.lease \in LeaseRow
        /\ LeaseTTL \in Nat /\ Skew \in Nat
    BY StoreAssumption DEF Sound, Shape
  <2>2. rows.lease.expires \in Nat /\ tx[r].draft.lease.expires \in Nat
    BY <2>1 DEF LeaseRow
  <2>7. now + Skew \in Nat /\ now' + Skew \in Nat /\ now + Skew <= now' + Skew
    <3>1. Skew \in Nat
      BY StoreAssumption
    <3> QED
      BY <3>1, Later
  <2>3. Is(r, {"claim"}, 3) => rows.lease.expires <= now' + Skew
    BY <2>1, <2>2, <2>7 DEF LeaseDraft
  <2>4. Is(r, {"claim"}, 4) =>
           tx[r].draft.lease.expires - LeaseTTL \in rows.lease.expires..now' + Skew
    BY <2>1, <2>2, <2>7 DEF LeaseDraft
  <2>5. Is(r, Reports, 5) => tx[r].draft.lease.expires <= now' + Skew
    BY <2>1, <2>2, <2>7 DEF LeaseDraft
  <2>6. Is(r, {"heartbeat"}, 2) => tx[r].draft.lease.expires - LeaseTTL \in 0..now' + Skew
    BY <2>1, <2>2, <2>7 DEF LeaseDraft
  <2> QED
    BY <2>1, <2>3, <2>4, <2>5, <2>6 DEF LeaseDraft
<1>4. (LogDraft(r) /\ Outgoing(r))'
  <2>1. LogDraft(r)'
    BY DEF Sound, LogDraft
  <2>2. Outgoing(r)'
    BY DEF Sound, Outgoing
  <2> QED
    BY <2>1, <2>2
<1> QED
  BY <1>1, <1>2, <1>3, <1>4 DEF Sound

\* Two transactions that no step touched stay apart.
LEMMA UntouchedPair ==
    ASSUME NEW r \in Sessions, NEW q \in Sessions, Apart(r, q), tx'[r] = tx[r], tx'[q] = tx[q],
           UNCHANGED rows
    PROVE  Apart(r, q)'
BY DEF Apart, Outlives, Is, At, HasTask, HasLease, HasRun, Logged

\* A step that changes one transaction and no committed row.
LEMMA TxStep ==
    ASSUME StoreInv, NEW s \in Sessions, tx' = [r \in Sessions |-> tx'[r]],
           \A r \in Sessions : r # s => tx'[r] = tx[r],
           UNCHANGED <<rows, events, outbox, signals, now>>, claimed' \subseteq claimed,
           Sound(s)', \A r \in Sessions : r # s => Apart(s, r)' /\ Apart(r, s)', Refused'
    PROVE  StoreInv'
<1>1. now \in Nat /\ rows.lease \in LeaseRow
  BY StoreAssumption DEF StoreInv, RowsInv
<1>2. \A r \in Sessions : Sound(r)'
  BY <1>1, Untouched DEF StoreInv
<1>3. ASSUME NEW r \in Sessions, NEW q \in Sessions, r # q PROVE Apart(r, q)'
  <2>1. CASE r = s \/ q = s
    BY <1>3, <2>1
  <2>2. CASE r # s /\ q # s
    BY <1>3, <2>2, UntouchedPair DEF StoreInv
  <2> QED
    BY <2>1, <2>2
<1>4. RowsInv' /\ Counted' /\ Unowned'
  BY DEF StoreInv, RowsInv, Counted, Unowned
<1> QED
  BY <1>2, <1>3, <1>4 DEF StoreInv

\* The statement of s is executed and leaves t, which differs from the
\* transaction before it only in what statements write.
Goes(s, t) ==
    /\ IsTx(t) /\ Continue(s, t) /\ Statement(s) # "none" /\ Blockers(s) = {}
    /\ t.kind = tx[s].kind /\ t.pc = tx[s].pc /\ t.locks = tx[s].locks /\ t.at = tx[s].at
    /\ t.version = tx[s].version /\ t.escalated = tx[s].escalated /\ t.sig = tx[s].sig
    /\ Statement(s) # "GetTask" => t.seen = tx[s].seen
    /\ Statement(s) # "AcquireLease" => t.token = tx[s].token
    /\ Statement(s) \notin {"NextSeq", "AppendEvent"} => t.seq = tx[s].seq
    /\ Statement(s) # "AppendEvent" => t.inserted = tx[s].inserted
    /\ Statement(s) # "EnqueueDelivery" => t.enqueued = tx[s].enqueued
    /\ Statement(s) # "RecordSignal" => t.signals = tx[s].signals
    /\ Statement(s) \notin {"TransitionTask", "CreateTask"} => t.draft.task = tx[s].draft.task
    /\ Statement(s) \notin {"AcquireLease", "ExtendLease", "ReleaseLease"} =>
          t.draft.lease = tx[s].draft.lease
    /\ Statement(s) \notin {"AdvanceRun", "ReleaseRun"} => t.draft.run = tx[s].draft.run
    /\ t.wrote = tx[s].wrote \cup
          (CASE Statement(s) \in {"TransitionTask", "CreateTask"} -> {"task"}
             [] Statement(s) \in {"AcquireLease", "ExtendLease", "ReleaseLease"} -> {"lease"}
             [] Statement(s) \in {"AdvanceRun", "ReleaseRun"} -> {"run"}
             [] OTHER -> {})

\* What the other statements made of a transaction, this one leaves alone.
LEMMA Carried ==
    ASSUME StoreInv, NEW s \in Sessions, NEW t, Goes(s, t)
    PROVE  /\ Locked(s)' /\ Wrote(s)'
           /\ tx'[s].pc \in 2..Past[tx[s].kind] /\ tx'[s].kind = tx[s].kind /\ Busy(s)
           /\ Statement(s) \notin {"TransitionTask", "CreateTask"} => TaskDraft(s)'
           /\ Statement(s) \notin {"TransitionTask", "AcquireLease", "ExtendLease", "ReleaseLease"}
                 => LeaseDraft(s)'
           /\ Statement(s) \notin {"GetTask", "AcquireLease"} => Reads(s)'
           /\ Presents(s)'
           /\ Statement(s) \notin {"AdvanceRun", "ReleaseRun"} => RunDraft(s)'
           /\ Statement(s) \notin {"NextSeq", "AppendEvent"} => LogDraft(s)'
           /\ Statement(s) \notin {"EnqueueDelivery", "RecordSignal"} => Outgoing(s)'
<1> DEFINE st == Statement(s)
<1>1. Sound(s) /\ Shape(s)
  BY DEF StoreInv, Sound
<1>2. /\ tx'[s].pc = tx[s].pc + 1 /\ tx'[s].kind = tx[s].kind
      /\ tx'[s].locks = tx[s].locks \cup LockOf(st) /\ tx'[s].at \in {tx[s].at, now, 0}
      /\ tx[s].kind = "reclaim" => tx'[s].at = tx[s].at
      /\ tx'[s].version = tx[s].version /\ tx'[s].escalated = tx[s].escalated
      /\ tx'[s].sig = tx[s].sig /\ tx'[s].wrote = t.wrote /\ tx'[s].draft = t.draft
      /\ tx'[s].inserted = t.inserted /\ tx'[s].signals = t.signals
      /\ tx'[s].enqueued = t.enqueued /\ tx'[s].seen = t.seen
      /\ tx'[s].seq = t.seq /\ tx'[s].token = t.token
      /\ UNCHANGED <<rows, events, outbox, signals, now, claimed>>
  BY Continued DEF Goes
<1>3. Busy(s) /\ ~AtEnd(s) /\ tx[s].kind \in Kinds
  BY <1>1 DEF Goes, Statement, Shape, Busy
<1>4. tx[s].pc \in 1..Past[tx[s].kind] /\ tx[s].pc # Past[tx[s].kind] /\ Past[tx[s].kind] \in Nat
  BY <1>1, <1>3, Places DEF Shape, Past, Kinds, TaskKinds, Advances
<1>5. tx'[s].pc \in 2..Past[tx[s].kind]
  BY <1>2, <1>4
<1> USE DEF Is, At, HasTask, HasLease, HasRun, Creates, Logged, LoggedTwo, Numbered, NumberedTwo,
            Enqueues, Reports, Advances
<1>6. Locked(s)'
  BY <1>1, <1>2, <1>4, Places DEF Sound, Locked, LockOf
<1>7. Wrote(s)'
  BY <1>1, <1>2, <1>4, Places DEF Sound, Wrote, Goes
<1>8. st \notin {"TransitionTask", "CreateTask"} => TaskDraft(s)'
  BY <1>1, <1>2, <1>4, Places DEF Sound, TaskDraft, Goes, From, To, Retries, TaskKinds
<1>9. st \notin {"TransitionTask", "AcquireLease", "ExtendLease", "ReleaseLease"} => LeaseDraft(s)'
  BY <1>1, <1>2, <1>4, Places DEF Sound, LeaseDraft, Goes
<1>10. st \notin {"GetTask", "AcquireLease"} => Reads(s)'
  BY <1>1, <1>2, <1>4, Places DEF Sound, Reads, Goes
<1>11. Presents(s)'
  BY <1>1, <1>2, <1>4, Places DEF Sound, Presents, Goes
<1>12. st \notin {"AdvanceRun", "ReleaseRun"} => RunDraft(s)'
  BY <1>1, <1>2, <1>4, Places DEF Sound, RunDraft, Goes
<1>13. ASSUME st \notin {"NextSeq", "AppendEvent"} PROVE LogDraft(s)'
  <2>1. /\ Logged(s)' <=> Logged(s)
        /\ LoggedTwo(s)' <=> LoggedTwo(s)
        /\ ~Numbered(s)' /\ ~NumberedTwo(s)'
    BY <1>1, <1>2, <1>4, <1>13, Places
  <2>2. /\ tx'[s].inserted = tx[s].inserted
        /\ LoggedTwo(s) => Logged(s)
        /\ Logged(s) => st \notin {"GetTask", "AcquireLease"}
    BY <1>1, <1>2, <1>4, <1>13, Places DEF Goes
  <2>3. Logged(s) => tx'[s].token = tx[s].token /\ EventTypes(s)' = EventTypes(s)
    BY <1>2, <2>2 DEF Goes, EventTypes, Retries
  <2> HIDE DEF Logged, LoggedTwo, Numbered, NumberedTwo
  <2> QED
    BY <1>1, <1>2, <2>1, <2>2, <2>3 DEF Sound, LogDraft
<1>14. st \notin {"EnqueueDelivery", "RecordSignal"} => Outgoing(s)'
  BY <1>1, <1>2, <1>4, Places DEF Sound, Outgoing, Goes
<1> QED
  BY <1>2, <1>3, <1>5, <1>6, <1>7, <1>8, <1>9, <1>10, <1>11, <1>12, <1>13, <1>14

Typed(t) ==
    /\ t.draft.run \in RunRow /\ t.draft.task \in TaskRow /\ t.draft.lease \in LeaseRow
    /\ t.seen \in TaskRow /\ t.token \in Nat /\ t.seq \in Nat

\* What is left to show of a statement: what it made of the transaction, and
\* that a claim or heartbeat outlives the reaper's instant.
LEMMA Proceeds ==
    ASSUME StoreInv, NEW s \in Sessions, NEW t, Goes(s, t), Typed(t),
           TaskDraft(s)', LeaseDraft(s)', Reads(s)', RunDraft(s)', LogDraft(s)', Outgoing(s)',
           Numbered(s) => tx[s].seq = Len(events) + 1,
           At(s, {"claim"}, 3) \/ At(s, {"heartbeat"}, 1) =>
               \A r \in Sessions : r # s => Outlives(s, r)',
           At(s, {"reclaim"}, 1) => \A r \in Sessions : r # s => Outlives(r, s)'
    PROVE  StoreInv'
<1> DEFINE st == Statement(s)
<1>1. Shape(s)
  BY DEF StoreInv, Sound
<1>2. /\ tx' = [r \in Sessions |-> tx'[r]]
      /\ \A r \in Sessions : r # s => tx'[r] = tx[r]
      /\ IsTx(tx'[s]) /\ tx'[s].pc = tx[s].pc + 1 /\ tx'[s].kind = tx[s].kind
      /\ tx'[s].at \in {tx[s].at, now, 0}
      /\ tx'[s].version = tx[s].version /\ tx'[s].escalated = tx[s].escalated
      /\ tx'[s].draft = t.draft /\ tx'[s].signals = t.signals /\ tx'[s].seen = t.seen
      /\ tx'[s].seq = t.seq /\ tx'[s].token = t.token
      /\ tx[s].kind = "reclaim" => tx'[s].at = tx[s].at
      /\ tx[s].kind = "claim" /\ tx[s].pc = 2 => tx'[s].at = now
      /\ UNCHANGED <<rows, events, outbox, signals, now, claimed>>
  BY Continued DEF Goes
<1>3. Locked(s)' /\ Wrote(s)' /\ Presents(s)' /\ tx'[s].pc \in 2..Past[tx[s].kind] /\ Busy(s)
  BY Carried
<1>4. Shape(s)'
  <2>1. tx[s].kind \in Kinds
    BY <1>1, <1>3 DEF Shape, Busy
  <2>2. Past[tx[s].kind] \in Nat
    BY <2>1 DEF Past, Kinds, TaskKinds, Advances
  <2>3. now \in Nat /\ Skew \in Nat
    BY StoreAssumption DEF StoreInv, RowsInv
  <2>4. tx'[s].at \in 0..now' + Skew
    BY <1>1, <1>2, <2>3 DEF Shape
  <2>5. IsTx(tx[s])' /\ tx'[s].kind \in Kinds /\ tx'[s].pc \in 1..Past[tx'[s].kind]
    BY <1>2, <1>3, <2>1, <2>2 DEF IsTx
  <2>6. tx'[s].version \in Nat /\ tx'[s].escalated \in BOOLEAN
    BY <1>1, <1>2 DEF Shape
  <2> QED
    BY <1>2, <2>2, <2>4, <2>5, <2>6 DEF Shape, Typed, Busy
<1>5. Sound(s)'
  BY <1>3, <1>4 DEF Sound
<1>6. Refused'
  BY DEF Goes, Continue, Refused, LeaseHeldIsSkew, Nothing
<1>7. ASSUME NEW r \in Sessions, r # s PROVE Apart(s, r)' /\ Apart(r, s)'
  <2>1. tx'[r] = tx[r] /\ Sound(r) /\ Shape(r) /\ Apart(s, r) /\ Apart(r, s)
    BY <1>2, <1>7 DEF StoreInv, Sound
  <2>2. tx[s].pc \in Nat /\ Blockers(s) = {}
    BY <1>1, <1>3 DEF Shape, Busy, Goes, Kinds, TaskKinds, Advances, Past
  <2> USE DEF Is, At, Reports, Advances
  <2>3. ~(HasTask(s)' /\ HasTask(r)')
    BY <1>1, <1>2, <1>7, <2>1, <2>2, Places, Granted DEF HasTask, Apart
  <2>4. ~(HasLease(s)' /\ HasLease(r)')
    BY <1>1, <1>2, <1>7, <2>1, <2>2, Places, Granted DEF HasLease, Apart
  <2>5. ~(HasRun(s)' /\ HasRun(r)')
    BY <1>1, <1>2, <1>7, <2>1, <2>2, Places, Granted DEF HasRun, Apart
  <2>6. ~(Logged(s)' /\ Logged(r)')
    <3>1. Logged(r)' <=> Logged(r)
      BY <2>1 DEF Logged
    <3>2. Logged(s)' => Logged(s) \/ Numbered(s)
      BY <1>2, <2>2 DEF Logged, Numbered
    <3>3. Logged(r) => Len(events) + 1 \in DOMAIN tx[r].inserted
      BY <2>1 DEF Sound, LogDraft
    <3>4. Numbered(s) => tx[s].seq \notin DOMAIN tx[r].inserted
      BY <1>1, <1>7, <2>2, Places, Granted
    <3> QED
      BY <2>1, <3>1, <3>2, <3>3, <3>4 DEF Apart
  <2>7. tx'[s].signals \cap tx'[r].signals = {}
    <3>1. CASE st = "RecordSignal"
      <4>1. tx[s].sig \notin tx[r].signals
        BY <1>7, <2>2, <3>1, Granted
      <4>2. tx'[s].signals \subseteq {tx[s].sig}
        BY Continued DEF Outgoing, Goes
      <4> QED
        BY <2>1, <4>1, <4>2
    <3>2. CASE st # "RecordSignal"
      BY <1>2, <2>1, <3>2 DEF Goes, Apart
    <3> QED
      BY <3>1, <3>2
  <2>8. Outlives(s, r)'
    <3>1. CASE At(s, {"claim"}, 3) \/ At(s, {"heartbeat"}, 1)
      BY <1>7, <3>1
    <3>2. CASE ~(At(s, {"claim"}, 3) \/ At(s, {"heartbeat"}, 1))
      <4>1. tx[s].kind # "heartbeat"
        BY <1>3, <1>2, <2>2, <3>2 DEF Past
      <4>2. Is(s, {"claim"}, 4) => tx'[s].draft.lease = tx[s].draft.lease
        BY <1>1, <1>2, <3>2, Places DEF Goes
      <4>3. tx[r].at <= now + Skew
        BY <2>1, StoreAssumption DEF Shape, StoreInv, RowsInv
      <4> QED
        BY <1>2, <2>1, <2>2, <3>2, <4>1, <4>2, <4>3 DEF Apart, Outlives
    <3> QED
      BY <3>1, <3>2
  <2>9. Outlives(r, s)'
    <3>1. CASE At(s, {"reclaim"}, 1)
      BY <1>7, <3>1
    <3>2. CASE ~At(s, {"reclaim"}, 1)
      BY <1>2, <2>2, <3>2 DEF Outlives
    <3> QED
      BY <3>1, <3>2
  <2> HIDE DEF Is, At
  <2> QED
    BY <2>3, <2>4, <2>5, <2>6, <2>7, <2>8, <2>9 DEF Apart
<1> QED
  BY <1>2, <1>5, <1>6, <1>7, TxStep

(***************************************************************************)
(* Transactions that end.                                                  *)
(***************************************************************************)

\* An idle connection claims nothing, and stands in nobody's way.
IdleIsSound ==
    \A s \in Sessions : tx[s] = NoTx /\ now \in Nat =>
        Sound(s) /\ \A r \in Sessions : Apart(s, r) /\ Apart(r, s)

\* (Here, in the present state.)
LEMMA Idle == IdleIsSound
<1> SUFFICES ASSUME NEW s \in Sessions, tx[s] = NoTx, now \in Nat
             PROVE  Sound(s) /\ \A r \in Sessions : Apart(s, r) /\ Apart(r, s)
  BY DEF IdleIsSound
<1> USE DEF NoTx, NoRows, NoTask
<1>1. Shape(s)
  <2>1. IsTx(tx[s])
    BY DEF IsTx, Fields
  <2>2. /\ NoRows.run \in RunRow /\ NoRows.task \in TaskRow /\ NoRows.lease \in LeaseRow
        /\ NoTask \in TaskRow
    BY DEF RunRow, TaskRow, RowStatus, LeaseRow
  <2> HIDE DEF NoRows, NoTask
  <2> QED
    BY <2>1, <2>2, StoreAssumption DEF Shape, Busy
<1>2. Locked(s) /\ Wrote(s) /\ TaskDraft(s)
  BY DEF Locked, Wrote, TaskDraft, HasTask, HasLease, HasRun, Creates, Is, Reports, Advances, TaskKinds
<1>3. LeaseDraft(s) /\ Reads(s) /\ Presents(s)
  BY DEF LeaseDraft, Reads, Presents, Is, At, Reports, Advances
<1>4. RunDraft(s) /\ Outgoing(s)
  BY DEF RunDraft, Outgoing, Enqueues, Is, Advances
<1>5. LogDraft(s)
  <2>1. ~Logged(s) /\ ~LoggedTwo(s) /\ ~Numbered(s) /\ ~NumberedTwo(s)
    BY DEF Logged, LoggedTwo, Numbered, NumberedTwo, Is, At, Reports
  <2>2. tx[s].inserted = << >> /\ DOMAIN << >> = {}
    OBVIOUS
  <2> QED
    BY <2>1, <2>2 DEF LogDraft
<1>6. \A r \in Sessions : Apart(s, r) /\ Apart(r, s)
  BY DEF Apart, Outlives, HasTask, HasLease, HasRun, Logged, Is, At, Reports, Advances
<1> QED
  BY <1>1, <1>2, <1>3, <1>4, <1>5, <1>6 DEF Sound

\* The same of the next state.
LEMMA IdleNext == IdleIsSound'
BY Idle, PTL

\* A rollback leaves an idle connection and no other trace.
LEMMA RollbackStep ==
    ASSUME StoreInv, NEW s \in Sessions, NEW err, Rollback(s, err), Refused'
    PROVE  StoreInv'
<1>1. tx = [r \in Sessions |-> tx[r]] /\ now \in Nat
  BY StoreAssumption DEF StoreInv, RowsInv
<1>2. /\ tx' = [r \in Sessions |-> tx'[r]] /\ tx'[s] = NoTx
      /\ \A r \in Sessions : r # s => tx'[r] = tx[r]
      /\ UNCHANGED <<rows, events, outbox, signals, now, claimed>>
  BY <1>1 DEF Rollback, End
<1>3. Sound(s)' /\ \A r \in Sessions : Apart(s, r)' /\ Apart(r, s)'
  BY <1>1, <1>2, IdleNext DEF IdleIsSound
<1> QED
  BY <1>2, <1>3, TxStep

(***************************************************************************)
(* The statements.                                                         *)
(***************************************************************************)

\* What a statement sees: its own draft of what it wrote, the committed row of
\* everything else.
LEMMA Sees ==
    ASSUME StoreInv, NEW s \in Sessions
    PROVE  /\ View(s).task = IF HasTask(s) \/ Creates(s) THEN tx[s].draft.task ELSE rows.task
           /\ View(s).lease = IF HasLease(s) THEN tx[s].draft.lease ELSE rows.lease
           /\ View(s).run = IF HasRun(s) THEN tx[s].draft.run ELSE rows.run
           /\ View(s).task \in TaskRow /\ View(s).lease \in LeaseRow /\ View(s).run \in RunRow
<1>1. Wrote(s) /\ Shape(s) /\ RowsInv
  BY DEF StoreInv, Sound
<1> QED
  BY <1>1 DEF View, Wrote, Shape, RowsInv

\* Any error but a held lease.
LEMMA Refuses ==
    ASSUME StoreInv, NEW s \in Sessions, NEW err, err # "ErrLeaseHeld", Rollback(s, err)
    PROVE  StoreInv'
BY RollbackStep DEF Rollback, End, Refused, LeaseHeldIsSkew, Nothing

\* A held lease, by which only clocks can be to blame.
LEMMA RefusesHeld ==
    ASSUME StoreInv, NEW s \in Sessions, Rollback(s, "ErrLeaseHeld"),
           Skew > 0, rows.lease.expires <= now + Skew
    PROVE  StoreInv'
BY RollbackStep DEF Rollback, End, Refused, LeaseHeldIsSkew, Nothing

\* The transaction before a statement, as Goes and Typed see it.
LEMMA Before ==
    ASSUME StoreInv, NEW s \in Sessions
    PROVE  /\ Sound(s) /\ Shape(s) /\ IsTx(tx[s]) /\ Typed(tx[s])
           /\ now \in Nat /\ Skew \in Nat /\ tx[s].at \in 0..now + Skew
BY StoreAssumption DEF StoreInv, Sound, Shape, Typed, RowsInv

\* The plain read of the task row.
LEMMA GetTaskStep ==
    ASSUME StoreInv, NEW s \in Sessions, GetTask(s)
    PROVE  StoreInv'
<1>1. CASE Rollback(s, "nil")
  BY <1>1, Refuses
<1>2. CASE /\ Continue(s, [tx[s] EXCEPT !.seen = View(s).task])
           /\ ~(tx[s].kind = "reclaim" /\ View(s).task.status # "RUNNING")
  <2> DEFINE t == [tx[s] EXCEPT !.seen = View(s).task]
  <2>1. At(s, {"claim", "complete", "fail", "reclaim"}, 1) /\ Statement(s) = "GetTask"
        /\ Blockers(s) = {}
    BY Before, Places DEF GetTask, Ready
  <2>2. View(s).task = rows.task /\ rows.task \in TaskRow
    BY <2>1, Sees DEF HasTask, Creates, At, Is, Reports
  <2>3. Goes(s, t) /\ t.seen = rows.task
    BY <1>2, <2>1, <2>2, Before DEF Goes, IsTx, Fields
  <2>4. Typed(t)
    BY <2>2, Before DEF Typed, IsTx, Fields
  <2>5. TaskDraft(s)' /\ LeaseDraft(s)' /\ RunDraft(s)' /\ LogDraft(s)' /\ Outgoing(s)'
    BY <2>1, <2>3, Carried
  <2> HIDE DEF t
  <2>6. /\ tx'[s].pc = 2 /\ tx'[s].kind = tx[s].kind /\ tx'[s].seen = rows.task
        /\ \A r \in Sessions : r # s => tx'[r] = tx[r]
        /\ UNCHANGED <<rows, events, outbox, signals, now, claimed>>
    BY <2>1, <2>3, Continued DEF Goes, At
  <2>7. Reads(s)'
    BY <2>6 DEF Reads, Is, At, Reports
  <2>8. ASSUME At(s, {"reclaim"}, 1), NEW r \in Sessions, r # s PROVE Outlives(r, s)'
    <3>1. rows.task.status = "RUNNING"
      BY <1>2, <2>2, <2>8 DEF At
    <3>2. ~Is(r, {"claim"}, 3)
      BY <3>1 DEF StoreInv, Sound, TaskDraft, HasTask, From, Is
    <3> QED
      BY <2>6, <2>8, <3>2 DEF Outlives, Is, At
  <2>9. ~Numbered(s) /\ ~At(s, {"claim"}, 3) /\ ~At(s, {"heartbeat"}, 1)
    BY <2>1 DEF Numbered, At, Reports
  <2> QED
    BY <2>3, <2>4, <2>5, <2>7, <2>8, <2>9, Proceeds
<1> QED
  BY <1>1, <1>2 DEF GetTask

\* Most statements have nothing to do with the reaper's instant or the log.
LEMMA ProceedsPlainly ==
    ASSUME StoreInv, NEW s \in Sessions, NEW t, Goes(s, t), Typed(t),
           Statement(s) \notin {"GetTask", "AcquireLease", "ExtendLease", "AppendEvent"},
           TaskDraft(s)', LeaseDraft(s)', RunDraft(s)', LogDraft(s)', Outgoing(s)'
    PROVE  StoreInv'
<1>1. Reads(s)'
  BY Carried
<1>2. ~Numbered(s) /\ ~At(s, {"claim"}, 3) /\ ~At(s, {"heartbeat"}, 1) /\ ~At(s, {"reclaim"}, 1)
  BY Before, Places DEF At
<1> QED
  BY <1>1, <1>2, Proceeds

\* The plain read of the lease in assertToken.
LEMMA GetLeaseStep ==
    ASSUME StoreInv, NEW s \in Sessions, GetLease(s)
    PROVE  StoreInv'
<1>1. Statement(s) = "GetLease" /\ Blockers(s) = {} /\ At(s, Reports, 2)
  BY Before, Places DEF GetLease, Ready
<1>2. View(s).lease = rows.lease
  BY <1>1, Sees DEF HasLease, At, Is, Reports
<1>3. CASE Continue(s, tx[s])
  <2>1. Goes(s, tx[s])
    BY <1>1, <1>3, Before DEF Goes
  <2> QED
    BY <1>1, <2>1, Before, Carried, ProceedsPlainly
<1>4. CASE Rollback(s, "ErrFenced")
  BY <1>4, Refuses
<1> QED
  BY <1>3, <1>4 DEF GetLease

\* The foreign-key check.
LEMMA ReferencesStep ==
    ASSUME StoreInv, NEW s \in Sessions, References(s)
    PROVE  StoreInv'
<1>1. Goes(s, tx[s]) /\ Statement(s) = "References"
  BY Before DEF References, Ready, Goes
<1> QED
  BY <1>1, Before, Carried, ProceedsPlainly

\* The locked compare-and-swap of the task's status.
LEMMA TransitionTaskStep ==
    ASSUME StoreInv, NEW s \in Sessions, TransitionTask(s)
    PROVE  StoreInv'
<1> DEFINE task == [status |-> To(s),
                    attempt |-> View(s).task.attempt + (IF To(s) = "RUNNING" THEN 1 ELSE 0)]
           t == WriteTask(s, task)
<1>1. /\ Statement(s) = "TransitionTask" /\ Blockers(s) = {}
      /\ At(s, {"claim"}, 2) \/ At(s, Reports, 3) \/ At(s, {"reclaim"}, 6)
  BY Before, Places DEF TransitionTask, Ready
<1>2. View(s).task = rows.task /\ rows.task \in TaskRow
  BY <1>1, Sees DEF HasTask, Creates, At, Is, Reports
<1>3. CASE Rollback(s, "ErrConflict")
  BY <1>3, Refuses
<1>4. CASE Continue(s, t) /\ rows.task.status = From(s)
  <2>1. task \in TaskRow
    BY <1>1, <1>2 DEF TaskRow, RowStatus, To
  <2>2. task = [status |-> To(s),
                attempt |-> rows.task.attempt + (IF tx[s].kind = "claim" THEN 1 ELSE 0)]
    BY <1>1, <1>2 DEF To, At, Reports
  <2> HIDE DEF task
  <2>3. Goes(s, t) /\ Typed(t) /\ t.draft.task = task
    BY <1>1, <1>4, <2>1, Before DEF Goes, Typed, IsTx, Fields, WriteTask
  <2> HIDE DEF t
  <2>4. /\ tx'[s].pc = tx[s].pc + 1 /\ tx'[s].kind = tx[s].kind /\ tx'[s].draft.task = task
        /\ tx'[s].seen = tx[s].seen /\ tx'[s].escalated = tx[s].escalated
        /\ tx'[s].draft.lease = tx[s].draft.lease /\ tx'[s].token = tx[s].token
        /\ tx[s].kind = "claim" => tx'[s].at = now
        /\ tx[s].kind = "reclaim" => tx'[s].at = tx[s].at
        /\ UNCHANGED <<rows, events, outbox, signals, now, claimed>>
    BY <1>1, <2>3, Continued DEF Goes, At, Reports
  <2>5. TaskDraft(s)'
    <3>1. From(s)' = From(s) /\ To(s)' = To(s)
      BY <2>4 DEF From, To, Retries
    <3>2. rows.task.status # "NONE" /\ ~Creates(s)'
      BY <1>1, <1>4, <2>4 DEF From, Creates, Is, At, Reports
    <3> QED
      BY <1>4, <2>2, <2>4, <3>1, <3>2 DEF TaskDraft
  <2>6. LeaseDraft(s)'
    <3>1. tx[s].kind = "claim" => rows.lease.expires <= now + Skew
      BY <1>4 DEF StoreInv, Unowned, From
    <3> QED
      BY <1>1, <2>4, <3>1, Before DEF Sound, LeaseDraft, Is, At, Reports
  <2> QED
    BY <1>1, <2>3, <2>5, <2>6, Carried, ProceedsPlainly
<1> QED
  BY <1>2, <1>3, <1>4 DEF TransitionTask

\* The upsert of the lease.
LEMMA AcquireLeaseStep ==
    ASSUME StoreInv, NEW s \in Sessions, AcquireLease(s)
    PROVE  StoreInv'
<1>1. /\ Statement(s) = "AcquireLease" /\ Blockers(s) = {}
      /\ At(s, {"claim"}, 3) \/ At(s, {"reclaim"}, 2)
  BY Before, Places DEF AcquireLease, Ready
<1>2. View(s).lease = rows.lease /\ rows.lease.token \in Nat /\ rows.lease.expires \in Nat
  BY <1>1, Sees DEF HasLease, At, Is, Reports, LeaseRow
<1>3. /\ LeaseTTL \in Nat \ {0} /\ Skew \in Nat /\ Skew < LeaseTTL
      /\ now \in Nat /\ tx[s].at \in 0..now + Skew
  BY StoreAssumption, Before
<1>4. PICK at \in Instants(s) :
          IF rows.lease.token > 0 /\ rows.lease.expires > at
          THEN Rollback(s, IF tx[s].kind = "reclaim" THEN "nil" ELSE "ErrLeaseHeld")
          ELSE Continue(s, [WriteLease(s, [token |-> rows.lease.token + 1,
                                           expires |-> at + LeaseTTL])
                            EXCEPT !.token = rows.lease.token + 1])
  BY <1>2 DEF AcquireLease
<1>5. /\ at \in tx[s].at..now + Skew
      /\ tx[s].kind = "reclaim" => at = tx[s].at
  BY <1>3, <1>4 DEF Instants
<1>6. ~(rows.lease.token > 0) => rows.lease.expires = 0
  BY <1>2 DEF StoreInv, Counted
<1>7. CASE rows.lease.token > 0 /\ rows.lease.expires > at
  <2>1. tx[s].kind = "claim" => Skew > 0 /\ rows.lease.expires <= now + Skew
    BY <1>1, <1>2, <1>3, <1>5, <1>7, Before DEF Sound, LeaseDraft, At, Is
  <2> QED
    BY <1>1, <1>4, <1>7, <2>1, Refuses, RefusesHeld DEF At
<1>8. CASE ~(rows.lease.token > 0 /\ rows.lease.expires > at)
  <2> DEFINE lease == [token |-> rows.lease.token + 1, expires |-> at + LeaseTTL]
             t == [WriteLease(s, lease) EXCEPT !.token = rows.lease.token + 1]
  <2>1. rows.lease.expires <= at
    BY <1>2, <1>3, <1>5, <1>6, <1>8
  <2>2. /\ lease \in LeaseRow /\ lease.token = rows.lease.token + 1
        /\ lease.expires = at + LeaseTTL
    BY <1>2, <1>3, <1>5 DEF LeaseRow
  <2>3. Continue(s, t)
    BY <1>4, <1>8
  <2> HIDE DEF lease
  <2>4. Goes(s, t) /\ Typed(t) /\ t.draft.lease = lease /\ t.token = rows.lease.token + 1
    BY <1>1, <1>2, <2>2, <2>3, Before DEF Goes, Typed, IsTx, Fields, WriteLease
  <2> HIDE DEF t
  <2>5. /\ tx'[s].pc = tx[s].pc + 1 /\ tx'[s].kind = tx[s].kind /\ tx'[s].draft.lease = lease
        /\ tx'[s].seen = tx[s].seen /\ tx'[s].token = rows.lease.token + 1
        /\ tx[s].kind = "reclaim" => tx'[s].at = tx[s].at
        /\ \A r \in Sessions : r # s => tx'[r] = tx[r]
        /\ UNCHANGED <<rows, events, outbox, signals, now, claimed>>
    BY <1>1, <2>4, Continued DEF Goes
  <2>6. LeaseDraft(s)'
    BY <1>1, <1>2, <1>3, <1>5, <2>1, <2>2, <2>5 DEF LeaseDraft, Is, At, Reports
  <2>7. Reads(s)'
    BY <1>1, <1>2, <1>3, <1>5, <2>1, <2>5, Before DEF Sound, Reads, Is, At, Reports
  <2>8. TaskDraft(s)' /\ RunDraft(s)' /\ LogDraft(s)' /\ Outgoing(s)'
    BY <1>1, <2>4, Carried
  <2>9. ASSUME At(s, {"claim"}, 3), NEW r \in Sessions, r # s PROVE Outlives(s, r)'
    <3>1. At(r, {"reclaim"}, 2) => tx[s].at + Skew >= tx[r].at
      BY <2>9 DEF StoreInv, Apart, Outlives, Is, At
    <3>2. tx[r].at \in 0..now + Skew
      BY Before
    <3> QED
      BY <1>3, <1>5, <2>2, <2>5, <2>9, <3>1, <3>2 DEF Outlives, Is, At
  <2>10. ~Numbered(s) /\ ~At(s, {"heartbeat"}, 1) /\ ~At(s, {"reclaim"}, 1)
    BY <1>1 DEF Numbered, At, Reports
  <2> QED
    BY <2>4, <2>6, <2>7, <2>8, <2>9, <2>10, Proceeds
<1> QED
  BY <1>7, <1>8

\* The two fenced updates, up to what they make of the expiry.
LEMMA FencedUpdate ==
    ASSUME StoreInv, NEW s \in Sessions, NEW expires \in Nat, Fenced(s, expires),
           Statement(s) \in {"ExtendLease", "ReleaseLease"}, Blockers(s) = {}
    PROVE  \/ StoreInv'
           \/ \E t : /\ Goes(s, t) /\ Typed(t) /\ View(s).lease.token = tx[s].token
                      /\ t.draft.lease.token = tx[s].token /\ t.draft.lease.expires = expires
<1>2. CASE Rollback(s, "ErrFenced")
  BY <1>2, Refuses
<1>3. CASE /\ View(s).lease.token = tx[s].token
           /\ Continue(s, WriteLease(s, [token |-> tx[s].token, expires |-> expires]))
  <2> DEFINE lease == [token |-> tx[s].token, expires |-> expires]
             t == WriteLease(s, lease)
  <2>1. lease \in LeaseRow /\ lease.token = tx[s].token /\ lease.expires = expires
    BY Before DEF LeaseRow, Typed
  <2> HIDE DEF lease
  <2>2. Goes(s, t) /\ Typed(t) /\ t.draft.lease = lease
    BY <1>3, <2>1, Before DEF Goes, Typed, IsTx, Fields, WriteLease, lease
  <2> QED
    BY <1>3, <2>1, <2>2
<1> QED
  BY <1>2, <1>3 DEF Fenced

\* The heartbeat's fenced update.
LEMMA ExtendLeaseStep ==
    ASSUME StoreInv, NEW s \in Sessions, ExtendLease(s)
    PROVE  StoreInv'
<1>1. /\ Statement(s) = "ExtendLease" /\ Blockers(s) = {} /\ At(s, {"heartbeat"}, 1)
  BY Before, Places DEF ExtendLease, Ready
<1>2. CASE Rollback(s, "lost")
  BY <1>2, Refuses
<1>3. CASE tx[s].token \in claimed /\ \E at \in Instants(s) : Fenced(s, at + LeaseTTL)
  <2>1. PICK at \in Instants(s) : Fenced(s, at + LeaseTTL)
    BY <1>3
  <2>2. /\ LeaseTTL \in Nat \ {0} /\ Skew \in Nat /\ Skew < LeaseTTL /\ now \in Nat
        /\ tx[s].at \in 0..now + Skew /\ at \in tx[s].at..now + Skew /\ at + LeaseTTL \in Nat
    BY <1>1, <2>1, StoreAssumption, Before DEF Instants, At
  <2>3. CASE StoreInv'
    BY <2>3
  <2>4. CASE \E t : /\ Goes(s, t) /\ Typed(t) /\ View(s).lease.token = tx[s].token
                    /\ t.draft.lease.token = tx[s].token
                    /\ t.draft.lease.expires = at + LeaseTTL
    <3>1. PICK t : /\ Goes(s, t) /\ Typed(t) /\ View(s).lease.token = tx[s].token
                   /\ t.draft.lease.token = tx[s].token
                   /\ t.draft.lease.expires = at + LeaseTTL
      BY <2>4
    <3>2. /\ tx'[s].pc = 2 /\ tx'[s].kind = "heartbeat" /\ tx'[s].draft = t.draft
          /\ tx'[s].token = tx[s].token
          /\ \A r \in Sessions : r # s => tx'[r] = tx[r]
          /\ UNCHANGED <<rows, events, outbox, signals, now, claimed>>
      BY <1>1, <3>1, Continued DEF Goes, At
    <3>3. rows.lease.token = tx[s].token /\ rows.task.status = "RUNNING"
      <4>1. View(s).lease = rows.lease
        BY <1>1, Sees DEF HasLease, Is, At, Reports
      <4> QED
        BY <1>3, <3>1, <4>1 DEF StoreInv, Unowned
    <3>4. LeaseDraft(s)'
      BY <2>2, <3>1, <3>2, <3>3 DEF LeaseDraft, Is, At, Reports
    <3>5. TaskDraft(s)' /\ Reads(s)' /\ RunDraft(s)' /\ LogDraft(s)' /\ Outgoing(s)'
      BY <1>1, <3>1, Carried
    <3>6. ASSUME NEW r \in Sessions, r # s PROVE Outlives(s, r)'
      <4>1. Outlives(s, r) /\ tx[r].at \in 0..now + Skew
        BY <3>6, Before DEF StoreInv, Apart
      <4> QED
        BY <1>1, <2>2, <3>1, <3>2, <3>6, <4>1 DEF Outlives, Is, At
    <3>7. ~Numbered(s) /\ ~At(s, {"reclaim"}, 1)
      BY <1>1 DEF Numbered, At, Reports
    <3> QED
      BY <3>1, <3>4, <3>5, <3>6, <3>7, Proceeds
  <2> QED
    BY <1>1, <2>1, <2>2, <2>3, <2>4, FencedUpdate
<1> QED
  BY <1>2, <1>3 DEF ExtendLease

\* The fenced release.
LEMMA ReleaseLeaseStep ==
    ASSUME StoreInv, NEW s \in Sessions, ReleaseLease(s)
    PROVE  StoreInv'
<1>1. /\ Statement(s) = "ReleaseLease" /\ Blockers(s) = {}
      /\ At(s, Reports, 4) \/ At(s, {"reclaim"}, 10)
  BY Before, Places DEF ReleaseLease, Ready
<1>2. PICK at \in Instants(s) : Fenced(s, at)
  BY DEF ReleaseLease
<1>3. /\ now \in Nat /\ Skew \in Nat /\ tx[s].at \in 0..now + Skew /\ at \in 0..now + Skew
      /\ tx[s].kind = "reclaim" => at = tx[s].at
  BY <1>2, Before DEF Instants
<1>4. CASE StoreInv'
  BY <1>4
<1>5. CASE \E t : /\ Goes(s, t) /\ Typed(t) /\ View(s).lease.token = tx[s].token
                  /\ t.draft.lease.token = tx[s].token /\ t.draft.lease.expires = at
  <2>1. PICK t : /\ Goes(s, t) /\ Typed(t) /\ View(s).lease.token = tx[s].token
                 /\ t.draft.lease.token = tx[s].token /\ t.draft.lease.expires = at
    BY <1>5
  <2>2. /\ tx'[s].pc = tx[s].pc + 1 /\ tx'[s].kind = tx[s].kind /\ tx'[s].draft = t.draft
        /\ tx'[s].token = tx[s].token
        /\ tx[s].kind = "reclaim" => tx'[s].at = tx[s].at
        /\ UNCHANGED <<rows, events, outbox, signals, now, claimed>>
    BY <1>1, <2>1, Continued DEF Goes
  <2>3. At(s, Reports, 4) => rows.lease.token = tx[s].token
    BY <2>1, Sees DEF HasLease, Is, At, Reports
  <2>4. LeaseDraft(s)'
    BY <1>1, <1>3, <2>1, <2>2, <2>3, Before DEF Sound, LeaseDraft, Is, At, Reports
  <2> QED
    BY <1>1, <2>1, <2>4, Carried, ProceedsPlainly
<1> QED
  BY <1>1, <1>2, <1>3, <1>4, <1>5, FencedUpdate

\* The compare-and-swap of the run's version.
LEMMA AdvanceRunStep ==
    ASSUME StoreInv, NEW s \in Sessions, AdvanceRun(s)
    PROVE  StoreInv'
<1> DEFINE run == [status  |-> IF tx[s].kind = "finish" THEN "COMPLETED" ELSE "RUNNING",
                   version |-> View(s).run.version + 1, parked |-> tx[s].kind = "park"]
           t == WriteRun(s, run)
<1>1. Statement(s) = "AdvanceRun" /\ Blockers(s) = {} /\ At(s, Advances, 1)
  BY Before, Places DEF AdvanceRun, Ready
<1>2. View(s).run = rows.run /\ rows.run \in RunRow
  BY <1>1, Sees DEF HasRun, At, Is, Advances
<1>3. CASE Rollback(s, "ErrConflict")
  BY <1>3, Refuses
<1>4. CASE Continue(s, t) /\ rows.run.version = tx[s].version
  <2>1. run \in RunRow /\ run = [status  |-> IF tx[s].kind = "finish" THEN "COMPLETED" ELSE "RUNNING",
                                 version |-> rows.run.version + 1, parked |-> tx[s].kind = "park"]
    BY <1>2 DEF RunRow
  <2> HIDE DEF run
  <2>2. Goes(s, t) /\ Typed(t) /\ t.draft.run = run
    BY <1>1, <1>4, <2>1, Before DEF Goes, Typed, IsTx, Fields, WriteRun
  <2> HIDE DEF t
  <2>3. /\ tx'[s].pc = tx[s].pc + 1 /\ tx'[s].kind = tx[s].kind /\ tx'[s].draft.run = run
        /\ tx'[s].version = tx[s].version
        /\ UNCHANGED <<rows, events, outbox, signals, now, claimed>>
    BY <1>1, <2>2, Continued DEF Goes
  <2>4. RunDraft(s)'
    BY <1>1, <1>4, <2>1, <2>3, Before DEF Sound, RunDraft, Is, At, Advances
  <2> QED
    BY <1>1, <2>2, <2>4, Carried, ProceedsPlainly
<1> QED
  BY <1>2, <1>3, <1>4 DEF AdvanceRun

\* The signal clears the park.
LEMMA ReleaseRunStep ==
    ASSUME StoreInv, NEW s \in Sessions, ReleaseRun(s)
    PROVE  StoreInv'
<1> DEFINE run == [View(s).run EXCEPT !.parked = FALSE]
           t == WriteRun(s, run)
<1>1. Statement(s) = "ReleaseRun" /\ Blockers(s) = {} /\ At(s, {"signal"}, 3) /\ Continue(s, t)
  BY Before, Places DEF ReleaseRun, Ready
<1>2. View(s).run = rows.run /\ rows.run \in RunRow
  BY <1>1, Sees DEF HasRun, At, Is, Advances
<1>3. run \in RunRow /\ run = [rows.run EXCEPT !.parked = FALSE]
  BY <1>2 DEF RunRow
<1> HIDE DEF run
<1>4. Goes(s, t) /\ Typed(t) /\ t.draft.run = run
  BY <1>1, <1>3, Before DEF Goes, Typed, IsTx, Fields, WriteRun
<1> HIDE DEF t
<1>5. /\ tx'[s].pc = tx[s].pc + 1 /\ tx'[s].kind = tx[s].kind /\ tx'[s].draft.run = run
      /\ UNCHANGED <<rows, events, outbox, signals, now, claimed>>
  BY <1>1, <1>4, Continued DEF Goes
<1>6. RunDraft(s)'
  BY <1>1, <1>3, <1>5 DEF RunDraft, Is, At, Advances
<1> QED
  BY <1>1, <1>4, <1>6, Carried, ProceedsPlainly

\* The insert of the task.
LEMMA CreateTaskStep ==
    ASSUME StoreInv, NEW s \in Sessions, CreateTask(s)
    PROVE  StoreInv'
<1> DEFINE task == [status |-> "PENDING", attempt |-> 0]
           t == WriteTask(s, task)
<1>1. Statement(s) = "CreateTask" /\ Blockers(s) = {} /\ At(s, {"dispatch"}, 2)
  BY Before, Places DEF CreateTask, Ready
<1>2. View(s).task = rows.task
  BY <1>1, Sees DEF HasTask, Creates, At, Is, Reports
<1>3. CASE Rollback(s, "ErrTaskExists")
  BY <1>3, Refuses
<1>4. CASE Continue(s, t) /\ rows.task.status = "NONE"
  <2>1. task \in TaskRow
    BY DEF TaskRow, RowStatus
  <2> HIDE DEF task
  <2>2. Goes(s, t) /\ Typed(t) /\ t.draft.task = task
    BY <1>1, <1>4, <2>1, Before DEF Goes, Typed, IsTx, Fields, WriteTask
  <2> HIDE DEF t
  <2>3. /\ tx'[s].pc = tx[s].pc + 1 /\ tx'[s].kind = tx[s].kind /\ tx'[s].draft.task = task
        /\ UNCHANGED <<rows, events, outbox, signals, now, claimed>>
    BY <1>1, <2>2, Continued DEF Goes
  <2>4. TaskDraft(s)'
    BY <1>1, <1>4, <2>3 DEF TaskDraft, HasTask, Is, At, Reports, TaskKinds, task
  <2> QED
    BY <1>1, <2>2, <2>4, Carried, ProceedsPlainly
<1> QED
  BY <1>2, <1>3, <1>4 DEF CreateTask

\* The number of the next event: one past the log, or past the event that this
\* transaction appended to it.
LEMMA NextNumber ==
    ASSUME StoreInv, NEW s \in Sessions, ~LoggedTwo(s)
    PROVE  Max({0} \cup DOMAIN events \cup DOMAIN tx[s].inserted) =
               IF Logged(s) THEN Len(events) + 1 ELSE Len(events)
<1>1. Len(events) \in Nat /\ DOMAIN events = 1..Len(events)
  BY DEF StoreInv, RowsInv
<1>2. DOMAIN tx[s].inserted = IF Logged(s) THEN {Len(events) + 1} ELSE {}
  BY Before DEF Sound, LogDraft
<1>3. CASE Logged(s)
  <2> DEFINE S == {0} \cup DOMAIN events \cup DOMAIN tx[s].inserted
  <2>1. Len(events) + 1 \in S /\ \A k \in S : k \in Int /\ Len(events) + 1 >= k
    BY <1>1, <1>2, <1>3
  <2> HIDE DEF S
  <2>2. Max(S) = Len(events) + 1
    BY <1>1, <2>1 DEF Max
  <2> QED
    BY <1>3, <2>2 DEF S
<1>4. CASE ~Logged(s)
  <2> DEFINE S == {0} \cup DOMAIN events \cup DOMAIN tx[s].inserted
  <2>1. Len(events) \in S /\ \A k \in S : k \in Int /\ Len(events) >= k
    BY <1>1, <1>2, <1>4
  <2> HIDE DEF S
  <2>2. Max(S) = Len(events)
    BY <1>1, <2>1 DEF Max
  <2> QED
    BY <1>4, <2>2 DEF S
<1> QED
  BY <1>3, <1>4

\* MAX(seq) + 1.
LEMMA NextSeqStep ==
    ASSUME StoreInv, NEW s \in Sessions, NextSeq(s)
    PROVE  StoreInv'
<1> DEFINE n == Max({0} \cup DOMAIN events \cup DOMAIN tx[s].inserted)
           t == [tx[s] EXCEPT !.seq = n + 1]
<1>1. /\ Statement(s) = "NextSeq" /\ Blockers(s) = {} /\ Continue(s, t)
      /\ \/ At(s, {"claim"}, 4) \/ At(s, Reports, 5) \/ At(s, {"fail"}, 8)
         \/ At(s, {"reclaim"}, 3) \/ At(s, {"reclaim"}, 7)
         \/ At(s, {"dispatch"}, 3) \/ At(s, {"park", "finish"}, 2)
  BY Before, Places DEF NextSeq, Ready
<1>2. ~LoggedTwo(s)
  BY <1>1 DEF LoggedTwo, Is, At, Reports
<1>3. n = (IF Logged(s) THEN Len(events) + 1 ELSE Len(events)) /\ Len(events) \in Nat
  BY <1>2, NextNumber DEF StoreInv, RowsInv
<1> HIDE DEF n
<1>4. Goes(s, t) /\ Typed(t) /\ t.seq = n + 1
  BY <1>1, <1>3, Before DEF Goes, Typed, IsTx, Fields
<1> HIDE DEF t
<1>5. /\ tx'[s].pc = tx[s].pc + 1 /\ tx'[s].kind = tx[s].kind /\ tx'[s].seq = n + 1
      /\ tx'[s].seen = tx[s].seen /\ tx'[s].escalated = tx[s].escalated
      /\ tx'[s].inserted = tx[s].inserted /\ tx'[s].token = tx[s].token
      /\ UNCHANGED <<rows, events, outbox, signals, now, claimed>>
  BY <1>1, <1>4, Continued DEF Goes
<1>6. LogDraft(s)'
  <2>1. /\ Logged(s)' <=> Logged(s)
        /\ ~LoggedTwo(s)'
        /\ Numbered(s)' <=> ~Logged(s)
        /\ NumberedTwo(s)' <=> Logged(s)
    BY <1>1, <1>5 DEF Logged, LoggedTwo, Numbered, NumberedTwo, Is, At, Reports
  <2>2. EventTypes(s)' = EventTypes(s)
    BY <1>5 DEF EventTypes, Retries
  <2> QED
    <3>1. LogDraft(s)
      BY Before DEF Sound
    <3> QED
      BY <1>2, <1>3, <1>5, <2>1, <2>2, <3>1 DEF LogDraft
<1> QED
  BY <1>1, <1>4, <1>6, Carried, ProceedsPlainly

\* The insert of the event.
LEMMA AppendEventStep ==
    ASSUME StoreInv, NEW s \in Sessions, AppendEvent(s)
    PROVE  StoreInv'
<1> DEFINE nth == IF DOMAIN tx[s].inserted = {} THEN 1 ELSE 2
           ev  == [type |-> EventTypes(s)[nth], token |-> tx[s].token]
           ins == [k \in DOMAIN tx[s].inserted \cup {tx[s].seq} |->
                      IF k = tx[s].seq THEN ev ELSE tx[s].inserted[k]]
           t   == [tx[s] EXCEPT !.inserted = ins, !.seq = 0]
<1>1. /\ Statement(s) = "AppendEvent" /\ Blockers(s) = {}
      /\ Numbered(s) \/ NumberedTwo(s)
  BY Before, Places DEF AppendEvent, Ready
<1>2. Len(events) \in Nat /\ DOMAIN events = 1..Len(events)
  BY DEF StoreInv, RowsInv
<1>3. CASE Rollback(s, "ErrSeqConflict")
  BY <1>3, Refuses
<1>4. CASE Continue(s, t) /\ tx[s].seq \notin DOMAIN events
  <2>1. /\ ~(Numbered(s) /\ NumberedTwo(s)) /\ ~LoggedTwo(s)
        /\ Numbered(s) => ~Logged(s)
        /\ NumberedTwo(s) => Logged(s)
    BY <1>1 DEF Logged, LoggedTwo, Numbered, NumberedTwo, Is, At, Reports
  <2>2. /\ DOMAIN tx[s].inserted = IF Logged(s) THEN {Len(events) + 1} ELSE {}
        /\ Logged(s) => tx[s].inserted[Len(events) + 1] =
                            [type |-> EventTypes(s)[1], token |-> tx[s].token]
        /\ tx[s].seq = IF Logged(s) THEN Len(events) + 2 ELSE Len(events) + 1
    <3>1. LogDraft(s)
      BY Before DEF Sound
    <3> QED
      BY <1>1, <1>2, <1>4, <2>1, <3>1 DEF LogDraft
  <2>3. nth = IF Logged(s) THEN 2 ELSE 1
    BY <2>2
  <2> HIDE DEF nth
  <2>4. /\ DOMAIN ins = IF Logged(s) THEN {Len(events) + 1, Len(events) + 2}
                        ELSE {Len(events) + 1}
        /\ ins[Len(events) + 1] = [type |-> EventTypes(s)[1], token |-> tx[s].token]
        /\ Logged(s) => ins[Len(events) + 2] = [type |-> EventTypes(s)[2], token |-> tx[s].token]
    BY <1>2, <2>2, <2>3
  <2> HIDE DEF ins
  <2>5. Goes(s, t) /\ Typed(t) /\ t.inserted = ins
    BY <1>1, <1>4, Before DEF Goes, Typed, IsTx, Fields
  <2> HIDE DEF t
  <2>6. /\ tx'[s].pc = tx[s].pc + 1 /\ tx'[s].kind = tx[s].kind /\ tx'[s].inserted = ins
        /\ tx'[s].seen = tx[s].seen /\ tx'[s].escalated = tx[s].escalated
        /\ tx'[s].token = tx[s].token
        /\ UNCHANGED <<rows, events, outbox, signals, now, claimed>>
    BY <1>1, <2>5, Continued DEF Goes
  <2>7. LogDraft(s)'
    <3>1. /\ Logged(s)' /\ ~Numbered(s)' /\ ~NumberedTwo(s)'
          /\ LoggedTwo(s)' <=> Logged(s)
      BY <1>1, <2>6 DEF Logged, LoggedTwo, Numbered, NumberedTwo, Is, At, Reports
    <3>2. EventTypes(s)' = EventTypes(s)
      BY <2>6 DEF EventTypes, Retries
    <3> QED
      BY <2>4, <2>6, <3>1, <3>2 DEF LogDraft
  <2>8. TaskDraft(s)' /\ LeaseDraft(s)' /\ Reads(s)' /\ RunDraft(s)' /\ Outgoing(s)'
    BY <1>1, <2>5, Carried
  <2>9. ~At(s, {"claim"}, 3) /\ ~At(s, {"heartbeat"}, 1) /\ ~At(s, {"reclaim"}, 1)
    BY <1>1 DEF Numbered, NumberedTwo, At, Reports
  <2> QED
    BY <2>1, <2>2, <2>5, <2>7, <2>8, <2>9, Proceeds
<1> QED
  BY <1>3, <1>4 DEF AppendEvent

\* The outbox row.
LEMMA EnqueueDeliveryStep ==
    ASSUME StoreInv, NEW s \in Sessions, EnqueueDelivery(s)
    PROVE  StoreInv'
<1> DEFINE e == IF View(s).task.status = "PENDING" THEN tx[s].enqueued + 1 ELSE tx[s].enqueued
           t == [tx[s] EXCEPT !.enqueued = e]
<1>1. /\ Statement(s) = "EnqueueDelivery" /\ Blockers(s) = {} /\ Continue(s, t)
      /\ At(s, {"fail"}, 10) \/ At(s, {"reclaim"}, 9) \/ At(s, {"dispatch"}, 5)
  BY Before, Places DEF EnqueueDelivery, Ready
<1>2. View(s).task = tx[s].draft.task
  BY <1>1, Sees DEF HasTask, Creates, At, Is, Reports
<1>3. Outgoing(s) /\ tx[s].enqueued = 0
  <2>1. Outgoing(s)
    BY Before DEF Sound
  <2>2. ~Enqueues(s)
    BY <1>1 DEF Enqueues, Is, At
  <2> QED
    BY <2>1, <2>2 DEF Outgoing
<1> HIDE DEF e
<1>4. Goes(s, t) /\ Typed(t) /\ t.enqueued = e
  BY <1>1, Before DEF Goes, Typed, IsTx, Fields
<1> HIDE DEF t
<1>5. /\ tx'[s].pc = tx[s].pc + 1 /\ tx'[s].kind = tx[s].kind /\ tx'[s].enqueued = e
      /\ tx'[s].draft = t.draft /\ tx'[s].signals = tx[s].signals /\ tx'[s].sig = tx[s].sig
      /\ t.draft.task = tx[s].draft.task
      /\ UNCHANGED <<rows, events, outbox, signals, now, claimed>>
  BY <1>1, <1>4, Continued DEF Goes
<1>6. Outgoing(s)'
  <2>1. Enqueues(s)' /\ ~Is(s, {"signal"}, 2) /\ ~Is(s, {"signal"}, 2)' /\ tx'[s].kind # "signal"
    BY <1>1, <1>5 DEF Enqueues, Is, At
  <2>2. tx'[s].enqueued = IF tx'[s].draft.task.status = "PENDING" THEN 1 ELSE 0
    BY <1>2, <1>3, <1>5 DEF e
  <2> QED
    BY <1>3, <1>5, <2>1, <2>2 DEF Outgoing
<1> QED
  BY <1>1, <1>4, <1>6, Carried, ProceedsPlainly

\* The insert of the signal.
LEMMA RecordSignalStep ==
    ASSUME StoreInv, NEW s \in Sessions, RecordSignal(s)
    PROVE  StoreInv'
<1> DEFINE t == [tx[s] EXCEPT !.signals = {tx[s].sig}]
<1>1. Statement(s) = "RecordSignal" /\ Blockers(s) = {} /\ At(s, {"signal"}, 1)
  BY Before, Places DEF RecordSignal, Ready
<1>2. CASE Rollback(s, "ErrSignalExists")
  BY <1>2, Refuses
<1>3. CASE Continue(s, t) /\ tx[s].sig \notin signals
  <2>1. Goes(s, t) /\ Typed(t) /\ t.signals = {tx[s].sig}
    BY <1>1, <1>3, Before DEF Goes, Typed, IsTx, Fields
  <2> HIDE DEF t
  <2>2. /\ tx'[s].pc = tx[s].pc + 1 /\ tx'[s].kind = tx[s].kind
        /\ tx'[s].enqueued = tx[s].enqueued /\ tx'[s].signals = {tx[s].sig}
        /\ tx'[s].sig = tx[s].sig
        /\ UNCHANGED <<rows, events, outbox, signals, now, claimed>>
    BY <1>1, <2>1, Continued DEF Goes
  <2>3. Outgoing(s)'
    <3>1. Outgoing(s)
      BY Before DEF Sound
    <3>2. ~Enqueues(s) /\ ~Enqueues(s)' /\ Is(s, {"signal"}, 2)'
      BY <1>1, <2>2 DEF Enqueues, Is, At
    <3> QED
      BY <1>1, <1>3, <2>2, <3>1, <3>2 DEF Outgoing, At
  <2> QED
    BY <1>1, <2>1, <2>3, Carried, ProceedsPlainly
<1> QED
  BY <1>2, <1>3 DEF RecordSignal

\* An aborted transaction rolls back with an error of no consequence.
LEMMA Aborts ==
    ASSUME NEW s \in Sessions, DeadlockDetected(s) \/ Disconnect(s)
    PROVE  Rollback(s, "ErrConflict") \/ Rollback(s, "lost")
BY Zenon DEF DeadlockDetected, Disconnect

\* An abort preserves the invariant.
LEMMA AbortStep ==
    ASSUME StoreInv, NEW s \in Sessions, DeadlockDetected(s) \/ Disconnect(s)
    PROVE  StoreInv'
BY Aborts, Refuses

(***************************************************************************)
(* Transactions that begin, and the clock.                                 *)
(***************************************************************************)

\* What a caller may begin with, given what it has read before.
Fresh(t) ==
    /\ IsTx(t) /\ t.kind \in Kinds /\ Typed(t) /\ t.version \in Nat /\ t.escalated \in BOOLEAN
    /\ t.locks = {} /\ t.wrote = {} /\ t.inserted = << >> /\ t.signals = {} /\ t.enqueued = 0
    /\ t.at \in 0..now + Skew
    /\ t.kind = "reclaim" => t.escalated = FALSE
    /\ t.kind \in TaskKinds => rows.task.status # "NONE"
    /\ t.kind \in Reports \cup {"heartbeat"} => t.token \in 1..rows.lease.token
    /\ t.kind \in Advances =>
          /\ t.token = 0 /\ t.version = rows.run.version /\ rows.run.status = "RUNNING"
          /\ t.kind = "park" => t.version < MaxVersion
    /\ t.kind = "signal" => t.sig \in Signals

\* A transaction that begins with what Fresh allows preserves the invariant.
LEMMA BeginStep ==
    ASSUME StoreInv, NEW s \in Sessions, NEW t, Fresh(t), Begin(s, t),
           claimed' \subseteq claimed, t.kind \in Reports => t.token \notin claimed'
    PROVE  StoreInv'
<1> DEFINE at == IF t.kind = "heartbeat" THEN now ELSE t.at
           y == [t EXCEPT !.pc = 1, !.at = at]
<1>1. tx = [r \in Sessions |-> tx[r]] /\ now \in Nat /\ Skew \in Nat /\ at \in 0..now + Skew
  BY StoreAssumption DEF StoreInv, RowsInv, Fresh
<1>2. tx' = [tx EXCEPT ![s] = y] /\ UNCHANGED <<rows, events, outbox, signals, now>>
  BY DEF Begin
<1>3. Refused'
  BY DEF Begin, Refused, LeaseHeldIsSkew, Nothing
<1> HIDE DEF at
<1>4. /\ IsTx(y) /\ y.pc = 1 /\ y.kind = t.kind /\ y.at = at /\ Typed(y)
      /\ y.version = t.version /\ y.escalated = t.escalated /\ y.locks = {} /\ y.wrote = {}
      /\ y.inserted = << >> /\ y.signals = {} /\ y.enqueued = 0 /\ y.token = t.token
      /\ y.sig = t.sig
  BY DEF Fresh, IsTx, Fields, Typed
<1> HIDE DEF y
<1>5. /\ tx'[s] = y /\ tx' = [r \in Sessions |-> tx'[r]]
      /\ \A r \in Sessions : r # s => tx'[r] = tx[r]
  BY <1>1, <1>2
<1> USE DEF Is, At, Reports, Advances
<1>6. Sound(s)'
  <2>1. /\ ~HasTask(s)' /\ ~HasLease(s)' /\ ~HasRun(s)' /\ ~Creates(s)' /\ ~Enqueues(s)'
        /\ ~Logged(s)' /\ ~LoggedTwo(s)' /\ ~Numbered(s)' /\ ~NumberedTwo(s)'
    BY <1>4, <1>5 DEF HasTask, HasLease, HasRun, Creates, Enqueues, Logged, LoggedTwo,
                      Numbered, NumberedTwo
  <2>2. Shape(s)'
    <3>1. 1 \in 1..Past[t.kind]
      BY DEF Fresh, Kinds, TaskKinds, Past
    <3> QED
      BY <1>1, <1>2, <1>4, <1>5, <3>1 DEF Shape, Fresh, Typed, Busy
  <2>3. Locked(s)' /\ Wrote(s)' /\ TaskDraft(s)'
    BY <1>2, <1>4, <1>5, <2>1 DEF Locked, Wrote, TaskDraft, Fresh
  <2>4. LeaseDraft(s)' /\ Reads(s)' /\ Presents(s)'
    BY <1>2, <1>4, <1>5 DEF LeaseDraft, Reads, Presents, Fresh
  <2>5. RunDraft(s)'
    <3>1. rows.run.version \in Nat
      BY DEF StoreInv, RowsInv, RunRow
    <3> QED
      BY <1>2, <1>4, <1>5, <3>1 DEF RunDraft, Fresh
  <2>6. Outgoing(s)'
    <3>1. /\ ~Is(s, {"signal"}, 2)' /\ tx'[s].enqueued = 0 /\ tx'[s].signals = {}
          /\ tx'[s].kind = "signal" => tx'[s].sig \in Signals
      BY <1>4, <1>5 DEF Fresh
    <3> QED
      BY <2>1, <3>1 DEF Outgoing
  <2>7. LogDraft(s)'
    <3>1. DOMAIN tx'[s].inserted = {}
      BY <1>4, <1>5
    <3> QED
      BY <2>1, <3>1 DEF LogDraft
  <2> QED
    BY <2>2, <2>3, <2>4, <2>5, <2>6, <2>7 DEF Sound
<1>7. ASSUME NEW r \in Sessions, r # s PROVE Apart(s, r)' /\ Apart(r, s)'
  <2>1. tx'[r] = tx[r] /\ tx[r].at \in 0..now + Skew
    BY <1>5, <1>7, Before
  <2>2. Outlives(s, r)' /\ Outlives(r, s)'
    BY <1>1, <1>4, <1>5, <2>1 DEF Outlives, at
  <2>3. ~HasTask(s)' /\ ~HasLease(s)' /\ ~HasRun(s)' /\ ~Logged(s)'
    BY <1>4, <1>5 DEF HasTask, HasLease, HasRun, Logged
  <2> QED
    BY <1>4, <1>5, <2>2, <2>3 DEF Apart
<1> QED
  BY <1>2, <1>3, <1>5, <1>6, <1>7, TxStep

\* What Open leaves blank.
Blank(t, kind) ==
    /\ IsTx(t) /\ t.kind = kind /\ Typed(t) /\ t.version = 0 /\ t.escalated \in BOOLEAN
    /\ t.locks = {} /\ t.wrote = {} /\ t.inserted = << >> /\ t.signals = {}
    /\ t.enqueued = 0 /\ t.token = 0 /\ t.escalated = FALSE /\ t.at = 0

\* Open leaves everything but the kind blank.
LEMMA Opened == \A kind \in Kinds : Blank(Open(kind), kind)
<1> USE DEF Open, NoTx
<1>1. /\ NoRows.run \in RunRow /\ NoRows.task \in TaskRow /\ NoRows.lease \in LeaseRow
      /\ NoTask \in TaskRow /\ DOMAIN NoRows = {"run", "task", "lease"}
  BY DEF RunRow, TaskRow, RowStatus, LeaseRow, NoRows, NoTask
<1> QED
  BY <1>1 DEF Blank, IsTx, Fields, Typed

\* Every caller begins with what Fresh allows.
LEMMA CallersStep ==
    ASSUME StoreInv, NEW s \in Sessions,
           \/ ClaimTask(s) \/ Report(s) \/ Heartbeat(s) \/ Reclaim(s)
           \/ Advance(s) \/ DeliverSignal(s)
    PROVE  StoreInv'
<1>1. /\ \A token \in claimed : token \in Nat /\ token \in 1..rows.lease.token
      /\ claimed # {} => rows.task.status # "NONE"
      /\ now \in Nat /\ Skew \in Nat /\ 0 \in 0..now + Skew
  BY StoreAssumption DEF StoreInv, RowsInv, LeaseRow, Counted
<1>8. /\ Blank(Open("claim"), "claim") /\ Blank(Open("complete"), "complete")
      /\ Blank(Open("fail"), "fail") /\ Blank(Open("heartbeat"), "heartbeat")
      /\ Blank(Open("reclaim"), "reclaim") /\ Blank(Open("signal"), "signal")
      /\ \A kind \in Advances : Blank(Open(kind), kind)
  BY Opened DEF Kinds, TaskKinds, Advances
<1> USE DEF Kinds, TaskKinds, Reports, Advances
<1>2. CASE ClaimTask(s)
  <2> DEFINE t == Open("claim")
  <2>0. Blank(t, "claim")
    BY <1>8
  <2>1. Begin(s, t) /\ rows.task.status # "NONE" /\ claimed' = claimed
    BY <1>2 DEF ClaimTask
  <2> HIDE DEF t
  <2>2. Fresh(t)
    BY <1>1, <2>0, <2>1 DEF Fresh, Blank
  <2> QED
    BY <2>0, <2>1, <2>2, BeginStep DEF Blank
<1>3. CASE Reclaim(s)
  <2>1. PICK at \in now..now + Skew : Begin(s, [Open("reclaim") EXCEPT !.at = at])
    BY <1>3 DEF Reclaim
  <2> DEFINE t == [Open("reclaim") EXCEPT !.at = at]
  <2>2. Fresh(t) /\ t.kind = "reclaim"
    <3>1. rows.task.status # "NONE" /\ at \in 0..now + Skew
      BY <1>1, <1>3, <2>1 DEF Reclaim
    <3> QED
      BY <1>8, <3>1 DEF Fresh, Blank, IsTx, Fields, Typed
  <2>3. Begin(s, t) /\ claimed' = claimed
    BY <1>3, <2>1 DEF Reclaim
  <2> HIDE DEF t
  <2> QED
    BY <2>2, <2>3, BeginStep
<1>4. CASE Heartbeat(s)
  <2>1. PICK token \in claimed : Begin(s, [Open("heartbeat") EXCEPT !.token = token])
    BY <1>4 DEF Heartbeat
  <2> DEFINE t == [Open("heartbeat") EXCEPT !.token = token]
  <2>2. Fresh(t) /\ t.kind = "heartbeat"
    BY <1>1, <2>1, <1>8 DEF Fresh, Blank, IsTx, Fields, Typed
  <2>3. Begin(s, t) /\ claimed' = claimed
    BY <1>4, <2>1 DEF Heartbeat
  <2> HIDE DEF t
  <2> QED
    BY <2>2, <2>3, BeginStep
<1>5. CASE Report(s)
  <2>1. PICK token \in claimed :
            /\ claimed' = claimed \ {token}
            /\ \/ Begin(s, [Open("complete") EXCEPT !.token = token])
               \/ \E escalated \in BOOLEAN :
                     Begin(s, [Open("fail") EXCEPT !.token = token, !.escalated = escalated])
    BY <1>5 DEF Report
  <2>2. CASE Begin(s, [Open("complete") EXCEPT !.token = token])
    <3> DEFINE t == [Open("complete") EXCEPT !.token = token]
    <3>1. Fresh(t) /\ t.token = token
      BY <1>1, <2>1, <1>8 DEF Fresh, Blank, IsTx, Fields, Typed
    <3>2. Begin(s, t)
      BY <2>2
    <3> HIDE DEF t
    <3> QED
      BY <2>1, <3>1, <3>2, BeginStep
  <2>3. CASE \E escalated \in BOOLEAN :
                 Begin(s, [Open("fail") EXCEPT !.token = token, !.escalated = escalated])
    <3>1. PICK escalated \in BOOLEAN :
                 Begin(s, [Open("fail") EXCEPT !.token = token, !.escalated = escalated])
      BY <2>3
    <3> DEFINE t == [Open("fail") EXCEPT !.token = token, !.escalated = escalated]
    <3>2. Fresh(t) /\ t.token = token
      <4> DEFINE o == Open("fail")
      <4>1. Blank(o, "fail") /\ token \in Nat /\ token \in 1..rows.lease.token
            /\ rows.task.status # "NONE"
        BY <1>1, <2>1, <1>8
      <4> HIDE DEF o
      <4>2. /\ DOMAIN t = Fields /\ t.kind = "fail" /\ t.token = token /\ t.escalated = escalated
            /\ t.draft = o.draft /\ t.seen = o.seen /\ t.seq = o.seq /\ t.version = o.version
            /\ t.locks = o.locks /\ t.wrote = o.wrote /\ t.inserted = o.inserted
            /\ t.signals = o.signals /\ t.enqueued = o.enqueued /\ t.at = o.at
        BY <4>1 DEF Blank, IsTx, Fields, o
      <4> HIDE DEF t
      <4> QED
        BY <1>1, <3>1, <4>1, <4>2 DEF Fresh, Blank, IsTx, Typed
    <3>3. Begin(s, t)
      BY <3>1
    <3> HIDE DEF t
    <3> QED
      BY <2>1, <3>2, <3>3, BeginStep
  <2> QED
    BY <2>1, <2>2, <2>3
<1>6. CASE Advance(s)
  <2>1. PICK kind \in {"dispatch", "park", "finish"} :
            /\ kind = "park" => rows.run.version < MaxVersion
            /\ Begin(s, [Open(kind) EXCEPT !.version = rows.run.version])
    BY <1>6 DEF Advance
  <2> DEFINE t == [Open(kind) EXCEPT !.version = rows.run.version]
  <2>2. rows.run.version \in Nat /\ rows.run.status = "RUNNING" /\ claimed' = claimed
    BY <1>6 DEF Advance, StoreInv, RowsInv, RunRow
  <2>3. Fresh(t) /\ t.kind = kind
    <3>1. Blank(Open(kind), kind)
      BY <2>1, <1>8
    <3> QED
      BY <1>1, <2>1, <2>2, <3>1 DEF Fresh, Blank, IsTx, Fields, Typed
  <2>4. Begin(s, t)
    BY <2>1
  <2> HIDE DEF t
  <2> QED
    BY <2>2, <2>3, <2>4, BeginStep
<1>7. CASE DeliverSignal(s)
  <2>1. PICK sig \in Signals : Begin(s, [Open("signal") EXCEPT !.sig = sig])
    BY <1>7 DEF DeliverSignal
  <2> DEFINE t == [Open("signal") EXCEPT !.sig = sig]
  <2>2. Fresh(t) /\ t.kind = "signal"
    BY <1>1, <2>1, <1>8 DEF Fresh, Blank, IsTx, Fields, Typed
  <2>3. Begin(s, t) /\ claimed' = claimed
    BY <1>7, <2>1 DEF DeliverSignal
  <2> HIDE DEF t
  <2> QED
    BY <2>2, <2>3, BeginStep
<1> QED
  BY <1>2, <1>3, <1>4, <1>5, <1>6, <1>7

\* The clock only moves away from the instants that were read.
LEMMA ClockStep ==
    ASSUME StoreInv, ClockTicks
    PROVE  StoreInv'
<1>1. /\ now \in Nat /\ now' \in Nat /\ now <= now' /\ now' <= MaxNow
      /\ rows.lease \in LeaseRow /\ MaxNow \in Nat /\ Skew \in Nat
      /\ UNCHANGED <<rows, events, outbox, signals, tx, claimed>>
  BY StoreAssumption DEF StoreInv, RowsInv, ClockTicks
<1>2. \A r \in Sessions : Sound(r)'
  BY <1>1, Untouched DEF StoreInv
<1>3. \A r \in Sessions, q \in Sessions : r # q => Apart(r, q)'
  BY <1>1, UntouchedPair DEF StoreInv
<1>4. RowsInv' /\ Counted' /\ Unowned'
  BY <1>1 DEF StoreInv, RowsInv, Counted, Unowned, LeaseRow
<1>5. Refused'
  BY DEF ClockTicks, Refused, LeaseHeldIsSkew, Nothing
<1> QED
  BY <1>1, <1>2, <1>3, <1>4, <1>5 DEF StoreInv

(***************************************************************************)
(* What a commit makes of the committed rows, kind by kind.                *)
(***************************************************************************)

Ev(s, n) == [type |-> EventTypes(s)[n], token |-> tx[s].token]

\* Appending to the log is what inserting the next number does.
LEMMA AppendIs ==
    ASSUME NEW S, NEW q \in Seq(S), NEW e \in S
    PROVE  [k \in 1..Len(q) + 1 |-> IF k \in 1..Len(q) THEN q[k] ELSE e] = Append(q, e)
<1> DEFINE f == [k \in 1..Len(q) + 1 |-> IF k \in 1..Len(q) THEN q[k] ELSE e]
<1>1. f \in Seq(S) /\ Len(f) = Len(q) + 1
  OBVIOUS
<1>2. Append(q, e) \in Seq(S) /\ Len(Append(q, e)) = Len(q) + 1
  OBVIOUS
<1>3. \A k \in 1..Len(f) : f[k] = Append(q, e)[k]
  OBVIOUS
<1> QED
  BY <1>1, <1>2, <1>3, SeqEqual

\* The log after a commit.
LEMMA LogGrows ==
    ASSUME StoreInv, NEW s \in Sessions, Commit(s)
    PROVE  /\ ~Logged(s) => events' = events
           /\ Logged(s) => Ev(s, 1) \in Event
           /\ LoggedTwo(s) => Ev(s, 2) \in Event
           /\ Logged(s) /\ ~LoggedTwo(s) => events' = Append(events, Ev(s, 1))
           /\ LoggedTwo(s) => events' = Append(Append(events, Ev(s, 1)), Ev(s, 2))
<1> DEFINE n == Len(events)
           ins == tx[s].inserted
           after == [k \in DOMAIN events \cup DOMAIN ins |->
                        IF k \in DOMAIN events THEN events[k] ELSE ins[k]]
<1>1. events' = after
  BY DEF Commit
<1>2. events \in Seq(Event) /\ n \in Nat /\ DOMAIN events = 1..n
  BY DEF StoreInv, RowsInv
<1>3. LogDraft(s) /\ tx[s].token \in Nat
  BY Before DEF Sound, Typed
<1>4. LoggedTwo(s) => Logged(s)
  BY Before DEF Shape, LoggedTwo, Logged, Is, Reports
<1>5. /\ Logged(s) => EventTypes(s)[1] \in EventNames
      /\ LoggedTwo(s) => EventTypes(s)[2] \in EventNames
  <2> DEFINE next == IF Retries(s) THEN "TASK_RETRY_SCHEDULED" ELSE "TASK_DEAD_LETTERED"
  <2>1. next \in EventNames
    BY DEF EventNames
  <2>2. /\ tx[s].kind = "claim" => EventTypes(s) = <<"TASK_CLAIMED">>
        /\ tx[s].kind = "complete" => EventTypes(s) = <<"TASK_COMPLETED">>
        /\ tx[s].kind = "fail" => EventTypes(s) = <<"TASK_FAILED", next>>
        /\ tx[s].kind = "reclaim" => EventTypes(s) = <<"LEASE_EXPIRED", next>>
        /\ tx[s].kind = "dispatch" => EventTypes(s) = <<"TASK_CREATED">>
        /\ tx[s].kind = "park" => EventTypes(s) = <<"SIGNAL_WAIT_STARTED">>
        /\ tx[s].kind = "finish" => EventTypes(s) = <<"RUN_COMPLETED">>
    BY DEF EventTypes
  <2> HIDE DEF next
  <2> QED
    BY <2>1, <2>2 DEF EventNames, LoggedTwo, Logged, Is, Reports
<1>6. /\ Logged(s) => Ev(s, 1) \in Event
      /\ LoggedTwo(s) => Ev(s, 2) \in Event
  BY <1>3, <1>5 DEF Ev, Event
<1>7. CASE ~Logged(s)
  <2>1. after = [k \in 1..n |-> events[k]]
    BY <1>2, <1>3, <1>4, <1>7 DEF LogDraft
  <2> QED
    BY <1>1, <1>2, <1>4, <1>7, <2>1
<1>8. CASE Logged(s) /\ ~LoggedTwo(s)
  <2> HIDE DEF n
  <2>1. DOMAIN ins = {n + 1} /\ ins[n + 1] = Ev(s, 1)
    BY <1>3, <1>8 DEF LogDraft, Ev, n
  <2>2. after = [k \in 1..n + 1 |-> IF k \in 1..n THEN events[k] ELSE Ev(s, 1)]
    <3>1. (1..n) \cup {n + 1} = 1..n + 1
      BY <1>2 DEF n
    <3>2. \A k \in 1..n + 1 : k \in 1..n \/ k = n + 1
      BY <1>2 DEF n
    <3> QED
      BY <1>2, <2>1, <3>1, <3>2
  <2> QED
    BY <1>1, <1>2, <1>6, <1>8, <2>2, AppendIs DEF n
<1>9. CASE LoggedTwo(s)
  <2> DEFINE one == Append(events, Ev(s, 1))
  <2>1. one \in Seq(Event) /\ Len(one) = n + 1
        /\ \A k \in 1..n + 1 : one[k] = IF k \in 1..n THEN events[k] ELSE Ev(s, 1)
    BY <1>2, <1>4, <1>6, <1>9
  <2>2. DOMAIN ins = {n + 1, n + 2} /\ ins[n + 1] = Ev(s, 1) /\ ins[n + 2] = Ev(s, 2)
    BY <1>3, <1>4, <1>9 DEF LogDraft, Ev
  <2> HIDE DEF n, one
  <2>3. after = [k \in 1..Len(one) + 1 |-> IF k \in 1..Len(one) THEN one[k] ELSE Ev(s, 2)]
    <3>1. (1..n) \cup {n + 1, n + 2} = 1..Len(one) + 1
      BY <1>2, <2>1 DEF n
    <3>2. \A k \in 1..Len(one) + 1 :
             \/ k \in 1..n /\ k \in 1..Len(one)
             \/ k = n + 1 /\ k \in 1..Len(one) /\ k \notin 1..n
             \/ k = n + 2 /\ k \notin 1..Len(one) /\ k \notin 1..n
      BY <1>2, <2>1 DEF n
    <3>3. \A k \in 1..n : k \in 1..n + 1
      BY <1>2 DEF n
    <3> QED
      BY <1>2, <2>1, <2>2, <3>1, <3>2, <3>3
  <2>4. after = Append(one, Ev(s, 2))
    BY <1>6, <1>9, <2>1, <2>3, AppendIs
  <2> QED
    BY <1>1, <1>4, <1>6, <1>9, <2>4 DEF one
<1> QED
  BY <1>4, <1>6, <1>7, <1>8, <1>9

Log1(s) == events' = Append(events, Ev(s, 1))
Log2(s) == events' = Append(Append(events, Ev(s, 1)), Ev(s, 2))

\* The row a task gets from the transition of s.
TaskTo(s, attempt) == rows'.task = [status |-> To(s), attempt |-> attempt]

CommitsClaim(s) ==
    /\ tx[s].kind = "claim" /\ rows.task.status = "PENDING"
    /\ rows'.task = [status |-> "RUNNING", attempt |-> rows.task.attempt + 1]
    /\ tx[s].token = rows.lease.token + 1 /\ rows'.lease.token = tx[s].token
    /\ rows'.lease.expires - LeaseTTL \in rows.lease.expires..now + Skew
    /\ rows'.lease.expires = tx[s].draft.lease.expires
    /\ rows'.run = rows.run /\ outbox' = outbox /\ signals' = signals /\ Log1(s)

CommitsReport(s) ==
    /\ tx[s].kind \in Reports /\ rows.task.status = "RUNNING"
    /\ TaskTo(s, rows.task.attempt) /\ rows.task.attempt = tx[s].seen.attempt
    /\ tx[s].token = rows.lease.token /\ rows'.lease.token = tx[s].token
    /\ rows'.lease.expires <= now + Skew
    /\ rows'.run = rows.run /\ signals' = signals
    /\ outbox' = outbox + (IF To(s) = "PENDING" THEN 1 ELSE 0)
    /\ IF tx[s].kind = "fail" THEN Log2(s) ELSE Log1(s)

CommitsHeartbeat(s) ==
    /\ tx[s].kind = "heartbeat" /\ rows.task.status = "RUNNING" /\ rows'.task = rows.task
    /\ tx[s].token = rows.lease.token /\ rows'.lease.token = tx[s].token
    /\ rows'.lease.expires - LeaseTTL \in 0..now + Skew
    /\ rows'.lease.expires = tx[s].draft.lease.expires
    /\ rows'.run = rows.run /\ outbox' = outbox /\ signals' = signals /\ events' = events

CommitsReclaim(s) ==
    /\ tx[s].kind = "reclaim" /\ rows.task.status = "RUNNING"
    /\ TaskTo(s, rows.task.attempt) /\ rows.task.attempt = tx[s].seen.attempt
    /\ tx[s].token = rows.lease.token + 1 /\ rows'.lease.token = tx[s].token
    /\ rows.lease.expires <= tx[s].at /\ rows'.lease.expires = tx[s].at
    /\ rows'.run = rows.run /\ signals' = signals
    /\ outbox' = outbox + (IF To(s) = "PENDING" THEN 1 ELSE 0)
    /\ Log2(s)

CommitsAdvance(s) ==
    /\ tx[s].kind \in Advances /\ rows.run.status = "RUNNING"
    /\ tx[s].version = rows.run.version
    /\ tx[s].kind = "park" => tx[s].version < MaxVersion
    /\ rows'.run = [status  |-> IF tx[s].kind = "finish" THEN "COMPLETED" ELSE "RUNNING",
                    version |-> rows.run.version + 1, parked |-> tx[s].kind = "park"]
    /\ IF tx[s].kind = "dispatch"
       THEN /\ rows.task.status = "NONE"
            /\ rows'.task = [status |-> "PENDING", attempt |-> 0] /\ outbox' = outbox + 1
       ELSE rows'.task = rows.task /\ outbox' = outbox
    /\ rows'.lease = rows.lease /\ signals' = signals /\ Log1(s) /\ tx[s].token = 0

CommitsSignal(s) ==
    /\ tx[s].kind = "signal" /\ rows'.run = [rows.run EXCEPT !.parked = FALSE]
    /\ rows'.task = rows.task /\ rows'.lease = rows.lease /\ outbox' = outbox
    /\ tx[s].sig \in Signals \ signals /\ signals' = signals \cup {tx[s].sig}
    /\ events' = events

\* Every commit is one of these.
LEMMA Commits ==
    ASSUME StoreInv, NEW s \in Sessions, Commit(s)
    PROVE  /\ rows' = [run |-> rows'.run, task |-> rows'.task, lease |-> rows'.lease]
           /\ rows'.run \in RunRow /\ rows'.task \in TaskRow /\ rows'.lease \in LeaseRow
           /\ \/ CommitsClaim(s) \/ CommitsReport(s) \/ CommitsHeartbeat(s)
              \/ CommitsReclaim(s) \/ CommitsAdvance(s) \/ CommitsSignal(s)
<1>1. /\ rows' = View(s) /\ outbox' = outbox + tx[s].enqueued
      /\ signals' = signals \cup tx[s].signals
      /\ AtEnd(s)
  BY DEF Commit
<1>2. tx[s].kind \in Kinds /\ tx[s].pc = Past[tx[s].kind]
  BY <1>1, Before, Places
<1>3. /\ rows' = [run |-> rows'.run, task |-> rows'.task, lease |-> rows'.lease]
      /\ rows'.run \in RunRow /\ rows'.task \in TaskRow /\ rows'.lease \in LeaseRow
  BY <1>1, Sees DEF View
<1>4. /\ rows'.task = IF HasTask(s) \/ Creates(s) THEN tx[s].draft.task ELSE rows.task
      /\ rows'.lease = IF HasLease(s) THEN tx[s].draft.lease ELSE rows.lease
      /\ rows'.run = IF HasRun(s) THEN tx[s].draft.run ELSE rows.run
  BY <1>1, Sees
<1>5. /\ TaskDraft(s) /\ LeaseDraft(s) /\ Reads(s) /\ Presents(s) /\ RunDraft(s) /\ Outgoing(s)
      /\ outbox \in Nat /\ now \in Nat
  BY Before DEF Sound, StoreInv, RowsInv
<1> USE DEF Is, Reports, Advances
<1>6. CASE tx[s].kind = "claim"
  <2>1. tx[s].pc = 7 /\ HasTask(s) /\ HasLease(s) /\ ~HasRun(s) /\ ~Enqueues(s)
        /\ Logged(s) /\ ~LoggedTwo(s)
    BY <1>2, <1>6 DEF Past, HasTask, HasLease, HasRun, Enqueues, Logged, LoggedTwo
  <2>2. Log1(s)
    BY <2>1, LogGrows DEF Log1
  <2>3. outbox' = outbox /\ signals' = signals
    BY <1>1, <1>5, <1>6, <2>1 DEF Outgoing
  <2>4. rows.task.status = "PENDING" /\ rows'.run = rows.run
        /\ rows'.task = [status |-> "RUNNING", attempt |-> rows.task.attempt + 1]
    BY <1>4, <1>5, <1>6, <2>1 DEF TaskDraft, From, To
  <2>5. CommitsClaim(s)
    BY <1>4, <1>5, <1>6, <2>1, <2>2, <2>3, <2>4 DEF CommitsClaim, LeaseDraft
  <2> QED
    BY <1>3, <2>5
<1>7. CASE tx[s].kind = "complete"
  <2>1. tx[s].pc = 8 /\ HasTask(s) /\ HasLease(s) /\ ~HasRun(s) /\ ~Enqueues(s)
        /\ Logged(s) /\ ~LoggedTwo(s)
    BY <1>2, <1>7 DEF Past, HasTask, HasLease, HasRun, Enqueues, Logged, LoggedTwo
  <2>2. Log1(s)
    BY <2>1, LogGrows DEF Log1
  <2>3. outbox' = outbox + 0 /\ signals' = signals
    BY <1>1, <1>5, <1>7, <2>1 DEF Outgoing
  <2>4. rows.task.status = "RUNNING" /\ rows'.run = rows.run /\ To(s) = "COMPLETED"
        /\ rows'.task = [status |-> To(s), attempt |-> rows.task.attempt + 0]
    BY <1>4, <1>5, <1>7, <2>1 DEF TaskDraft, From, To
  <2>5. rows.task.attempt + 0 = rows.task.attempt
    BY DEF StoreInv, RowsInv, TaskRow
  <2>6. CommitsReport(s)
    BY <1>4, <1>5, <1>7, <2>1, <2>2, <2>3, <2>4, <2>5
    DEF CommitsReport, LeaseDraft, Reads, TaskTo
  <2> QED
    BY <1>3, <2>6
<1>8. CASE tx[s].kind = "fail"
  <2>1. tx[s].pc = 11 /\ HasTask(s) /\ HasLease(s) /\ ~HasRun(s) /\ Enqueues(s)
        /\ LoggedTwo(s)
    BY <1>2, <1>8 DEF Past, HasTask, HasLease, HasRun, Enqueues, LoggedTwo
  <2>2. Log2(s)
    BY <2>1, LogGrows DEF Log2
  <2>3. rows.task.status = "RUNNING" /\ rows'.run = rows.run /\ tx[s].draft.task.status = To(s)
        /\ rows'.task = [status |-> To(s), attempt |-> rows.task.attempt + 0]
    BY <1>4, <1>5, <1>8, <2>1 DEF TaskDraft, From
  <2>4. outbox' = outbox + (IF To(s) = "PENDING" THEN 1 ELSE 0) /\ signals' = signals
    BY <1>1, <1>5, <1>8, <2>1, <2>3 DEF Outgoing
  <2>5. rows.task.attempt + 0 = rows.task.attempt
    BY DEF StoreInv, RowsInv, TaskRow
  <2>6. CommitsReport(s)
    BY <1>4, <1>5, <1>8, <2>1, <2>2, <2>3, <2>4, <2>5
    DEF CommitsReport, LeaseDraft, Reads, TaskTo
  <2> QED
    BY <1>3, <2>6
<1>9. CASE tx[s].kind = "heartbeat"
  <2>1. tx[s].pc = 2 /\ ~HasTask(s) /\ ~Creates(s) /\ HasLease(s) /\ ~HasRun(s) /\ ~Enqueues(s)
        /\ ~Logged(s)
    BY <1>2, <1>9 DEF Past, HasTask, HasLease, HasRun, Enqueues, Logged, Creates
  <2>2. events' = events
    BY <2>1, LogGrows
  <2>3. outbox' = outbox /\ signals' = signals
    BY <1>1, <1>5, <1>9, <2>1 DEF Outgoing
  <2>4. CommitsHeartbeat(s)
    BY <1>4, <1>5, <1>9, <2>1, <2>2, <2>3 DEF CommitsHeartbeat, LeaseDraft
  <2> QED
    BY <1>3, <2>4
<1>10. CASE tx[s].kind = "reclaim"
  <2>1. tx[s].pc = 11 /\ HasTask(s) /\ HasLease(s) /\ ~HasRun(s) /\ Enqueues(s)
        /\ LoggedTwo(s)
    BY <1>2, <1>10 DEF Past, HasTask, HasLease, HasRun, Enqueues, LoggedTwo
  <2>2. Log2(s)
    BY <2>1, LogGrows DEF Log2
  <2>3. rows.task.status = "RUNNING" /\ rows'.run = rows.run /\ tx[s].draft.task.status = To(s)
        /\ rows'.task = [status |-> To(s), attempt |-> rows.task.attempt + 0]
    BY <1>4, <1>5, <1>10, <2>1 DEF TaskDraft, From
  <2>4. outbox' = outbox + (IF To(s) = "PENDING" THEN 1 ELSE 0) /\ signals' = signals
    BY <1>1, <1>5, <1>10, <2>1, <2>3 DEF Outgoing
  <2>5. rows.task.attempt + 0 = rows.task.attempt /\ tx[s].at + 0 = tx[s].at
    BY Before DEF StoreInv, RowsInv, TaskRow
  <2>6. CommitsReclaim(s)
    BY <1>4, <1>5, <1>10, <2>1, <2>2, <2>3, <2>4, <2>5
    DEF CommitsReclaim, LeaseDraft, Reads, TaskTo
  <2> QED
    BY <1>3, <2>6
<1>11. CASE tx[s].kind \in Advances
  <2>1. /\ tx[s].pc >= 2 /\ ~HasTask(s) /\ ~HasLease(s) /\ HasRun(s) /\ Logged(s) /\ ~LoggedTwo(s)
        /\ Creates(s) <=> tx[s].kind = "dispatch"
        /\ Enqueues(s) <=> tx[s].kind = "dispatch"
    BY <1>2, <1>11 DEF Past, HasTask, HasLease, HasRun, Creates, Enqueues, Logged, LoggedTwo
  <2>2. Log1(s)
    BY <2>1, LogGrows DEF Log1
  <2>3. signals' = signals /\ outbox' = outbox + (IF tx[s].kind = "dispatch" THEN 1 ELSE 0)
    BY <1>1, <1>5, <1>11, <2>1 DEF Outgoing, TaskDraft
  <2>4. outbox' = IF tx[s].kind = "dispatch" THEN outbox + 1 ELSE outbox
    BY <1>5, <2>3
  <2>5. CommitsAdvance(s)
    BY <1>4, <1>5, <1>11, <2>1, <2>2, <2>3, <2>4
    DEF CommitsAdvance, RunDraft, TaskDraft, Presents
  <2> QED
    BY <1>3, <2>5
<1>12. CASE tx[s].kind = "signal"
  <2>1. tx[s].pc = 4 /\ ~HasTask(s) /\ ~HasLease(s) /\ HasRun(s) /\ ~Creates(s) /\ ~Enqueues(s)
        /\ ~Logged(s)
    BY <1>2, <1>12 DEF Past, HasTask, HasLease, HasRun, Creates, Enqueues, Logged
  <2>2. events' = events
    BY <2>1, LogGrows
  <2>3. /\ outbox' = outbox /\ tx[s].signals = {tx[s].sig} /\ tx[s].sig \in Signals
        /\ tx[s].signals \cap signals = {}
    BY <1>1, <1>5, <1>12, <2>1 DEF Outgoing
  <2>4. CommitsSignal(s)
    BY <1>1, <1>4, <1>5, <1>12, <2>1, <2>2, <2>3 DEF CommitsSignal, RunDraft
  <2> QED
    BY <1>3, <2>4
<1> QED
  BY <1>2, <1>6, <1>7, <1>8, <1>9, <1>10, <1>11, <1>12 DEF Kinds, TaskKinds

(***************************************************************************)
(* What a commit leaves to the transactions of the others.                 *)
(***************************************************************************)

\* A report or a reclaim ends the attempt, with a retry only within the budget.
LEMMA Outcome ==
    ASSUME NEW s \in Sessions, tx[s].kind \in Reports \cup {"reclaim"}
    PROVE  /\ To(s) \in {"COMPLETED", "PENDING", "DEAD_LETTER"}
           /\ To(s) = "PENDING" => tx[s].seen.attempt < MaxAttempts
BY DEF To, Retries, Reports

\* The committed counters only grow, and the transaction is over.
LEMMA CommitGrows ==
    ASSUME StoreInv, NEW s \in Sessions, Commit(s)
    PROVE  /\ tx' = [r \in Sessions |-> tx'[r]] /\ tx'[s] = NoTx
           /\ \A r \in Sessions : r # s => tx'[r] = tx[r]
           /\ last' = Nothing /\ now' = now /\ now \in Nat
           /\ rows.lease.token \in Nat /\ rows'.lease.token \in Nat
           /\ rows.lease.token <= rows'.lease.token
           /\ rows.run.version <= rows'.run.version
           /\ rows'.run.version = rows.run.version => rows'.run.status = rows.run.status
           /\ claimed' \subseteq claimed \cup {rows.lease.token + 1}
           /\ ~CommitsClaim(s) => claimed' = claimed
           /\ events \in Seq(Event) /\ events' \in Seq(Event) /\ Len(events) <= Len(events')
<1>1. tx = [r \in Sessions |-> tx[r]] /\ now \in Nat /\ RowsInv
  BY StoreAssumption DEF StoreInv, RowsInv
<1>2. /\ tx' = [r \in Sessions |-> tx'[r]] /\ tx'[s] = NoTx
      /\ \A r \in Sessions : r # s => tx'[r] = tx[r]
      /\ last' = Nothing /\ now' = now
  BY <1>1 DEF Commit, End
<1>3. /\ rows'.lease \in LeaseRow /\ rows'.run \in RunRow
      /\ \/ CommitsClaim(s) \/ CommitsReport(s) \/ CommitsHeartbeat(s)
         \/ CommitsReclaim(s) \/ CommitsAdvance(s) \/ CommitsSignal(s)
  BY Commits
<1>4. /\ rows.lease.token \in Nat /\ rows.run.version \in Nat /\ rows'.lease.token \in Nat
      /\ rows.run = [status |-> rows.run.status, version |-> rows.run.version,
                     parked |-> rows.run.parked]
  BY <1>1, <1>3 DEF RowsInv, LeaseRow, RunRow
<1>5. rows.lease.token <= rows'.lease.token
  BY <1>3, <1>4 DEF CommitsClaim, CommitsReport, CommitsHeartbeat, CommitsReclaim, CommitsAdvance,
                    CommitsSignal
<1>6. /\ rows.run.version <= rows'.run.version
      /\ rows'.run.version = rows.run.version => rows'.run.status = rows.run.status
  BY <1>3, <1>4 DEF CommitsClaim, CommitsReport, CommitsHeartbeat, CommitsReclaim, CommitsAdvance,
                    CommitsSignal
<1>7. tx[s].kind = "claim" => CommitsClaim(s)
  BY <1>3 DEF CommitsReport, CommitsHeartbeat, CommitsReclaim, CommitsAdvance, CommitsSignal,
              Reports, Advances
<1>8. /\ claimed' \subseteq claimed \cup {rows.lease.token + 1}
      /\ ~CommitsClaim(s) => claimed' = claimed
  BY <1>7 DEF Commit, CommitsClaim
<1>9. events \in Seq(Event) /\ events' \in Seq(Event) /\ Len(events) <= Len(events')
  <2>1. events \in Seq(Event)
    BY <1>1 DEF RowsInv
  <2>2. Logged(s) \/ ~Logged(s)
    OBVIOUS
  <2>3. CASE ~Logged(s)
    BY <2>1, <2>3, LogGrows
  <2>4. CASE Logged(s) /\ ~LoggedTwo(s)
    BY <2>1, <2>4, LogGrows
  <2>5. CASE LoggedTwo(s)
    <3>1. Ev(s, 1) \in Event /\ Ev(s, 2) \in Event
      BY <2>5, LogGrows, Before DEF Shape, LoggedTwo, Logged, Is, Reports
    <3>2. events' = Append(Append(events, Ev(s, 1)), Ev(s, 2))
      BY <2>5, LogGrows
    <3> DEFINE one == Append(events, Ev(s, 1))
    <3>3. one \in Seq(Event) /\ Len(one) = Len(events) + 1
      BY <2>1, <3>1
    <3> HIDE DEF one
    <3>4. events' \in Seq(Event) /\ Len(events') = Len(one) + 1
      BY <3>1, <3>2, <3>3 DEF one
    <3> QED
      BY <2>1, <3>3, <3>4
  <2> QED
    BY <2>3, <2>4, <2>5
<1> QED
  BY <1>1, <1>2, <1>4, <1>5, <1>6, <1>8, <1>9

\* A commit moves the token on, or ends the attempt, or leaves both alone.
LEMMA CommitMoves ==
    ASSUME StoreInv, NEW s \in Sessions, Commit(s)
    PROVE  \/ CommitsClaim(s) /\ rows'.lease.token = rows.lease.token + 1
           \/ rows'.task.status # "RUNNING"
           \/ CommitsHeartbeat(s) /\ rows'.task = rows.task /\ rows'.lease.token = rows.lease.token
           \/ rows'.task = rows.task /\ rows'.lease = rows.lease
<1>1. \/ CommitsClaim(s) \/ CommitsReport(s) \/ CommitsHeartbeat(s)
      \/ CommitsReclaim(s) \/ CommitsAdvance(s) \/ CommitsSignal(s)
  BY Commits
<1>2. CASE CommitsReport(s) \/ CommitsReclaim(s)
  BY <1>2, Outcome DEF CommitsReport, CommitsReclaim, TaskTo
<1>3. CASE CommitsClaim(s) \/ CommitsHeartbeat(s)
  BY <1>3 DEF CommitsClaim, CommitsHeartbeat
<1>4. CASE CommitsAdvance(s) \/ CommitsSignal(s)
  BY <1>4 DEF CommitsAdvance, CommitsSignal
<1> QED
  BY <1>1, <1>2, <1>3, <1>4

\* A row that somebody else has locked and drafted is not committed to.
LEMMA OthersKeep ==
    ASSUME StoreInv, NEW s \in Sessions, Commit(s), NEW r \in Sessions, r # s
    PROVE  /\ HasTask(r) \/ Creates(r) \/ HasLease(r) => rows'.task = rows.task
           /\ HasLease(r) \/ Is(r, {"claim"}, 3) => rows'.lease = rows.lease
           /\ HasRun(r) => rows'.run = rows.run
           /\ Logged(r) => events' = events
           /\ tx[r].kind \in TaskKinds => rows'.task.status # "NONE"
           /\ tx[r].signals \cap signals' = {}
<1>1. Apart(s, r) /\ TaskDraft(r) /\ Outgoing(r) /\ Shape(r) /\ Shape(s)
  BY DEF StoreInv, Sound
<1>2. tx[s].kind \in Kinds /\ tx[s].pc = Past[tx[s].kind]
  BY <1>1, Places DEF Commit
<1>3. /\ tx[s].kind \in {"claim", "complete", "fail", "reclaim"} => HasTask(s) /\ HasLease(s)
      /\ tx[s].kind = "heartbeat" => HasLease(s)
      /\ tx[s].kind \in Advances \cup {"signal"} => HasRun(s)
  BY <1>2 DEF Past, HasTask, HasLease, HasRun, Is, Reports, Advances
<1>4. /\ Creates(r) => HasRun(r)
      /\ HasTask(r) \/ HasLease(r) => tx[r].kind \in TaskKinds
      /\ Is(r, {"claim"}, 3) => HasTask(r) /\ From(r) = "PENDING"
  BY <1>1 DEF Shape, Creates, HasRun, HasTask, HasLease, Is, TaskKinds, Reports, Advances, From
<1>5. /\ tx[r].kind \in TaskKinds => rows.task.status # "NONE"
      /\ Creates(r) => rows.task.status = "NONE"
      /\ Is(r, {"claim"}, 3) => rows.task.status = "PENDING"
  BY <1>1, <1>4 DEF TaskDraft
<1>6. /\ ~(HasTask(s) /\ HasTask(r)) /\ ~(HasLease(s) /\ HasLease(r))
      /\ ~(HasRun(s) /\ HasRun(r)) /\ ~(Logged(s) /\ Logged(r))
      /\ tx[s].signals \cap tx[r].signals = {}
  BY <1>1 DEF Apart
<1>7. Logged(r) => events' = events
  BY <1>6, LogGrows
<1>8. tx[r].signals \cap signals' = {}
  BY <1>1, <1>6 DEF Commit, Outgoing
<1>9. \/ CommitsClaim(s) \/ CommitsReport(s) \/ CommitsHeartbeat(s)
      \/ CommitsReclaim(s) \/ CommitsAdvance(s) \/ CommitsSignal(s)
  BY Commits
<1> HIDE DEF HasTask, HasLease, HasRun, Creates, Is
<1>10. CASE CommitsClaim(s)
  BY <1>3, <1>4, <1>5, <1>6, <1>7, <1>8, <1>10 DEF CommitsClaim
<1>11. CASE CommitsReport(s) \/ CommitsReclaim(s)
  <2>1. /\ HasTask(s) /\ HasLease(s) /\ rows'.run = rows.run /\ rows.task.status = "RUNNING"
        /\ rows'.task.status # "NONE"
    BY <1>3, <1>11, Outcome DEF CommitsReport, CommitsReclaim, TaskTo, Reports
  <2> QED
    BY <1>4, <1>5, <1>6, <1>7, <1>8, <2>1
<1>12. CASE CommitsHeartbeat(s)
  BY <1>3, <1>4, <1>5, <1>6, <1>7, <1>8, <1>12 DEF CommitsHeartbeat
<1>13. CASE CommitsAdvance(s)
  BY <1>3, <1>4, <1>5, <1>6, <1>7, <1>8, <1>13 DEF CommitsAdvance
<1>14. CASE CommitsSignal(s)
  BY <1>3, <1>4, <1>5, <1>6, <1>7, <1>8, <1>14 DEF CommitsSignal
<1> QED
  BY <1>9, <1>10, <1>11, <1>12, <1>13, <1>14

\* So what the others' transactions rely on still holds.
LEMMA OthersSound ==
    ASSUME StoreInv, NEW s \in Sessions, Commit(s), NEW r \in Sessions, r # s
    PROVE  Sound(r)'
<1>1. Sound(r) /\ Shape(r) /\ Outlives(s, r) /\ RowsInv /\ Shape(s)
  BY DEF StoreInv, Sound, Apart
<1>2. tx'[r] = tx[r] /\ now' = now
  BY CommitGrows
<1>3. /\ HasTask(r)' <=> HasTask(r)
      /\ HasLease(r)' <=> HasLease(r)
      /\ HasRun(r)' <=> HasRun(r)
      /\ Creates(r)' <=> Creates(r)
      /\ Logged(r)' <=> Logged(r)
      /\ LoggedTwo(r)' <=> LoggedTwo(r)
      /\ Numbered(r)' <=> Numbered(r)
      /\ NumberedTwo(r)' <=> NumberedTwo(r)
      /\ Enqueues(r)' <=> Enqueues(r)
      /\ From(r)' = From(r) /\ To(r)' = To(r) /\ EventTypes(r)' = EventTypes(r)
  BY <1>2 DEF HasTask, HasLease, HasRun, Creates, Logged, LoggedTwo, Numbered, NumberedTwo,
              Enqueues, Is, At, From, To, Retries, EventTypes
<1>4. (Shape(r) /\ Locked(r) /\ Wrote(r))'
  <2>1. Shape(r)'
    BY <1>1, <1>2 DEF Shape, Busy
  <2>2. Locked(r)'
    BY <1>1, <1>2, <1>3 DEF Sound, Locked, Is
  <2>3. Wrote(r)'
    BY <1>1, <1>2, <1>3 DEF Sound, Wrote
  <2> QED
    BY <2>1, <2>2, <2>3
<1>5. TaskDraft(r)'
  BY <1>1, <1>2, <1>3, OthersKeep DEF Sound, TaskDraft
<1>6. LeaseDraft(r)'
  <2>1. LeaseDraft(r)
    BY <1>1 DEF Sound
  <2>2. /\ Is(r, {"claim"}, 4) \/ Is(r, Reports, 5) \/ Is(r, {"heartbeat"}, 2)
               \/ Is(r, {"reclaim"}, 3)
           => rows'.lease = rows.lease /\ rows'.task = rows.task
        /\ Is(r, {"claim"}, 3) => rows'.lease = rows.lease
        /\ At(r, {"claim"}, 3) => Is(r, {"claim"}, 3)
    BY OthersKeep DEF HasLease, Is, At
  <2>3. /\ \A kinds, n : Is(r, kinds, n)' <=> Is(r, kinds, n)
        /\ \A kinds, n : At(r, kinds, n)' <=> At(r, kinds, n)
    BY <1>2 DEF Is, At
  <2> QED
    BY <1>2, <2>1, <2>2, <2>3 DEF LeaseDraft
<1>7. Presents(r)'
  <2>1. Presents(r) /\ tx[r].token \in Nat
    BY <1>1 DEF Sound, Shape
  <2> QED
    BY <1>2, <2>1, CommitGrows DEF Presents
<1>8. RunDraft(r)'
  <2>1. RunDraft(r) /\ tx[r].version \in Nat /\ rows.run \in RunRow /\ rows'.run \in RunRow
    BY <1>1, Commits DEF Sound, Shape, RowsInv
  <2>2. /\ rows.run.version \in Nat /\ rows'.run.version \in Nat
        /\ rows.run.version <= rows'.run.version
        /\ rows'.run.version = rows.run.version => rows'.run.status = rows.run.status
    BY <2>1, CommitGrows DEF RunRow
  <2>3. Is(r, Advances, 2) \/ Is(r, {"signal"}, 4) => rows'.run = rows.run
    BY OthersKeep DEF HasRun
  <2>4. \A kinds, n : Is(r, kinds, n)' <=> Is(r, kinds, n)
    BY <1>2 DEF Is
  <2>5. tx[r].version <= rows.run.version /\ tx[r].version = rows'.run.version =>
           tx[r].version = rows.run.version
    BY <2>1, <2>2
  <2>6. tx[r].version <= rows.run.version => tx[r].version <= rows'.run.version
    BY <2>1, <2>2
  <2> QED
    BY <1>2, <2>1, <2>2, <2>3, <2>4, <2>5, <2>6 DEF RunDraft
<1>9. LogDraft(r)'
  <2>1. LogDraft(r) /\ tx[r].seq \in Nat /\ Len(events) \in Nat /\ Len(events') \in Nat
        /\ Len(events) <= Len(events')
    BY <1>1, CommitGrows DEF Sound, Shape
  <2>2. Logged(r) \/ LoggedTwo(r) \/ NumberedTwo(r) => events' = events
    BY <1>1, OthersKeep DEF Shape, Logged, LoggedTwo, NumberedTwo, Is, At, Reports
  <2>3. tx[r].seq \in 1..Len(events) + 1 => tx[r].seq \in 1..Len(events') + 1
    BY <2>1
  <2> QED
    BY <1>2, <1>3, <2>1, <2>2, <2>3 DEF LogDraft
<1>10. Outgoing(r)'
  <2>1. Is(r, {"signal"}, 2)' <=> Is(r, {"signal"}, 2)
    BY <1>2 DEF Is
  <2> QED
    BY <1>1, <1>2, <1>3, <2>1, OthersKeep DEF Sound, Outgoing
<1>11. Reads(r)'
  <2>1. Reads(r) /\ Presents(r) /\ tx[r].token \in Nat /\ rows.lease.token \in Nat
    BY <1>1, CommitGrows DEF Sound, Shape
  <2>2. /\ \A kinds, n : Is(r, kinds, n)' <=> Is(r, kinds, n)
        /\ \A kinds, n : At(r, kinds, n)' <=> At(r, kinds, n)
    BY <1>2 DEF Is, At
  <2>3. Is(r, Reports, 2) => tx[r].token # rows.lease.token + 1
    BY <2>1 DEF Presents, Is
  <2>4. Is(r, {"reclaim"}, 3) => rows'.task = rows.task
    BY OthersKeep DEF HasLease
  <2>5. ASSUME At(r, {"reclaim"}, 2), CommitsClaim(s) PROVE rows'.lease.expires > tx[r].at
    <3>1. tx[s].pc = 7 /\ tx[s].kind = "claim"
      BY <1>1, <2>5, Places DEF Commit, CommitsClaim, Past
    <3> QED
      BY <1>1, <2>5, <3>1 DEF Outlives, CommitsClaim, Is
  <2>6. ASSUME At(r, {"reclaim"}, 2), CommitsHeartbeat(s), rows.task.attempt # tx[r].seen.attempt
        PROVE  rows'.lease.expires > tx[r].at
    <3>1. tx[s].pc = 2 /\ tx[s].kind = "heartbeat"
      BY <1>1, <2>6, Places DEF Commit, CommitsHeartbeat, Past
    <3> QED
      BY <1>1, <2>6, <3>1 DEF Outlives, CommitsHeartbeat
  <2>7. CASE CommitsClaim(s) /\ rows'.lease.token = rows.lease.token + 1
    BY <1>2, <2>1, <2>2, <2>3, <2>4, <2>5, <2>7 DEF Reads
  <2>8. CASE rows'.task.status # "RUNNING"
    BY <2>8 DEF Reads
  <2>9. CASE CommitsHeartbeat(s) /\ rows'.task = rows.task /\ rows'.lease.token = rows.lease.token
    BY <1>2, <2>1, <2>2, <2>6, <2>9 DEF Reads
  <2>10. CASE rows'.task = rows.task /\ rows'.lease = rows.lease
    BY <1>2, <2>1, <2>2, <2>10 DEF Reads
  <2> QED
    BY <2>7, <2>8, <2>9, <2>10, CommitMoves
<1> QED
  BY <1>4, <1>5, <1>6, <1>7, <1>8, <1>9, <1>10, <1>11 DEF Sound

\* And two others stay apart.
LEMMA OthersApart ==
    ASSUME StoreInv, NEW s \in Sessions, Commit(s),
           NEW r \in Sessions, r # s, NEW q \in Sessions, q # s, r # q
    PROVE  Apart(r, q)'
<1>1. /\ Apart(r, q) /\ Presents(r) /\ tx[r].token \in Nat
      /\ tx'[r] = tx[r] /\ tx'[q] = tx[q] /\ rows.lease.token \in Nat
  BY CommitGrows DEF StoreInv, Sound, Shape
<1>2. tx[r].kind = "heartbeat" => tx[r].token # rows.lease.token + 1
  BY <1>1 DEF Presents
<1>3. Outlives(r, q)'
  <2>1. Outlives(r, q)
    BY <1>1 DEF Apart
  <2>2. CASE rows'.lease.token = rows.lease.token + 1
    BY <1>1, <1>2, <2>1, <2>2 DEF Outlives, Is, At
  <2>3. CASE rows'.task.status # "RUNNING"
    BY <1>1, <2>1, <2>3 DEF Outlives, Is, At
  <2>4. CASE rows'.task = rows.task /\ rows'.lease.token = rows.lease.token
    BY <1>1, <2>1, <2>4 DEF Outlives, Is, At
  <2> QED
    BY <2>2, <2>3, <2>4, CommitMoves
<1> QED
  BY <1>1, <1>3 DEF Apart, HasTask, HasLease, HasRun, Logged, Is

\* The rows a commit leaves keep the bounds, and nobody owns a task that waits.
LEMMA CommitRows ==
    ASSUME StoreInv, NEW s \in Sessions, Commit(s)
    PROVE  RowsInv' /\ Counted' /\ Unowned'
<1>1. /\ Counted /\ Unowned /\ claimed \subseteq 1..rows.lease.token
      /\ MaxNow \in Nat /\ LeaseTTL \in Nat /\ Skew \in Nat /\ MaxVersion \in Nat /\ MaxAttempts \in Nat
      /\ now \in Nat /\ now <= MaxNow /\ now' = now /\ outbox \in Nat
      /\ rows.task.attempt \in Nat /\ rows.lease.token \in Nat /\ rows.lease.expires \in Nat
      /\ rows.run.version \in Nat /\ rows.lease \in LeaseRow
      /\ signals \subseteq Signals /\ Presents(s) /\ tx[s].at \in 0..now + Skew
  BY StoreAssumption, Before, CommitGrows
  DEF StoreInv, RowsInv, TaskRow, LeaseRow, RunRow, Sound
<1>2. /\ rows' = [run |-> rows'.run, task |-> rows'.task, lease |-> rows'.lease]
      /\ rows'.run \in RunRow /\ rows'.task \in TaskRow /\ rows'.lease \in LeaseRow
      /\ \/ CommitsClaim(s) \/ CommitsReport(s) \/ CommitsHeartbeat(s)
         \/ CommitsReclaim(s) \/ CommitsAdvance(s) \/ CommitsSignal(s)
  BY Commits
<1>3. /\ rows'.lease.token \in Nat /\ rows'.lease.expires \in Nat
      /\ rows.lease.token <= rows'.lease.token
      /\ claimed' \subseteq claimed \cup {rows.lease.token + 1}
      /\ ~CommitsClaim(s) => claimed' = claimed
      /\ events' \in Seq(Event)
  BY <1>2, CommitGrows DEF LeaseRow
<1>4. RowsInv'
  <2>1. outbox' \in Nat /\ signals' \subseteq Signals
    BY <1>1, <1>2 DEF CommitsClaim, CommitsReport, CommitsHeartbeat, CommitsReclaim, CommitsAdvance,
                      CommitsSignal
  <2>2. claimed' \subseteq 1..rows'.lease.token
    <3>1. CASE CommitsClaim(s)
      BY <1>1, <1>3, <3>1 DEF CommitsClaim
    <3>2. CASE ~CommitsClaim(s)
      BY <1>1, <1>3, <3>2
    <3> QED
      BY <3>1, <3>2
  <2> QED
    BY <1>1, <1>2, <1>3, <2>1, <2>2 DEF RowsInv
<1>5. CASE CommitsClaim(s)
  <2>1. /\ rows'.task.status = "RUNNING" /\ rows.task.status = "PENDING"
        /\ rows'.task.attempt = rows.task.attempt + 1
        /\ rows'.lease.token = rows.lease.token + 1 /\ rows'.lease.expires <= now + Skew + LeaseTTL
        /\ rows'.run = rows.run /\ outbox' = outbox
    BY <1>1, <1>3, <1>5 DEF CommitsClaim
  <2>2. Counted'
    <3>1. /\ rows'.task.status # "NONE" /\ (rows'.lease.token = 0 => rows'.lease.expires = 0)
          /\ rows'.task.attempt <= MaxAttempts
          /\ rows'.task.status = "PENDING" => rows'.task.attempt < MaxAttempts
      <4>1. rows.task.attempt < MaxAttempts
        BY <1>1, <2>1 DEF Counted
      <4>2. rows'.lease.token # 0 /\ rows'.task.attempt <= MaxAttempts
        BY <1>1, <2>1, <4>1
      <4> QED
        BY <2>1, <4>2
    <3>2. rows'.lease.token <=
             2 * rows'.task.attempt - (IF rows'.task.status = "RUNNING" THEN 1 ELSE 0)
      <4>1. rows.lease.token <= 2 * rows.task.attempt
        BY <1>1, <2>1 DEF Counted
      <4>2. 2 * (rows.task.attempt + 1) = 2 * rows.task.attempt + 2
        BY <1>1
      <4>3. rows'.lease.token <= 2 * (rows.task.attempt + 1) - 1
        BY <1>1, <2>1, <4>1, <4>2
      <4> QED
        BY <2>1, <4>3
    <3>3. outbox' <= rows'.task.attempt + (IF rows'.task.status = "PENDING" THEN 1 ELSE 0)
      BY <1>1, <1>3, <2>1 DEF Counted
    <3>4. rows'.lease.expires <= MaxNow + Skew + LeaseTTL
      BY <1>1, <1>3, <2>1
    <3>5. rows'.run.version <= MaxVersion + (IF rows'.task.status = "NONE" THEN 0 ELSE 1)
                                          + (IF rows'.run.status = "COMPLETED" THEN 1 ELSE 0)
      BY <1>1, <1>3, <2>1 DEF Counted
    <3> QED
      BY <3>1, <3>2, <3>3, <3>4, <3>5 DEF Counted
  <2>3. Unowned'
    BY <2>1 DEF Unowned
  <2> QED
    BY <1>4, <2>2, <2>3
<1>6. CASE CommitsReport(s) \/ CommitsReclaim(s)
  <2>1. tx[s].kind \in Reports \cup {"reclaim"} /\ ~CommitsClaim(s)
    BY <1>6 DEF CommitsReport, CommitsReclaim, CommitsClaim, Reports
  <2>2. /\ rows'.task.status \in {"COMPLETED", "PENDING", "DEAD_LETTER"}
        /\ rows'.task.attempt = rows.task.attempt
        /\ rows'.task.status = "PENDING" => rows.task.attempt < MaxAttempts
        /\ rows.task.status = "RUNNING" /\ rows'.run = rows.run
        /\ outbox' = outbox + (IF rows'.task.status = "PENDING" THEN 1 ELSE 0)
    BY <1>6, <2>1, Outcome DEF CommitsReport, CommitsReclaim, TaskTo
  <2>3. /\ rows'.lease.expires <= now + Skew
        /\ rows'.lease.token \in {rows.lease.token, rows.lease.token + 1}
        /\ rows'.lease.token \notin claimed /\ rows'.lease.token # 0
    <3>1. CASE CommitsReport(s)
      BY <1>1, <3>1 DEF CommitsReport, Presents
    <3>2. CASE CommitsReclaim(s)
      BY <1>1, <3>2 DEF CommitsReclaim
    <3> QED
      BY <1>6, <3>1, <3>2
  <2>4. Counted'
    <3>1. /\ rows'.task.status # "NONE" /\ (rows'.lease.token = 0 => rows'.lease.expires = 0)
          /\ rows'.task.attempt <= MaxAttempts
          /\ rows'.task.status = "PENDING" => rows'.task.attempt < MaxAttempts
      BY <1>1, <1>3, <2>2, <2>3 DEF Counted
    <3>2. rows'.lease.token <=
             2 * rows'.task.attempt - (IF rows'.task.status = "RUNNING" THEN 1 ELSE 0)
      <4>1. rows.lease.token <= 2 * rows.task.attempt - 1
        BY <1>1, <2>2 DEF Counted
      <4>2. rows'.lease.token <= 2 * rows.task.attempt
        BY <1>1, <2>3, <4>1
      <4>3. rows'.task.status # "RUNNING"
        BY <2>2
      <4> QED
        BY <1>1, <2>2, <4>2, <4>3
    <3>3. outbox' <= rows'.task.attempt + (IF rows'.task.status = "PENDING" THEN 1 ELSE 0)
      <4>1. outbox <= rows.task.attempt
        BY <1>1, <2>2 DEF Counted
      <4>2. CASE rows'.task.status = "PENDING"
        BY <1>1, <2>2, <4>1, <4>2
      <4>3. CASE rows'.task.status # "PENDING"
        BY <1>1, <2>2, <4>1, <4>3
      <4> QED
        BY <4>2, <4>3
    <3>4. rows'.lease.expires <= MaxNow + Skew + LeaseTTL
      BY <1>1, <1>3, <2>2, <2>3
    <3>5. rows'.run.version <= MaxVersion + (IF rows'.task.status = "NONE" THEN 0 ELSE 1)
                                          + (IF rows'.run.status = "COMPLETED" THEN 1 ELSE 0)
      BY <1>1, <1>3, <2>2, <2>3 DEF Counted
    <3> QED
      BY <3>1, <3>2, <3>3, <3>4, <3>5 DEF Counted
  <2>5. Unowned'
    BY <1>1, <1>3, <2>1, <2>3 DEF Unowned
  <2> QED
    BY <1>4, <2>4, <2>5
<1>7. CASE CommitsHeartbeat(s)
  <2>1. /\ rows.task.status = "RUNNING" /\ rows'.task = rows.task
        /\ rows'.lease.token = rows.lease.token /\ rows.lease.token # 0
        /\ rows'.lease.expires <= now + Skew + LeaseTTL
        /\ rows'.run = rows.run /\ outbox' = outbox
    <3>1. rows'.lease.expires <= now + Skew + LeaseTTL
      <4>1. rows'.lease.expires - LeaseTTL \in 0..now + Skew
        BY <1>7 DEF CommitsHeartbeat
      <4> QED
        BY <1>1, <1>3, <4>1
    <3>2. rows.lease.token # 0
      BY <1>1, <1>7 DEF CommitsHeartbeat, Presents
    <3> QED
      BY <1>7, <3>1, <3>2 DEF CommitsHeartbeat
  <2>2. Counted'
    <3>1. /\ rows'.task.status # "NONE" /\ (rows'.lease.token = 0 => rows'.lease.expires = 0)
          /\ rows'.task.attempt <= MaxAttempts
          /\ rows'.task.status = "PENDING" => rows'.task.attempt < MaxAttempts
      BY <1>1, <1>3, <2>1 DEF Counted
    <3>2. rows'.lease.token <=
             2 * rows'.task.attempt - (IF rows'.task.status = "RUNNING" THEN 1 ELSE 0)
      BY <1>1, <1>3, <2>1 DEF Counted
    <3>3. outbox' <= rows'.task.attempt + (IF rows'.task.status = "PENDING" THEN 1 ELSE 0)
      BY <1>1, <1>3, <2>1 DEF Counted
    <3>4. rows'.lease.expires <= MaxNow + Skew + LeaseTTL
      BY <1>1, <1>3, <2>1
    <3>5. rows'.run.version <= MaxVersion + (IF rows'.task.status = "NONE" THEN 0 ELSE 1)
                                          + (IF rows'.run.status = "COMPLETED" THEN 1 ELSE 0)
      BY <1>1, <1>3, <2>1 DEF Counted
    <3> QED
      BY <3>1, <3>2, <3>3, <3>4, <3>5 DEF Counted
  <2>3. Unowned'
    BY <2>1 DEF Unowned
  <2> QED
    BY <1>4, <2>2, <2>3
<1>8. CASE CommitsAdvance(s)
  <2>1. /\ rows'.lease = rows.lease /\ rows'.run.version = rows.run.version + 1
        /\ rows.run.status = "RUNNING" /\ claimed' = claimed
        /\ tx[s].kind \in Advances
        /\ rows'.run.status = IF tx[s].kind = "finish" THEN "COMPLETED" ELSE "RUNNING"
        /\ tx[s].kind = "park" => rows.run.version < MaxVersion
    BY <1>3, <1>8 DEF CommitsAdvance, CommitsClaim, Advances
  <2>2. CASE tx[s].kind = "dispatch"
    <3>1. /\ rows.task.status = "NONE" /\ rows'.task.status = "PENDING" /\ rows'.task.attempt = 0
          /\ outbox' = outbox + 1 /\ outbox = 0
          /\ rows.lease.token = 0 /\ rows.lease.expires = 0
      BY <1>1, <1>8, <2>2 DEF CommitsAdvance, Counted
    <3>2. Counted'
      BY <1>1, <2>1, <2>2, <3>1, StoreAssumption DEF Counted
    <3>3. Unowned'
      BY <1>1, <2>1, <3>1 DEF Unowned
    <3> QED
      BY <1>4, <3>2, <3>3
  <2>3. CASE tx[s].kind # "dispatch"
    <3>1. rows'.task = rows.task /\ outbox' = outbox
      BY <1>8, <2>3 DEF CommitsAdvance
    <3>2. Counted'
      BY <1>1, <2>1, <2>3, <3>1 DEF Counted, Advances
    <3>3. Unowned'
      BY <1>1, <2>1, <3>1 DEF Unowned
    <3> QED
      BY <1>4, <3>2, <3>3
  <2> QED
    BY <2>2, <2>3
<1>9. CASE CommitsSignal(s)
  <2>1. /\ rows'.task = rows.task /\ rows'.lease = rows.lease /\ outbox' = outbox
        /\ claimed' = claimed
        /\ rows'.run.version = rows.run.version /\ rows'.run.status = rows.run.status
    BY <1>3, <1>9 DEF CommitsSignal, CommitsClaim, StoreInv, RowsInv, RunRow
  <2>2. Counted' /\ Unowned'
    BY <1>1, <2>1 DEF Counted, Unowned
  <2> QED
    BY <1>4, <2>2
<1> QED
  BY <1>2, <1>5, <1>6, <1>7, <1>8, <1>9

\* A commit preserves the invariant.
LEMMA CommitStep ==
    ASSUME StoreInv, NEW s \in Sessions, Commit(s)
    PROVE  StoreInv'
<1>1. /\ tx' = [r \in Sessions |-> tx'[r]] /\ tx'[s] = NoTx
      /\ last' = Nothing /\ now' \in Nat
  BY CommitGrows
<1>2. Sound(s)' /\ \A r \in Sessions : Apart(s, r)' /\ Apart(r, s)'
  BY <1>1, IdleNext DEF IdleIsSound
<1>3. \A r \in Sessions : Sound(r)'
  BY <1>2, OthersSound
<1>4. \A r \in Sessions, q \in Sessions : r # q => Apart(r, q)'
  BY <1>2, OthersApart
<1>5. Refused'
  BY <1>1 DEF Refused, LeaseHeldIsSkew, Nothing
<1> QED
  BY <1>1, <1>3, <1>4, <1>5, CommitRows DEF StoreInv

(***************************************************************************)
(* The invariant.                                                          *)
(***************************************************************************)

\* An empty database and idle connections.
LEMMA StoreInit == Init => StoreInv
<1> SUFFICES ASSUME Init PROVE StoreInv
  OBVIOUS
<1>1. now \in Nat /\ \A s \in Sessions : tx[s] = NoTx
  BY DEF Init
<1>2. \A s \in Sessions : Sound(s) /\ \A r \in Sessions : Apart(s, r)
  BY <1>1, Idle DEF IdleIsSound
<1>3. RowsInv
  BY StoreAssumption DEF Init, RowsInv, NoRows, NoTask, RunRow, TaskRow, RowStatus, LeaseRow
<1>4. Counted /\ Unowned
  BY StoreAssumption DEF Init, Counted, Unowned, NoRows, NoTask
<1>5. Refused
  BY DEF Init, Refused, LeaseHeldIsSkew, Nothing
<1>6. tx = [s \in Sessions |-> tx[s]]
  BY DEF Init
<1> QED
  BY <1>2, <1>3, <1>4, <1>5, <1>6 DEF StoreInv

\* Every step preserves the invariant.
LEMMA StoreStep == StoreInv /\ [Next]_vars => StoreInv'
<1> SUFFICES ASSUME StoreInv, [Next]_vars PROVE StoreInv'
  OBVIOUS
<1>1. CASE UNCHANGED vars
  <2>1. UNCHANGED <<rows, events, outbox, signals, now, tx, claimed, last>>
    BY <1>1 DEF vars
  <2>2. now \in Nat /\ rows.lease \in LeaseRow
    BY StoreAssumption DEF StoreInv, RowsInv
  <2>3. \A r \in Sessions : Sound(r)'
    BY <2>1, <2>2, Untouched DEF StoreInv
  <2>4. \A r \in Sessions, q \in Sessions : r # q => Apart(r, q)'
    BY <2>1, UntouchedPair DEF StoreInv
  <2>5. RowsInv' /\ Counted' /\ Unowned' /\ Refused'
    BY <2>1 DEF StoreInv, RowsInv, Counted, Unowned, Refused, LeaseHeldIsSkew
  <2> QED
    BY <2>1, <2>3, <2>4, <2>5 DEF StoreInv
<1>2. CASE ClockTicks
  BY <1>2, ClockStep
<1>3. ASSUME NEW s \in Sessions,
             \/ Execute(s) \/ Disconnect(s)
             \/ ClaimTask(s) \/ Report(s) \/ Heartbeat(s) \/ Reclaim(s)
             \/ Advance(s) \/ DeliverSignal(s)
      PROVE  StoreInv'
  <2>1. CASE \/ GetTask(s) \/ GetLease(s) \/ TransitionTask(s)
             \/ AcquireLease(s) \/ ExtendLease(s) \/ ReleaseLease(s)
    BY <2>1, GetTaskStep, GetLeaseStep, TransitionTaskStep, AcquireLeaseStep, ExtendLeaseStep,
       ReleaseLeaseStep
  <2>2. CASE \/ AdvanceRun(s) \/ CreateTask(s) \/ NextSeq(s) \/ AppendEvent(s) \/ References(s)
             \/ EnqueueDelivery(s) \/ RecordSignal(s) \/ ReleaseRun(s)
    BY <2>2, AdvanceRunStep, CreateTaskStep, NextSeqStep, AppendEventStep, ReferencesStep,
       EnqueueDeliveryStep, RecordSignalStep, ReleaseRunStep
  <2>3. CASE Commit(s)
    BY <2>3, CommitStep
  <2>4. CASE DeadlockDetected(s) \/ Disconnect(s)
    BY <2>4, AbortStep
  <2>5. CASE \/ ClaimTask(s) \/ Report(s) \/ Heartbeat(s) \/ Reclaim(s)
             \/ Advance(s) \/ DeliverSignal(s)
    BY <2>5, CallersStep
  <2> QED
    BY <1>3, <2>1, <2>2, <2>3, <2>4, <2>5 DEF Execute
<1> QED
  BY <1>1, <1>2, <1>3 DEF Next

\* Every reachable state satisfies the invariant: each transaction in progress
\* has read, locked and drafted what its program says, and its draft is still
\* the right one whenever it can still commit.
THEOREM StoreInvariant == Spec => []StoreInv
<1>1. Init => StoreInv
  BY StoreInit
<1>2. StoreInv /\ [Next]_vars => StoreInv'
  BY StoreStep
<1> QED
  BY <1>1, <1>2, PTL DEF Spec

\* The committed rows keep their ranges, the attempts their budget, the outbox
\* and the fencing token the bounds the attempts set (postgres/tasks.go,
\* leases.go), with any number of connections.
THEOREM TypeCorrect == Spec => []TypeOK
<1>1. StoreInv => TypeOK
  <2> SUFFICES ASSUME StoreInv PROVE TypeOK
    OBVIOUS
  <2>1. /\ RowsInv /\ Counted
        /\ MaxAttempts \in Nat /\ LeaseTTL \in Nat /\ MaxNow \in Nat /\ MaxVersion \in Nat
        /\ Skew \in Nat
    BY StoreAssumption DEF StoreInv
  <2>2. rows.run.version \in 0..MaxVersion + 2
    BY <2>1 DEF RowsInv, Counted, RunRow
  <2>3. rows.task.attempt \in 0..MaxAttempts
    BY <2>1 DEF RowsInv, Counted, TaskRow
  <2>4. rows.lease.token \in 0..2 * MaxAttempts
    <3>1. /\ rows.lease.token <= 2 * rows.task.attempt /\ rows.task.attempt \in Nat
          /\ rows.lease.token \in Nat /\ rows.task.attempt <= MaxAttempts
      BY <2>1 DEF RowsInv, Counted, TaskRow, LeaseRow
    <3>2. 2 * rows.task.attempt <= 2 * MaxAttempts
      BY <2>1, <3>1
    <3> QED
      BY <2>1, <3>1, <3>2
  <2>5. rows.lease.expires \in 0..MaxNow + Skew + LeaseTTL
    BY <2>1 DEF RowsInv, Counted, LeaseRow
  <2>6. outbox \in 0..MaxAttempts
    BY <2>1 DEF RowsInv, Counted, TaskRow
  <2>7. rows.run \in [status : {"RUNNING", "COMPLETED"}, version : 0..MaxVersion + 2,
                      parked : BOOLEAN]
    BY <2>1, <2>2 DEF RowsInv, RunRow
  <2>8. rows.task \in [status : {"NONE", "PENDING", "RUNNING", "COMPLETED", "DEAD_LETTER"},
                       attempt : 0..MaxAttempts]
    BY <2>1, <2>3 DEF RowsInv, TaskRow, RowStatus
  <2>9. rows.lease \in [token : 0..2 * MaxAttempts, expires : 0..MaxNow + Skew + LeaseTTL]
    BY <2>1, <2>4, <2>5 DEF RowsInv, LeaseRow
  <2> QED
    BY <2>1, <2>6, <2>7, <2>8, <2>9 DEF TypeOK, RowsInv
<1> QED
  BY <1>1, StoreInvariant, PTL

\* GetTask and assertToken read without a lock (postgres/tasks.go, leases.go),
\* and the retry is decided from that read: a report or a reclaim that reaches
\* its commit read the attempt that is still running, under the token that is
\* still current.
THEOREM DecisionsAreCurrent == Spec => []DecidedOnCurrentRow
<1>1. StoreInv => DecidedOnCurrentRow
  <2> SUFFICES ASSUME StoreInv, NEW s \in Sessions, AtEnd(s),
                      tx[s].kind \in {"complete", "fail", "reclaim"}
               PROVE  /\ rows.task.status = "RUNNING" /\ rows.task.attempt = tx[s].seen.attempt
                      /\ tx[s].token = IF tx[s].kind = "reclaim" THEN rows.lease.token + 1
                                                                 ELSE rows.lease.token
    BY DEF DecidedOnCurrentRow
  <2>1. tx[s].kind \in Kinds /\ tx[s].pc = Past[tx[s].kind]
    BY Before, Places
  <2>2. /\ Is(s, Reports, 5) \/ Is(s, {"reclaim"}, 3)
        /\ Is(s, {"reclaim"}, 3) <=> tx[s].kind = "reclaim"
        /\ Is(s, Reports, 5) => Is(s, Reports, 2)
        /\ HasTask(s) /\ From(s) = "RUNNING"
    BY <2>1 DEF Past, Is, Reports, HasTask, From
  <2>3. TaskDraft(s) /\ LeaseDraft(s) /\ Reads(s)
    BY Before DEF Sound
  <2>4. rows.task.status = "RUNNING"
    BY <2>2, <2>3 DEF TaskDraft
  <2> QED
    BY <2>2, <2>3, <2>4 DEF LeaseDraft, Reads
<1> QED
  BY <1>1, StoreInvariant, PTL

\* A claim that passed TransitionTask is refused with ErrLeaseHeld, which makes
\* the worker drop the delivery, only because clocks differ, and what it met
\* has no longer to run than they differ: with clocks in step, never.
THEOREM HeldLeasesAreSkew == Spec => []LeaseHeldIsSkew
<1>1. StoreInv => LeaseHeldIsSkew
  BY DEF StoreInv, Refused
<1> QED
  BY <1>1, StoreInvariant, PTL

(***************************************************************************)
(* The write surface of the serial store, on a state given field by field. *)
(***************************************************************************)

State(run, task, lease, log, n, sigs) ==
    [run |-> run, task |-> task, lease |-> lease, log |-> log, deliveries |-> n, signals |-> sigs]

Entry(type, token) == [type |-> type, token |-> token]

\* A transition writes the status, and the attempt of a claim.
LEMMA TransitionIs ==
    ASSUME NEW run, NEW st, NEW a, NEW lease, NEW log, NEW n, NEW g, NEW to
    PROVE  Memory!TransitionTask(State(run, [status |-> st, attempt |-> a], lease, log, n, g), to)
             = State(run, [status |-> to, attempt |-> IF to = "RUNNING" THEN a + 1 ELSE a],
                     lease, log, n, g)
<1> DEFINE d == State(run, [status |-> st, attempt |-> a], lease, log, n, g)
           e == IF to = "RUNNING" THEN a + 1 ELSE a
           once == [d EXCEPT !.task.status = to]
<1>1. d.task.attempt = a
  BY DEF State
<1>2. Memory!TransitionTask(d, to) = [d EXCEPT !.task.status = to, !.task.attempt = e]
  BY <1>1 DEF Memory!TransitionTask
<1> HIDE DEF e
<1>3. once = State(run, [status |-> to, attempt |-> a], lease, log, n, g)
  BY DEF State
<1>4. [d EXCEPT !.task.status = to, !.task.attempt = e] = [once EXCEPT !.task.attempt = e]
  OBVIOUS
<1> HIDE DEF once, d
<1>5. [once EXCEPT !.task.attempt = e]
         = State(run, [status |-> to, attempt |-> e], lease, log, n, g)
  BY <1>3 DEF State
<1> QED
  BY <1>2, <1>4, <1>5 DEF e, d

\* An event goes to the end of the log.
LEMMA AppendEventIs ==
    ASSUME NEW run, NEW task, NEW lease, NEW log, NEW n, NEW g, NEW type, NEW token
    PROVE  Memory!AppendEvent(State(run, task, lease, log, n, g), type, token)
             = State(run, task, lease, Append(log, Entry(type, token)), n, g)
<1> DEFINE d == State(run, task, lease, log, n, g)
           e == Append(log, Entry(type, token))
<1>1. d.log = log
  BY DEF State
<1>2. Memory!AppendEvent(d, type, token) = [d EXCEPT !.log = e]
  BY <1>1 DEF Memory!AppendEvent, Entry
<1> HIDE DEF e
<1>3. [d EXCEPT !.log = e] = State(run, task, lease, e, n, g)
  BY DEF State
<1> QED
  BY <1>2, <1>3 DEF e

\* A signal is added.
LEMMA RecordSignalIs ==
    ASSUME NEW run, NEW task, NEW lease, NEW log, NEW n, NEW g, NEW sig
    PROVE  Memory!RecordSignal(State(run, task, lease, log, n, g), sig)
             = State(run, task, lease, log, n, g \cup {sig})
<1> DEFINE d == State(run, task, lease, log, n, g)
           e == g \cup {sig}
<1>1. d.signals = g
  BY DEF State
<1>2. Memory!RecordSignal(d, sig) = [d EXCEPT !.signals = e]
  BY <1>1 DEF Memory!RecordSignal
<1> HIDE DEF e
<1>3. [d EXCEPT !.signals = e] = State(run, task, lease, log, n, e)
  BY DEF State
<1> QED
  BY <1>2, <1>3 DEF e

\* Acquiring counts the token up.
LEMMA AcquireLeaseIs ==
    ASSUME NEW run, NEW task, NEW lease, NEW log, NEW n, NEW g, NEW at, NEW expires
    PROVE  Memory!AcquireLease(State(run, task, lease, log, n, g), at, expires)
             = State(run, task, [token |-> lease.token + 1, expires |-> expires], log, n, g)
BY DEF State, Memory!AcquireLease

\* Releasing keeps the token.
LEMMA ReleaseLeaseIs ==
    ASSUME NEW run, NEW task, NEW token, NEW e, NEW log, NEW n, NEW g, NEW at
    PROVE  Memory!ReleaseLease(State(run, task, [token |-> token, expires |-> e], log, n, g), at)
             = State(run, task, [token |-> token, expires |-> at], log, n, g)
BY DEF State, Memory!ReleaseLease

\* Extending keeps the token.
LEMMA ExtendLeaseIs ==
    ASSUME NEW run, NEW task, NEW token, NEW e, NEW log, NEW n, NEW g, NEW expires
    PROVE  Memory!ExtendLease(State(run, task, [token |-> token, expires |-> e], log, n, g), expires)
             = State(run, task, [token |-> token, expires |-> expires], log, n, g)
BY DEF State, Memory!ExtendLease

\* Advancing counts the version up.
LEMMA AdvanceRunIs ==
    ASSUME NEW run, NEW task, NEW lease, NEW log, NEW n, NEW g, NEW status, NEW parked
    PROVE  Memory!AdvanceRun(State(run, task, lease, log, n, g), status, parked)
             = State([status |-> status, version |-> run.version + 1, parked |-> parked],
                     task, lease, log, n, g)
BY DEF State, Memory!AdvanceRun

\* A task is created PENDING.
LEMMA CreateTaskIs ==
    ASSUME NEW run, NEW task, NEW lease, NEW log, NEW n, NEW g
    PROVE  Memory!CreateTask(State(run, task, lease, log, n, g))
             = State(run, [status |-> "PENDING", attempt |-> 0], lease, log, n, g)
BY DEF State, Memory!CreateTask

\* One delivery more.
LEMMA EnqueueDeliveryIs ==
    ASSUME NEW run, NEW task, NEW lease, NEW log, NEW n, NEW g
    PROVE  Memory!EnqueueDelivery(State(run, task, lease, log, n, g))
             = State(run, task, lease, log, n + 1, g)
BY DEF State, Memory!EnqueueDelivery

\* A run is no longer parked.
LEMMA ReleaseRunIs ==
    ASSUME NEW st, NEW v, NEW p, NEW task, NEW lease, NEW log, NEW n, NEW g
    PROVE  Memory!ReleaseRun(State([status |-> st, version |-> v, parked |-> p],
                                   task, lease, log, n, g))
             = State([status |-> st, version |-> v, parked |-> FALSE], task, lease, log, n, g)
<1> DEFINE d == State([status |-> st, version |-> v, parked |-> p], task, lease, log, n, g)
           e == FALSE
<1>1. Memory!ReleaseRun(d) = [d EXCEPT !.run.parked = e]
  BY DEF Memory!ReleaseRun
<1> HIDE DEF e
<1>2. [d EXCEPT !.run.parked = e]
         = State([status |-> st, version |-> v, parked |-> e], task, lease, log, n, g)
  BY DEF State
<1> QED
  BY <1>1, <1>2 DEF e

\* A task given back: PENDING again and announced, or buried.
LEMMA GiveBackIs ==
    ASSUME NEW run, NEW st, NEW a, NEW token, NEW e, NEW log, NEW n, NEW g, NEW first, NEW retry \in BOOLEAN
    PROVE  LET d    == State(run, [status |-> st, attempt |-> a], [token |-> token, expires |-> e],
                             log, n, g)
               to   == IF retry THEN "PENDING" ELSE "DEAD_LETTER"
               then == IF retry THEN "TASK_RETRY_SCHEDULED" ELSE "TASK_DEAD_LETTERED"
           IN  Memory!GiveBack(d, first, retry)
                  = State(run, [status |-> to, attempt |-> a], [token |-> token, expires |-> e],
                          Append(Append(log, Entry(first, token)), Entry(then, token)),
                          IF retry THEN n + 1 ELSE n, g)
<1> DEFINE task(to) == [status |-> to, attempt |-> a]
           lease == [token |-> token, expires |-> e]
           d == State(run, task(st), lease, log, n, g)
           one == Append(log, Entry(first, token))
<1>1. d.lease.token = token
  BY DEF State
<1>2. /\ Memory!TransitionTask(d, "PENDING") = State(run, task("PENDING"), lease, log, n, g)
      /\ Memory!TransitionTask(d, "DEAD_LETTER") = State(run, task("DEAD_LETTER"), lease, log, n, g)
  BY TransitionIs
<1> HIDE DEF d, task, lease
<1>3. CASE retry
  <2> DEFINE x == State(run, task("PENDING"), lease, log, n, g)
             two == Append(one, Entry("TASK_RETRY_SCHEDULED", token))
  <2>1. Memory!GiveBack(d, first, retry) =
           Memory!EnqueueDelivery(Memory!AppendEvent(Memory!AppendEvent(x, first, token),
                                                     "TASK_RETRY_SCHEDULED", token))
    BY <1>1, <1>2, <1>3 DEF Memory!GiveBack
  <2>2. Memory!AppendEvent(x, first, token) = State(run, task("PENDING"), lease, one, n, g)
    BY AppendEventIs
  <2>3. Memory!AppendEvent(State(run, task("PENDING"), lease, one, n, g),
                           "TASK_RETRY_SCHEDULED", token)
           = State(run, task("PENDING"), lease, two, n, g)
    BY AppendEventIs
  <2>4. Memory!EnqueueDelivery(State(run, task("PENDING"), lease, two, n, g))
           = State(run, task("PENDING"), lease, two, n + 1, g)
    BY EnqueueDeliveryIs
  <2>5. Memory!GiveBack(d, first, retry) = State(run, task("PENDING"), lease, two, n + 1, g)
    BY <2>1, <2>2, <2>3, <2>4
  <2> QED
    BY <1>3, <2>5 DEF d, task, lease
<1>4. CASE ~retry
  <2> DEFINE x == State(run, task("DEAD_LETTER"), lease, log, n, g)
             two == Append(one, Entry("TASK_DEAD_LETTERED", token))
  <2>1. Memory!GiveBack(d, first, retry) =
           Memory!AppendEvent(Memory!AppendEvent(x, first, token), "TASK_DEAD_LETTERED", token)
    BY <1>1, <1>2, <1>4 DEF Memory!GiveBack
  <2>2. Memory!AppendEvent(x, first, token) = State(run, task("DEAD_LETTER"), lease, one, n, g)
    BY AppendEventIs
  <2>3. Memory!AppendEvent(State(run, task("DEAD_LETTER"), lease, one, n, g),
                           "TASK_DEAD_LETTERED", token)
           = State(run, task("DEAD_LETTER"), lease, two, n, g)
    BY AppendEventIs
  <2>4. Memory!GiveBack(d, first, retry) = State(run, task("DEAD_LETTER"), lease, two, n, g)
    BY <2>1, <2>2, <2>3
  <2> QED
    BY <1>4, <2>4 DEF d, task, lease
<1> QED
  BY <1>3, <1>4

(***************************************************************************)
(* Every commit is one transaction of the serial store.                    *)
(***************************************************************************)

db == State(rows.run, rows.task, rows.lease, events, outbox, signals)

\* The committed rows, field by field.
LEMMA RowFields ==
    ASSUME StoreInv
    PROVE  /\ rows.task = [status |-> rows.task.status, attempt |-> rows.task.attempt]
           /\ rows.lease = [token |-> rows.lease.token, expires |-> rows.lease.expires]
           /\ rows.run = [status |-> rows.run.status, version |-> rows.run.version,
                          parked |-> rows.run.parked]
           /\ rows.task.attempt \in Nat /\ rows.lease.token \in Nat /\ rows.lease.expires \in Nat
           /\ now \in Nat /\ LeaseTTL \in Nat /\ Skew \in Nat /\ MaxAttempts \in Nat /\ outbox \in Nat
BY StoreAssumption DEF StoreInv, RowsInv, TaskRow, LeaseRow, RunRow

\* What the serial store reads.
LEMMA Mapped ==
    /\ db = [run |-> rows.run, task |-> rows.task, lease |-> rows.lease,
             log |-> events, deliveries |-> outbox, signals |-> signals]
    /\ db.run = rows.run /\ db.task = rows.task /\ db.lease = rows.lease
    /\ db.signals = signals
    /\ db' = [run |-> rows.run, task |-> rows.task, lease |-> rows.lease,
              log |-> events, deliveries |-> outbox, signals |-> signals]'
BY DEF db, State

\* The commit of a claim is a claim at the instant the upsert used.
LEMMA ClaimIsSerial ==
    ASSUME StoreInv, NEW s \in Sessions, Commit(s), CommitsClaim(s)
    PROVE  \E at \in Memory!Instants : Memory!ClaimTask(at)
<1> DEFINE at == rows'.lease.expires - LeaseTTL
<1>1. /\ at \in Nat /\ at <= now + Skew /\ rows.lease.expires <= at
      /\ at + LeaseTTL = rows'.lease.expires
  BY RowFields, Commits DEF CommitsClaim, LeaseRow
<1>2. at \in Memory!Instants
  BY <1>1, RowFields DEF Memory!Instants
<1>3. rows'.lease = [token |-> rows.lease.token + 1, expires |-> at + LeaseTTL]
  BY <1>1, Commits DEF CommitsClaim, LeaseRow
<1>4. Ev(s, 1) = Entry("TASK_CLAIMED", rows.lease.token + 1)
  BY DEF Ev, EventTypes, CommitsClaim, Entry
<1>5. /\ rows.task.status = "PENDING" /\ rows'.run = rows.run /\ outbox' = outbox
      /\ signals' = signals /\ events' = Append(events, Ev(s, 1)) /\ now' = now
      /\ rows'.task = [status |-> "RUNNING", attempt |-> rows.task.attempt + 1]
  BY CommitGrows DEF CommitsClaim, Log1
<1> HIDE DEF at
<1>6. ~Memory!Held(db, at)
  BY <1>1, RowFields, Mapped DEF Memory!Held
<1>7. Memory!TransitionTask(db, "RUNNING")
         = State(rows.run, rows'.task, rows.lease, events, outbox, signals)
  BY <1>5, RowFields, TransitionIs DEF db
<1>8. Memory!AcquireLease(State(rows.run, rows'.task, rows.lease, events, outbox, signals),
                          at, at + LeaseTTL)
         = State(rows.run, rows'.task, rows'.lease, events, outbox, signals)
  BY <1>3, AcquireLeaseIs
<1>9. Memory!AppendEvent(State(rows.run, rows'.task, rows'.lease, events, outbox, signals),
                         "TASK_CLAIMED", rows.lease.token + 1) = db'
  BY <1>4, <1>5, AppendEventIs DEF db
<1>10. Memory!ClaimTask(at)
  BY <1>5, <1>6, <1>7, <1>8, <1>9, Mapped DEF Memory!ClaimTask, Memory!RunInTx
<1> QED
  BY <1>2, <1>10

\* The commit of a completion is one at the instant of its release.
LEMMA CompleteIsSerial ==
    ASSUME StoreInv, NEW s \in Sessions, Commit(s), CommitsReport(s), tx[s].kind = "complete"
    PROVE  \E at \in Memory!Instants : Memory!CompleteTask(at)
<1> DEFINE at == rows'.lease.expires
<1>1. at \in Memory!Instants
  BY RowFields, Commits DEF CommitsReport, LeaseRow, Memory!Instants
<1>2. rows'.lease = [token |-> rows.lease.token, expires |-> at]
  BY Commits DEF CommitsReport, LeaseRow
<1>3. Ev(s, 1) = Entry("TASK_COMPLETED", rows.lease.token)
  BY DEF Ev, EventTypes, CommitsReport, Entry
<1>4. /\ rows.task.status = "RUNNING" /\ rows'.run = rows.run /\ outbox' = outbox
      /\ signals' = signals /\ events' = Append(events, Ev(s, 1)) /\ now' = now
      /\ rows'.task = [status |-> "COMPLETED", attempt |-> rows.task.attempt]
  BY CommitGrows, RowFields DEF CommitsReport, Log1, TaskTo, To
<1> HIDE DEF at
<1>5. Memory!TransitionTask(db, "COMPLETED")
         = State(rows.run, rows'.task, rows.lease, events, outbox, signals)
  BY <1>4, RowFields, TransitionIs DEF db
<1>6. Memory!ReleaseLease(State(rows.run, rows'.task, rows.lease, events, outbox, signals), at)
         = State(rows.run, rows'.task, rows'.lease, events, outbox, signals)
  BY <1>2, RowFields, ReleaseLeaseIs
<1>7. Memory!AppendEvent(State(rows.run, rows'.task, rows'.lease, events, outbox, signals),
                         "TASK_COMPLETED", rows.lease.token) = db'
  BY <1>3, <1>4, AppendEventIs DEF db
<1>8. Memory!CompleteTask(at)
  BY <1>4, <1>5, <1>6, <1>7, Mapped DEF Memory!CompleteTask, Memory!RunInTx
<1> QED
  BY <1>1, <1>8

\* The row GetTask read decides as the committed one would.
LEMMA RetriesIs ==
    ASSUME StoreInv, NEW s \in Sessions, rows.task.attempt = tx[s].seen.attempt
    PROVE  Retries(s) <=> ~Memory!Exhausted(db) /\ ~tx[s].escalated
BY RowFields, Mapped DEF Retries, Memory!Exhausted

FollowUp(s) == IF Retries(s) THEN "TASK_RETRY_SCHEDULED" ELSE "TASK_DEAD_LETTERED"

\* What the commit of a report of failure and of a reclaim have in common.
LEMMA GivesBack ==
    ASSUME StoreInv, NEW s \in Sessions, Commit(s), NEW token, NEW e, NEW first,
           tx[s].kind \in {"fail", "reclaim"}, tx[s].token = token,
           rows'.task = [status |-> To(s), attempt |-> rows.task.attempt],
           rows'.lease.token = token, rows'.run = rows.run, signals' = signals,
           outbox' = outbox + (IF To(s) = "PENDING" THEN 1 ELSE 0),
           Log2(s), EventTypes(s) = <<first, FollowUp(s)>>,
           NEW retry \in BOOLEAN, retry <=> Retries(s)
    PROVE  Memory!ReleaseLease(
              Memory!GiveBack(State(rows.run, rows.task, [token |-> token, expires |-> e],
                                    events, outbox, signals), first, retry),
              rows'.lease.expires) = db'
<1> DEFINE lease == [token |-> token, expires |-> e]
           log == Append(Append(events, Entry(first, token)), Entry(FollowUp(s), token))
<1>1. /\ To(s) = (IF retry THEN "PENDING" ELSE "DEAD_LETTER")
      /\ FollowUp(s) = (IF retry THEN "TASK_RETRY_SCHEDULED" ELSE "TASK_DEAD_LETTERED")
  BY DEF To, FollowUp
<1>2. outbox' = IF retry THEN outbox + 1 ELSE outbox
  BY <1>1, RowFields
<1>3. events' = log
  BY DEF Log2, Ev, Entry
<1> HIDE DEF log
<1>4. rows'.lease = [token |-> token, expires |-> rows'.lease.expires]
  BY Commits DEF LeaseRow
<1>5. Memory!GiveBack(State(rows.run, rows.task, lease, events, outbox, signals), first, retry)
         = State(rows.run, rows'.task, lease, log, outbox', signals)
  BY <1>1, <1>2, RowFields, GiveBackIs DEF log
<1>6. Memory!ReleaseLease(State(rows.run, rows'.task, lease, log, outbox', signals),
                          rows'.lease.expires)
         = State(rows.run, rows'.task, rows'.lease, log, outbox', signals)
  BY <1>4, ReleaseLeaseIs
<1> QED
  BY <1>3, <1>5, <1>6 DEF db

\* The commit of a failure is one with the same escalation.
LEMMA FailIsSerial ==
    ASSUME StoreInv, NEW s \in Sessions, Commit(s), CommitsReport(s), tx[s].kind = "fail"
    PROVE  \E at \in Memory!Instants : \E escalated \in BOOLEAN : Memory!FailTask(at, escalated)
<1> DEFINE at == rows'.lease.expires
           retry == ~Memory!Exhausted(db) /\ ~tx[s].escalated
<1>0. tx[s].escalated \in BOOLEAN
  BY Before DEF Shape
<1>1. at \in Memory!Instants
  BY RowFields, Commits DEF CommitsReport, LeaseRow, Memory!Instants
<1>2. /\ rows.task.status = "RUNNING" /\ rows'.run = rows.run /\ signals' = signals
      /\ rows'.task = [status |-> To(s), attempt |-> rows.task.attempt]
      /\ outbox' = outbox + (IF To(s) = "PENDING" THEN 1 ELSE 0) /\ Log2(s) /\ now' = now
      /\ tx[s].token = rows.lease.token /\ rows'.lease.token = rows.lease.token
      /\ rows.task.attempt = tx[s].seen.attempt
  BY CommitGrows DEF CommitsReport, TaskTo
<1>3. EventTypes(s) = <<"TASK_FAILED", FollowUp(s)>>
  BY DEF EventTypes, FollowUp
<1>4. retry \in BOOLEAN /\ (retry <=> Retries(s))
  BY <1>2, RetriesIs
<1> HIDE DEF retry, at
<1>5. db = State(rows.run, rows.task, [token |-> rows.lease.token, expires |-> rows.lease.expires],
                 events, outbox, signals)
  BY RowFields DEF db
<1>6. Memory!ReleaseLease(Memory!GiveBack(db, "TASK_FAILED", retry), at) = db'
  BY <1>2, <1>3, <1>4, <1>5, GivesBack DEF at
<1>7. Memory!FailTask(at, tx[s].escalated)
  BY <1>2, <1>6, Mapped DEF Memory!FailTask, Memory!RunInTx, retry
<1> QED
  BY <1>0, <1>1, <1>7

\* The commit of a heartbeat is one at the instant it read.
LEMMA HeartbeatIsSerial ==
    ASSUME StoreInv, NEW s \in Sessions, Commit(s), CommitsHeartbeat(s)
    PROVE  \E at \in Memory!Instants : Memory!Heartbeat(at)
<1> DEFINE at == rows'.lease.expires - LeaseTTL
<1>1. /\ at \in Nat /\ at <= now + Skew /\ at + LeaseTTL = rows'.lease.expires
      /\ rows.lease.token > 0
  <2>1. rows'.lease.expires \in Nat /\ at \in 0..now + Skew
    BY Commits DEF CommitsHeartbeat, LeaseRow
  <2>2. Presents(s)
    BY Before DEF Sound
  <2>3. rows.lease.token > 0
    BY <2>2, RowFields DEF CommitsHeartbeat, Presents
  <2> QED
    BY <2>1, <2>3, RowFields
<1>2. at \in Memory!Instants
  BY <1>1, RowFields DEF Memory!Instants
<1>3. rows'.lease = [token |-> rows.lease.token, expires |-> at + LeaseTTL]
  BY <1>1, Commits DEF CommitsHeartbeat, LeaseRow
<1>4. /\ rows'.run = rows.run /\ rows'.task = rows.task /\ outbox' = outbox
      /\ signals' = signals /\ events' = events /\ now' = now
  BY CommitGrows DEF CommitsHeartbeat
<1> HIDE DEF at
<1>5. Memory!ExtendLease(db, at + LeaseTTL) = db'
  BY <1>3, <1>4, RowFields, ExtendLeaseIs DEF db
<1>6. Memory!Heartbeat(at)
  BY <1>1, <1>4, <1>5, Mapped DEF Memory!Heartbeat, Memory!RunInTx
<1> QED
  BY <1>2, <1>6

\* The commit of a reclaim is one at the instant of its sweep.
LEMMA ReclaimIsSerial ==
    ASSUME StoreInv, NEW s \in Sessions, Commit(s), CommitsReclaim(s)
    PROVE  \E at \in Memory!Instants : Memory!Reclaim(at)
<1> DEFINE at == rows'.lease.expires
           retry == ~Memory!Exhausted(db)
<1>1. at \in Memory!Instants /\ rows.lease.expires <= at /\ tx[s].escalated = FALSE
  <2>1. tx[s].escalated = FALSE
    BY Before DEF CommitsReclaim, Sound, Presents
  <2>2. at \in Memory!Instants /\ rows.lease.expires <= at
    BY RowFields, Before DEF CommitsReclaim, Memory!Instants
  <2> QED
    BY <2>1, <2>2
<1>2. /\ rows.task.status = "RUNNING" /\ rows'.run = rows.run /\ signals' = signals
      /\ rows'.task = [status |-> To(s), attempt |-> rows.task.attempt]
      /\ outbox' = outbox + (IF To(s) = "PENDING" THEN 1 ELSE 0) /\ Log2(s) /\ now' = now
      /\ tx[s].token = rows.lease.token + 1 /\ rows'.lease.token = rows.lease.token + 1
      /\ rows.task.attempt = tx[s].seen.attempt /\ tx[s].kind = "reclaim"
  BY CommitGrows DEF CommitsReclaim, TaskTo
<1>3. EventTypes(s) = <<"LEASE_EXPIRED", FollowUp(s)>>
  BY <1>2 DEF EventTypes, FollowUp
<1>4. retry \in BOOLEAN /\ (retry <=> Retries(s))
  BY <1>1, <1>2, RetriesIs
<1>5. ~Memory!Held(db, at)
  BY <1>1, RowFields, Commits, Mapped DEF Memory!Held, LeaseRow
<1> HIDE DEF retry, at
<1>6. Memory!AcquireLease(db, at, at)
         = State(rows.run, rows.task, [token |-> rows.lease.token + 1, expires |-> at],
                 events, outbox, signals)
  BY AcquireLeaseIs DEF db
<1>7. Memory!ReleaseLease(
         Memory!GiveBack(State(rows.run, rows.task,
                               [token |-> rows.lease.token + 1, expires |-> at],
                               events, outbox, signals), "LEASE_EXPIRED", retry), at) = db'
  BY <1>2, <1>3, <1>4, GivesBack DEF at
<1>8. Memory!Reclaim(at)
  BY <1>2, <1>5, <1>6, <1>7, Mapped DEF Memory!Reclaim, Memory!RunInTx, retry
<1> QED
  BY <1>1, <1>8

\* The commit of an Advance is the dispatch, park or end it drafted.
LEMMA AdvanceIsSerial ==
    ASSUME StoreInv, NEW s \in Sessions, Commit(s), CommitsAdvance(s)
    PROVE  Memory!Dispatch \/ Memory!Park \/ Memory!Finish
<1> DEFINE status == IF tx[s].kind = "finish" THEN "COMPLETED" ELSE "RUNNING"
           parked == tx[s].kind = "park"
<1>1. /\ rows.run.status = "RUNNING" /\ rows'.lease = rows.lease /\ signals' = signals
      /\ events' = Append(events, Ev(s, 1)) /\ now' = now /\ tx[s].kind \in Advances
      /\ rows'.run = [status |-> status, version |-> rows.run.version + 1, parked |-> parked]
      /\ tx[s].kind # "dispatch" => rows'.task = rows.task /\ outbox' = outbox
      /\ tx[s].kind = "dispatch" =>
            /\ rows.task.status = "NONE" /\ outbox' = outbox + 1
            /\ rows'.task = [status |-> "PENDING", attempt |-> 0]
  BY CommitGrows DEF CommitsAdvance, Log1
<1>2. /\ tx[s].kind = "dispatch" => Ev(s, 1) = Entry("TASK_CREATED", 0)
      /\ tx[s].kind = "park" => Ev(s, 1) = Entry("SIGNAL_WAIT_STARTED", 0)
      /\ tx[s].kind = "finish" => Ev(s, 1) = Entry("RUN_COMPLETED", 0)
  BY DEF Ev, EventTypes, CommitsAdvance, Entry
<1>3. Memory!AdvanceRun(db, status, parked)
         = State(rows'.run, rows.task, rows.lease, events, outbox, signals)
  BY <1>1, AdvanceRunIs DEF db
<1>4. CASE tx[s].kind = "dispatch"
  <2>1. Memory!AdvanceRun(db, "RUNNING", FALSE)
           = State(rows'.run, rows.task, rows.lease, events, outbox, signals)
    BY <1>3, <1>4
  <2>2. Memory!CreateTask(State(rows'.run, rows.task, rows.lease, events, outbox, signals))
           = State(rows'.run, rows'.task, rows.lease, events, outbox, signals)
    BY <1>1, <1>4, CreateTaskIs
  <2>3. Memory!AppendEvent(State(rows'.run, rows'.task, rows.lease, events, outbox, signals),
                           "TASK_CREATED", 0)
           = State(rows'.run, rows'.task, rows.lease, events', outbox, signals)
    BY <1>1, <1>2, <1>4, AppendEventIs
  <2>4. Memory!EnqueueDelivery(State(rows'.run, rows'.task, rows.lease, events', outbox, signals))
           = db'
    BY <1>1, <1>4, EnqueueDeliveryIs DEF db
  <2>5. Memory!Dispatch
    BY <1>1, <1>4, <2>1, <2>2, <2>3, <2>4, Mapped DEF Memory!Dispatch, Memory!RunInTx
  <2> QED
    BY <2>5
<1>5. CASE tx[s].kind = "park"
  <2>1. Memory!AdvanceRun(db, "RUNNING", TRUE)
           = State(rows'.run, rows.task, rows.lease, events, outbox, signals)
    BY <1>3, <1>5
  <2>2. Memory!AppendEvent(State(rows'.run, rows.task, rows.lease, events, outbox, signals),
                           "SIGNAL_WAIT_STARTED", 0) = db'
    BY <1>1, <1>2, <1>5, AppendEventIs DEF db
  <2>3. Memory!Park
    BY <1>1, <2>1, <2>2, Mapped DEF Memory!Park, Memory!RunInTx
  <2> QED
    BY <2>3
<1>6. CASE tx[s].kind = "finish"
  <2>1. Memory!AdvanceRun(db, "COMPLETED", FALSE)
           = State(rows'.run, rows.task, rows.lease, events, outbox, signals)
    BY <1>3, <1>6
  <2>2. Memory!AppendEvent(State(rows'.run, rows.task, rows.lease, events, outbox, signals),
                           "RUN_COMPLETED", 0) = db'
    BY <1>1, <1>2, <1>6, AppendEventIs DEF db
  <2>3. Memory!Finish
    BY <1>1, <2>1, <2>2, Mapped DEF Memory!Finish, Memory!RunInTx
  <2> QED
    BY <2>3
<1> QED
  BY <1>1, <1>4, <1>5, <1>6 DEF Advances

\* The commit of a signal records it for the first time.
LEMMA SignalIsSerial ==
    ASSUME StoreInv, NEW s \in Sessions, Commit(s), CommitsSignal(s)
    PROVE  \E sig \in Signals : Memory!DeliverSignal(sig)
<1> DEFINE sig == tx[s].sig
<1>1. /\ sig \in Signals /\ sig \notin signals /\ signals' = signals \cup {sig}
      /\ rows'.task = rows.task /\ rows'.lease = rows.lease /\ outbox' = outbox
      /\ events' = events /\ now' = now /\ rows'.run = [rows.run EXCEPT !.parked = FALSE]
  BY CommitGrows DEF CommitsSignal
<1>2. rows'.run = [status |-> rows.run.status, version |-> rows.run.version, parked |-> FALSE]
  BY <1>1, RowFields
<1> HIDE DEF sig
<1>3. Memory!RecordSignal(db, sig)
         = State(rows.run, rows.task, rows.lease, events, outbox, signals')
  BY <1>1, RecordSignalIs DEF db
<1>4. Memory!ReleaseRun(State(rows.run, rows.task, rows.lease, events, outbox, signals')) = db'
  BY <1>1, <1>2, RowFields, ReleaseRunIs DEF db
<1>5. Memory!DeliverSignal(sig)
  BY <1>1, <1>3, <1>4, Mapped DEF Memory!DeliverSignal, Memory!RunInTx
<1> QED
  BY <1>1, <1>5

\* Every commit is a step of the serial store.
LEMMA CommitIsSerial ==
    ASSUME StoreInv, NEW s \in Sessions, Commit(s)
    PROVE  Memory!MemoryNext
<1>1. \/ CommitsClaim(s) \/ CommitsReport(s) \/ CommitsHeartbeat(s)
      \/ CommitsReclaim(s) \/ CommitsAdvance(s) \/ CommitsSignal(s)
  BY Commits
<1>2. CASE CommitsClaim(s)
  BY <1>2, ClaimIsSerial DEF Memory!MemoryNext
<1>3. CASE CommitsReport(s)
  <2>1. tx[s].kind = "complete" \/ tx[s].kind = "fail"
    BY <1>3 DEF CommitsReport, Reports
  <2>2. CASE tx[s].kind = "complete"
    BY <1>3, <2>2, CompleteIsSerial DEF Memory!MemoryNext
  <2>3. CASE tx[s].kind = "fail"
    BY <1>3, <2>3, FailIsSerial DEF Memory!MemoryNext
  <2> QED
    BY <2>1, <2>2, <2>3
<1>4. CASE CommitsHeartbeat(s)
  BY <1>4, HeartbeatIsSerial DEF Memory!MemoryNext
<1>5. CASE CommitsReclaim(s)
  BY <1>5, ReclaimIsSerial DEF Memory!MemoryNext
<1>6. CASE CommitsAdvance(s)
  BY <1>6, AdvanceIsSerial DEF Memory!MemoryNext
<1>7. CASE CommitsSignal(s)
  BY <1>7, SignalIsSerial DEF Memory!MemoryNext
<1> QED
  BY <1>1, <1>2, <1>3, <1>4, <1>5, <1>6, <1>7

\* Nothing but a commit changes what the serial store sees.
LEMMA QuietStep ==
    ASSUME NEW s \in Sessions,
           \/ Execute(s) /\ ~Commit(s)
           \/ Disconnect(s)
           \/ ClaimTask(s) \/ Report(s) \/ Heartbeat(s) \/ Reclaim(s)
           \/ Advance(s) \/ DeliverSignal(s)
    PROVE  UNCHANGED <<rows, events, outbox, signals, now>>
<1> USE DEF Continue, Rollback, End, Begin
<1>1. CASE \/ GetTask(s) \/ GetLease(s) \/ TransitionTask(s)
           \/ AcquireLease(s) \/ ExtendLease(s) \/ ReleaseLease(s)
  BY <1>1 DEF GetTask, GetLease, TransitionTask, AcquireLease, ExtendLease, ReleaseLease, Fenced
<1>2. CASE \/ AdvanceRun(s) \/ CreateTask(s) \/ NextSeq(s) \/ AppendEvent(s) \/ References(s)
           \/ EnqueueDelivery(s) \/ RecordSignal(s) \/ ReleaseRun(s)
  BY <1>2 DEF AdvanceRun, CreateTask, NextSeq, AppendEvent, References, EnqueueDelivery,
              RecordSignal, ReleaseRun
<1>3. CASE DeadlockDetected(s) \/ Disconnect(s)
  BY <1>3, Aborts
<1>4. CASE \/ ClaimTask(s) \/ Report(s) \/ Heartbeat(s) \/ Reclaim(s)
           \/ Advance(s) \/ DeliverSignal(s)
  BY <1>4 DEF ClaimTask, Report, Heartbeat, Reclaim, Advance, DeliverSignal
<1> QED
  BY <1>1, <1>2, <1>3, <1>4 DEF Execute

\* READ COMMITTED does not show (postgres.go, RunInTx): whatever the
\* connections interleave, wait for, abort or lose, the committed rows change
\* as if the engine's transactions ran one after the other, as they do in the
\* memory store.
THEOREM StoreImplementsMemory == Spec => ImplementsMemory
<1>1. Init => Memory!MemoryInit
  BY DEF Init, Memory!MemoryInit, NoRows, NoTask
<1>2. StoreInv /\ [Next]_vars => [Memory!MemoryNext]_(Memory!memVars)
  <2> SUFFICES ASSUME StoreInv, [Next]_vars PROVE [Memory!MemoryNext]_(Memory!memVars)
    OBVIOUS
  <2>1. CASE UNCHANGED vars
    BY <2>1 DEF vars, Memory!memVars
  <2>2. CASE ClockTicks
    BY <2>2 DEF ClockTicks, Memory!ClockTicks, Memory!MemoryNext
  <2>3. ASSUME NEW s \in Sessions,
               \/ Execute(s) \/ Disconnect(s)
               \/ ClaimTask(s) \/ Report(s) \/ Heartbeat(s) \/ Reclaim(s)
               \/ Advance(s) \/ DeliverSignal(s)
        PROVE  [Memory!MemoryNext]_(Memory!memVars)
    <3>1. CASE Commit(s)
      BY <3>1, CommitIsSerial
    <3>2. CASE ~Commit(s)
      <4>1. UNCHANGED <<rows, events, outbox, signals, now>>
        BY <2>3, <3>2, QuietStep
      <4> QED
        BY <4>1 DEF Memory!memVars
    <3> QED
      BY <3>1, <3>2
  <2> QED
    BY <2>1, <2>2, <2>3 DEF Next
<1> QED
  BY <1>1, <1>2, StoreInvariant, PTL DEF Spec, ImplementsMemory, Memory!MemorySpec
=============================================================================
