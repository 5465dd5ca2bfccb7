------------------------- MODULE EffectLedgerProofs -------------------------
(***************************************************************************)
(* Theorems about EffectLedger, for every set of classes and reconcilers   *)
(* and every number of attempts.                                           *)
(***************************************************************************)
EXTENDS EffectLedger, FiniteSetTheorems, TLAPS

(***************************************************************************)
(* What TypeOK needs to be inductive. An attempt runs Execute once, so it  *)
(* sends one request, and the provider has acted at most once for each: a  *)
(* count that stays below the number of attempts. The recovery table has   *)
(* no entry for a missing row, and load never finds it missing.            *)
(***************************************************************************)
Unsent == {"unclaimed", "reserve", "load", "resolve", "query", "reconciled", "perform",
           "call"}
Acted  == {a \in Attempts : request[a] = "acted"}

ClaimedInTurn   == \A a \in Attempts : a > claims => At(a, "unclaimed")
SentOnce        == \A a \in Attempts : attempt[a].pc \in Unsent => request[a] = "none"
LoadFindsRow    == \A a \in Attempts : At(a, "load") => effect # "ABSENT"
ActsAreAnswered == acts <= Cardinality(Acted)

TypeInv == TypeOK /\ ClaimedInTurn /\ SentOnce /\ LoadFindsRow /\ ActsAreAnswered

AttemptRecord == [pc : PCs, found : EffectStatus]

\* A write of the row is a write of its status; its place in line only has a type.
USE DEF Writes, row

\* The ledger starts in shape.
LEMMA TypeInit == Init => TypeInv
  <1> SUFFICES ASSUME Init PROVE TypeInv
    OBVIOUS
  <1> USE LimitAssumption
  <1>1. TypeOK
    <2>1. Off \in [pc : {"idle", "settle", "record"}, found : EffectStatus,
                   expired : BOOLEAN]
      BY DEF Off, EffectStatus
    <2>2. attempt \in [Attempts -> [pc : PCs, found : EffectStatus]]
      BY DEF Init, EffectStatus, PCs
    <2>3. sweep \in [Sweepers -> [pc : {"idle", "settle", "record"},
                                  found : EffectStatus, expired : BOOLEAN]]
      BY <2>1 DEF Init
    <2>4. command \in [pc : {"idle", "write"}, found : EffectStatus, verdict : Verdicts]
      BY DEF Init, NoCommand, EffectStatus, Verdicts
    <2>5. claims \in 0..MaxAttempts /\ acts \in 0..MaxAttempts
      BY DEF Init
    <2>6. forgotten \in BOOLEAN /\ ruled \in BOOLEAN
      BY DEF Init
    <2>7. ahead \in 0..Backlog
      BY BatchAssumption DEF Init
    <2> QED
      BY <2>2, <2>3, <2>4, <2>5, <2>6, <2>7 DEF Init, TypeOK, EffectStatus
  <1>2. ClaimedInTurn /\ SentOnce /\ LoadFindsRow
    BY DEF Init, ClaimedInTurn, SentOnce, LoadFindsRow, At
  <1>3. Acted = {}
    BY DEF Init, Acted
  <1>4. ActsAreAnswered
    BY <1>3, FS_EmptySet DEF Init, ActsAreAnswered
  <1> QED
    BY <1>1, <1>2, <1>4 DEF TypeInv

(***************************************************************************)
(* What the two ways of moving an attempt leave in its record.             *)
(***************************************************************************)
Moves(a, pc, found) ==
    /\ attempt' \in [Attempts -> AttemptRecord]
    /\ attempt'[a].pc = pc /\ attempt'[a].found = found
    /\ \A b \in Attempts : b # a => attempt'[b] = attempt[b]

\* What reading the ledger makes of the attempts.
LEMMA FindsMoves ==
  ASSUME TypeOK, NEW a \in Attempts, NEW pc \in PCs, NEW found \in EffectStatus,
         Finds(a, pc, found)
  PROVE  Moves(a, pc, found)
  BY DEF TypeOK, Finds, Moves, AttemptRecord

\* What moving on makes of them.
LEMMA GoesMoves ==
  ASSUME TypeOK, NEW a \in Attempts, NEW pc \in PCs, Goes(a, pc)
  PROVE  Moves(a, pc, attempt[a].found)
  <1>1. attempt[a] \in AttemptRecord /\ attempt \in [Attempts -> AttemptRecord]
    BY DEF TypeOK, AttemptRecord
  <1>2. [attempt[a] EXCEPT !.pc = pc] \in AttemptRecord
    BY <1>1 DEF AttemptRecord
  <1>3. attempt' = [attempt EXCEPT ![a] = [attempt[a] EXCEPT !.pc = pc]]
    BY DEF Goes
  <1>4. [attempt[a] EXCEPT !.pc = pc].pc = pc
        /\ [attempt[a] EXCEPT !.pc = pc].found = attempt[a].found
    BY <1>1 DEF AttemptRecord
  <1> QED
    BY <1>1, <1>2, <1>3, <1>4 DEF Moves

(***************************************************************************)
(* Execute as a table: what a step of attempt a, from p to q with the      *)
(* finding g, may do to the row. Every step of the executor is in it.      *)
(***************************************************************************)
TableRow(a, q, g) ==
    LET p == attempt[a].pc
        f == attempt[a].found
    IN  \/ p = "reserve" /\ q = "perform" /\ g = "PENDING" /\ effect = "ABSENT"
           /\ effect' = "PENDING"
        \/ p = "reserve" /\ q = "load" /\ effect # "ABSENT" /\ effect' = effect
        \/ p = "load" /\ q = "succeeded" /\ effect = "COMMITTED" /\ effect' = effect
        \/ p = "load" /\ q = "perform" /\ g = effect /\ effect \in {"PENDING", "FAILED"}
           /\ effect' = effect
        \/ p = "load" /\ q = "resolve" /\ class # "UNRECONCILABLE" /\ effect' = effect
        \/ p = "load" /\ q = "escalated" /\ effect' = effect
        \/ p = "resolve" /\ q = "resolve" /\ effect = "RUNNING" /\ effect' = "UNKNOWN"
        \/ p = "resolve" /\ q \in {"escalated", "perform", "query"} /\ effect' = effect
        \/ p = "query" /\ q = "perform" /\ effect' = effect
        \/ p = "query" /\ q = "reconciled" /\ acts > 0 /\ effect' = effect
        \/ p = "reconciled" /\ q = "succeeded" /\ effect = "UNKNOWN"
           /\ effect' = "COMMITTED"
        \/ p = "perform" /\ q = "call" /\ effect = f /\ CanTransitionTo(f, "RUNNING")
           /\ effect' = "RUNNING"
        \/ p = "call" /\ q = "record" /\ g = "FAILED" /\ effect' = effect
        \/ p = "call" /\ q = "calling" /\ effect' = effect
        \/ p = "calling" /\ q = "record" /\ effect' = effect
           /\ ((g = "COMMITTED" /\ request[a] = "acted") \/ g = "UNKNOWN")
        \/ p = "record" /\ effect = "RUNNING" /\ effect' = f /\ f \in Verdicts
           /\ q = IF f = "COMMITTED" THEN "succeeded" ELSE "failed"
        \/ p # "unclaimed" /\ q \in {"failed", "reported"} /\ effect' = effect

AttemptStep(a, q, g) ==
    /\ Moves(a, q, g) /\ TableRow(a, q, g)
    /\ IF q = "calling" THEN request' = [request EXCEPT ![a] = "travelling"]
                        ELSE UNCHANGED request
    /\ task' = task \/ (task' = "completed" /\ At(a, "succeeded")) \/ task' = "dead"
    /\ UNCHANGED <<class, claims, acts, forgotten, sweep, command, ruled>>

\* Every step of the executor is one of the moves above.
LEMMA ExecutorSteps ==
  ASSUME TypeInv, NEW a \in Attempts, Executes(a) \/ Crash(a)
  PROVE  \E q \in PCs, g \in EffectStatus : AttemptStep(a, q, g)
  <1> DEFINE Goal == \E q \in PCs, g \in EffectStatus : AttemptStep(a, q, g)
  <1>1. /\ TypeOK /\ attempt[a].found \in EffectStatus /\ effect \in EffectStatus
        /\ class \in {"IDEMPOTENT_BY_KEY", "QUERYABLE", "UNRECONCILABLE"}
        /\ "ABSENT" \in EffectStatus
    BY ClassAssumption DEF TypeInv, TypeOK, EffectStatus
  <1> USE DEF PCs, Ends, Returns, Others, world, At, TableRow, AttemptStep
  <1>2. CASE Reserve(a)
    <2>1. CASE effect = "ABSENT"
      <3>0. RecoveryFor("PENDING", class) = "EXECUTE"
        BY DEF RecoveryFor, Unresolved
      <3>1. Finds(a, "perform", "PENDING")
        BY <1>2, <2>1, <3>0 DEF Reserve, Recovers
      <3>2. Moves(a, "perform", "PENDING")
        BY <1>1, <3>1, FindsMoves DEF EffectStatus
      <3>3. TableRow(a, "perform", "PENDING")
        BY <1>2, <2>1 DEF Reserve, ReserveEffect
      <3> HIDE DEF TableRow
      <3> QED
        BY <1>2, <3>2, <3>3 DEF Reserve, EffectStatus
    <2>2. CASE effect # "ABSENT"
      <3>1. Moves(a, "load", attempt[a].found)
        BY <1>1, <1>2, <2>2, GoesMoves DEF Reserve
      <3> QED
        BY <1>1, <1>2, <2>2, <3>1 DEF Reserve, ReserveEffect
    <2> QED
      BY <2>1, <2>2
  <1>3. CASE LoadExisting(a)
    <2>1. effect # "ABSENT"
      BY <1>3 DEF LoadExisting, TypeInv, LoadFindsRow
    <2> DEFINE q == CASE RecoveryFor(effect, class) = "COMPLETE"  -> "succeeded"
                      [] RecoveryFor(effect, class) = "EXECUTE"   -> "perform"
                      [] RecoveryFor(effect, class) = "RECONCILE" -> "resolve"
                      [] RecoveryFor(effect, class) = "ESCALATE"  -> "escalated"
    <2>2. \/ q = "succeeded" /\ effect = "COMMITTED"
          \/ q = "perform" /\ effect \in {"PENDING", "FAILED"}
          \/ q = "resolve" /\ class # "UNRECONCILABLE"
          \/ q = "escalated"
      BY <1>1, <2>1 DEF RecoveryFor, Unresolved, EffectStatus
    <2>3. Finds(a, q, effect)
      BY <1>3 DEF LoadExisting, Recovers
    <2> HIDE DEF q
    <2>4. q \in PCs
      BY <2>2
    <2>5. Moves(a, q, effect)
      BY <1>1, <2>3, <2>4, FindsMoves
    <2>6. TableRow(a, q, effect)
      BY <1>3, <2>2 DEF LoadExisting
    <2> QED
      BY <1>1, <1>3, <2>4, <2>2, <2>5, <2>6 DEF LoadExisting
  <1>4. CASE MarkUnknown(a)
    <2>1. CASE MayTransition("RUNNING", "UNKNOWN")
      <3>1. Moves(a, "resolve", "UNKNOWN")
        BY <1>1, <1>4, <2>1, FindsMoves DEF MarkUnknown, EffectStatus
      <3> QED
        BY <1>4, <2>1, <3>1 DEF MarkUnknown, MayTransition, EffectStatus
    <2>2. CASE ~MayTransition("RUNNING", "UNKNOWN")
      <3>1. Moves(a, "failed", "ABSENT")
        BY <1>1, <1>4, <2>2, FindsMoves DEF MarkUnknown
      <3> QED
        BY <1>1, <1>4, <2>2, <3>1 DEF MarkUnknown
    <2> QED
      BY <2>1, <2>2
  <1>5. CASE Resolve(a)
    <2>1. PICK q \in {"escalated", "perform", "query"} : Goes(a, q)
      BY <1>5 DEF Resolve
    <2>2. Moves(a, q, attempt[a].found)
      BY <1>1, <2>1, GoesMoves
    <2> QED
      BY <1>1, <1>5, <2>2 DEF Resolve
  <1>6. CASE Query(a)
    <2>1. CASE Lookup = "COMMITTED"
      <3>1. acts > 0
        BY <2>1 DEF Lookup
      <3>2. Moves(a, "reconciled", attempt[a].found)
        BY <1>1, <1>6, <2>1, GoesMoves DEF Query
      <3> QED
        BY <1>1, <1>6, <3>1, <3>2 DEF Query
    <2>2. CASE Lookup # "COMMITTED"
      <3>1. Moves(a, "perform", attempt[a].found)
        BY <1>1, <1>6, <2>2, GoesMoves DEF Query
      <3> QED
        BY <1>1, <1>6, <3>1 DEF Query
    <2> QED
      BY <2>1, <2>2
  <1>7. CASE QueryFails(a)
    <2>1. Moves(a, "failed", "ABSENT")
      BY <1>1, <1>7, FindsMoves DEF QueryFails
    <2> QED
      BY <1>1, <1>7, <2>1 DEF QueryFails
  <1>8. CASE RecordReconciled(a)
    <2>1. CASE MayTransition("UNKNOWN", "COMMITTED")
      <3>1. Moves(a, "succeeded", "ABSENT")
        BY <1>1, <1>8, <2>1, FindsMoves DEF RecordReconciled
      <3> QED
        BY <1>1, <1>8, <2>1, <3>1 DEF RecordReconciled, MayTransition
    <2>2. CASE ~MayTransition("UNKNOWN", "COMMITTED")
      <3>1. Moves(a, "failed", "ABSENT")
        BY <1>1, <1>8, <2>2, FindsMoves DEF RecordReconciled
      <3> QED
        BY <1>1, <1>8, <2>2, <3>1 DEF RecordReconciled
    <2> QED
      BY <2>1, <2>2
  <1>9. CASE MarkRunning(a)
    <2>1. CASE MayTransition(attempt[a].found, "RUNNING")
      <3>1. Moves(a, "call", "RUNNING")
        BY <1>1, <1>9, <2>1, FindsMoves DEF MarkRunning, EffectStatus
      <3> QED
        BY <1>9, <2>1, <3>1 DEF MarkRunning, MayTransition, EffectStatus
    <2>2. CASE ~MayTransition(attempt[a].found, "RUNNING")
      <3>1. Moves(a, "failed", "ABSENT")
        BY <1>1, <1>9, <2>2, FindsMoves DEF MarkRunning
      <3> QED
        BY <1>1, <1>9, <2>2, <3>1 DEF MarkRunning
    <2> QED
      BY <2>1, <2>2
  <1>10. CASE CallNotSent(a)
    <2>1. Moves(a, "record", "FAILED")
      BY <1>1, <1>10, FindsMoves DEF CallNotSent, ClassifyFailure, EffectStatus
    <2>2. TableRow(a, "record", "FAILED")
      BY <1>10 DEF CallNotSent
    <2> HIDE DEF TableRow
    <2> QED
      BY <1>10, <2>1, <2>2 DEF CallNotSent, EffectStatus
  <1>11. CASE CallSent(a)
    <2>1. Moves(a, "calling", attempt[a].found)
      BY <1>1, <1>11, GoesMoves DEF CallSent
    <2> QED
      BY <1>1, <1>11, <2>1 DEF CallSent
  <1>12. CASE CallAnswered(a)
    <2>1. Moves(a, "record", "COMMITTED")
      BY <1>1, <1>12, FindsMoves DEF CallAnswered, EffectStatus
    <2>2. TableRow(a, "record", "COMMITTED")
      BY <1>12 DEF CallAnswered
    <2> HIDE DEF TableRow
    <2> QED
      BY <1>12, <2>1, <2>2 DEF CallAnswered, EffectStatus
  <1>13. CASE CallUnanswered(a)
    <2>1. Moves(a, "record", "UNKNOWN")
      BY <1>1, <1>13, FindsMoves DEF CallUnanswered, ClassifyFailure, EffectStatus
    <2>2. TableRow(a, "record", "UNKNOWN")
      BY <1>13 DEF CallUnanswered
    <2> HIDE DEF TableRow
    <2> QED
      BY <1>13, <2>1, <2>2 DEF CallUnanswered, EffectStatus
  <1>14. CASE RecordOutcome(a)
    <2> DEFINE f == attempt[a].found
               q == IF f = "COMMITTED" THEN "succeeded" ELSE "failed"
    <2>1. CASE MayTransition("RUNNING", f)
      <3>1. Moves(a, q, "ABSENT")
        BY <1>1, <1>14, <2>1, FindsMoves DEF RecordOutcome
      <3>2. effect = "RUNNING" /\ f \in Verdicts /\ effect' = f
        BY <1>14, <2>1 DEF RecordOutcome, MayTransition, CanTransitionTo, Verdicts
      <3>3. TableRow(a, q, "ABSENT") /\ q \in PCs
        BY <1>14, <3>2 DEF RecordOutcome
      <3> QED
        BY <1>1, <1>14, <3>1, <3>3 DEF RecordOutcome
    <2>2. CASE ~MayTransition("RUNNING", f)
      <3>1. Moves(a, "failed", "ABSENT")
        BY <1>1, <1>14, <2>2, FindsMoves DEF RecordOutcome
      <3> QED
        BY <1>1, <1>14, <2>2, <3>1 DEF RecordOutcome
    <2> QED
      BY <2>1, <2>2
  <1>15. CASE Report(a)
    <2>1. Moves(a, "reported", "ABSENT")
      BY <1>1, <1>15, FindsMoves DEF Report
    <2>2. task' = task \/ (task' = "completed" /\ At(a, "succeeded")) \/ task' = "dead"
      <3> HIDE DEF At
      <3>1. CASE a # claims \/ task # "open"
        BY <1>15, <3>1 DEF Report
      <3>2. CASE ~(a # claims \/ task # "open") /\ At(a, "succeeded")
        BY <1>15, <3>2 DEF Report
      <3>3. CASE ~(a # claims \/ task # "open") /\ ~At(a, "succeeded")
        BY <1>15, <3>3 DEF Report
      <3> QED
        BY <3>1, <3>2, <3>3
    <2>3. TableRow(a, "reported", "ABSENT")
      BY <1>15 DEF Report
    <2> HIDE DEF TableRow
    <2> QED
      BY <1>1, <1>15, <2>1, <2>2, <2>3 DEF Report
  <1>16. CASE Crash(a)
    <2>1. Moves(a, "reported", "ABSENT")
      BY <1>1, <1>16, FindsMoves DEF Crash
    <2> QED
      BY <1>1, <1>16, <2>1 DEF Crash
  <1> QED
    BY <1>2, <1>3, <1>4, <1>5, <1>6, <1>7, <1>8, <1>9, <1>10, <1>11, <1>12, <1>13,
       <1>14, <1>15, <1>16 DEF Executes

(***************************************************************************)
(* The same for the background reconciler and for the operator's command.  *)
(***************************************************************************)
SweepRecord == [pc : {"idle", "settle", "record"}, found : EffectStatus,
                expired : BOOLEAN]

SettleStep(r, q) ==
    /\ sweep' = [sweep EXCEPT ![r] = q]
    /\ \/ q.pc = "settle" /\ effect' = effect
       \/ q.pc = "settle" /\ effect = "RUNNING" /\ effect' = "UNKNOWN"
       \/ q.pc = "record" /\ effect' = effect /\ class # "UNRECONCILABLE"
          /\ (q.found = "COMMITTED" => acts > 0)
       \/ q.pc = "idle" /\ effect' = effect
       \/ q.pc = "idle" /\ sweep[r].pc = "record" /\ effect = "UNKNOWN"
          /\ effect' = sweep[r].found /\ sweep[r].found \notin {"ABSENT", "PENDING"}
    /\ UNCHANGED <<class, task, claims, attempt, request, acts, forgotten, command, ruled>>

\* Every step of the reconciler is one of its moves.
LEMMA ReconcilerSteps ==
  ASSUME TypeInv, NEW r \in Sweepers, Settles(r)
  PROVE  \E q \in SweepRecord : SettleStep(r, q)
  <1>1. /\ effect \in EffectStatus /\ forgotten \in BOOLEAN
        /\ sweep[r] \in SweepRecord
    BY DEF TypeInv, TypeOK, SweepRecord
  <1>2. Off \in SweepRecord /\ Off.pc = "idle"
    BY DEF Off, SweepRecord, EffectStatus
  <1> USE DEF Sweeps, world
  <1>3. CASE SweepReads(r)
    <2> DEFINE q == [pc |-> "settle", found |-> effect, expired |-> forgotten]
    <2>1. q \in SweepRecord /\ q.pc = "settle"
      BY <1>1 DEF SweepRecord
    <2>2. SettleStep(r, q)
      BY <1>3, <2>1 DEF SweepReads, SettleStep
    <2> QED
      BY <2>1, <2>2
  <1>4. CASE SweepMarks(r)
    <2> DEFINE q == [sweep[r] EXCEPT !.found = "UNKNOWN"]
    <2>1. q \in SweepRecord /\ q.pc = "settle"
      BY <1>1, <1>4 DEF SweepMarks, SweepRecord, EffectStatus
    <2>2. effect' = effect \/ (effect = "RUNNING" /\ effect' = "UNKNOWN")
      BY <1>4 DEF SweepMarks, MayTransition
    <2>3. sweep' = [sweep EXCEPT ![r] = q]
      BY <1>4 DEF SweepMarks
    <2> HIDE DEF q
    <2>4. SettleStep(r, q)
      BY <1>4, <2>1, <2>2, <2>3 DEF SweepMarks, SettleStep
    <2> QED
      BY <2>1, <2>4
  <1>5. CASE SweepAsks(r)
    <2> DEFINE q == [sweep[r] EXCEPT !.pc = "record", !.found = Lookup]
    <2>1. Lookup \in EffectStatus /\ (Lookup = "COMMITTED" => acts > 0)
      BY DEF Lookup, EffectStatus
    <2>2. q \in SweepRecord /\ q.pc = "record" /\ q.found = Lookup
      BY <1>1, <2>1 DEF SweepRecord
    <2>3. sweep' = [sweep EXCEPT ![r] = q]
      BY <1>5 DEF SweepAsks
    <2> HIDE DEF q
    <2>4. SettleStep(r, q)
      BY <1>5, <2>1, <2>2, <2>3 DEF SweepAsks, Askable, SettleStep
    <2> QED
      BY <2>2, <2>4
  <1>6. CASE SweepGivesUp(r)
    BY <1>2, <1>6 DEF SweepGivesUp, SettleStep
  <1>7. CASE SweepRecords(r)
    <2>1. CanTransitionTo("UNKNOWN", sweep[r].found)
             => sweep[r].found \notin {"ABSENT", "PENDING"}
      BY DEF CanTransitionTo
    <2> QED
      BY <1>2, <1>7, <2>1 DEF SweepRecords, MayTransition, SettleStep
  <1> QED
    BY <1>3, <1>4, <1>5, <1>6, <1>7 DEF Settles

ResolveStep ==
    /\ command'.pc = "idle"
    /\ \/ UNCHANGED <<effect, ruled>>
       \/ /\ command.pc = "write" /\ ruled' = TRUE
          /\ effect # "COMMITTED"
          /\ effect' = command.verdict /\ command.verdict \notin {"ABSENT", "PENDING"}
    /\ UNCHANGED <<class, task, claims, attempt, request, acts, forgotten, sweep>>

\* Every step of an operator is a resolution.
LEMMA OperatorSteps == ResolveWrites => ResolveStep
  <1> SUFFICES ASSUME ResolveWrites PROVE ResolveStep
    OBVIOUS
  <1> DEFINE from == IF command.found = "RUNNING" THEN "UNKNOWN" ELSE command.found
  <1>1. CASE effect = command.found /\ CanTransitionTo(from, command.verdict)
    <2>1. from # "COMMITTED" /\ command.verdict \notin {"ABSENT", "PENDING"}
      BY <1>1 DEF CanTransitionTo
    <2> QED
      BY <1>1, <2>1 DEF ResolveWrites, ResolveStep, NoCommand, world
  <1>2. CASE ~(effect = command.found /\ CanTransitionTo(from, command.verdict))
    BY <1>2 DEF ResolveWrites, ResolveStep, NoCommand, world
  <1> QED
    BY <1>1, <1>2

\* There are finitely many attempts.
LEMMA AttemptsFinite == IsFiniteSet(Attempts) /\ Cardinality(Attempts) = MaxAttempts
  BY LimitAssumption, FS_Interval DEF Attempts

\* Each acts once, so there are no more acts than attempts.
LEMMA ActedIsBounded ==
  IsFiniteSet(Acted) /\ Cardinality(Acted) \in Nat /\ Cardinality(Acted) <= MaxAttempts
  <1>1. Acted \in SUBSET Attempts
    BY DEF Acted
  <1> QED
    BY <1>1, AttemptsFinite, FS_Subset, FS_CardinalityType

\* The row's place in line: a write may add rows ahead of it, nothing else does.
LEMMA PlaceStep ==
  ASSUME TypeOK, [Next]_vars
  PROVE  ahead' \in 0..Backlog
  <1> DEFINE Kept == ahead' = ahead \/ \E to \in EffectStatus \cup Verdicts : Writes(to)
  <1>0. ahead \in 0..Backlog /\ Backlog \in Nat
    BY BatchAssumption DEF TypeOK
  <1>1. ASSUME Kept PROVE ahead' \in 0..Backlog
    BY <1>0, <1>1
  <1> USE DEF EffectStatus, Verdicts
  <1>2. ASSUME NEW a \in Attempts, Executes(a) \/ Crash(a) PROVE Kept
    <2>1. CASE Reserve(a)
      BY <2>1 DEF Reserve, ReserveEffect
    <2>2. CASE MarkUnknown(a) \/ RecordReconciled(a) \/ MarkRunning(a)
      BY <2>2 DEF MarkUnknown, RecordReconciled, MarkRunning
    <2>3. CASE RecordOutcome(a)
      <3>1. attempt[a].found \in EffectStatus
        BY DEF TypeOK
      <3> QED
        BY <2>3, <3>1 DEF RecordOutcome
    <2>4. CASE LoadExisting(a) \/ Resolve(a) \/ Query(a) \/ QueryFails(a) \/ CallNotSent(a)
               \/ CallSent(a) \/ CallAnswered(a) \/ CallUnanswered(a) \/ Report(a) \/ Crash(a)
      BY <2>4 DEF LoadExisting, Resolve, Query, QueryFails, CallNotSent, CallSent,
                  CallAnswered, CallUnanswered, Report, Crash
    <2> QED
      BY <1>2, <2>1, <2>2, <2>3, <2>4 DEF Executes
  <1>3. ASSUME NEW a \in Attempts, Claim(a) \/ ProviderActs(a) \/ RequestLost(a) PROVE Kept
    BY <1>3 DEF Claim, ProviderActs, RequestLost
  <1>4. ASSUME NEW r \in Sweepers, Settles(r) PROVE Kept
    <2>1. sweep[r].found \in EffectStatus
      BY DEF TypeOK
    <2> QED
      BY <1>4, <2>1 DEF Settles, SweepReads, SweepMarks, SweepAsks, SweepGivesUp, SweepRecords
  <1>5. CASE ResolveWrites
    <2>1. command.verdict \in Verdicts
      BY DEF TypeOK
    <2> QED
      BY <1>1, <1>5, <2>1 DEF ResolveWrites
  <1>6. CASE Bury \/ RetentionLapses \/ ResolveReads \/ UNCHANGED vars
    BY <1>1, <1>6 DEF Bury, RetentionLapses, ResolveReads, vars
  <1>7. CASE OthersMove
    BY <1>0, <1>7 DEF OthersMove
  <1> QED
    BY <1>1, <1>2, <1>3, <1>4, <1>5, <1>6, <1>7 DEF Next

\* An attempt's step, as far as the types are concerned.
LEMMA TypeAfterAttempt ==
  ASSUME TypeInv, NEW a \in Attempts, NEW q \in PCs, NEW g \in EffectStatus,
         AttemptStep(a, q, g), ahead' \in 0..Backlog
  PROVE  TypeInv'
  <1> USE DEF TypeInv
  <1>1. effect' \in EffectStatus /\ (effect # "ABSENT" => effect' # "ABSENT")
    BY DEF AttemptStep, TableRow, TypeOK, EffectStatus, Verdicts
  <1>2. attempt[a].pc # "unclaimed" /\ (q \in Unsent => attempt[a].pc \in Unsent)
        /\ (q = "load" => effect # "ABSENT") /\ (q = "calling" => q \notin Unsent)
    BY DEF AttemptStep, TableRow, Unsent
  <1>3. request' \in [Attempts -> {"none", "travelling", "acted", "lost"}]
    BY DEF AttemptStep, TypeOK
  <1>4. \A b \in Attempts : b # a => attempt'[b] = attempt[b] /\ request'[b] = request[b]
    BY DEF AttemptStep, Moves, TypeOK
  <1>5. attempt'[a].pc = q /\ (q # "calling" => request'[a] = request[a])
    BY DEF AttemptStep, Moves
  <1>6. TypeOK'
    BY <1>1, <1>3 DEF AttemptStep, Moves, AttemptRecord, TypeOK
  <1>7. ClaimedInTurn'
    BY <1>2, <1>4 DEF AttemptStep, ClaimedInTurn, At
  <1>8. SentOnce'
    BY <1>2, <1>4, <1>5 DEF SentOnce
  <1>9. LoadFindsRow'
    BY <1>1, <1>2, <1>4, <1>5 DEF LoadFindsRow, At
  <1>10. Acted' = Acted
    <2>1. CASE q = "calling"
      <3>1. attempt[a].pc = "call"
        BY <2>1 DEF AttemptStep, TableRow
      <3>2. request[a] = "none"
        BY <3>1 DEF SentOnce, Unsent
      <3>3. request'[a] = "travelling"
        BY <2>1 DEF AttemptStep, TypeOK
      <3> QED
        BY <1>4, <3>2, <3>3 DEF Acted
    <2>2. CASE q # "calling"
      BY <2>2 DEF AttemptStep, Acted
    <2> QED
      BY <2>1, <2>2
  <1>11. ActsAreAnswered'
    BY <1>10 DEF AttemptStep, ActsAreAnswered
  <1> QED
    BY <1>6, <1>7, <1>8, <1>9, <1>11

\* Every step keeps the shapes.
LEMMA TypeStep == TypeInv /\ [Next]_vars => TypeInv'
  <1> SUFFICES ASSUME TypeInv, [Next]_vars PROVE TypeInv'
    OBVIOUS
  <1> USE LimitAssumption DEF TypeInv
  <1>0. ahead' \in 0..Backlog
    BY PlaceStep
  <1>1. ASSUME NEW a \in Attempts, Claim(a) PROVE TypeInv'
    <2>1. Moves(a, "reserve", attempt[a].found)
      BY <1>1, GoesMoves DEF Claim, PCs
    <2>2. a = claims + 1 /\ claims' = a /\ claims \in Nat
      BY <1>1 DEF Claim, TypeOK
    <2>3. At(a, "unclaimed")
      BY <2>2 DEF ClaimedInTurn, Attempts
    <2>4. TypeOK'
      BY <1>1, <2>1, <2>2 DEF Claim, world, Moves, AttemptRecord, TypeOK, Attempts
    <2>5. ClaimedInTurn'
      BY <1>1, <2>1, <2>2 DEF Claim, Moves, ClaimedInTurn, At, Attempts
    <2>6. SentOnce'
      BY <1>1, <2>1, <2>3 DEF Claim, world, Moves, SentOnce, At, Unsent
    <2>7. LoadFindsRow'
      BY <1>1, <2>1 DEF Claim, Moves, LoadFindsRow, At
    <2>8. ActsAreAnswered'
      BY <1>1 DEF Claim, world, ActsAreAnswered, Acted
    <2> QED
      BY <2>4, <2>5, <2>6, <2>7, <2>8
  <1>2. ASSUME NEW a \in Attempts, Executes(a) \/ Crash(a) PROVE TypeInv'
    BY <1>0, <1>2, ExecutorSteps, TypeAfterAttempt
  <1>3. ASSUME NEW a \in Attempts, ProviderActs(a) PROVE TypeInv'
    <2>1. request[a] = "travelling" /\ request' = [request EXCEPT ![a] = "acted"]
      BY <1>3 DEF ProviderActs
    <2>2. request' \in [Attempts -> {"none", "travelling", "acted", "lost"}]
      BY <2>1 DEF TypeOK
    <2>3. a \notin Acted /\ Acted' = Acted \cup {a}
      BY <2>1 DEF Acted, TypeOK
    <2>4. IsFiniteSet(Acted') /\ Cardinality(Acted') = Cardinality(Acted) + 1
      BY <2>3, ActedIsBounded, FS_AddElement
    <2>5. Cardinality(Acted') <= MaxAttempts
      <3>1. Acted' \in SUBSET Attempts
        BY DEF Acted
      <3> QED
        BY <3>1, AttemptsFinite, FS_Subset
    <2>6. acts' \in Nat /\ acts' <= acts + 1 /\ acts \in Nat
      BY <1>3 DEF ProviderActs, TypeOK
    <2>7. ActsAreAnswered'
      BY <2>4, <2>6, ActedIsBounded DEF ActsAreAnswered
    <2>8. acts' \in 0..MaxAttempts
      BY <2>4, <2>5, <2>6, <2>7, ActedIsBounded DEF ActsAreAnswered
    <2>9. TypeOK'
      BY <1>3, <2>2, <2>8 DEF ProviderActs, TypeOK
    <2>10. ClaimedInTurn' /\ SentOnce' /\ LoadFindsRow'
      BY <1>3, <2>1 DEF ProviderActs, TypeOK, ClaimedInTurn, SentOnce, LoadFindsRow, At
    <2> QED
      BY <2>7, <2>9, <2>10
  <1>4. ASSUME NEW a \in Attempts, RequestLost(a) PROVE TypeInv'
    <2>1. request[a] = "travelling" /\ request' = [request EXCEPT ![a] = "lost"]
      BY <1>4 DEF RequestLost
    <2>2. Acted' = Acted
      BY <2>1 DEF Acted, TypeOK
    <2>3. TypeOK'
      BY <1>4, <2>1 DEF RequestLost, TypeOK
    <2>4. ClaimedInTurn' /\ SentOnce' /\ LoadFindsRow'
      BY <1>4, <2>1 DEF RequestLost, TypeOK, ClaimedInTurn, SentOnce, LoadFindsRow, At
    <2> QED
      BY <1>4, <2>2, <2>3, <2>4 DEF RequestLost, ActsAreAnswered
  <1> USE DEF ClaimedInTurn, SentOnce, LoadFindsRow, ActsAreAnswered, At, Acted
  <1>5. CASE Bury
    BY <1>5 DEF Bury, world, TypeOK
  <1>6. CASE RetentionLapses
    BY <1>6 DEF RetentionLapses, TypeOK
  <1>7. ASSUME NEW r \in Sweepers, Settles(r) PROVE TypeInv'
    <2>1. PICK q \in SweepRecord : SettleStep(r, q)
      BY <1>7, ReconcilerSteps
    <2>2. sweep \in [Sweepers -> SweepRecord] /\ sweep[r].found \in EffectStatus
      BY DEF TypeOK, SweepRecord
    <2>3. sweep' \in [Sweepers -> SweepRecord]
      BY <2>1, <2>2 DEF SettleStep
    <2>4. effect' \in EffectStatus /\ (effect # "ABSENT" => effect' # "ABSENT")
      BY <2>1, <2>2 DEF SettleStep, TypeOK, EffectStatus
    <2>5. TypeOK'
      BY <1>0, <2>1, <2>3, <2>4 DEF SettleStep, TypeOK, SweepRecord
    <2> QED
      BY <2>1, <2>4, <2>5 DEF SettleStep
  <1>8. CASE ResolveReads
    <2>1. command' \in [pc : {"idle", "write"}, found : EffectStatus, verdict : Verdicts]
      BY <1>8 DEF ResolveReads, TypeOK, Verdicts
    <2> QED
      BY <1>8, <2>1 DEF ResolveReads, world, TypeOK
  <1>9. CASE ResolveWrites
    <2>1. ResolveStep
      BY <1>9, OperatorSteps
    <2>2. command.verdict \in Verdicts
      BY DEF TypeOK
    <2>3. effect' \in EffectStatus /\ (effect # "ABSENT" => effect' # "ABSENT")
      BY <2>1, <2>2 DEF ResolveStep, TypeOK, EffectStatus, Verdicts
    <2>4. command' \in [pc : {"idle", "write"}, found : EffectStatus, verdict : Verdicts]
      BY <1>9 DEF ResolveWrites, NoCommand, EffectStatus, Verdicts
    <2>5. ruled' \in BOOLEAN
      BY <2>1 DEF ResolveStep, TypeOK
    <2>6. TypeOK'
      BY <1>0, <2>1, <2>3, <2>4, <2>5 DEF ResolveStep, TypeOK
    <2> QED
      BY <2>1, <2>3, <2>6 DEF ResolveStep
  <1>10. CASE UNCHANGED vars
    BY <1>10 DEF vars, TypeOK
  <1>11. CASE OthersMove
    BY <1>0, <1>11 DEF OthersMove, world, TypeOK
  <1> QED
    BY <1>1, <1>2, <1>3, <1>4, <1>5, <1>6, <1>7, <1>8, <1>9, <1>10, <1>11 DEF Next

\* The row, the attempts, the requests and the settlers keep their shapes in
\* every execution of EffectLedger; in particular the provider never acts more
\* often than the task has attempts, and load always finds the row it expects.
THEOREM TypeCorrect == Spec => []TypeOK
  <1>1. TypeInv => TypeOK
    BY DEF TypeInv
  <1> QED
    BY <1>1, TypeInit, TypeStep, PTL DEF Spec

----------------------------------------------------------------------------
(***************************************************************************)
(* Whoever is about to write COMMITTED has seen that the provider acted.   *)
(***************************************************************************)
Evidence ==
    /\ \A a \in Attempts :
          /\ request[a] = "acted" \/ At(a, "reconciled") => acts > 0
          /\ At(a, "record") /\ attempt[a].found = "COMMITTED" => acts > 0
          /\ At(a, "succeeded") => effect = "COMMITTED"
    /\ \A r \in Sweepers :
          sweep[r].pc = "record" /\ sweep[r].found = "COMMITTED" => acts > 0
    /\ command.pc = "write" /\ command.verdict = "COMMITTED" => acts > 0

LedgerInv == TypeInv /\ IntentFirst /\ Evidence /\ CommittedIsTrue /\ CompletedIsRecorded

\* The row's status, along every step: COMMITTED is never left, and nobody
\* comes back to ABSENT or PENDING.
LEMMA StatusStep ==
  ASSUME TypeInv, [Next]_vars
  PROVE  /\ effect = "COMMITTED" => effect' = "COMMITTED"
         /\ effect' \in {"ABSENT", "PENDING"} => effect \in {"ABSENT", "PENDING"}
  <1> DEFINE Goal == /\ effect = "COMMITTED" => effect' = "COMMITTED"
                     /\ effect' \in {"ABSENT", "PENDING"} => effect \in {"ABSENT", "PENDING"}
  <1>1. ASSUME NEW a \in Attempts, Executes(a) \/ Crash(a) PROVE Goal
    <2>1. PICK q \in PCs, g \in EffectStatus : AttemptStep(a, q, g)
      BY <1>1, ExecutorSteps
    <2> QED
      BY <2>1 DEF AttemptStep, TableRow, CanTransitionTo, Verdicts
  <1>2. ASSUME NEW r \in Sweepers, Settles(r) PROVE Goal
    <2>1. PICK q \in SweepRecord : SettleStep(r, q)
      BY <1>2, ReconcilerSteps
    <2> QED
      BY <2>1 DEF SettleStep
  <1>3. CASE ResolveWrites
    BY <1>3, OperatorSteps DEF ResolveStep
  <1>4. ASSUME NEW a \in Attempts, Claim(a) \/ ProviderActs(a) \/ RequestLost(a)
        PROVE  UNCHANGED effect
    BY <1>4 DEF Claim, ProviderActs, RequestLost
  <1>5. CASE Bury \/ RetentionLapses \/ ResolveReads \/ OthersMove \/ UNCHANGED vars
    BY <1>5 DEF Bury, RetentionLapses, ResolveReads, OthersMove, vars
  <1> QED
    BY <1>1, <1>2, <1>3, <1>4, <1>5 DEF Next

\* The ledger starts with nothing claimed.
LEMMA LedgerInit == Init => LedgerInv
  <1> SUFFICES ASSUME Init PROVE LedgerInv
    OBVIOUS
  <1>1. IntentFirst
    BY DEF Init, IntentFirst, Underway, At
  <1>2. Evidence /\ CommittedIsTrue /\ CompletedIsRecorded
    BY DEF Init, Evidence, CommittedIsTrue, CompletedIsRecorded, At, Off, NoCommand
  <1> QED
    BY <1>1, <1>2, TypeInit DEF LedgerInv

\* Every step keeps what the ledger says true.
LEMMA LedgerStep == LedgerInv /\ [Next]_vars => LedgerInv'
  <1> SUFFICES ASSUME LedgerInv, [Next]_vars PROVE LedgerInv'
    OBVIOUS
  <1> DEFINE Facts == IntentFirst /\ Evidence /\ CommittedIsTrue /\ CompletedIsRecorded
  <1>0. /\ TypeInv /\ TypeInv' /\ Facts
        /\ effect = "COMMITTED" => effect' = "COMMITTED"
        /\ effect' \in {"ABSENT", "PENDING"} => effect \in {"ABSENT", "PENDING"}
    BY TypeStep, StatusStep DEF LedgerInv
  <1> SUFFICES Facts'
    BY <1>0 DEF LedgerInv
  <1>1. ASSUME NEW a \in Attempts, Claim(a) PROVE Facts'
    <2>1. Moves(a, "reserve", attempt[a].found)
      BY <1>0, <1>1, GoesMoves DEF Claim, PCs, TypeInv
    <2>2. Underway' \subseteq Underway
      BY <1>1, <2>1 DEF Claim, Moves, world, Underway, At
    <2>3. Evidence'
      BY <1>0, <1>1, <2>1 DEF Claim, Moves, world, Evidence, At
    <2> QED
      BY <1>0, <1>1, <2>2, <2>3
      DEF Claim, world, IntentFirst, CommittedIsTrue, CompletedIsRecorded
  <1>2. ASSUME NEW a \in Attempts, Executes(a) \/ Crash(a) PROVE Facts'
    <2>1. PICK q \in PCs, g \in EffectStatus : AttemptStep(a, q, g)
      BY <1>0, <1>2, ExecutorSteps
    <2>2. /\ acts' = acts /\ UNCHANGED <<sweep, command>>
          /\ attempt'[a].pc = q /\ attempt'[a].found = g
          /\ \A b \in Attempts : b # a =>
                 attempt'[b] = attempt[b] /\ request'[b] = request[b]
      BY <1>0, <2>1 DEF AttemptStep, Moves, TypeInv, TypeOK
    <2>3. request'[a] = request[a] \/ (request'[a] = "travelling" /\ At(a, "call"))
      BY <1>0, <2>1 DEF AttemptStep, TableRow, TypeInv, TypeOK, At
    <2>4. IntentFirst'
      <3>1. SUFFICES ASSUME effect' \in {"ABSENT", "PENDING"}
                     PROVE  ~(acts' > 0) /\ Underway' = {}
        BY DEF IntentFirst
      <3>2. ~(acts > 0) /\ Underway = {}
        BY <1>0, <3>1 DEF IntentFirst
      <3>3. q # "call"
        BY <2>1, <3>1 DEF AttemptStep, TableRow
      <3> QED
        BY <2>2, <2>3, <3>2, <3>3 DEF Underway, At
    <2>5. /\ q = "reconciled" => acts > 0
          /\ q = "record" /\ g = "COMMITTED" => acts > 0
          /\ q = "succeeded" => effect' = "COMMITTED"
          /\ effect' = "COMMITTED" => effect = "COMMITTED" \/ acts > 0
      BY <1>0, <2>1 DEF AttemptStep, TableRow, Evidence, At
    <2>6. Evidence'
      BY <1>0, <2>2, <2>3, <2>5 DEF Evidence, At
    <2>7. CommittedIsTrue'
      BY <1>0, <2>2, <2>5 DEF CommittedIsTrue
    <2>8. CompletedIsRecorded'
      BY <1>0, <2>1 DEF AttemptStep, CompletedIsRecorded, Evidence
    <2> QED
      BY <2>4, <2>6, <2>7, <2>8
  <1>3. ASSUME NEW a \in Attempts, ProviderActs(a) PROVE Facts'
    <2>1. /\ request[a] = "travelling" /\ request' = [request EXCEPT ![a] = "acted"]
          /\ UNCHANGED <<effect, task, attempt, sweep, command>>
      BY <1>3 DEF ProviderActs
    <2>2. acts' > 0 /\ acts \in Nat
      BY <1>0, <1>3 DEF ProviderActs, TypeInv, TypeOK
    <2>3. a \in Underway
      BY <2>1 DEF Underway
    <2>4. IntentFirst'
      BY <1>0, <2>1, <2>3 DEF IntentFirst
    <2>5. Evidence'
      BY <1>0, <2>1, <2>2 DEF Evidence, At
    <2> QED
      BY <1>0, <2>1, <2>2, <2>4, <2>5 DEF CommittedIsTrue, CompletedIsRecorded
  <1>4. ASSUME NEW a \in Attempts, RequestLost(a) PROVE Facts'
    <2>1. /\ request' = [request EXCEPT ![a] = "lost"]
          /\ UNCHANGED <<effect, task, attempt, acts, sweep, command>>
      BY <1>4 DEF RequestLost
    <2>2. Underway' \subseteq Underway
      BY <1>0, <2>1 DEF Underway, At, TypeInv, TypeOK
    <2>3. Evidence'
      BY <1>0, <2>1 DEF Evidence, At, TypeInv, TypeOK
    <2> QED
      BY <1>0, <2>1, <2>2, <2>3 DEF IntentFirst, CommittedIsTrue, CompletedIsRecorded
  <1> USE DEF IntentFirst, Underway, CommittedIsTrue, CompletedIsRecorded, At
  <1>5. CASE Bury
    BY <1>0, <1>5 DEF Bury, world, Evidence
  <1>6. CASE RetentionLapses
    BY <1>0, <1>6 DEF RetentionLapses, Evidence
  <1>7. ASSUME NEW r \in Sweepers, Settles(r) PROVE Facts'
    <2>1. PICK q \in SweepRecord : SettleStep(r, q)
      BY <1>0, <1>7, ReconcilerSteps
    <2>2. /\ UNCHANGED <<task, attempt, request, acts, command>>
          /\ sweep'[r] = q /\ \A s \in Sweepers : s # r => sweep'[s] = sweep[s]
      BY <1>0, <2>1 DEF SettleStep, TypeInv, TypeOK
    <2>3. /\ q.pc = "record" /\ q.found = "COMMITTED" => acts > 0
          /\ effect' = "COMMITTED" => effect = "COMMITTED" \/ acts > 0
      BY <1>0, <2>1 DEF SettleStep, Evidence
    <2>4. Evidence'
      BY <1>0, <2>2, <2>3 DEF Evidence
    <2> QED
      BY <1>0, <2>2, <2>3, <2>4
  <1>8. CASE ResolveReads
    <2>1. command'.verdict = "COMMITTED" => acts > 0
      BY <1>8 DEF ResolveReads
    <2> QED
      BY <1>0, <1>8, <2>1 DEF ResolveReads, world, Evidence
  <1>9. CASE ResolveWrites
    <2>1. ResolveStep
      BY <1>9, OperatorSteps
    <2>2. effect' = "COMMITTED" => effect = "COMMITTED" \/ acts > 0
      BY <1>0, <2>1 DEF ResolveStep, Evidence
    <2> QED
      BY <1>0, <2>1, <2>2 DEF ResolveStep, Evidence
  <1>10. CASE UNCHANGED vars
    BY <1>0, <1>10 DEF vars, Evidence
  <1>11. CASE OthersMove
    BY <1>0, <1>11 DEF OthersMove, world, Evidence
  <1> QED
    BY <1>1, <1>2, <1>3, <1>4, <1>5, <1>6, <1>7, <1>8, <1>9, <1>10, <1>11 DEF Next

\* What the ledger says stays true.
LEMMA LedgerInvariant == Spec => []LedgerInv
  BY LedgerInit, LedgerStep, PTL DEF Spec

\* The write-ahead rule, for every interleaving of attempts, sweeps, crashes
\* and late requests: whatever has reached the provider or is on its way was
\* preceded by a row that says it may be happening (perform, MarkRunning).
THEOREM WriteAhead == Spec => []IntentFirst
  <1>1. LedgerInv => IntentFirst
    BY DEF LedgerInv
  <1> QED
    BY <1>1, LedgerInvariant, PTL

\* COMMITTED is evidence: no executor, lookup, reconciler or operator ever
\* writes it of an action the provider has not performed.
THEOREM CommittedIsEvidence == Spec => []CommittedIsTrue
  <1>1. LedgerInv => CommittedIsTrue
    BY DEF LedgerInv
  <1> QED
    BY <1>1, LedgerInvariant, PTL

\* A task that completed has its outcome in the ledger, although the report and
\* the ledger's writes are separate transactions of processes that may die.
THEOREM CompletionIsRecorded == Spec => []CompletedIsRecorded
  <1>1. LedgerInv => CompletedIsRecorded
    BY DEF LedgerInv
  <1> QED
    BY <1>1, LedgerInvariant, PTL

\* No late writer takes COMMITTED back: the expected status that every write
\* of the ledger carries is enough, without fencing tokens.
THEOREM CommittedStands == Spec => CommittedIsFinal
  <1>1. TypeInv /\ [Next]_vars => [effect = "COMMITTED" => effect' = "COMMITTED"]_vars
    BY StatusStep
  <1> QED
    BY <1>1, TypeInit, TypeStep, PTL DEF Spec, CommittedIsFinal

----------------------------------------------------------------------------
(***************************************************************************)
(* Of an action that nobody can check, at most one attempt is between      *)
(* writing RUNNING and recording the outcome. A row that allows a send     *)
(* (PENDING, FAILED) means that there is none, and that nothing was sent;  *)
(* an attempt that will write FAILED knows the same.                       *)
(***************************************************************************)
Performing == {a \in Attempts : attempt[a].pc \in {"call", "calling", "record"}}

AtMostOne(S) == \A a, b \in S : a = b

SendsOnce ==
    /\ acts <= 1
    /\ acts = 1 => Underway = {}
    /\ AtMostOne(Underway) /\ AtMostOne(Performing)
    /\ \A a \in Attempts :
          /\ At(a, "perform") => attempt[a].found \in {"PENDING", "FAILED"}
          /\ At(a, "record") /\ attempt[a].found = "FAILED" =>
                 acts = 0 /\ Underway = {}
    /\ effect \in {"ABSENT", "PENDING", "FAILED"} =>
          acts = 0 /\ Underway = {} /\ Performing = {}

NobodyAsks ==
    /\ \A a \in Attempts : attempt[a].pc \notin {"resolve", "query", "reconciled"}
    /\ \A r \in Sweepers : sweep[r].pc # "record"

Exclusive == class = "UNRECONCILABLE" => NobodyAsks /\ (~ruled => SendsOnce)

\* Nobody has asked for anything yet.
LEMMA ExclusiveInit == Init => Exclusive
  <1> SUFFICES ASSUME Init PROVE Exclusive
    OBVIOUS
  <1>1. Underway = {} /\ Performing = {}
    BY DEF Init, Underway, Performing, At
  <1> QED
    BY <1>1 DEF Init, Exclusive, NobodyAsks, SendsOnce, AtMostOne, At, Off

\* Nothing that could break SendsOnce got larger, and the row did not become
\* one that allows a send.
LEMMA SendsOnceFrame ==
  ASSUME SendsOnce, acts' = acts, Underway' \subseteq Underway,
         Performing' \subseteq Performing,
         \A a \in Attempts :
            /\ At(a, "perform")' => attempt'[a].found \in {"PENDING", "FAILED"}
            /\ At(a, "record")' /\ attempt'[a].found = "FAILED" =>
                   At(a, "record") /\ attempt[a].found = "FAILED",
         effect' \in {"ABSENT", "PENDING", "FAILED"} =>
            effect \in {"ABSENT", "PENDING", "FAILED"}
  PROVE  SendsOnce'
  BY DEF SendsOnce, AtMostOne

\* At most one attempt still has the right to send, after a step of one.
LEMMA SendsOnceAfterAttempt ==
  ASSUME TypeInv, NobodyAsks, SendsOnce, class = "UNRECONCILABLE",
         NEW a \in Attempts, NEW q \in PCs, NEW g \in EffectStatus, AttemptStep(a, q, g)
  PROVE  SendsOnce'
  <1>1. /\ acts' = acts /\ acts \in Nat
        /\ attempt'[a].pc = q /\ attempt'[a].found = g
        /\ \A b \in Attempts : b # a =>
               attempt'[b] = attempt[b] /\ request'[b] = request[b]
        /\ q # "calling" => request'[a] = request[a]
        /\ q = "calling" => request'[a] = "travelling"
    BY DEF AttemptStep, Moves, TypeInv, TypeOK
  <1>2. attempt[a].pc \notin {"resolve", "query", "reconciled"}
    BY DEF NobodyAsks
  <1>3. \A b \in Attempts : attempt[b].pc = "call" => request[b] = "none"
    BY DEF TypeInv, SentOnce, Unsent
  <1>4. CASE q = "call"
    <2>1. /\ attempt[a].pc = "perform" /\ effect' = "RUNNING"
          /\ effect = attempt[a].found
      BY <1>2, <1>4 DEF AttemptStep, TableRow
    <2>2. acts = 0 /\ Underway = {} /\ Performing = {}
      BY <2>1 DEF SendsOnce, At
    <2>3. Underway' \subseteq {a} /\ Performing' \subseteq {a}
      BY <1>1, <2>2 DEF Underway, Performing, At
    <2>4. \A b \in Attempts : b # a => attempt'[b].pc # "record"
      BY <1>1, <2>2 DEF Performing
    <2> QED
      BY <1>1, <1>4, <2>1, <2>2, <2>3, <2>4 DEF SendsOnce, AtMostOne, At
  <1>5. CASE attempt[a].pc = "call" /\ q = "record"
    <2>1. g = "FAILED" /\ effect' = effect
      BY <1>5 DEF AttemptStep, TableRow
    <2>2. a \in Underway /\ a \in Performing /\ request'[a] = "none"
      BY <1>1, <1>3, <1>5 DEF Underway, Performing, At
    <2>3. acts = 0 /\ effect \notin {"ABSENT", "PENDING", "FAILED"}
      BY <1>1, <2>2 DEF SendsOnce
    <2>4. Underway' \subseteq Underway /\ a \notin Underway'
      BY <1>1, <1>5, <2>2 DEF Underway, At
    <2>5. Underway' = {}
      BY <2>2, <2>4 DEF SendsOnce, AtMostOne
    <2>6. Performing' \subseteq Performing
      BY <1>1, <2>2 DEF Performing
    <2>7. \A b \in Attempts : At(b, "perform")' => attempt'[b].found \in {"PENDING", "FAILED"}
      BY <1>1, <1>5 DEF SendsOnce, At
    <2> QED
      BY <1>1, <2>1, <2>3, <2>5, <2>6, <2>7 DEF SendsOnce, AtMostOne
  <1>6. CASE attempt[a].pc = "record" /\ q # "reported"
    <2>1. /\ effect' = effect \/ effect' = attempt[a].found
          /\ q \in {"succeeded", "failed"}
      BY <1>6 DEF AttemptStep, TableRow
    <2>2. Underway' = Underway
      BY <1>1, <1>6, <2>1 DEF Underway, At
    <2>3. a \in Performing /\ Performing' \subseteq Performing /\ a \notin Performing'
      BY <1>1, <1>6, <2>1 DEF Performing
    <2>4. Performing' = {}
      BY <2>3 DEF SendsOnce, AtMostOne
    <2>5. effect' = "FAILED" => acts = 0 /\ Underway = {}
      BY <1>6, <2>1 DEF SendsOnce, At
    <2>6. effect' \in {"ABSENT", "PENDING"} => effect \in {"ABSENT", "PENDING"}
      BY <1>6, <2>1 DEF AttemptStep, TableRow, Verdicts
    <2>7. \A b \in Attempts : b # a => attempt'[b].pc # "record"
      BY <2>4 DEF Performing
    <2>8. \A b \in Attempts : At(b, "perform")' => attempt'[b].found \in {"PENDING", "FAILED"}
      BY <1>1, <2>1 DEF SendsOnce, At
    <2>9. attempt'[a].pc # "record"
      BY <1>1, <2>1
    <2> QED
      BY <1>1, <2>2, <2>4, <2>5, <2>6, <2>7, <2>8, <2>9 DEF SendsOnce, AtMostOne, At
  <1>7. CASE ~(q = "call") /\ ~(attempt[a].pc = "call" /\ q = "record")
             /\ ~(attempt[a].pc = "record" /\ q # "reported")
    <2>1. /\ effect' = effect \/ (effect = "ABSENT" /\ effect' = "PENDING")
          /\ q = "perform" => g \in {"PENDING", "FAILED"}
          /\ q = "record" => g # "FAILED" /\ attempt[a].pc = "calling"
          /\ q = "calling" => attempt[a].pc = "call"
      BY <1>2, <1>7 DEF AttemptStep, TableRow
    <2>2. Underway' \subseteq Underway
      BY <1>1, <1>7, <2>1 DEF Underway, At
    <2>3. Performing' \subseteq Performing
      BY <1>1, <1>7, <2>1 DEF Performing
    <2>4. \A b \in Attempts :
            /\ At(b, "perform")' => attempt'[b].found \in {"PENDING", "FAILED"}
            /\ At(b, "record")' /\ attempt'[b].found = "FAILED" =>
                   At(b, "record") /\ attempt[b].found = "FAILED"
      BY <1>1, <2>1 DEF SendsOnce, At
    <2> QED
      BY <1>1, <2>1, <2>2, <2>3, <2>4, SendsOnceFrame
  <1> QED
    BY <1>4, <1>5, <1>6, <1>7

\* Every step keeps that right with one attempt.
LEMMA ExclusiveStep == TypeInv /\ Exclusive /\ [Next]_vars => Exclusive'
  <1> SUFFICES ASSUME TypeInv, Exclusive, [Next]_vars, class' = "UNRECONCILABLE"
               PROVE  NobodyAsks' /\ (~ruled' => SendsOnce')
    BY DEF Exclusive
  <1> DEFINE Goal == NobodyAsks' /\ (~ruled' => SendsOnce')
  <1>1. ASSUME class' = class PROVE NobodyAsks /\ (~ruled => SendsOnce)
    BY <1>1 DEF Exclusive
  <1>2. ASSUME NEW a \in Attempts, Claim(a) PROVE Goal
    <2>1. Moves(a, "reserve", attempt[a].found)
      BY <1>2, GoesMoves DEF Claim, PCs, TypeInv
    <2>2. UNCHANGED <<class, effect, request, acts, sweep, ruled>>
      BY <1>2 DEF Claim, world
    <2>3. NobodyAsks'
      BY <1>1, <2>1, <2>2 DEF NobodyAsks, Moves
    <2>4. Underway' \subseteq Underway /\ Performing' \subseteq Performing
      BY <2>1, <2>2 DEF Moves, Underway, Performing, At
    <2>5. ASSUME SendsOnce
          PROVE  \A b \in Attempts :
            /\ At(b, "perform")' => attempt'[b].found \in {"PENDING", "FAILED"}
            /\ At(b, "record")' /\ attempt'[b].found = "FAILED" =>
                   At(b, "record") /\ attempt[b].found = "FAILED"
      BY <2>1, <2>5 DEF SendsOnce, Moves, At
    <2> QED
      BY <1>1, <2>2, <2>3, <2>4, <2>5, SendsOnceFrame
  <1>3. ASSUME NEW a \in Attempts, Executes(a) \/ Crash(a) PROVE Goal
    <2>1. PICK q \in PCs, g \in EffectStatus : AttemptStep(a, q, g)
      BY <1>3, ExecutorSteps
    <2>2. UNCHANGED <<class, sweep, ruled>>
      BY <2>1 DEF AttemptStep
    <2>3. q \notin {"resolve", "query", "reconciled"}
      BY <1>1, <2>1, <2>2 DEF NobodyAsks, AttemptStep, TableRow
    <2>4. NobodyAsks'
      BY <1>1, <2>1, <2>2, <2>3 DEF NobodyAsks, AttemptStep, Moves
    <2> QED
      BY <1>1, <2>1, <2>2, <2>4, SendsOnceAfterAttempt
  <1>4. ASSUME NEW a \in Attempts, ProviderActs(a) PROVE Goal
    <2>1. /\ request[a] = "travelling" /\ request' = [request EXCEPT ![a] = "acted"]
          /\ UNCHANGED <<class, effect, attempt, sweep, ruled>>
      BY <1>4 DEF ProviderActs
    <2>2. NobodyAsks'
      BY <1>1, <2>1 DEF NobodyAsks
    <2>3. ASSUME SendsOnce PROVE SendsOnce'
      <3>1. a \in Underway /\ attempt[a].pc # "call"
        BY <2>1 DEF Underway, TypeInv, SentOnce, Unsent
      <3>2. acts = 0
        BY <2>3, <3>1 DEF SendsOnce, TypeInv, TypeOK
      <3>3. acts' = 1
        BY <1>4, <3>2 DEF ProviderActs
      <3>4. Underway' \subseteq Underway /\ a \notin Underway'
        BY <2>1, <3>1 DEF Underway, At, TypeInv, TypeOK
      <3>5. Underway' = {}
        BY <2>3, <3>1, <3>4 DEF SendsOnce, AtMostOne
      <3>6. Performing' = Performing
        BY <2>1 DEF Performing
      <3> QED
        BY <2>1, <2>3, <3>1, <3>3, <3>5, <3>6 DEF SendsOnce, AtMostOne, At
    <2> QED
      BY <1>1, <2>1, <2>2, <2>3
  <1>5. ASSUME NEW a \in Attempts, RequestLost(a) PROVE Goal
    <2>1. /\ request' = [request EXCEPT ![a] = "lost"]
          /\ UNCHANGED <<class, effect, attempt, acts, sweep, ruled>>
      BY <1>5 DEF RequestLost
    <2>2. NobodyAsks'
      BY <1>1, <2>1 DEF NobodyAsks
    <2>3. Underway' \subseteq Underway /\ Performing' = Performing
      BY <2>1 DEF Underway, Performing, At, TypeInv, TypeOK
    <2>4. ASSUME SendsOnce PROVE SendsOnce'
      BY <2>1, <2>3, <2>4, SendsOnceFrame DEF SendsOnce, At
    <2> QED
      BY <1>1, <2>1, <2>2, <2>4
  <1>6. ASSUME NEW r \in Sweepers, Settles(r) PROVE Goal
    <2>1. PICK q \in SweepRecord : SettleStep(r, q)
      BY <1>6, ReconcilerSteps
    <2>2. /\ UNCHANGED <<class, attempt, request, acts, ruled>>
          /\ sweep'[r] = q /\ \A s \in Sweepers : s # r => sweep'[s] = sweep[s]
      BY <2>1 DEF SettleStep, TypeInv, TypeOK
    <2>3. q.pc # "record"
      BY <2>1, <2>2 DEF SettleStep
    <2>4. NobodyAsks'
      BY <1>1, <2>2, <2>3 DEF NobodyAsks
    <2>5. effect' = effect \/ effect' = "UNKNOWN"
      BY <1>1, <2>1, <2>2 DEF SettleStep, NobodyAsks
    <2>6. Underway' = Underway /\ Performing' = Performing
      BY <2>2 DEF Underway, Performing, At
    <2>7. ASSUME SendsOnce PROVE SendsOnce'
      BY <2>2, <2>5, <2>6, <2>7, SendsOnceFrame DEF SendsOnce, At
    <2> QED
      BY <1>1, <2>2, <2>4, <2>7
  <1>7. CASE ResolveWrites
    <2>1. ResolveStep
      BY <1>7, OperatorSteps
    <2>2. UNCHANGED <<class, attempt, request, acts, sweep>>
          /\ (ruled' = TRUE \/ UNCHANGED <<effect, ruled>>)
      BY <2>1 DEF ResolveStep
    <2>3. NobodyAsks'
      BY <1>1, <2>2 DEF NobodyAsks
    <2>4. ASSUME SendsOnce, effect' = effect PROVE SendsOnce'
      BY <2>2, <2>4 DEF SendsOnce, AtMostOne, Underway, Performing, At
    <2> QED
      BY <1>1, <2>2, <2>3, <2>4
  <1>8. CASE Bury \/ RetentionLapses \/ ResolveReads \/ OthersMove \/ UNCHANGED vars
    <2>1. UNCHANGED <<class, effect, attempt, request, acts, sweep, ruled>>
      BY <1>8 DEF Bury, RetentionLapses, ResolveReads, OthersMove, vars, world
    <2>2. NobodyAsks'
      BY <1>1, <2>1 DEF NobodyAsks
    <2>3. ASSUME SendsOnce PROVE SendsOnce'
      BY <2>1, <2>3 DEF SendsOnce, AtMostOne, Underway, Performing, At
    <2> QED
      BY <1>1, <2>1, <2>2, <2>3
  <1> QED
    BY <1>2, <1>3, <1>4, <1>5, <1>6, <1>7, <1>8 DEF Next

\* An action that can be neither checked nor deduplicated reaches the provider
\* at most once however many attempts overlap, and FAILED is written of it only
\* if it did not, until an operator rules on it.
THEOREM UnreconcilableOnce == Spec => []UnreconcilableActsOnce
  <1>1. TypeInv /\ Exclusive => UnreconcilableActsOnce
    <2> SUFFICES ASSUME TypeInv, SendsOnce
                 PROVE  /\ acts + Cardinality(Underway) <= 1
                        /\ effect = "FAILED" => acts = 0 /\ Underway = {}
      BY DEF Exclusive, UnreconcilableActsOnce
    <2>1. acts \in Nat
      BY DEF TypeInv, TypeOK
    <2>2. CASE Underway = {}
      BY <2>1, <2>2, FS_EmptySet DEF SendsOnce
    <2>3. CASE Underway # {}
      <3>0. PICK a \in Underway : TRUE
        BY <2>3
      <3>1. Underway = {a}
        BY <3>0 DEF SendsOnce, AtMostOne
      <3>2. Cardinality(Underway) = 1
        BY <3>1, FS_Singleton
      <3>3. acts = 0
        BY <2>1, <2>3 DEF SendsOnce
      <3> QED
        BY <2>3, <3>2, <3>3 DEF SendsOnce
    <2> QED
      BY <2>2, <2>3
  <1>2. Init => TypeInv /\ Exclusive
    BY TypeInit, ExclusiveInit
  <1>3. TypeInv /\ Exclusive /\ [Next]_vars => (TypeInv /\ Exclusive)'
    BY TypeStep, ExclusiveStep
  <1> QED
    BY <1>1, <1>2, <1>3, PTL DEF Spec
=============================================================================
