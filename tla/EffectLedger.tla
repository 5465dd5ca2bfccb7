---------------------------- MODULE EffectLedger ----------------------------
(***************************************************************************)
(* One external action and its row in the effect ledger: the executor that *)
(* performs it for a task's successive attempts, the provider it is sent   *)
(* to, the background reconciler and the operator's resolve command.       *)
(*                                                                         *)
(* A task's attempts overlap whenever a lease lapses under a worker that   *)
(* is still working (TaskLease), and the ledger's writes carry no fencing  *)
(* token: what orders them is the status each one expects to find. Every   *)
(* transaction and every exchange with the provider is an action.          *)
(*                                                                         *)
(* A tool of class NONE has no row and is left out. The EFFECT events that *)
(* accompany the writes are left out too: no decision reads them.          *)
(*                                                                         *)
(* Definitions named Fault... are faulty variants of the definition that   *)
(* follows them. No specification uses them; substituting one must break   *)
(* the property that guards against it.                                    *)
(***************************************************************************)
EXTENDS Integers, FiniteSets

CONSTANTS Classes,      \* effect classes the tool may declare
          MaxAttempts,  \* Task.MaxAttempts
          Sweepers,     \* background reconcilers, one per runtime
          Batch,        \* ReconcilerConfig.Batch: the rows one sweep looks at
          Backlog,      \* bound on the other rows that are unresolved
          Operator      \* whether an operator may resolve the effect

ASSUME ClassAssumption ==
    Classes \subseteq {"IDEMPOTENT_BY_KEY", "QUERYABLE", "UNRECONCILABLE"}
ASSUME LimitAssumption == MaxAttempts \in Nat \ {0} /\ Operator \in BOOLEAN
ASSUME BatchAssumption == Batch \in Nat \ {0} /\ Backlog \in Nat

VARIABLES class,      \* the tool's class
          effect,     \* the row's status, ABSENT while there is none
          ahead,      \* unresolved rows updated before this one, while it is unresolved
          task,       \* whether the task is open, completed or dead lettered
          claims,     \* attempts claimed so far; the last one is current
          attempt,    \* attempt[a]: where its Execute has got, and what it found
          request,    \* request[a]: what became of its request
          acts,       \* how often the provider has acted
          forgotten,  \* whether the provider's key retention has lapsed
          sweep,      \* sweep[r]: where a reconciler's settle has got
          command,    \* the operator's command
          ruled       \* history variable: the operator has resolved the effect

world == <<request, acts, forgotten>>
row   == <<effect, ahead>>
vars  == <<class, effect, ahead, task, claims, attempt, request, acts, forgotten,
           sweep, command, ruled>>

Attempts     == 1..MaxAttempts
EffectStatus == {"ABSENT", "PENDING", "RUNNING", "COMMITTED", "FAILED", "UNKNOWN"}
Unresolved   == {"RUNNING", "UNKNOWN"}
Verdicts     == {"COMMITTED", "FAILED", "UNKNOWN"}

Ends == {"succeeded", "failed", "escalated"}
PCs  == {"unclaimed", "reserve", "load", "resolve", "query", "reconciled", "perform",
         "call", "calling", "record", "reported"} \cup Ends

----------------------------------------------------------------------------
(***************************************************************************)
(* The rules of the ledger.                                                *)
(***************************************************************************)
CanTransitionTo(from, to) ==
    CASE from = "PENDING" -> to \in {"RUNNING", "FAILED"}
      [] from = "RUNNING" -> to \in {"COMMITTED", "FAILED", "UNKNOWN"}
      [] from = "FAILED"  -> to = "RUNNING"
      [] from = "UNKNOWN" -> to \in {"COMMITTED", "FAILED", "RUNNING", "UNKNOWN"}
      [] OTHER            -> FALSE

FaultNoExpectation(from, to) == CanTransitionTo(from, to)

\* TransitionEffect succeeds.
MayTransition(from, to) == effect = from /\ CanTransitionTo(from, to)

\* What a write leaves. It sets updated_at, so that every other row unresolved by
\* then is ahead of this one (as far as the writers' clocks agree).
Writes(to) ==
    /\ effect' = to
    /\ ahead' \in IF to \in Unresolved THEN ahead..Backlog ELSE {0}

FaultRunningMeansRetry(status, c) ==
    IF status = "COMMITTED" THEN "COMPLETE" ELSE "EXECUTE"
FaultUnknownMeansDone(status, c) ==
    IF status \in {"PENDING", "FAILED"} THEN "EXECUTE" ELSE "COMPLETE"

RecoveryFor(status, c) ==
    CASE status \in {"PENDING", "FAILED"} -> "EXECUTE"
      [] status = "COMMITTED"             -> "COMPLETE"
      [] status \in Unresolved            ->
             IF c = "UNRECONCILABLE" THEN "ESCALATE" ELSE "RECONCILE"

FaultErrorMeansDone(sent) == IF sent THEN "COMMITTED" ELSE "FAILED"

\* What an error proves: nothing, unless the tool says that nothing was sent.
ClassifyFailure(sent) == IF sent THEN "UNKNOWN" ELSE "FAILED"

FaultKindAsStatus == IF acts > 0 /\ ~forgotten THEN "COMMITTED" ELSE "NOT_EXECUTED"

\* The provider's answer to "did this happen?". Past its retention it does not
\* know the key, whatever it did.
Lookup == IF acts > 0 /\ ~forgotten THEN "COMMITTED" ELSE "FAILED"

At(a, pc)        == attempt[a].pc = pc
Goes(a, pc)      == attempt' = [attempt EXCEPT ![a].pc = pc]
Finds(a, pc, st) == attempt' = [attempt EXCEPT ![a] = [pc |-> pc, found |-> st]]
Returns(a, end)  == Finds(a, end, "ABSENT")
Others           == <<class, task, claims, sweep, command, ruled>>

----------------------------------------------------------------------------
(***************************************************************************)
(* The task around the action. Any open task may be claimed again: its     *)
(* last attempt failed, or was presumed dead. Only the last attempt's      *)
(* report counts (also in the gap between a reclaim and the next claim,    *)
(* where TaskLease refuses it: the more permissive choice). A transaction  *)
(* of the executor that fails outright is a Crash: the row stays as it is. *)
(***************************************************************************)
Claim(a) ==
    /\ task = "open" /\ a = claims + 1
    /\ claims' = a
    /\ Goes(a, "reserve")
    /\ UNCHANGED <<class, row, task, world, sweep, command, ruled>>

Report(a) ==
    /\ attempt[a].pc \in Ends
    /\ task' = CASE a # claims \/ task # "open"                  -> task
                 [] At(a, "succeeded")                           -> "completed"
                 [] At(a, "escalated") \/ a = MaxAttempts        -> "dead"
                 [] OTHER                                        -> task
    /\ Returns(a, "reported")
    /\ UNCHANGED <<class, row, claims, world, sweep, command, ruled>>

\* The last attempt's owner went silent and the reaper buried the task.
Bury ==
    /\ task = "open" /\ claims = MaxAttempts
    /\ task' = "dead"
    /\ UNCHANGED <<class, row, claims, attempt, world, sweep, command, ruled>>

Crash(a) ==
    /\ attempt[a].pc \notin {"unclaimed", "reported"}
    /\ Returns(a, "reported")
    /\ UNCHANGED <<row, world, Others>>

----------------------------------------------------------------------------
(***************************************************************************)
(* Execute: reserve the row, or read the one that is there and do what the *)
(* recovery table says of it.                                              *)
(***************************************************************************)
Recovers(a, status) ==
    LET action == RecoveryFor(status, class)
    IN  Finds(a, CASE action = "COMPLETE"  -> "succeeded"
                   [] action = "EXECUTE"   -> "perform"
                   [] action = "RECONCILE" -> "resolve"
                   [] action = "ESCALATE"  -> "escalated", status)

\* One INSERT: the unique constraint on the key keeps the row that is there.
ReserveEffect == IF effect = "ABSENT" THEN Writes("PENDING") ELSE UNCHANGED row

Reserve(a) ==
    /\ At(a, "reserve")
    /\ ReserveEffect
    /\ IF effect = "ABSENT" THEN Recovers(a, "PENDING") ELSE Goes(a, "load")
    /\ UNCHANGED <<world, Others>>

LoadExisting(a) ==
    /\ At(a, "load")
    /\ Recovers(a, effect)
    /\ UNCHANGED <<row, world, Others>>

\* resolve: a row that says RUNNING is first made to say UNKNOWN.
MarkUnknown(a) ==
    /\ At(a, "resolve") /\ attempt[a].found = "RUNNING"
    /\ IF MayTransition("RUNNING", "UNKNOWN")
       THEN Writes("UNKNOWN") /\ Finds(a, "resolve", "UNKNOWN")
       ELSE Returns(a, "failed") /\ UNCHANGED row
    /\ UNCHANGED <<world, Others>>

Resolve(a) ==
    /\ At(a, "resolve") /\ attempt[a].found = "UNKNOWN"
    /\ Goes(a, CASE forgotten                    -> "escalated"
                 [] class = "IDEMPOTENT_BY_KEY"  -> "perform"
                 [] class = "QUERYABLE"          -> "query"
                 [] OTHER                        -> "escalated")
    /\ UNCHANGED <<row, world, Others>>

Query(a) ==
    /\ At(a, "query")
    /\ Goes(a, IF Lookup = "COMMITTED" THEN "reconciled" ELSE "perform")
    /\ UNCHANGED <<row, world, Others>>

\* The lookup fails, or the provider cannot tell.
QueryFails(a) ==
    /\ At(a, "query")
    /\ Returns(a, "failed")
    /\ UNCHANGED <<row, world, Others>>

RecordReconciled(a) ==
    /\ At(a, "reconciled")
    /\ IF MayTransition("UNKNOWN", "COMMITTED")
       THEN Writes("COMMITTED") /\ Returns(a, "succeeded")
       ELSE Returns(a, "failed") /\ UNCHANGED row
    /\ UNCHANGED <<world, Others>>

(***************************************************************************)
(* perform: RUNNING is committed before anything is sent. The call may     *)
(* fail before sending, or return without an answer at any time after.     *)
(***************************************************************************)
FaultSendsUnrecorded(a) ==
    /\ At(a, "perform")
    /\ Goes(a, "call")
    /\ UNCHANGED <<row, world, Others>>

MarkRunning(a) ==
    /\ At(a, "perform")
    /\ IF MayTransition(attempt[a].found, "RUNNING")
       THEN Writes("RUNNING") /\ Finds(a, "call", "RUNNING")
       ELSE Returns(a, "failed") /\ UNCHANGED row
    /\ UNCHANGED <<world, Others>>

CallNotSent(a) ==
    /\ At(a, "call")
    /\ Finds(a, "record", ClassifyFailure(FALSE))
    /\ UNCHANGED <<row, world, Others>>

CallSent(a) ==
    /\ At(a, "call")
    /\ Goes(a, "calling")
    /\ request' = [request EXCEPT ![a] = "travelling"]
    /\ UNCHANGED <<row, acts, forgotten, Others>>

CallAnswered(a) ==
    /\ At(a, "calling") /\ request[a] = "acted"
    /\ Finds(a, "record", "COMMITTED")
    /\ UNCHANGED <<row, world, Others>>

CallUnanswered(a) ==
    /\ At(a, "calling")
    /\ Finds(a, "record", ClassifyFailure(TRUE))
    /\ UNCHANGED <<row, world, Others>>

RecordOutcome(a) ==
    LET verdict == attempt[a].found
    IN  /\ At(a, "record")
        /\ IF MayTransition("RUNNING", verdict)
           THEN /\ Writes(verdict)
                /\ Returns(a, IF verdict = "COMMITTED" THEN "succeeded" ELSE "failed")
           ELSE Returns(a, "failed") /\ UNCHANGED row
        /\ UNCHANGED <<world, Others>>

----------------------------------------------------------------------------
(***************************************************************************)
(* The provider. A request may arrive after its sender has given up, or    *)
(* never. A provider that honours keys acts once while it remembers.       *)
(***************************************************************************)
ProviderActs(a) ==
    /\ request[a] = "travelling"
    /\ request' = [request EXCEPT ![a] = "acted"]
    /\ acts' = IF class = "IDEMPOTENT_BY_KEY" /\ acts > 0 /\ ~forgotten
               THEN acts ELSE acts + 1
    /\ UNCHANGED <<class, row, task, claims, attempt, forgotten, sweep, command, ruled>>

RequestLost(a) ==
    /\ request[a] = "travelling"
    /\ request' = [request EXCEPT ![a] = "lost"]
    /\ UNCHANGED <<class, row, task, claims, attempt, acts, forgotten, sweep, command, ruled>>

RetentionLapses ==
    /\ effect # "ABSENT" /\ ~forgotten
    /\ forgotten' = TRUE
    /\ UNCHANGED <<class, row, task, claims, attempt, request, acts, sweep, command, ruled>>

----------------------------------------------------------------------------
(***************************************************************************)
(* The background reconciler. The age of the row and of its key are judged *)
(* when the sweep begins. A conflict is taken to mean that somebody else   *)
(* settled the effect, and is not looked into.                             *)
(*                                                                         *)
(* A sweep looks at the Batch rows that were updated longest ago. One it   *)
(* cannot settle stays as it is, and so keeps its place in front.          *)
(***************************************************************************)
Off        == [pc |-> "idle", found |-> "ABSENT", expired |-> FALSE]
Sweeps     == <<class, task, claims, attempt, world, command, ruled>>

FaultOnlyRunning  == effect = "RUNNING" /\ ahead < Batch
UnresolvedEffects == effect \in Unresolved /\ ahead < Batch

\* Rows that were ahead of this one are settled, or written and so go behind it.
OthersMove ==
    /\ ahead' \in 0..(ahead - 1)
    /\ UNCHANGED <<class, effect, task, claims, attempt, world, sweep, command, ruled>>

SweepReads(r) ==
    /\ sweep[r].pc = "idle"
    /\ UnresolvedEffects
    /\ sweep' = [sweep EXCEPT ![r] =
                    [pc |-> "settle", found |-> effect, expired |-> forgotten]]
    /\ UNCHANGED <<row, Sweeps>>

SweepMarks(r) ==
    /\ sweep[r].pc = "settle" /\ sweep[r].found = "RUNNING"
    /\ IF MayTransition("RUNNING", "UNKNOWN") THEN Writes("UNKNOWN") ELSE UNCHANGED row
    /\ sweep' = [sweep EXCEPT ![r].found = "UNKNOWN"]
    /\ UNCHANGED Sweeps

\* A QUERYABLE tool has a reconciler and one of class IDEMPOTENT_BY_KEY may. The
\* registry does not stop an UNRECONCILABLE one from having it, which the class
\* denies "by definition"; such a tool is left out.
Askable(r) == ~sweep[r].expired /\ class # "UNRECONCILABLE"

SweepAsks(r) ==
    /\ sweep[r].pc = "settle" /\ sweep[r].found = "UNKNOWN"
    /\ Askable(r)
    /\ sweep' = [sweep EXCEPT ![r] = [@ EXCEPT !.pc = "record", !.found = Lookup]]
    /\ UNCHANGED <<row, Sweeps>>

\* The tool is not hosted here, there is nobody to ask, the answer could not be
\* had or was none; or the write failed or the runtime stopped.
SweepGivesUp(r) ==
    /\ sweep[r].pc # "idle"
    /\ sweep' = [sweep EXCEPT ![r] = Off]
    /\ UNCHANGED <<row, Sweeps>>

SweepRecords(r) ==
    /\ sweep[r].pc = "record"
    /\ IF MayTransition("UNKNOWN", sweep[r].found) THEN Writes(sweep[r].found) ELSE UNCHANGED row
    /\ sweep' = [sweep EXCEPT ![r] = Off]
    /\ UNCHANGED Sweeps

(***************************************************************************)
(* The operator asserts what the provider's own records say at the time.   *)
(* The command reads the row, then writes in a transaction of its own.     *)
(***************************************************************************)
NoCommand == [pc |-> "idle", found |-> "ABSENT", verdict |-> "UNKNOWN"]

ResolveReads ==
    /\ Operator /\ command.pc = "idle"
    /\ effect \notin {"ABSENT", "COMMITTED", "FAILED"}
    /\ command' = [pc |-> "write", found |-> effect,
                   verdict |-> IF acts > 0 THEN "COMMITTED" ELSE "FAILED"]
    /\ UNCHANGED <<class, row, task, claims, attempt, world, sweep, ruled>>

ResolveWrites ==
    LET from == IF command.found = "RUNNING" THEN "UNKNOWN" ELSE command.found
    IN  /\ command.pc = "write"
        /\ IF effect = command.found /\ CanTransitionTo(from, command.verdict)
           THEN Writes(command.verdict) /\ ruled' = TRUE
           ELSE UNCHANGED <<row, ruled>>
        /\ command' = NoCommand
        /\ UNCHANGED <<class, task, claims, attempt, world, sweep>>

----------------------------------------------------------------------------
Init ==
    /\ class \in Classes
    /\ effect = "ABSENT"
    /\ ahead = 0
    /\ task = "open"
    /\ claims = 0
    /\ attempt = [a \in Attempts |-> [pc |-> "unclaimed", found |-> "ABSENT"]]
    /\ request = [a \in Attempts |-> "none"]
    /\ acts = 0
    /\ forgotten = FALSE
    /\ sweep = [r \in Sweepers |-> Off]
    /\ command = NoCommand
    /\ ruled = FALSE

Executes(a) ==
    \/ Reserve(a) \/ LoadExisting(a) \/ MarkUnknown(a) \/ Resolve(a)
    \/ Query(a) \/ QueryFails(a) \/ RecordReconciled(a) \/ MarkRunning(a)
    \/ CallNotSent(a) \/ CallSent(a) \/ CallAnswered(a) \/ CallUnanswered(a)
    \/ RecordOutcome(a) \/ Report(a)

Settles(r) == SweepReads(r) \/ SweepMarks(r) \/ SweepAsks(r) \/ SweepGivesUp(r)
              \/ SweepRecords(r)

Next ==
    \/ \E a \in Attempts :
          Claim(a) \/ Executes(a) \/ Crash(a) \/ ProviderActs(a) \/ RequestLost(a)
    \/ Bury
    \/ RetentionLapses
    \/ \E r \in Sweepers : Settles(r)
    \/ OthersMove
    \/ ResolveReads \/ ResolveWrites

Spec == Init /\ [][Next]_vars

(***************************************************************************)
(* Fairness, for the liveness property only. An Execute that has begun     *)
(* goes on or dies, the sweep runs on a ticker, and not every sweep is cut *)
(* short: lookups of a provider that can be asked, and the reconciler's    *)
(* transactions, do not fail for ever. Nothing makes the other rows move.  *)
(***************************************************************************)
Fairness ==
    /\ \A a \in Attempts : WF_vars(Executes(a) \/ Crash(a))
    /\ \A r \in Sweepers : /\ WF_vars(Settles(r))
                           /\ SF_vars(SweepMarks(r))
                           /\ SF_vars(SweepAsks(r))
                           /\ SF_vars(SweepRecords(r))

LiveSpec == Spec /\ Fairness

----------------------------------------------------------------------------
(***************************************************************************)
(* Properties.                                                             *)
(***************************************************************************)

\* Every variable has the shape the ledger and its writers give it.
TypeOK ==
    /\ class \in Classes
    /\ effect \in EffectStatus
    /\ ahead \in 0..Backlog
    /\ task \in {"open", "completed", "dead"}
    /\ claims \in 0..MaxAttempts
    /\ attempt \in [Attempts -> [pc : PCs, found : EffectStatus]]
    /\ request \in [Attempts -> {"none", "travelling", "acted", "lost"}]
    /\ acts \in 0..MaxAttempts
    /\ forgotten \in BOOLEAN /\ ruled \in BOOLEAN
    /\ sweep \in [Sweepers -> [pc : {"idle", "settle", "record"},
                               found : EffectStatus, expired : BOOLEAN]]
    /\ command \in [pc : {"idle", "write"}, found : EffectStatus, verdict : Verdicts]

\* Requests on their way to the provider, and calls about to be sent.
Underway == {a \in Attempts : request[a] = "travelling" \/ At(a, "call")}

\* The write-ahead rule of perform: the provider is never sent anything that
\* the ledger does not already say may be happening or have happened.
IntentFirst ==
    acts > 0 \/ Underway # {} => effect \notin {"ABSENT", "PENDING"}

\* An action nobody can check or deduplicate is performed at most once, however
\* its attempts overlap, and FAILED is written only if it was not performed:
\* only a human's ruling can make the ledger send it again.
UnreconcilableActsOnce ==
    class = "UNRECONCILABLE" /\ ~ruled =>
        /\ acts + Cardinality(Underway) <= 1
        /\ effect = "FAILED" => acts = 0 /\ Underway = {}

\* COMMITTED is never written on a guess: the provider has acted, whoever wrote
\* the status (the executor, a lookup, the reconciler, the operator).
CommittedIsTrue == effect = "COMMITTED" => acts > 0

\* A task completes only on an outcome the ledger has recorded: its result can
\* be given again to any later attempt without asking the provider.
CompletedIsRecorded == task = "completed" => effect = "COMMITTED"

\* No late writer (a stale executor, a sweep, a command) takes COMMITTED back.
CommittedIsFinal == [][effect = "COMMITTED" => effect' = "COMMITTED"]_vars

\* It is settled without a human, or the provider's retention lapses first.
SettlesUnaided ==
    class = "QUERYABLE" /\ effect \in Unresolved
        ~> effect \in {"COMMITTED", "FAILED"} \/ forgotten

\* An effect whose provider can be asked does not stay ambiguous, through
\* lookups that fail, sweeps cut short and writers that race them, as long as
\* the unresolved rows in front of it fill a sweep's batch for a time only.
QueryableSettles == SettlesUnaided \/ []<>(ahead >= Batch)

----------------------------------------------------------------------------
(***************************************************************************)
(* What the repository says and the code does not keep; see the README.    *)
(***************************************************************************)

\* "What prevents a duplicate external call is the unique constraint on
\* idempotency_key": so the provider acts once. (An owner that stalls between
\* writing RUNNING and sending is overtaken by one that asks, is told that
\* nothing happened, and sends.)
ActsOnce == acts <= 1

\* "Reconciler settles effects that no live task will ever settle", and "one
\* unsettleable effect must not stop the others": so an effect that can be
\* settled is, whatever is in front of it. (A batch of rows that cannot be
\* settled, 50 by default, stays in front of every sweep.)
UnsettleableStopsNone == SettlesUnaided

\* "EffectFailed means it definitely did not happen." (A re-send that could
\* not be sent says so of itself, and the row records it of the action.)
FailedIsTrue == effect = "FAILED" => acts = 0
=============================================================================
