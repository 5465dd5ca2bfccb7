------------------------------ MODULE RunLoop ------------------------------
(***************************************************************************)
(* One run, driven through its agent body by concurrent callers of         *)
(* Engine.Advance: the process that started it, the recovery scan, workers *)
(* reporting its tasks, and senders of signals. Covers parking on timers   *)
(* and signals, fan-out and its join, signal delivery, and the ways a run  *)
(* ends.                                                                   *)
(*                                                                         *)
(* Advance is several reads of the store, a round trip to the body and one *)
(* transaction, with nothing held between them, so each is an action and   *)
(* other callers act in between. A caller that dies simply stops.          *)
(*                                                                         *)
(* A task is LIVE from dispatch until its outcome is committed: what       *)
(* happens in between is TaskLease. The instant a timer or a deadline      *)
(* names is written as the number of the step that set it, and "due" is    *)
(* the set of instants the clock has passed.                               *)
(*                                                                         *)
(* Definitions named Fault... are faulty variants of the definition that   *)
(* follows them. No specification uses them; substituting one must break   *)
(* the property that guards against it.                                    *)
(***************************************************************************)
EXTENDS Naturals, Sequences, FiniteSets, Joins

CONSTANTS Program,     \* the agent body: the durable steps it awaits, in order
          Ending,      \* what the body does after the last one
          Callers,     \* goroutines that call Advance
          Signals,     \* signal ids senders may use
          SignalName,  \* SignalName[s]: the name it is sent under
          Rank,        \* Rank[s]: its place by created_at, then signal_id
          Paths,       \* how signals are sent: "HTTP" advances, "CLI" does not
          NoSignal,
          Burials,     \* whether the reaper may bury a task
          MaxCrashes   \* how many callers may die

ASSUME BodyAssumption ==
    /\ Program \in Seq([kind : {"call", "fan", "sleep", "wait"},
                        name : STRING,        \* the signal waited for
                        timed : BOOLEAN,      \* whether the wait has a deadline
                        tolerant : BOOLEAN,   \* whether the body catches a failure
                        calls : Nat,          \* how many calls fan out
                        join : JoinKinds,
                        quorum : Nat])
    /\ \A i \in DOMAIN Program : Program[i].kind = "fan" =>
          ValidJoin(Policy(Program[i].join, Program[i].quorum), Program[i].calls)
    /\ Ending \in {"COMPLETE", "FAIL", "CANCEL"}
ASSUME SignalAssumption ==
    /\ NoSignal \notin Signals
    /\ SignalName \in [Signals -> STRING]
    /\ Rank \in [Signals -> Nat]
    /\ \A s, u \in Signals : Rank[s] = Rank[u] => s = u
    /\ Paths \subseteq {"HTTP", "CLI"}
ASSUME BoundAssumption == Burials \in BOOLEAN /\ MaxCrashes \in Nat

VARIABLES run,       \* the row in the runs table
          history,   \* the run's event log
          task,      \* task[k]: the row of task k
          stored,    \* the signals table, in the order its rows were committed
          due,       \* instants the clock has passed
          caller,    \* caller[c]: how far c's Advance has got
          crashes,   \* callers that have died
          escalated  \* history variable: a task escalated while the run ran

store == <<run, history, task, stored>>
vars  == <<run, history, task, stored, due, caller, crashes, escalated>>

Steps      == DOMAIN Program
Ready      == 0                      \* available_at is NULL
Indefinite == Len(Program) + 1       \* the instant that never comes
Instants   == 0..Indefinite

\* A task is known by its step: <<i, 0>> is S<i>, <<i, n>> is child n of S<i>.
Children(i) == {<<i, n>> : n \in 1..Program[i].calls}
TasksOf(i)  == CASE Program[i].kind = "call" -> {<<i, 0>>}
                 [] Program[i].kind = "fan"  -> Children(i)
                 [] OTHER                    -> {}
TaskIds     == UNION {TasksOf(i) : i \in Steps}

RunStatus     == {"ABSENT", "RUNNING", "COMPLETED", "FAILED", "CANCELLED"}
IsTerminal(s) == s \in {"COMPLETED", "FAILED", "CANCELLED"}
TaskStatus    == {"ABSENT", "LIVE", "COMPLETED", "DEAD_LETTER"}

WaitStarts  == {"TIMER_SET", "SIGNAL_WAIT_STARTED"}
WaitEnds    == {"TIMER_FIRED", "SIGNAL_RECEIVED", "SIGNAL_WAIT_TIMED_OUT"}
Starts      == {"TASK_CREATED", "FAN_OUT_STARTED"} \cup WaitStarts
Finals      == {"RUN_COMPLETED", "RUN_FAILED", "RUN_CANCELLED"}
EventTypes  == {"RUN_STARTED", "TASK_COMPLETED", "TASK_FAILED",
                "TASK_DEAD_LETTERED"} \cup Starts \cup WaitEnds \cup Finals
Decisions   == {"CALL_TOOL", "CALL_TOOL_PARALLEL", "SLEEP", "WAIT_FOR_SIGNAL",
                "COMPLETE", "FAIL", "CANCEL"}

\* Events, decisions and whatever else a caller carries between two steps
\* share one shape.
Fact(type, key, sig, until) ==
    [type |-> type, step |-> key[1], child |-> key[2], sig |-> sig, until |-> until]
Facts(types) == [type : types, step : 0..Len(Program), child : Nat,
                 sig : Signals \cup {NoSignal}, until : Instants]
OfRun(type)     == Fact(type, <<0, 0>>, NoSignal, Ready)
OfTask(type, k) == Fact(type, k, NoSignal, Ready)

PCs == {"idle", "get", "history", "check", "repark", "release", "reget",
        "rehistory", "decide", "commit", "deliver", "failrun"}
Idle == [pc |-> "idle", version |-> 0, avail |-> Ready, seen |-> 0,
         plan |-> OfRun("NONE")]
Carried == {"NONE", "REPARK"} \cup Paths \cup Decisions \cup WaitEnds

----------------------------------------------------------------------------
(***************************************************************************)
(* Reading history. All of these are functions of the events a caller has  *)
(* seen, never of the store.                                               *)
(***************************************************************************)
Seen(c) == SubSeq(history, 1, caller[c].seen)

\* The position of the last event in h that Is one of those meant, or 0.
LastWhere(h, Is(_)) ==
    CHOOSE j \in 0..Len(h) : (j # 0 => Is(h[j])) /\ \A k \in (j + 1)..Len(h) : ~Is(h[k])

LastOf(h, types) == LastWhere(h, LAMBDA e : e.type \in types)

\* h holds an event of this type about task k.
Has(h, type, k) == \E j \in DOMAIN h : h[j].type = type /\ <<h[j].step, h[j].child>> = k

\* The last suspension in the log, unless something after it resolved it.
PendingWait(h) ==
    LET at == LastOf(h, WaitStarts)
    IN  IF at = 0 \/ \E j \in (at + 1)..Len(h) :
                         h[j].type \in WaitEnds /\ h[j].step = h[at].step
        THEN {}
        ELSE {[step |-> h[at].step, until |-> h[at].until,
               signal |-> h[at].type = "SIGNAL_WAIT_STARTED"]}

Elapsed(until) == until \in due

ConsumedSignals(h) == {h[j].sig : j \in {k \in DOMAIN h : h[k].type = "SIGNAL_RECEIVED"}}

(***************************************************************************)
(* Of the signals stored under this name and not yet taken, the one with   *)
(* the lowest Rank. A signal's created_at is the clock of the process that *)
(* sent it, read before the row is inserted, so its rank says nothing of   *)
(* when the row appears: with overlapping senders or clocks that disagree, *)
(* a signal stored later may rank earlier. A repeated id keeps the first   *)
(* row, so one rank for each id is enough.                                 *)
(***************************************************************************)
Unconsumed(h, name) ==
    {s \in Signals : /\ \E j \in DOMAIN stored : stored[j] = s
                     /\ SignalName[s] = name /\ s \notin ConsumedSignals(h)}

FaultNewestFirst(h, name) ==
    {s \in Unconsumed(h, name) : \A u \in Unconsumed(h, name) : Rank[u] <= Rank[s]}

UnconsumedSignal(h, name) ==
    {s \in Unconsumed(h, name) : \A u \in Unconsumed(h, name) : Rank[s] <= Rank[u]}

\* The policy FAN_OUT_STARTED records for a step, as PendingFanOut reads it back.
JoinOf == [i \in Steps |-> joinFrom(JoinString(Policy(Program[i].join, Program[i].quorum)))]

\* The policy applied to the children that have settled since.
Satisfied(h, i) ==
    LET Count(e) == Cardinality({h[j].child :
                        j \in {n \in DOMAIN h : h[n].type = e /\ h[n].step = i}})
    IN  JoinSatisfied(JoinOf[i], Program[i].calls, Count("TASK_COMPLETED"), Count("TASK_FAILED"))

PendingFanOut(h) ==
    LET at == LastOf(h, {"FAN_OUT_STARTED"})
    IN  at # 0 /\ ~Satisfied(h, h[at].step)

(***************************************************************************)
(* The agent body. It replays from the top: every step history has an      *)
(* answer for returns at once, a failure the body does not catch ends it,  *)
(* and the first step without an answer is the decision. A wait is         *)
(* answered when the last thing recorded about it is its end.              *)
(***************************************************************************)
WaitRecord(h, i) ==
    LET at == LastWhere(h, LAMBDA e : e.step = i /\ e.type \in WaitStarts \cup WaitEnds)
    IN  IF at = 0 THEN "none" ELSE h[at].type

\* The step raises and the body lets it: ToolFailed, or SignalTimeout.
Raises(h, i) ==
    /\ ~Program[i].tolerant
    /\ \/ Program[i].kind = "call" /\ Has(h, "TASK_FAILED", <<i, 0>>)
       \/ Program[i].kind = "wait" /\ WaitRecord(h, i) = "SIGNAL_WAIT_TIMED_OUT"

Answered(h, i) ==
    CASE Program[i].kind = "call" -> \/ Has(h, "TASK_COMPLETED", <<i, 0>>)
                                     \/ Has(h, "TASK_FAILED", <<i, 0>>)
      [] Program[i].kind = "fan"  -> Satisfied(h, i)
      [] OTHER                    -> WaitRecord(h, i) \in WaitEnds

\* The step the body stands at; one past the last when it has returned.
Position(h) ==
    CHOOSE i \in 1..(Len(Program) + 1) :
        /\ i \in Steps => ~Answered(h, i) \/ Raises(h, i)
        /\ \A j \in 1..(i - 1) : Answered(h, j) /\ ~Raises(h, j)

(***************************************************************************)
(* A wait the body has already begun is issued again without its deadline; *)
(* a sleep keeps the instant it was given.                                 *)
(***************************************************************************)
Decision(h) ==
    LET i == Position(h)
        Issue(kind, until) == Fact(kind, <<i, 0>>, NoSignal, until)
    IN  IF i \notin Steps THEN OfRun(Ending)
        ELSE IF Raises(h, i) THEN OfRun("FAIL")
        ELSE CASE Program[i].kind = "call"  -> Issue("CALL_TOOL", Ready)
               [] Program[i].kind = "fan"   -> Issue("CALL_TOOL_PARALLEL", Ready)
               [] Program[i].kind = "sleep" -> Issue("SLEEP", i)
               [] Program[i].kind = "wait"  ->
                     Issue("WAIT_FOR_SIGNAL",
                           IF Program[i].timed /\ WaitRecord(h, i) = "none"
                           THEN i ELSE Indefinite)

----------------------------------------------------------------------------
(***************************************************************************)
(* The store's two writes to the run row. AdvanceRun is a compare-and-swap *)
(* on the version the caller read; a terminal row accepts its own status   *)
(* again and no other. ReleaseRun clears the park and leaves the version.  *)
(***************************************************************************)
FaultNoVersionCheck(c, to)    == to = run.status \/ ~IsTerminal(run.status)
FaultNoTransitionCheck(c, to) == run.version = caller[c].version

CanAdvance(c, to) ==
    /\ run.version = caller[c].version
    /\ to = run.status \/ ~IsTerminal(run.status)

AdvanceRun(to, avail) ==
    run' = [status |-> to, version |-> run.version + 1, avail |-> avail]

ReleaseRun == run' = [run EXCEPT !.avail = Ready]

IsWaiting == run.avail # Ready /\ ~Elapsed(run.avail)

InFlight == {k \in TaskIds : task[k] = "LIVE"}

Record(events) == history' = history \o events

\* Caller bookkeeping.
At(c, pc)      == caller[c].pc = pc
GoTo(c, pc)    == caller' = [caller EXCEPT ![c].pc = pc]
Carry(c, pc, plan) == caller' = [caller EXCEPT ![c].pc = pc, ![c].plan = plan]
Stop(c)        == caller' = [caller EXCEPT ![c] = Idle]
Begin(c, pc)   == caller' = [caller EXCEPT ![c] = [Idle EXCEPT !.pc = pc]]
World          == <<due, crashes, escalated>>

----------------------------------------------------------------------------
(***************************************************************************)
(* Who calls Advance.                                                      *)
(***************************************************************************)
StartRun(c) ==
    /\ At(c, "idle")
    /\ run.status = "ABSENT"
    /\ run' = [run EXCEPT !.status = "RUNNING"]
    /\ Record(<<OfRun("RUN_STARTED")>>)
    /\ Begin(c, "get")
    /\ UNCHANGED <<task, stored, World>>

FaultOnlyUnparked   == run.status = "RUNNING" /\ InFlight = {} /\ run.avail = Ready
RunsAwaitingAdvance == run.status = "RUNNING" /\ InFlight = {} /\ ~IsWaiting

ScanOnce(c) ==
    /\ At(c, "idle")
    /\ RunsAwaitingAdvance
    /\ Begin(c, "get")
    /\ UNCHANGED <<store, World>>

CompleteTask(c, k) ==
    /\ At(c, "idle")
    /\ task[k] = "LIVE"
    /\ task' = [task EXCEPT ![k] = "COMPLETED"]
    /\ Record(<<OfTask("TASK_COMPLETED", k)>>)
    /\ Begin(c, "get")
    /\ UNCHANGED <<run, stored, World>>

\* The last attempt failed, or any attempt escalated. A failed child is the
\* body's business, so its reporter advances; the rest fail the run.
FailTask(c, k, escalates) ==
    /\ At(c, "idle")
    /\ task[k] = "LIVE"
    /\ task' = [task EXCEPT ![k] = "DEAD_LETTER"]
    /\ Record(<<OfTask("TASK_FAILED", k), OfTask("TASK_DEAD_LETTERED", k)>>)
    /\ Begin(c, IF k[2] # 0 /\ ~escalates THEN "get" ELSE "failrun")
    /\ escalated' = (escalated \/ (escalates /\ run.status = "RUNNING"))
    /\ UNCHANGED <<run, stored, due, crashes>>

\* The reaper buries a task whose last owner went silent, and advances nobody.
Bury(k) ==
    /\ Burials
    /\ task[k] = "LIVE"
    /\ task' = [task EXCEPT ![k] = "DEAD_LETTER"]
    /\ Record(<<OfTask("TASK_DEAD_LETTERED", k)>>)
    /\ UNCHANGED <<run, stored, caller, World>>

FailRun(c) ==
    /\ At(c, "failrun")
    /\ IF IsTerminal(run.status)
       THEN Stop(c)
       ELSE caller' = [caller EXCEPT ![c] =
                [@ EXCEPT !.pc = "commit", !.version = run.version, !.plan = OfRun("FAIL")]]
    /\ UNCHANGED <<store, World>>

(***************************************************************************)
(* Sending a signal: a look at the run, then one transaction that stores   *)
(* the signal and releases the run. A repeated id stores nothing and is    *)
(* reported as delivered all the same.                                     *)
(***************************************************************************)
Refused == run.status # "RUNNING"      \* unknown, or finished

SendSignal(c, s, path) ==
    /\ At(c, "idle")
    /\ ~Refused
    /\ Carry(c, "deliver", Fact(path, <<0, 0>>, s, Ready))
    /\ UNCHANGED <<store, World>>

\* The endpoint's engine advances the run at once; the command has no engine
\* and leaves the run to the next scan.
AfterDelivery(c) == IF caller[c].plan.type = "HTTP" THEN Begin(c, "get") ELSE Stop(c)

DeliverSignal(c) ==
    LET s == caller[c].plan.sig
    IN  /\ At(c, "deliver")
        /\ IF \E j \in DOMAIN stored : stored[j] = s
           THEN UNCHANGED <<run, stored>>
           ELSE stored' = Append(stored, s) /\ ReleaseRun
        /\ AfterDelivery(c)
        /\ UNCHANGED <<history, task, World>>

----------------------------------------------------------------------------
(***************************************************************************)
(* Advance, up to the decision.                                            *)
(***************************************************************************)
GetRun(c) ==
    /\ At(c, "get")
    /\ IF IsTerminal(run.status)
       THEN Stop(c)
       ELSE caller' = [caller EXCEPT ![c] =
                [@ EXCEPT !.pc = "history", !.version = run.version, !.avail = run.avail]]
    /\ UNCHANGED <<store, World>>

ReadHistory(c) ==
    /\ At(c, "history")
    /\ caller' = [caller EXCEPT ![c] = [@ EXCEPT !.pc = "check", !.seen = Len(history)]]
    /\ UNCHANGED <<store, World>>

NotWaiting(c) ==
    /\ At(c, "check")
    /\ PendingWait(Seen(c)) = {}
    /\ GoTo(c, "decide")
    /\ UNCHANGED <<store, World>>

\* What ends the wait, as the event to record; the empty set while nothing does.
WaitIsOver(h, w) ==
    LET s == IF w.signal THEN UnconsumedSignal(h, Program[w.step].name) ELSE {}
    IN  IF s # {} THEN {Fact("SIGNAL_RECEIVED", <<w.step, 0>>, x, Ready) : x \in s}
        ELSE IF ~Elapsed(w.until) THEN {}
        ELSE {Fact(IF w.signal THEN "SIGNAL_WAIT_TIMED_OUT" ELSE "TIMER_FIRED",
                   <<w.step, 0>>, NoSignal, w.until)}

CheckWait(c) ==
    /\ At(c, "check")
    /\ \E w \in PendingWait(Seen(c)) :
          LET over == WaitIsOver(Seen(c), w)
          IN  \/ \E e \in over : Carry(c, "release", e)
              \/ /\ over = {} /\ caller[c].avail = Ready
                 /\ Carry(c, "repark", Fact("REPARK", <<w.step, 0>>, NoSignal, w.until))
              \/ over = {} /\ caller[c].avail # Ready /\ Stop(c)
    /\ UNCHANGED <<store, World>>

FaultBlindRepark(c) ==
    /\ At(c, "repark")
    /\ AdvanceRun(run.status, caller[c].plan.until)
    /\ Stop(c)
    /\ UNCHANGED <<history, task, stored, World>>

Repark(c) ==
    /\ At(c, "repark")
    /\ IF CanAdvance(c, "RUNNING")
       THEN AdvanceRun("RUNNING", caller[c].plan.until)
       ELSE UNCHANGED run
    /\ Stop(c)
    /\ UNCHANGED <<history, task, stored, World>>

\* The wake-up and the reason for it are one transaction. The winner reads the
\* run and its history again, and goes on to the decision without looking at
\* either: neither the status nor a wait that began meanwhile is checked.
Release(c) ==
    /\ At(c, "release")
    /\ IF CanAdvance(c, "RUNNING")
       THEN AdvanceRun("RUNNING", Ready) /\ Record(<<caller[c].plan>>) /\ GoTo(c, "reget")
       ELSE Stop(c) /\ UNCHANGED <<run, history>>
    /\ UNCHANGED <<task, stored, World>>

ReGetRun(c) ==
    /\ At(c, "reget")
    /\ caller' = [caller EXCEPT ![c] =
           [@ EXCEPT !.pc = "rehistory", !.version = run.version, !.avail = run.avail]]
    /\ UNCHANGED <<store, World>>

ReReadHistory(c) ==
    /\ At(c, "rehistory")
    /\ caller' = [caller EXCEPT ![c] = [@ EXCEPT !.pc = "decide", !.seen = Len(history)]]
    /\ UNCHANGED <<store, World>>

StillJoining(c) ==
    /\ At(c, "decide")
    /\ PendingFanOut(Seen(c))
    /\ Stop(c)
    /\ UNCHANGED <<store, World>>

\* The body answers; or it cannot be asked and the run is left for the next
\* scan; or it cannot answer and the run fails.
Decide(c) ==
    /\ At(c, "decide")
    /\ ~PendingFanOut(Seen(c))
    /\ Carry(c, "commit", Decision(Seen(c)))
    /\ UNCHANGED <<store, World>>

DecideUnavailable(c) ==
    /\ At(c, "decide")
    /\ ~PendingFanOut(Seen(c))
    /\ Stop(c)
    /\ UNCHANGED <<store, World>>

DecideFails(c) ==
    /\ At(c, "decide")
    /\ ~PendingFanOut(Seen(c))
    /\ Carry(c, "commit", OfRun("FAIL"))
    /\ UNCHANGED <<store, World>>

----------------------------------------------------------------------------
(***************************************************************************)
(* Advance, committing the decision. A lost race is not an error anywhere: *)
(* the caller stops, except that after a wait it looks again.              *)
(***************************************************************************)
Plans(c, kinds) == At(c, "commit") /\ caller[c].plan.type \in kinds

\* One call or a whole fan-out: every task, event and delivery in one
\* transaction that a task which already exists rolls back.
Dispatch(c) ==
    LET i    == caller[c].plan.step
        keys == TasksOf(i)
        created == IF Program[i].kind = "call"
                   THEN <<OfTask("TASK_CREATED", <<i, 0>>)>>
                   ELSE <<OfTask("FAN_OUT_STARTED", <<i, 0>>)>> \o
                        [n \in 1..Program[i].calls |-> OfTask("TASK_CREATED", <<i, n>>)]
    IN  /\ Plans(c, {"CALL_TOOL", "CALL_TOOL_PARALLEL"})
        /\ IF CanAdvance(c, "RUNNING") /\ \A k \in keys : task[k] = "ABSENT"
           THEN /\ AdvanceRun("RUNNING", Ready)
                /\ task' = [k \in TaskIds |-> IF k \in keys THEN "LIVE" ELSE task[k]]
                /\ Record(created)
           ELSE UNCHANGED <<run, task, history>>
        /\ Stop(c)
        /\ UNCHANGED <<stored, World>>

Park(c) ==
    LET d == caller[c].plan
    IN  /\ Plans(c, {"SLEEP", "WAIT_FOR_SIGNAL"})
        /\ IF CanAdvance(c, "RUNNING")
           THEN /\ AdvanceRun("RUNNING", d.until)
                /\ Record(<<[d EXCEPT !.type = IF d.type = "SLEEP" THEN "TIMER_SET"
                                               ELSE "SIGNAL_WAIT_STARTED"]>>)
           ELSE UNCHANGED <<run, history>>
        /\ IF d.type = "SLEEP" \/ (run.version = caller[c].version /\ IsTerminal(run.status))
           THEN Stop(c)
           ELSE Begin(c, "get")
        /\ UNCHANGED <<task, stored, World>>

FaultDecisionAsStatus(decision) == decision
FinalStatus(decision) == CASE decision = "COMPLETE" -> "COMPLETED"
                           [] decision = "FAIL"     -> "FAILED"
                           [] decision = "CANCEL"   -> "CANCELLED"
FinalEvent(decision)  == CASE decision = "COMPLETE" -> "RUN_COMPLETED"
                           [] decision = "FAIL"     -> "RUN_FAILED"
                           [] decision = "CANCEL"   -> "RUN_CANCELLED"

Finish(c) ==
    LET d == caller[c].plan.type
    IN  /\ Plans(c, {"COMPLETE", "FAIL", "CANCEL"})
        /\ IF CanAdvance(c, FinalStatus(d))
           THEN AdvanceRun(FinalStatus(d), Ready) /\ Record(<<OfRun(FinalEvent(d))>>)
           ELSE UNCHANGED <<run, history>>
        /\ Stop(c)
        /\ UNCHANGED <<task, stored, World>>

----------------------------------------------------------------------------
SetsInstant(i) == Program[i].kind = "sleep" \/ (Program[i].kind = "wait" /\ Program[i].timed)

ClockPasses(i) ==
    /\ SetsInstant(i)
    /\ i \notin due
    /\ due' = due \cup {i}
    /\ UNCHANGED <<store, caller, crashes, escalated>>

Crash(c) ==
    /\ ~At(c, "idle")
    /\ crashes < MaxCrashes
    /\ crashes' = crashes + 1
    /\ Stop(c)
    /\ UNCHANGED <<store, due, escalated>>

Init ==
    /\ run = [status |-> "ABSENT", version |-> 0, avail |-> Ready]
    /\ history = <<>>
    /\ task = [k \in TaskIds |-> "ABSENT"]
    /\ stored = <<>>
    /\ due = {}
    /\ caller = [c \in Callers |-> Idle]
    /\ crashes = 0
    /\ escalated = FALSE

Asked(c) == StillJoining(c) \/ Decide(c) \/ DecideUnavailable(c) \/ DecideFails(c)

Working(c) ==
    \/ FailRun(c) \/ DeliverSignal(c)
    \/ GetRun(c) \/ ReadHistory(c) \/ NotWaiting(c) \/ CheckWait(c)
    \/ Repark(c) \/ Release(c) \/ ReGetRun(c) \/ ReReadHistory(c)
    \/ Dispatch(c) \/ Park(c) \/ Finish(c)

Reports(c, k) ==
    CompleteTask(c, k) \/ \E e \in BOOLEAN : FailTask(c, k, e)

Next ==
    \/ \E c \in Callers :
          \/ StartRun(c) \/ ScanOnce(c) \/ Working(c) \/ Asked(c) \/ Crash(c)
          \/ \E k \in TaskIds : Reports(c, k)
          \/ \E s \in Signals, path \in Paths : SendSignal(c, s, path)
    \/ \E k \in TaskIds : Bury(k)
    \/ \E i \in Steps : ClockPasses(i)

Spec == Init /\ [][Next]_vars

(***************************************************************************)
(* Fairness, for the liveness properties only. The scan runs on a ticker   *)
(* and a caller that has begun goes on; not every attempt to ask the body  *)
(* fails; the clock runs; and every task settles, which TaskLease checks.  *)
(* Strong fairness where a caller is also wanted elsewhere. Nothing makes  *)
(* a sender send.                                                          *)
(***************************************************************************)
Fairness ==
    /\ \A c \in Callers : WF_vars(Working(c))
    /\ SF_vars(\E c \in Callers : StillJoining(c) \/ Decide(c))
    /\ SF_vars(\E c \in Callers : StartRun(c) \/ ScanOnce(c))
    /\ \A k \in TaskIds : SF_vars(Bury(k) \/ \E c \in Callers : Reports(c, k))
    /\ WF_vars(\E i \in Steps : ClockPasses(i))

LiveSpec == Spec /\ Fairness

\* More than RunSettles needs, for what fails nevertheless: nobody who has begun
\* is left behind, and every instant comes.
EagerSpec ==
    /\ LiveSpec
    /\ \A c \in Callers : WF_vars(Working(c) \/ Asked(c)) /\ SF_vars(StillJoining(c) \/ Decide(c))
    /\ \A i \in Steps : WF_vars(ClockPasses(i))

----------------------------------------------------------------------------
(***************************************************************************)
(* Properties.                                                             *)
(***************************************************************************)

\* Every variable has the shape the store and the callers give it.
TypeOK ==
    /\ run \in [status : RunStatus, version : Nat, avail : Instants]
    /\ history \in Seq(Facts(EventTypes))
    /\ task \in [TaskIds -> TaskStatus]
    /\ stored \in Seq(Signals)
    /\ due \subseteq Steps
    /\ caller \in [Callers -> [pc : PCs, version : Nat, avail : Instants,
                               seen : Nat, plan : Facts(Carried)]]
    /\ crashes \in 0..MaxCrashes
    /\ escalated \in BOOLEAN

Before(j) == SubSeq(history, 1, j - 1)

\* The run never forks: whatever any caller begins (a task, a fan-out, a sleep,
\* a wait) is the step the body stands at in the log it is appended to, never
\* one the run has already passed and never one it has not reached. This is
\* what Advance's comment claims of its compare-and-swap.
OneTimeline ==
    \A j \in DOMAIN history :
        history[j].type \in Starts => history[j].step = Position(Before(j))

ArrivedBefore(s, u) ==
    \E i, j \in DOMAIN stored : i < j /\ stored[i] = s /\ stored[j] = u

\* s is not in the log h, and no other signal of its name that h has not taken
\* both arrived before it and ranks before it.
NextInLine(s, h) ==
    /\ s \notin ConsumedSignals(h)
    /\ \A i \in DOMAIN stored :
          LET u == stored[i]
          IN  u = s \/ SignalName[u] # SignalName[s] \/ u \in ConsumedSignals(h)
              \/ Rank[s] < Rank[u] \/ ArrivedBefore(s, u)

\* A signal is taken once, and never past another under its name that was
\* both sent and stored before it, whichever callers took them: the taker chose
\* from a snapshot of the log and of the table and commits later, while others
\* send and take. (A signal may pass one that arrived before it and ranks after
\* it, or that ranks before it and was not there to be seen.)
TakenInOrder ==
    \A j \in DOMAIN history : history[j].type = "SIGNAL_RECEIVED" =>
        NextInLine(history[j].sig, Before(j))

\* A wake-up always answers the suspension that is open when it is recorded,
\* and has its cause: the stored signal it names, or an instant that has
\* passed. A replay that met any other would stop with a ProtocolError.
WakesAreOwed ==
    \A j \in DOMAIN history : history[j].type \in WaitEnds =>
        \E w \in PendingWait(Before(j)) :
            /\ w.step = history[j].step
            /\ IF history[j].type = "SIGNAL_RECEIVED"
               THEN w.signal /\ \E k \in DOMAIN stored : stored[k] = history[j].sig
               ELSE w.until = history[j].until /\ w.until \in due

\* The park in the row and the log agree: a run is parked only on the
\* suspension its history ends with, and until that suspension's own instant.
\* resume's comment names the two ways of breaking this as runs that never
\* resume.
ParkMatchesHistory ==
    run.avail # Ready => \E w \in PendingWait(history) : w.until = run.avail

\* A finished run keeps its status and begins nothing, although callers that
\* read it while it was running are still on their way to a commit.
FinishedStaysFinished ==
    [][IsTerminal(run.status) =>
          /\ run'.status = run.status
          /\ \A j \in (Len(history) + 1)..Len(history') : history'[j].type \notin Starts]_vars

\* The refinement mapping onto RunContract: where the run stands is what its
\* log says the body has got to.
Contract == INSTANCE RunContract WITH
    Last  <- Len(Program),
    phase <- run.status,
    pos   <- Position(history),
    begun <- \E at \in {Position(history)}, j \in DOMAIN history :
                 history[j].type \in Starts /\ history[j].step = at

\* To whoever watches the log, the concurrent callers of Advance are one
\* sequential interpreter of the body.
ImplementsContract == Contract!Spec

\* A task the reaper buried: dead, with no failure in the log for the body.
Buried(k) == task[k] = "DEAD_LETTER" /\ ~Has(history, "TASK_FAILED", k)

\* A run that has started finishes, through crashes between any two steps of
\* an Advance: the scan and the instants in the store are all it needs. The
\* one way out is a buried task, of which DeadTaskEndsRun says more. (A run
\* never becomes ABSENT again, so this is RUNNING ~> terminal or buried.)
RunSettles ==
    []<>(\/ run.status = "ABSENT" \/ IsTerminal(run.status)
         \/ \E k \in TaskIds : Buried(k))

----------------------------------------------------------------------------
(***************************************************************************)
(* What the repository says and the code does not keep; see the README.    *)
(***************************************************************************)

\* wait_for with a timeout raises SignalTimeout "when the deadline passes with
\* nothing having arrived": so an open wait that has a timeout has its deadline.
DeadlineKept ==
    \A w \in PendingWait(history) : SetsInstant(w.step) => w.until = w.step

\* "Un-parking in the same transaction is what makes the wake-up transactional
\* rather than a hint": so a run waiting for a signal that is stored takes it.
StoredSignalIsTaken ==
    \A s \in Signals :
        (/\ run.status = "RUNNING"
         /\ \E j \in DOMAIN stored : stored[j] = s /\ s \notin ConsumedSignals(history)
         /\ \E w \in PendingWait(history) : w.signal /\ Program[w.step].name = SignalName[s])
        ~> (s \in ConsumedSignals(history) \/ PendingWait(history) = {}
            \/ IsTerminal(run.status))

\* "Several signals may share a name on one run, and a wait consumes them in
\* arrival order": so none is taken while one that arrived before it waits.
TakenAsTheyArrived ==
    \A j \in DOMAIN history : history[j].type = "SIGNAL_RECEIVED" =>
        \A i \in DOMAIN stored :
            LET s == history[j].sig  u == stored[i]
            IN  ArrivedBefore(u, s) /\ SignalName[u] = SignalName[s]
                    => u \in ConsumedSignals(Before(j))

\* "A task that has already used its last attempt must not go round again; the
\* run fails on the next advance instead of looping."
DeadTaskEndsRun ==
    (\E i \in Steps : Program[i].kind = "call" /\ task[<<i, 0>>] = "DEAD_LETTER")
        ~> IsTerminal(run.status)

\* "An escalated task stops the run whatever shape it is in."
EscalationStopsRun == escalated => run.status # "COMPLETED"
=============================================================================
