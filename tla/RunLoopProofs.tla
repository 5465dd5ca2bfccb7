--------------------------- MODULE RunLoopProofs ---------------------------
(***************************************************************************)
(* Theorems about RunLoop, for every agent body, every set of callers and  *)
(* signals and any number of crashes.                                      *)
(***************************************************************************)
EXTENDS RunLoop, FiniteSetTheorems, WellFoundedInduction, TLAPS

Outcomes  == {"TASK_COMPLETED", "TASK_FAILED", "TASK_DEAD_LETTERED"}
WaitTypes == WaitStarts \cup WaitEnds
Log       == Seq(Facts(EventTypes))

(***************************************************************************)
(* The inductive invariant. Advance reads, asks and commits with nothing   *)
(* held in between; what makes the commit sound is that everything but a   *)
(* task's outcome bumps the version. So a caller whose version is still    *)
(* the row's has missed outcomes only, and those change neither the open   *)
(* wait nor the step the body stands at, unless that step's own task has   *)
(* settled, which the task's row tells.                                    *)
(***************************************************************************)

\* No caller is ahead of the store.
NeverAhead(c) == caller[c].version <= run.version /\ caller[c].seen <= Len(history)

\* A caller that goes by the history it has read, as all but failRun do.
RelyingOnSeen(c) ==
    \/ caller[c].pc \in {"check", "repark", "release", "decide"}
    \/ caller[c].pc = "commit" /\ caller[c].plan.type # "FAIL"

OnlyOutcomesMissed(c) ==
    RelyingOnSeen(c) /\ caller[c].version = run.version =>
        \A j \in (caller[c].seen + 1)..Len(history) : history[j].type \in Outcomes

\* What a caller carries is what the history it has read calls for.
ReparkIsMeant(c) ==
    At(c, "repark") => /\ caller[c].plan.type = "REPARK"
                       /\ \E w \in PendingWait(Seen(c)) : w.until = caller[c].plan.until

\* The wake-up e answers the suspension w.
Answers(e, w) ==
    /\ w.step = e.step
    /\ IF e.type = "SIGNAL_RECEIVED"
       THEN w.signal /\ \E k \in DOMAIN stored : stored[k] = e.sig
       ELSE w.until = e.until /\ w.until \in due

WakeIsMeant(c) ==
    At(c, "release") => /\ caller[c].plan.type \in WaitEnds
                        /\ \E w \in PendingWait(Seen(c)) : Answers(caller[c].plan, w)

Begins == [call |-> "CALL_TOOL", fan |-> "CALL_TOOL_PARALLEL", sleep |-> "SLEEP",
           wait |-> "WAIT_FOR_SIGNAL"]

DecisionIsMeant(c) ==
    At(c, "commit") =>
        \/ caller[c].plan.type = "FAIL"
        \/ /\ caller[c].plan.type \in {"COMPLETE", "CANCEL"}
           /\ Position(Seen(c)) = Len(Program) + 1
        \/ LET i == caller[c].plan.step
           IN  /\ i \in Steps /\ caller[c].plan.type = Begins[Program[i].kind]
               /\ caller[c].plan.child = 0
               /\ i = Position(Seen(c)) /\ ~Raises(Seen(c), i)

DeliveryIsMeant(c) == At(c, "deliver") => caller[c].plan.sig \in Signals

Follows(c) == /\ NeverAhead(c) /\ OnlyOutcomesMissed(c)
              /\ ReparkIsMeant(c) /\ WakeIsMeant(c) /\ DecisionIsMeant(c) /\ DeliveryIsMeant(c)

\* Before the run exists there is nothing to read and nobody reading.
Unstarted ==
    run.status = "ABSENT" => /\ \A c \in Callers : caller[c].pc = "idle"
                             /\ \A k \in TaskIds : task[k] = "ABSENT"
                             /\ history = <<>> /\ run.avail = Ready

\* The log tells of a task only what its row says.
TaskLog ==
    /\ \A j \in DOMAIN history : history[j].type \in Outcomes =>
          <<history[j].step, history[j].child>> \in TaskIds
    /\ \A k \in TaskIds : /\ Has(history, "TASK_COMPLETED", k) => task[k] = "COMPLETED"
                          /\ Has(history, "TASK_FAILED", k) => task[k] = "DEAD_LETTER"
    /\ \A j \in DOMAIN history : history[j].type \in {"TASK_CREATED", "FAN_OUT_STARTED"} =>
          /\ history[j].step \in Steps
          /\ \E k \in TasksOf(history[j].step) : task[k] # "ABSENT"
    /\ \A j \in DOMAIN history : history[j].type \in WaitTypes =>
          /\ history[j].step \in Steps
          /\ Program[history[j].step].kind \in {"sleep", "wait"}

\* The run is at most at the step the body stands at: no task of a later step
\* exists, and nothing is in the log about one.
NothingAhead ==
    /\ \A k \in TaskIds : task[k] # "ABSENT" => k[1] <= Position(history)
    /\ \A j \in DOMAIN history : history[j].step <= Position(history)

\* A step that has a task, or that the log tells of, was begun.
Begun(i) == \E j \in DOMAIN history : history[j].type \in Starts /\ history[j].step = i

BegunFirst ==
    /\ \A k \in TaskIds : task[k] # "ABSENT" => Begun(k[1])
    /\ \A j \in DOMAIN history : history[j].step # 0 => Begun(history[j].step)

StoreInv == /\ TaskLog /\ NothingAhead /\ BegunFirst
            /\ ParkMatchesHistory /\ WakesAreOwed /\ OneTimeline

RunInv == TypeOK /\ Unstarted /\ (\A c \in Callers : Follows(c)) /\ StoreInv

----------------------------------------------------------------------------
(***************************************************************************)
(* Reading a log. The CHOOSEs of the model pick the only candidate there   *)
(* is; these lemmas say which, and when appending leaves it alone.         *)
(***************************************************************************)

\* Every nonempty set of natural numbers has a least element.
LEMMA Least ==
  ASSUME NEW T, T \subseteq Nat, T # {}
  PROVE  \E x \in T : \A y \in T : x <= y
  <1> DEFINE R == OpToRel(<, Nat)
  <1>1. IsWellFoundedOn(R, Nat)
    BY NatLessThanWellFounded
  <1> HIDE DEF R
  <1>2. PICK x \in T : \A y \in T : <<y, x>> \notin R
    BY <1>1, WFMin
  <1>3. \A y \in T : ~(y < x)
    BY <1>2 DEF R, OpToRel
  <1> QED
    BY <1>2, <1>3

\* A set of positions has a last one, counting 0 for none.
LEMMA LastPosition ==
  ASSUME NEW n \in Nat, NEW T, T \subseteq 1..n
  PROVE  \E j \in 0..n : (j # 0 => j \in T) /\ \A k \in (j + 1)..n : k \notin T
  <1> DEFINE U == {n - j : j \in T \cup {0}}
  <1>1. U \subseteq Nat /\ U # {}
    <2>1. n - 0 \in U
      OBVIOUS
    <2>2. \A j \in T \cup {0} : n - j \in Nat
      OBVIOUS
    <2> QED
      BY <2>1, <2>2
  <1>2. PICK x \in U : \A y \in U : x <= y
    BY <1>1, Least
  <1>3. PICK j \in T \cup {0} : x = n - j
    BY <1>2
  <1>4. \A k \in T : k <= j
    <2> SUFFICES ASSUME NEW k \in T PROVE k <= j
      OBVIOUS
    <2>1. n - j <= n - k
      BY <1>2, <1>3
    <2> QED
      BY <2>1
  <1> QED
    BY <1>3, <1>4

\* LastOf is the last position of an event of these types.
LEMMA LastOfIs ==
  ASSUME NEW h \in Log, NEW types
  PROVE  /\ LastOf(h, types) \in 0..Len(h)
         /\ LastOf(h, types) # 0 => h[LastOf(h, types)].type \in types
         /\ \A k \in (LastOf(h, types) + 1)..Len(h) : h[k].type \notin types
  <1> DEFINE T == {k \in 1..Len(h) : h[k].type \in types}
  <1>1. Len(h) \in Nat /\ T \subseteq 1..Len(h)
    BY DEF Log
  <1>2. PICK j \in 0..Len(h) : (j # 0 => j \in T) /\ \A k \in (j + 1)..Len(h) : k \notin T
    <2> HIDE DEF T
    <2> QED
      BY <1>1, LastPosition
  <1>3. (j # 0 => h[j].type \in types) /\ \A k \in (j + 1)..Len(h) : h[k].type \notin types
    <2>1. j # 0 => h[j].type \in types
      BY <1>2
    <2>2. ASSUME NEW k \in (j + 1)..Len(h)
          PROVE  h[k].type \notin types
      <3>1. k \in 1..Len(h)
        BY <1>1
      <3>2. k \notin T
        BY <1>2
      <3> QED
        BY <3>1, <3>2
    <2> QED
      BY <2>1, <2>2
  <1> QED
    BY <1>3 DEF LastOf, LastWhere

\* And the only one.
LEMMA LastOfOnly ==
  ASSUME NEW h \in Log, NEW types, NEW j \in 0..Len(h), j # 0 => h[j].type \in types,
         \A k \in (j + 1)..Len(h) : h[k].type \notin types
  PROVE  LastOf(h, types) = j
  <1>1. Len(h) \in Nat
    BY DEF Log
  <1> DEFINE at == LastOf(h, types)
  <1>2. /\ at \in 0..Len(h) /\ (at # 0 => h[at].type \in types)
        /\ \A k \in (at + 1)..Len(h) : h[k].type \notin types
    BY LastOfIs
  <1> HIDE DEF at
  <1>3. at = j
    BY <1>1, <1>2
  <1> QED
    BY <1>3 DEF at

\* The event at position a suspends the run, and nothing after it ends that.
Opens(h, a) ==
    /\ h[a].type \in WaitStarts
    /\ \A k \in (a + 1)..Len(h) : h[k].type \notin WaitStarts
    /\ \A k \in (a + 1)..Len(h) : ~(h[k].type \in WaitEnds /\ h[k].step = h[a].step)

WaitAt(h, a) == [step |-> h[a].step, until |-> h[a].until,
                 signal |-> h[a].type = "SIGNAL_WAIT_STARTED"]

\* The open wait, without a CHOOSE.
LEMMA PendingWaitIs ==
  ASSUME NEW h \in Log, NEW w
  PROVE  w \in PendingWait(h) <=> \E a \in 1..Len(h) : Opens(h, a) /\ w = WaitAt(h, a)
  <1> DEFINE at == LastOf(h, WaitStarts)
  <1>0. Len(h) \in Nat
    BY DEF Log
  <1>1. /\ at \in 0..Len(h) /\ (at # 0 => h[at].type \in WaitStarts)
        /\ \A k \in (at + 1)..Len(h) : h[k].type \notin WaitStarts
    BY LastOfIs
  <1>2. PendingWait(h) =
            IF at = 0 \/ \E j \in (at + 1)..Len(h) : h[j].type \in WaitEnds /\ h[j].step = h[at].step
            THEN {} ELSE {WaitAt(h, at)}
    BY DEF PendingWait, WaitAt
  <1>3. \A a \in 1..Len(h) : Opens(h, a) => a = at
    <2> SUFFICES ASSUME NEW a \in 1..Len(h), Opens(h, a) PROVE a = at
      OBVIOUS
    <2> QED
      BY <1>0, LastOfOnly DEF Opens
  <1> HIDE DEF at
  <1>4. ASSUME w \in PendingWait(h)
        PROVE  \E a \in 1..Len(h) : Opens(h, a) /\ w = WaitAt(h, a)
    <2>1. at # 0 /\ w = WaitAt(h, at)
      BY <1>2, <1>4
    <2>2. \A j \in (at + 1)..Len(h) : ~(h[j].type \in WaitEnds /\ h[j].step = h[at].step)
      BY <1>2, <1>4
    <2>3. at \in 1..Len(h) /\ Opens(h, at)
      BY <1>0, <1>1, <2>1, <2>2 DEF Opens
    <2> QED
      BY <2>1, <2>3
  <1>5. ASSUME NEW a \in 1..Len(h), Opens(h, a), w = WaitAt(h, a)
        PROVE  w \in PendingWait(h)
    <2>1. a = at /\ at # 0
      BY <1>0, <1>3, <1>5
    <2> QED
      BY <1>2, <1>5, <2>1 DEF Opens
  <1> QED
    BY <1>4, <1>5

\* g is what the log was before h.
Prefix(g, h) == Len(g) <= Len(h) /\ \A j \in 1..Len(g) : h[j] = g[j]

\* h goes on from g without these types.
GoesOnWithout(g, h, types) ==
    Prefix(g, h) /\ \A j \in (Len(g) + 1)..Len(h) : h[j].type \notin types

\* Only suspensions and wake-ups bear on the open wait.
LEMMA SameWait ==
  ASSUME NEW g \in Log, NEW h \in Log, GoesOnWithout(g, h, WaitTypes)
  PROVE  PendingWait(h) = PendingWait(g)
  <1>0. Len(g) \in Nat /\ Len(h) \in Nat /\ Len(g) <= Len(h)
    BY DEF Log, GoesOnWithout, Prefix
  <1>1. \A a \in 1..Len(h) : Opens(h, a) => a \in 1..Len(g) /\ Opens(g, a)
    BY <1>0 DEF Opens, GoesOnWithout, Prefix, WaitTypes
  <1>2. \A a \in 1..Len(g) : Opens(g, a) => a \in 1..Len(h) /\ Opens(h, a)
    BY <1>0 DEF Opens, GoesOnWithout, Prefix, WaitTypes
  <1>3. \A a \in 1..Len(g) : WaitAt(g, a) = WaitAt(h, a)
    BY DEF WaitAt, GoesOnWithout, Prefix
  <1>4. ASSUME NEW w PROVE w \in PendingWait(h) <=> w \in PendingWait(g)
    BY <1>1, <1>2, <1>3, PendingWaitIs
  <1> QED
    BY <1>4

\* A suspension is open when it is recorded, and no other is.
LEMMA SuspensionOpens ==
  ASSUME NEW g \in Log, NEW h \in Log, Prefix(g, h), Len(h) = Len(g) + 1,
         h[Len(h)].type \in WaitStarts
  PROVE  WaitAt(h, Len(h)) \in PendingWait(h)
  <1>1. Len(h) \in Nat /\ Len(h) \in 1..Len(h)
    BY DEF Log
  <1>2. Opens(h, Len(h))
    BY <1>1 DEF Opens
  <1> QED
    BY <1>1, <1>2, PendingWaitIs

\* Step i's own suspension or wake-up.
Touches(e, i) == e.step = i /\ e.type \in WaitTypes

\* WaitRecord, without a CHOOSE.
LEMMA WaitRecordIs ==
  ASSUME NEW h \in Log, NEW i
  PROVE  \E at \in 0..Len(h) :
            /\ at # 0 => Touches(h[at], i)
            /\ \A k \in (at + 1)..Len(h) : ~Touches(h[k], i)
            /\ WaitRecord(h, i) = IF at = 0 THEN "none" ELSE h[at].type
  <1> DEFINE T == {k \in 1..Len(h) : Touches(h[k], i)}
  <1> DEFINE at == LastWhere(h, LAMBDA e : e.step = i /\ e.type \in WaitStarts \cup WaitEnds)
  <1>1. Len(h) \in Nat /\ T \subseteq 1..Len(h)
    BY DEF Log
  <1>2. PICK j \in 0..Len(h) : (j # 0 => j \in T) /\ \A k \in (j + 1)..Len(h) : k \notin T
    <2> HIDE DEF T
    <2> QED
      BY <1>1, LastPosition
  <1>3. /\ j # 0 => h[j].step = i /\ h[j].type \in WaitStarts \cup WaitEnds
        /\ \A k \in (j + 1)..Len(h) : ~(h[k].step = i /\ h[k].type \in WaitStarts \cup WaitEnds)
    BY <1>1, <1>2 DEF Touches, WaitTypes
  <1>4. /\ at \in 0..Len(h)
        /\ at # 0 => h[at].step = i /\ h[at].type \in WaitStarts \cup WaitEnds
        /\ \A k \in (at + 1)..Len(h) : ~(h[k].step = i /\ h[k].type \in WaitStarts \cup WaitEnds)
    BY <1>3 DEF LastWhere
  <1>5. WaitRecord(h, i) = IF at = 0 THEN "none" ELSE h[at].type
    BY DEF WaitRecord
  <1> HIDE DEF at
  <1> QED
    BY <1>4, <1>5 DEF Touches, WaitTypes

\* What is recorded about step i's wait changes with its own events only.
LEMMA SameWaitRecord ==
  ASSUME NEW g \in Log, NEW h \in Log, Prefix(g, h), NEW i,
         \A j \in (Len(g) + 1)..Len(h) : ~Touches(h[j], i)
  PROVE  WaitRecord(h, i) = WaitRecord(g, i)
  <1>0. Len(g) \in Nat /\ Len(h) \in Nat /\ Len(g) <= Len(h)
    BY DEF Log, Prefix
  <1>1. PICK a \in 0..Len(g) :
            /\ a # 0 => Touches(g[a], i)
            /\ \A k \in (a + 1)..Len(g) : ~Touches(g[k], i)
            /\ WaitRecord(g, i) = IF a = 0 THEN "none" ELSE g[a].type
    BY WaitRecordIs
  <1>2. PICK b \in 0..Len(h) :
            /\ b # 0 => Touches(h[b], i)
            /\ \A k \in (b + 1)..Len(h) : ~Touches(h[k], i)
            /\ WaitRecord(h, i) = IF b = 0 THEN "none" ELSE h[b].type
    BY WaitRecordIs
  <1>3. b <= Len(g)
    BY <1>0, <1>2
  <1>4. /\ b # 0 => Touches(g[b], i)
        /\ \A k \in (b + 1)..Len(g) : ~Touches(g[k], i)
    BY <1>0, <1>2, <1>3 DEF Prefix
  <1>5. a = b
    BY <1>0, <1>1, <1>3, <1>4
  <1> QED
    BY <1>0, <1>1, <1>2, <1>5 DEF Prefix

\* The last event about a wait is what is recorded of it.
LEMMA LatestWaitRecord ==
  ASSUME NEW h \in Log, NEW i, Len(h) > 0, Touches(h[Len(h)], i)
  PROVE  WaitRecord(h, i) = h[Len(h)].type
  <1>0. Len(h) \in Nat
    BY DEF Log
  <1>1. PICK b \in 0..Len(h) :
            /\ b # 0 => Touches(h[b], i)
            /\ \A k \in (b + 1)..Len(h) : ~Touches(h[k], i)
            /\ WaitRecord(h, i) = IF b = 0 THEN "none" ELSE h[b].type
    BY WaitRecordIs
  <1>2. b = Len(h)
    BY <1>0, <1>1
  <1> QED
    BY <1>0, <1>1, <1>2

\* The step the body stands at is the first that stops it.
Stops(h, i) == i \in Steps => ~Answered(h, i) \/ Raises(h, i)

\* The position exists and everything before it is answered.
LEMMA PositionIs ==
  ASSUME NEW h
  PROVE  /\ Position(h) \in 1..(Len(Program) + 1) /\ Stops(h, Position(h))
         /\ \A j \in 1..(Position(h) - 1) : Answered(h, j) /\ ~Raises(h, j)
  <1> DEFINE n == Len(Program)
  <1> DEFINE T == {i \in 1..(n + 1) : Stops(h, i)}
  <1>1. n \in Nat /\ Steps = 1..n
    BY BodyAssumption DEF Steps
  <1>2. n + 1 \in T
    BY <1>1 DEF Stops
  <1>3. T \subseteq Nat
    BY <1>1
  <1>4. PICK i \in T : \A y \in T : i <= y
    BY <1>2, <1>3, Least
  <1>5. \A j \in 1..(i - 1) : j \in Steps /\ j \in 1..(n + 1) /\ j \notin T
    BY <1>1, <1>4
  <1>6. \A j \in 1..(i - 1) : Answered(h, j) /\ ~Raises(h, j)
    BY <1>5 DEF Stops
  <1>7. \E k \in 1..(n + 1) : /\ k \in Steps => ~Answered(h, k) \/ Raises(h, k)
                              /\ \A j \in 1..(k - 1) : Answered(h, j) /\ ~Raises(h, j)
    BY <1>4, <1>6 DEF Stops
  <1> QED
    BY <1>7 DEF Position, Stops

\* There is one such position.
LEMMA PositionOnly ==
  ASSUME NEW h, NEW i \in 1..(Len(Program) + 1), Stops(h, i),
         \A j \in 1..(i - 1) : Answered(h, j) /\ ~Raises(h, j)
  PROVE  Position(h) = i
  <1> DEFINE p == Position(h)
  <1>1. /\ p \in 1..(Len(Program) + 1) /\ Stops(h, p)
        /\ \A j \in 1..(p - 1) : Answered(h, j) /\ ~Raises(h, j)
    BY PositionIs
  <1> HIDE DEF p
  <1>2. Len(Program) \in Nat /\ Steps = 1..Len(Program)
    BY BodyAssumption DEF Steps
  <1>3. ~(p < i)
    BY <1>1, <1>2 DEF Stops
  <1>4. ~(i < p)
    BY <1>1, <1>2 DEF Stops
  <1>5. p = i
    BY <1>1, <1>2, <1>3, <1>4
  <1> QED
    BY <1>5 DEF p

----------------------------------------------------------------------------
(***************************************************************************)
(* The answers a log holds.                                                *)
(***************************************************************************)
\* The body a worker may run, field by field.
LEMMA ProgramTypes ==
  /\ Len(Program) \in Nat /\ Steps = 1..Len(Program)
  /\ \A i \in Steps :
        /\ Program[i].kind \in {"call", "fan", "sleep", "wait"}
        /\ Program[i].calls \in Nat /\ Program[i].tolerant \in BOOLEAN
        /\ Program[i].timed \in BOOLEAN
        /\ Program[i].kind = "fan" => Program[i].calls > 0 /\ ValidJoin(JoinOf[i], Program[i].calls)
                                      /\ JoinOf[i].quorum \in Int
  <1>1. Len(Program) \in Nat /\ Steps = 1..Len(Program)
    BY BodyAssumption DEF Steps
  <1>2. ASSUME NEW i \in Steps
        PROVE  /\ Program[i].kind \in {"call", "fan", "sleep", "wait"}
               /\ Program[i].calls \in Nat /\ Program[i].tolerant \in BOOLEAN
               /\ Program[i].timed \in BOOLEAN
               /\ Program[i].join \in JoinKinds /\ Program[i].quorum \in Nat
    <2> DEFINE R == [kind : {"call", "fan", "sleep", "wait"}, name : STRING, timed : BOOLEAN,
                     tolerant : BOOLEAN, calls : Nat, join : JoinKinds, quorum : Nat]
    <2>1. Program \in Seq(R)
      BY BodyAssumption
    <2>2. Program[i] \in R
      <3> HIDE DEF R
      <3> QED
        BY <1>1, <2>1
    <2> QED
      BY <2>2
  <1>3. ASSUME NEW i \in Steps, Program[i].kind = "fan"
        PROVE  /\ Program[i].calls > 0 /\ ValidJoin(JoinOf[i], Program[i].calls)
               /\ JoinOf[i].quorum \in Int
    <2>1. ValidJoin(Policy(Program[i].join, Program[i].quorum), Program[i].calls)
      BY <1>3, BodyAssumption DEF Steps
    <2>2. JoinOf[i] = joinFrom(JoinString(Policy(Program[i].join, Program[i].quorum)))
      BY DEF JoinOf
    <2>3. CASE Program[i].join = "QUORUM"
      BY <1>2, <2>1, <2>2, <2>3 DEF ValidJoin, joinFrom, JoinString, Policy, JoinKinds
    <2>4. CASE Program[i].join # "QUORUM"
      BY <1>2, <2>1, <2>2, <2>4 DEF ValidJoin, joinFrom, JoinString, Policy, JoinKinds
    <2> QED
      BY <2>3, <2>4
  <1> QED
    BY <1>1, <1>2, <1>3

\* The children of step i that have settled this way.
Settled(h, e, i) == {h[j].child : j \in {n \in DOMAIN h : h[n].type = e /\ h[n].step = i}}

\* A task settles once: a child is one of those that fanned out and does not
\* both complete and fail, and neither does the task of a call.
WellTold(h) ==
    \A i \in Steps :
        /\ Program[i].kind = "fan" =>
              /\ Settled(h, "TASK_COMPLETED", i) \subseteq 1..Program[i].calls
              /\ Settled(h, "TASK_FAILED", i) \subseteq 1..Program[i].calls
              /\ Settled(h, "TASK_COMPLETED", i) \cap Settled(h, "TASK_FAILED", i) = {}
        /\ Program[i].kind = "call" =>
              ~(Has(h, "TASK_COMPLETED", <<i, 0>>) /\ Has(h, "TASK_FAILED", <<i, 0>>))

\* The tasks of a call or of a fan-out, and which step each belongs to.
LEMMA TaskIdsAre ==
  /\ \A i \in Steps : TasksOf(i) \subseteq TaskIds
  /\ \A i \in Steps : Program[i].kind = "call" => TasksOf(i) = {<<i, 0>>}
  /\ \A i \in Steps : Program[i].kind = "fan" => TasksOf(i) = {<<i, n>> : n \in 1..Program[i].calls}
  /\ \A k \in TaskIds : \E i \in Steps : k \in TasksOf(i)
  /\ \A i \in Steps : \A k \in TasksOf(i) :
        k = <<i, k[2]>> /\ k[1] = i /\ k[2] \in Nat /\ Program[i].kind \in {"call", "fan"}
  <1>1. \A i \in Steps : TasksOf(i) \subseteq TaskIds
    BY DEF TaskIds
  <1>2. \A k \in TaskIds : \E i \in Steps : k \in TasksOf(i)
    BY DEF TaskIds
  <1>3. /\ \A i \in Steps : Program[i].kind = "call" => TasksOf(i) = {<<i, 0>>}
        /\ \A i \in Steps : Program[i].kind = "fan" => TasksOf(i) = {<<i, n>> : n \in 1..Program[i].calls}
        /\ \A i \in Steps : Program[i].kind \notin {"call", "fan"} => TasksOf(i) = {}
    BY DEF TasksOf, Children
  <1>4. ASSUME NEW i \in Steps, NEW k \in TasksOf(i)
        PROVE  k = <<i, k[2]>> /\ k[1] = i /\ k[2] \in Nat /\ Program[i].kind \in {"call", "fan"}
    <2>1. Program[i].kind \in {"call", "fan"}
      BY <1>3, <1>4
    <2>2. \E n \in Nat : k = <<i, n>>
      BY <1>3, <1>4, <2>1, ProgramTypes
    <2> QED
      BY <2>1, <2>2
  <1> QED
    BY <1>1, <1>2, <1>3, <1>4

\* An outcome the log holds for a step that fanned out is one of its children's.
LEMMA SettledChild ==
  ASSUME TaskLog, NEW i \in Steps, Program[i].kind = "fan",
         NEW e \in {"TASK_COMPLETED", "TASK_FAILED"}, NEW n \in Settled(history, e, i)
  PROVE  /\ n \in 1..Program[i].calls /\ <<i, n>> \in TasksOf(i) /\ <<i, n>> \in TaskIds
         /\ Has(history, e, <<i, n>>)
  <1>1. PICK j \in DOMAIN history : history[j].type = e /\ history[j].step = i
                                    /\ history[j].child = n
    BY DEF Settled
  <1>2. <<i, n>> \in TaskIds
    BY <1>1 DEF TaskLog, Outcomes
  <1>3. PICK i2 \in Steps : <<i, n>> \in TasksOf(i2)
    BY <1>2, TaskIdsAre
  <1>4. i2 = i
    <2>1. <<i, n>> = <<i2, <<i, n>>[2]>>
      BY <1>3, TaskIdsAre
    <2> QED
      BY <2>1
  <1>5. n \in 1..Program[i].calls
    BY <1>3, <1>4, TaskIdsAre
  <1> QED
    BY <1>1, <1>2, <1>3, <1>4, <1>5 DEF Has

\* What the task table keeps apart, the log keeps apart.
LEMMA LogIsWellTold ==
  ASSUME history \in Log, TaskLog
  PROVE  WellTold(history)
  <1> SUFFICES ASSUME NEW i \in Steps
               PROVE  /\ Program[i].kind = "fan" =>
                            /\ Settled(history, "TASK_COMPLETED", i) \subseteq 1..Program[i].calls
                            /\ Settled(history, "TASK_FAILED", i) \subseteq 1..Program[i].calls
                            /\ Settled(history, "TASK_COMPLETED", i)
                                   \cap Settled(history, "TASK_FAILED", i) = {}
                      /\ Program[i].kind = "call" =>
                            ~(Has(history, "TASK_COMPLETED", <<i, 0>>)
                              /\ Has(history, "TASK_FAILED", <<i, 0>>))
    BY DEF WellTold
  <1>1. ASSUME Program[i].kind = "call"
        PROVE  ~(Has(history, "TASK_COMPLETED", <<i, 0>>) /\ Has(history, "TASK_FAILED", <<i, 0>>))
    <2>1. <<i, 0>> \in TaskIds
      BY <1>1, TaskIdsAre
    <2> QED
      BY <2>1 DEF TaskLog
  <1>2. ASSUME Program[i].kind = "fan", NEW e \in {"TASK_COMPLETED", "TASK_FAILED"},
               NEW n \in Settled(history, e, i)
        PROVE  n \in 1..Program[i].calls /\ <<i, n>> \in TaskIds /\ Has(history, e, <<i, n>>)
    BY <1>2, SettledChild
  <1>3. ASSUME Program[i].kind = "fan"
        PROVE  Settled(history, "TASK_COMPLETED", i) \cap Settled(history, "TASK_FAILED", i) = {}
    <2> SUFFICES ASSUME NEW n \in Settled(history, "TASK_COMPLETED", i),
                        n \in Settled(history, "TASK_FAILED", i)
                 PROVE  FALSE
      OBVIOUS
    <2>1. /\ <<i, n>> \in TaskIds /\ Has(history, "TASK_COMPLETED", <<i, n>>)
          /\ Has(history, "TASK_FAILED", <<i, n>>)
      BY <1>2, <1>3
    <2> QED
      BY <2>1 DEF TaskLog
  <1> QED
    BY <1>1, <1>2, <1>3

\* A fan-out nobody has told about is not joined, and a joined one stays joined
\* while the children it did not wait for settle.
LEMMA NotJoinedAtFirst ==
  ASSUME NEW h, NEW i \in Steps, Program[i].kind = "fan",
         Settled(h, "TASK_COMPLETED", i) = {}, Settled(h, "TASK_FAILED", i) = {}
  PROVE  ~Satisfied(h, i)
  <1>1. Cardinality(Settled(h, "TASK_COMPLETED", i)) = 0
        /\ Cardinality(Settled(h, "TASK_FAILED", i)) = 0
    BY FS_EmptySet
  <1>2. /\ Program[i].calls \in Nat /\ Program[i].calls > 0 /\ JoinOf[i].quorum \in Int
        /\ ValidJoin(JoinOf[i], Program[i].calls)
    BY ProgramTypes
  <1>3. ~JoinSatisfied(JoinOf[i], Program[i].calls, 0, 0)
    BY <1>2 DEF JoinSatisfied, ValidJoin, JoinKinds
  <1> QED
    BY <1>1, <1>3 DEF Satisfied, Settled

\* A join that is satisfied stays satisfied as the log grows.
LEMMA JoinedStaysJoined ==
  ASSUME NEW g \in Log, NEW h \in Log, Prefix(g, h), WellTold(h),
         NEW i \in Steps, Program[i].kind = "fan", Satisfied(g, i)
  PROVE  Satisfied(h, i)
  <1> DEFINE cg == Settled(g, "TASK_COMPLETED", i)
             fg == Settled(g, "TASK_FAILED", i)
             ch == Settled(h, "TASK_COMPLETED", i)
             fh == Settled(h, "TASK_FAILED", i)
             n  == Program[i].calls
  <1>1. /\ n \in Nat /\ n > 0 /\ JoinOf[i].quorum \in Int /\ ValidJoin(JoinOf[i], n)
    BY ProgramTypes
  <1>2. cg \subseteq ch /\ fg \subseteq fh
    BY DEF Settled, Prefix, Log
  <1>3. ch \subseteq 1..n /\ fh \subseteq 1..n /\ ch \cap fh = {}
    BY DEF WellTold
  <1>4. IsFiniteSet(1..n) /\ Cardinality(1..n) = n
    <2>1. IsFiniteSet(1..n) /\ Cardinality(1..n) = IF 1 > n THEN 0 ELSE n - 1 + 1
      BY <1>1, FS_Interval
    <2> QED
      BY <1>1, <2>1
  <1>s. /\ Satisfied(g, i) <=> JoinSatisfied(JoinOf[i], n, Cardinality(cg), Cardinality(fg))
        /\ Satisfied(h, i) <=> JoinSatisfied(JoinOf[i], n, Cardinality(ch), Cardinality(fh))
    BY DEF Satisfied, Settled
  <1> HIDE DEF cg, fg, ch, fh, n
  <1>5. IsFiniteSet(ch) /\ IsFiniteSet(fh)
    BY <1>3, <1>4, FS_Subset
  <1>6. /\ IsFiniteSet(cg) /\ IsFiniteSet(fg)
        /\ Cardinality(cg) <= Cardinality(ch) /\ Cardinality(fg) <= Cardinality(fh)
    BY <1>2, <1>5, FS_Subset
  <1>7. /\ Cardinality(cg) \in Nat /\ Cardinality(fg) \in Nat
        /\ Cardinality(ch) \in Nat /\ Cardinality(fh) \in Nat
    BY <1>5, <1>6, FS_CardinalityType
  <1>8. Cardinality(ch) + Cardinality(fh) <= n
    <2>1. Cardinality(ch \cup fh) = Cardinality(ch) + Cardinality(fh) - Cardinality(ch \cap fh)
      BY <1>5, FS_Union
    <2>2. Cardinality(ch \cap fh) = 0
      BY <1>3, FS_EmptySet
    <2>3. ch \cup fh \subseteq 1..n
      BY <1>3
    <2>4. Cardinality(ch \cup fh) <= n
      BY <1>4, <2>3, FS_Subset
    <2> QED
      BY <1>7, <2>1, <2>2, <2>4
  <1>9. JoinSatisfied(JoinOf[i], n, Cardinality(cg), Cardinality(fg))
    BY <1>s
  <1>10. JoinSatisfied(JoinOf[i], n, Cardinality(ch), Cardinality(fh))
    <2> DEFINE q == JoinOf[i].quorum
    <2>1. CASE JoinOf[i].kind = "ALL"
      BY <1>6, <1>7, <1>8, <1>9, <2>1 DEF JoinSatisfied
    <2>2. CASE JoinOf[i].kind = "ANY"
      BY <1>1, <1>6, <1>7, <1>8, <1>9, <2>2 DEF JoinSatisfied
    <2>3. CASE JoinOf[i].kind = "QUORUM"
      BY <1>1, <1>6, <1>7, <1>8, <1>9, <2>3 DEF JoinSatisfied
    <2> QED
      BY <1>1, <2>1, <2>2, <2>3 DEF ValidJoin, JoinKinds
  <1> QED
    BY <1>s, <1>10

----------------------------------------------------------------------------
(***************************************************************************)
(* What appending to a log does to the body's position.                    *)
(***************************************************************************)

\* A step that was answered and did not raise stays so.
LEMMA PassedStays ==
  ASSUME NEW g \in Log, NEW h \in Log, Prefix(g, h), WellTold(h), NEW i \in Steps,
         \A j \in (Len(g) + 1)..Len(h) : ~Touches(h[j], i),
         Answered(g, i), ~Raises(g, i)
  PROVE  Answered(h, i) /\ ~Raises(h, i)
  <1>1. CASE Program[i].kind = "call"
    <2>1. \A e : Has(g, e, <<i, 0>>) => Has(h, e, <<i, 0>>)
      BY DEF Has, Prefix, Log
    <2>2. Answered(h, i)
      BY <1>1, <2>1 DEF Answered
    <2>3. Has(g, "TASK_COMPLETED", <<i, 0>>) \/ Program[i].tolerant
      BY <1>1 DEF Answered, Raises
    <2>4. ~Raises(h, i)
      BY <1>1, <2>1, <2>3 DEF Raises, WellTold
    <2> QED
      BY <2>2, <2>4
  <1>2. CASE Program[i].kind = "fan"
    <2>1. Satisfied(h, i)
      BY <1>2, JoinedStaysJoined DEF Answered
    <2> QED
      BY <1>2, <2>1 DEF Answered, Raises
  <1>3. CASE Program[i].kind \in {"sleep", "wait"}
    <2>1. WaitRecord(h, i) = WaitRecord(g, i)
      BY SameWaitRecord
    <2> QED
      BY <1>3, <2>1 DEF Answered, Raises
  <1> QED
    BY <1>1, <1>2, <1>3, ProgramTypes

\* Only outcomes of its tasks and events of its wait bear on a step's answer.
LEMMA SameAnswer ==
  ASSUME NEW g \in Log, NEW h \in Log, Prefix(g, h), NEW i \in Steps,
         \A j \in (Len(g) + 1)..Len(h) :
            h[j].step = i => h[j].type \notin Outcomes \cup WaitTypes
  PROVE  (Answered(h, i) <=> Answered(g, i)) /\ (Raises(h, i) <=> Raises(g, i))
  <1>0. Len(g) \in Nat /\ Len(h) \in Nat /\ Len(g) <= Len(h)
        /\ DOMAIN g = 1..Len(g) /\ DOMAIN h = 1..Len(h)
    BY DEF Log, Prefix
  <1>1. WaitRecord(h, i) = WaitRecord(g, i)
    BY SameWaitRecord DEF Touches
  <1>2. ASSUME NEW e \in {"TASK_COMPLETED", "TASK_FAILED"}
        PROVE  /\ Has(h, e, <<i, 0>>) <=> Has(g, e, <<i, 0>>)
               /\ Settled(h, e, i) = Settled(g, e, i)
    <2>1. \A j \in DOMAIN h : h[j].type = e /\ h[j].step = i => j \in DOMAIN g
      BY <1>0, <1>2 DEF Outcomes
    <2>2. \A j \in DOMAIN g : j \in DOMAIN h /\ h[j] = g[j]
      BY <1>0 DEF Prefix
    <2>3. Has(h, e, <<i, 0>>) <=> Has(g, e, <<i, 0>>)
      BY <2>1, <2>2 DEF Has
    <2>4. Settled(h, e, i) = Settled(g, e, i)
      BY <2>1, <2>2 DEF Settled
    <2> QED
      BY <2>3, <2>4
  <1>3. Satisfied(h, i) <=> Satisfied(g, i)
    <2>1. \A l \in {g, h} : Satisfied(l, i) <=>
             JoinSatisfied(JoinOf[i], Program[i].calls,
                           Cardinality(Settled(l, "TASK_COMPLETED", i)),
                           Cardinality(Settled(l, "TASK_FAILED", i)))
      BY DEF Satisfied, Settled
    <2> QED
      BY <1>2, <2>1
  <1> QED
    BY <1>1, <1>2, <1>3, ProgramTypes DEF Answered, Raises

\* A step the log says nothing about has no answer.
LEMMA NothingTold ==
  ASSUME NEW h \in Log, NEW i \in Steps, \A j \in DOMAIN h : h[j].step # i
  PROVE  ~Answered(h, i)
  <1>0. Len(h) \in Nat /\ DOMAIN h = 1..Len(h)
    BY DEF Log
  <1>1. \A e : ~Has(h, e, <<i, 0>>) /\ Settled(h, e, i) = {}
    BY DEF Has, Settled
  <1>2. WaitRecord(h, i) \notin WaitEnds
    <2>1. PICK b \in 0..Len(h) :
            /\ b # 0 => Touches(h[b], i)
            /\ WaitRecord(h, i) = IF b = 0 THEN "none" ELSE h[b].type
      BY WaitRecordIs
    <2>2. b = 0
      BY <1>0, <2>1 DEF Touches
    <2> QED
      BY <2>1, <2>2 DEF WaitEnds
  <1>3. Program[i].kind = "fan" => ~Satisfied(h, i)
    BY <1>1, NotJoinedAtFirst
  <1> QED
    BY <1>1, <1>2, <1>3, ProgramTypes DEF Answered

\* The body moves by at most one step, when the log says nothing of later ones
\* and no wait it has passed is touched again.
LEMMA PositionMoves ==
  ASSUME NEW g \in Log, NEW h \in Log, Prefix(g, h), WellTold(h),
         \A j \in DOMAIN h : h[j].step <= Position(g),
         \A j \in (Len(g) + 1)..Len(h) : h[j].type \in WaitTypes => h[j].step = Position(g)
  PROVE  /\ Position(h) = Position(g) \/ Position(h) = Position(g) + 1
         /\ Position(h) = Position(g) + 1 => Position(g) \in Steps /\ Answered(h, Position(g))
  <1> DEFINE p == Position(g)
             n == Len(Program)
  <1>0. n \in Nat /\ Steps = 1..n
    BY ProgramTypes
  <1>1. /\ p \in 1..(n + 1) /\ Stops(g, p)
        /\ \A j \in 1..(p - 1) : Answered(g, j) /\ ~Raises(g, j)
    BY PositionIs
  <1>2. ASSUME NEW i \in 1..(p - 1) PROVE Answered(h, i) /\ ~Raises(h, i)
    <2>1. i \in Steps /\ i # p
      BY <1>0, <1>1, <1>2
    <2>2. \A j \in (Len(g) + 1)..Len(h) : ~Touches(h[j], i)
      BY <2>1 DEF Touches
    <2> QED
      BY <1>1, <2>1, <2>2, PassedStays
  <1> HIDE DEF p, n
  <1>p. Position(g) = p /\ Len(Program) = n
    BY DEF p, n
  <1>3. CASE Stops(h, p)
    <2>1. Position(h) = p
      BY <1>1, <1>2, <1>3, <1>p, PositionOnly
    <2> QED
      BY <1>1, <1>0, <1>p, <2>1
  <1>4. CASE ~Stops(h, p)
    <2>1. p \in Steps /\ Answered(h, p) /\ ~Raises(h, p)
      BY <1>4 DEF Stops
    <2>2. p + 1 \in 1..(n + 1) /\ \A j \in 1..p : Answered(h, j) /\ ~Raises(h, j)
      BY <1>0, <1>1, <1>2, <2>1
    <2>3. Stops(h, p + 1)
      <3> SUFFICES ASSUME p + 1 \in Steps PROVE ~Answered(h, p + 1)
        BY DEF Stops
      <3>1. \A j \in DOMAIN h : h[j].step # p + 1
        BY <1>0, <1>1, <1>p
      <3> QED
        BY <3>1, NothingTold
    <2>4. Position(h) = p + 1
      <3>1. \A i \in 1..(n + 1) :
               Stops(h, i) /\ (\A j \in 1..(i - 1) : Answered(h, j) /\ ~Raises(h, j))
                   => Position(h) = i
        BY <1>p, PositionOnly
      <3>2. PICK q \in 1..(n + 1) : q = p + 1
        BY <2>2
      <3>3. q - 1 = p
        BY <1>0, <1>1, <3>2
      <3>4. Stops(h, q) /\ \A j \in 1..(q - 1) : Answered(h, j) /\ ~Raises(h, j)
        BY <2>2, <2>3, <3>2, <3>3
      <3> QED
        BY <3>1, <3>2, <3>4
    <2> QED
      BY <1>p, <2>1, <2>4
  <1> QED
    BY <1>3, <1>4

----------------------------------------------------------------------------
(***************************************************************************)
(* What the callers carry.                                                 *)
(***************************************************************************)
CallerRecord == [pc : PCs, version : Nat, avail : Instants, seen : Nat, plan : Facts(Carried)]

\* An event, or what a caller carries to the store, has the shape of one.
LEMMA FactType ==
  ASSUME NEW T, NEW type \in T, NEW i \in 0..Len(Program), NEW n \in Nat,
         NEW sig \in Signals \cup {NoSignal}, NEW until \in Instants
  PROVE  /\ Fact(type, <<i, n>>, sig, until) \in Facts(T)
         /\ Fact(type, <<i, n>>, sig, until) =
               [type |-> type, step |-> i, child |-> n, sig |-> sig, until |-> until]
  BY DEF Fact, Facts

\* The same for the two forms the engine writes: of the run, of a task.
LEMMA PlainFacts ==
  /\ Ready \in Instants /\ Indefinite \in Instants /\ Steps \subseteq Instants
  /\ \A T : \A type \in T : /\ OfRun(type) \in Facts(T)
                            /\ OfRun(type).type = type /\ OfRun(type).step = 0
                            /\ OfRun(type).sig = NoSignal
  /\ \A T : \A type \in T : \A k \in TaskIds :
        /\ OfTask(type, k) \in Facts(T) /\ OfTask(type, k).type = type
        /\ OfTask(type, k).step = k[1] /\ OfTask(type, k).child = k[2]
        /\ k = <<k[1], k[2]>> /\ k[1] \in Steps /\ k[2] \in Nat
  <1>0. Len(Program) \in Nat /\ Steps = 1..Len(Program)
    BY ProgramTypes
  <1>1. /\ Ready \in Instants /\ Indefinite \in Instants /\ Steps \subseteq Instants
    BY <1>0 DEF Ready, Indefinite, Instants
  <1>2. \A T : \A type \in T : /\ OfRun(type) \in Facts(T)
                               /\ OfRun(type).type = type /\ OfRun(type).step = 0
                               /\ OfRun(type).sig = NoSignal
    BY <1>0, <1>1 DEF OfRun, Fact, Facts
  <1>3. ASSUME NEW k \in TaskIds
        PROVE  k = <<k[1], k[2]>> /\ k[1] \in Steps /\ k[2] \in Nat
    BY TaskIdsAre
  <1>4. ASSUME NEW T, NEW type \in T, NEW k \in TaskIds
        PROVE  /\ OfTask(type, k) \in Facts(T) /\ OfTask(type, k).type = type
               /\ OfTask(type, k).step = k[1] /\ OfTask(type, k).child = k[2]
    BY <1>0, <1>1, <1>3 DEF OfTask, Fact, Facts
  <1> QED
    BY <1>1, <1>2, <1>3, <1>4

\* One caller moves and the others stay.
Moves(c, x) == /\ caller' \in [Callers -> CallerRecord] /\ caller'[c] = x
               /\ \A d \in Callers : d # c => caller'[d] = caller[d]

\* What each of the ways to move a caller on makes of the callers.
LEMMA CallerMoves ==
  ASSUME caller \in [Callers -> CallerRecord], NEW c \in Callers
  PROVE  /\ Idle \in CallerRecord
         /\ \A x \in CallerRecord : caller' = [caller EXCEPT ![c] = x] => Moves(c, x)
         /\ \A pc \in PCs : GoTo(c, pc) => Moves(c, [caller[c] EXCEPT !.pc = pc])
         /\ \A pc \in PCs : Begin(c, pc) => Moves(c, [Idle EXCEPT !.pc = pc])
         /\ Stop(c) => Moves(c, Idle)
         /\ \A pc \in PCs, plan \in Facts(Carried) :
               Carry(c, pc, plan) => Moves(c, [caller[c] EXCEPT !.pc = pc, !.plan = plan])
  <1>0. "idle" \in PCs /\ "NONE" \in Carried
    BY DEF PCs, Carried
  <1>1. Idle \in CallerRecord
    BY <1>0, PlainFacts DEF Idle, CallerRecord
  <1>2. \A x \in CallerRecord : caller' = [caller EXCEPT ![c] = x] => Moves(c, x)
    BY DEF Moves
  <1>3. ASSUME NEW pc \in PCs
        PROVE  [caller[c] EXCEPT !.pc = pc] \in CallerRecord /\ [Idle EXCEPT !.pc = pc] \in CallerRecord
    BY <1>1 DEF CallerRecord
  <1>4. ASSUME NEW pc \in PCs, NEW plan \in Facts(Carried)
        PROVE  [caller[c] EXCEPT !.pc = pc, !.plan = plan] \in CallerRecord
    BY DEF CallerRecord
  <1>5. ASSUME NEW pc \in PCs, GoTo(c, pc) PROVE Moves(c, [caller[c] EXCEPT !.pc = pc])
    BY <1>2, <1>3, <1>5 DEF GoTo
  <1>6. ASSUME NEW pc \in PCs, Begin(c, pc) PROVE Moves(c, [Idle EXCEPT !.pc = pc])
    BY <1>2, <1>3, <1>6 DEF Begin
  <1>7. Stop(c) => Moves(c, Idle)
    BY <1>1, <1>2 DEF Stop
  <1>8. ASSUME NEW pc \in PCs, NEW plan \in Facts(Carried), Carry(c, pc, plan)
        PROVE  Moves(c, [caller[c] EXCEPT !.pc = pc, !.plan = plan])
    <2>1. caller' = [caller EXCEPT ![c] = [caller[c] EXCEPT !.pc = pc, !.plan = plan]]
      BY <1>8 DEF Carry, CallerRecord
    <2> QED
      BY <1>2, <1>4, <2>1
  <1> QED
    BY <1>1, <1>2, <1>5, <1>6, <1>7, <1>8

\* What the body decides follows from where it stands.
LEMMA DecisionIs ==
  ASSUME NEW h
  PROVE  LET d == Decision(h)
         IN  /\ d \in Facts(Decisions)
             /\ \/ d.type = "FAIL"
                \/ d.type \in {"COMPLETE", "CANCEL"} /\ Position(h) = Len(Program) + 1
                \/ /\ d.step \in Steps /\ d.type = Begins[Program[d.step].kind]
                   /\ d.child = 0 /\ d.step = Position(h) /\ ~Raises(h, d.step)
  <1> DEFINE i == Position(h)
  <1>0. Len(Program) \in Nat /\ Steps = 1..Len(Program)
    BY ProgramTypes
  <1>1. i \in 1..(Len(Program) + 1)
    BY PositionIs
  <1>2. CASE i \notin Steps
    <2>1. Decision(h) = OfRun(Ending) /\ i = Len(Program) + 1
      BY <1>0, <1>1, <1>2 DEF Decision
    <2>2. Ending \in {"COMPLETE", "FAIL", "CANCEL"} /\ Ending \in Decisions
      BY BodyAssumption DEF Decisions
    <2>3. OfRun(Ending) \in Facts(Decisions) /\ OfRun(Ending).type = Ending
      BY <2>2, PlainFacts
    <2> QED
      BY <2>1, <2>2, <2>3
  <1>3. CASE i \in Steps /\ Raises(h, i)
    <2>1. Decision(h) = OfRun("FAIL")
      BY <1>3 DEF Decision
    <2>2. OfRun("FAIL") \in Facts(Decisions) /\ OfRun("FAIL").type = "FAIL"
      BY PlainFacts DEF Decisions
    <2> QED
      BY <2>1, <2>2
  <1>4. CASE i \in Steps /\ ~Raises(h, i)
    <2>1. PICK until \in Instants :
             Decision(h) = Fact(Begins[Program[i].kind], <<i, 0>>, NoSignal, until)
      <3>1. CASE Program[i].kind = "call"
        BY <1>4, <3>1, PlainFacts DEF Decision, Begins
      <3>2. CASE Program[i].kind = "fan"
        BY <1>4, <3>2, PlainFacts DEF Decision, Begins
      <3>3. CASE Program[i].kind = "sleep"
        BY <1>4, <3>3, PlainFacts DEF Decision, Begins
      <3>4. CASE Program[i].kind = "wait"
        BY <1>4, <3>4, PlainFacts DEF Decision, Begins
      <3> QED
        BY <1>4, <3>1, <3>2, <3>3, <3>4, ProgramTypes
    <2>2. Begins[Program[i].kind] \in Decisions
      BY <1>4, ProgramTypes DEF Begins, Decisions
    <2>3. i \in 0..Len(Program)
      BY <1>0, <1>4
    <2>4. /\ Decision(h) \in Facts(Decisions)
          /\ Decision(h) = [type |-> Begins[Program[i].kind], step |-> i, child |-> 0,
                            sig |-> NoSignal, until |-> until]
      <3> DEFINE t == Begins[Program[i].kind]
      <3>1. t \in Decisions /\ 0 \in Nat /\ NoSignal \in Signals \cup {NoSignal}
        BY <2>2
      <3> HIDE DEF t, i
      <3>2. /\ Fact(t, <<i, 0>>, NoSignal, until) \in Facts(Decisions)
            /\ Fact(t, <<i, 0>>, NoSignal, until) =
                  [type |-> t, step |-> i, child |-> 0, sig |-> NoSignal, until |-> until]
        BY <2>3, <3>1, FactType
      <3> QED
        BY <2>1, <3>2 DEF t
    <2>5. /\ Decision(h).step = i /\ Decision(h).type = Begins[Program[i].kind]
          /\ Decision(h).child = 0
      BY <2>4
    <2> HIDE DEF i
    <2> QED
      BY <1>4, <2>4, <2>5 DEF i
  <1> QED
    BY <1>2, <1>3, <1>4

----------------------------------------------------------------------------
(***************************************************************************)
(* What one step does to the store, and that every caller keeps following. *)
(***************************************************************************)

\* The log, the version, the signals and the clock only grow; and what is
\* recorded without bumping the version is the outcome of a task.
Grown ==
    /\ history' \in Log /\ Prefix(history, history')
    /\ run'.version \in Nat /\ run'.version >= run.version
    /\ run'.version = run.version /\ run.status # "ABSENT" =>
          \A j \in (Len(history) + 1)..Len(history') : history'[j].type \in Outcomes
    /\ due \subseteq due'
    /\ \A k \in DOMAIN stored : k \in DOMAIN stored' /\ stored'[k] = stored[k]

Bumped(status, avail) ==
    /\ run.status = "RUNNING" \/ run.status = status
    /\ run' = [status |-> status, version |-> run.version + 1, avail |-> avail]

\* The seven ways the run's row, its log and its tasks change together.
StartMove ==
    /\ run.status = "ABSENT" /\ run' = [run EXCEPT !.status = "RUNNING"]
    /\ history' = Append(history, OfRun("RUN_STARTED")) /\ task' = task

OutcomeMove(k) ==
    /\ task[k] = "LIVE" /\ UNCHANGED run
    /\ \/ /\ task' = [task EXCEPT ![k] = "COMPLETED"]
          /\ history' = history \o <<OfTask("TASK_COMPLETED", k)>>
       \/ /\ task' = [task EXCEPT ![k] = "DEAD_LETTER"]
          /\ \/ history' = history \o <<OfTask("TASK_FAILED", k), OfTask("TASK_DEAD_LETTERED", k)>>
             \/ history' = history \o <<OfTask("TASK_DEAD_LETTERED", k)>>

ParkChanged ==
    /\ UNCHANGED <<history, task>> /\ run'.status = run.status
    /\ run'.avail # Ready => \E w \in PendingWait(history) : w.until = run'.avail

WakeMove(e) ==
    /\ Bumped("RUNNING", Ready) /\ UNCHANGED task
    /\ e \in Facts(WaitEnds) /\ history' = Append(history, e)
    /\ \E w \in PendingWait(history) : Answers(e, w)
    /\ \E c \in Callers : /\ At(c, "release") /\ caller[c].plan = e
                          /\ caller[c].version = run.version

DispatchMove(i) ==
    /\ Bumped("RUNNING", Ready)
    /\ i \in Steps /\ Program[i].kind \in {"call", "fan"} /\ i = Position(history)
    /\ \A k \in TasksOf(i) : task[k] = "ABSENT"
    /\ task' = [k \in TaskIds |-> IF k \in TasksOf(i) THEN "LIVE" ELSE task[k]]
    /\ history' \in Log /\ Prefix(history, history') /\ Len(history') > Len(history)
    /\ \A j \in (Len(history) + 1)..Len(history') :
          history'[j].step = i /\ history'[j].type \in {"TASK_CREATED", "FAN_OUT_STARTED"}

SuspendMove(e) ==
    /\ Bumped("RUNNING", e.until) /\ UNCHANGED task
    /\ e \in Facts(WaitStarts) /\ history' = Append(history, e)
    /\ e.step \in Steps /\ Program[e.step].kind \in {"sleep", "wait"}
    /\ e.step = Position(history)

FinishMove(status, e) ==
    /\ IsTerminal(status) /\ Bumped(status, Ready) /\ UNCHANGED task
    /\ e \in Finals /\ history' = Append(history, OfRun(e))
    /\ status # "FAILED" => Position(history) = Len(Program) + 1

StoreMove ==
    \/ UNCHANGED <<run, history, task>> \/ StartMove \/ ParkChanged
    \/ \E k \in TaskIds : OutcomeMove(k)
    \/ \E e \in Facts(WaitEnds) : WakeMove(e)
    \/ \E i \in Steps : DispatchMove(i)
    \/ \E e \in Facts(WaitStarts) : SuspendMove(e)
    \/ \E status \in RunStatus, e \in Finals : FinishMove(status, e)

StepOK == TypeOK' /\ Unstarted' /\ Grown /\ StoreMove /\ \A d \in Callers : Follows(d)'

\* A caller that relies on nothing it has read.
LEMMA PassiveFollows ==
  ASSUME NEW c \in Callers,
         caller'[c].pc \in {"idle", "get", "failrun", "history", "reget", "rehistory"},
         caller'[c].version <= run'.version, caller'[c].seen <= Len(history')
  PROVE  Follows(c)'
  BY DEF Follows, NeverAhead, OnlyOutcomesMissed, RelyingOnSeen, ReparkIsMeant, WakeIsMeant,
         DecisionIsMeant, DeliveryIsMeant, At

\* What a caller has read is a beginning of the log.
LEMMA SeenIsLog ==
  ASSUME TypeOK, NEW c \in Callers, NeverAhead(c)
  PROVE  /\ Seen(c) \in Log /\ Len(Seen(c)) = caller[c].seen /\ Prefix(Seen(c), history)
  <1>1. history \in Log /\ caller[c].seen \in 0..Len(history)
    BY DEF TypeOK, NeverAhead, Log
  <1>2. \A s \in Log : \A n \in 0..Len(s) :
           /\ SubSeq(s, 1, n) \in Log /\ Len(SubSeq(s, 1, n)) = n
           /\ \A j \in 1..n : SubSeq(s, 1, n)[j] = s[j]
    BY DEF Log
  <1> QED
    BY <1>1, <1>2 DEF Seen, Prefix, Log

\* A caller that did not move still follows.
LEMMA BystanderFollows ==
  ASSUME RunInv, Grown, NEW d \in Callers, caller'[d] = caller[d]
  PROVE  Follows(d)'
  <1>0. /\ TypeOK /\ Follows(d) /\ history \in Log /\ history' \in Log
        /\ Len(history) \in Nat /\ Len(history') \in Nat /\ Len(history) <= Len(history')
        /\ caller[d].version \in Nat /\ caller[d].seen \in Nat
        /\ run.version \in Nat /\ run'.version >= run.version
    BY DEF RunInv, TypeOK, Log, Grown, Prefix
  <1>1. NeverAhead(d)'
    <2>1. caller[d].version <= run.version /\ caller[d].seen <= Len(history)
      BY <1>0 DEF Follows, NeverAhead
    <2>2. run'.version \in Nat
      BY <1>0 DEF Grown
    <2> QED
      BY <1>0, <2>1, <2>2 DEF NeverAhead
  <1>2. Seen(d)' = Seen(d)
    <2>1. caller[d].seen \in 0..Len(history) /\ caller[d].seen \in 0..Len(history')
      BY <1>0 DEF Follows, NeverAhead
    <2>2. \A n \in 0..Len(history) : SubSeq(history', 1, n) = SubSeq(history, 1, n)
      BY <1>0 DEF Grown, Prefix, Log
    <2> QED
      BY <2>1, <2>2 DEF Seen
  <1>3. CASE run.status = "ABSENT"
    <2>1. caller'[d].pc = "idle"
      BY <1>3 DEF RunInv, Unstarted
    <2> QED
      BY <1>1, <2>1, PassiveFollows DEF NeverAhead
  <1>4. CASE run.status # "ABSENT"
    <2>1. OnlyOutcomesMissed(d)'
      <3> SUFFICES ASSUME RelyingOnSeen(d), caller[d].version = run'.version,
                          NEW j \in (caller[d].seen + 1)..Len(history')
                   PROVE  history'[j].type \in Outcomes
        BY DEF OnlyOutcomesMissed, RelyingOnSeen
      <3>1. caller[d].version = run.version /\ run'.version = run.version
        BY <1>0 DEF Follows, NeverAhead
      <3>2. CASE j \in 1..Len(history)
        <4>1. history'[j] = history[j] /\ j \in (caller[d].seen + 1)..Len(history)
          BY <1>0, <3>2 DEF Grown, Prefix
        <4> QED
          BY <1>0, <3>1, <4>1 DEF Follows, OnlyOutcomesMissed
      <3>3. CASE j \notin 1..Len(history)
        BY <1>0, <1>4, <3>1, <3>3 DEF Grown
      <3> QED
        BY <3>2, <3>3
    <2>2. ReparkIsMeant(d)'
      BY <1>0, <1>2 DEF Follows, ReparkIsMeant, At
    <2>3. WakeIsMeant(d)'
      <3> SUFFICES ASSUME At(d, "release")
                   PROVE  /\ caller[d].plan.type \in WaitEnds
                          /\ \E w \in PendingWait(Seen(d)) : Answers(caller[d].plan, w)'
        BY <1>2 DEF WakeIsMeant, At, Answers
      <3>1. PICK w \in PendingWait(Seen(d)) : Answers(caller[d].plan, w)
        BY <1>0 DEF Follows, WakeIsMeant
      <3>2. Answers(caller[d].plan, w)'
        BY <3>1 DEF Answers, Grown
      <3> QED
        BY <1>0, <3>2 DEF Follows, WakeIsMeant
    <2>4. DecisionIsMeant(d)'
      BY <1>0, <1>2 DEF Follows, DecisionIsMeant, At
    <2>5. DeliveryIsMeant(d)'
      BY <1>0 DEF Follows, DeliveryIsMeant, At
    <2> QED
      BY <1>1, <2>1, <2>2, <2>3, <2>4, <2>5 DEF Follows
  <1> QED
    BY <1>3, <1>4

\* A step that only moves a caller.
LEMMA QuietStep ==
  ASSUME RunInv, NEW c \in Callers, NEW x, Moves(c, x), UNCHANGED <<run, history, task, stored>>,
         due \subseteq due', due' \subseteq Steps,
         crashes' \in 0..MaxCrashes, escalated' \in BOOLEAN,
         run.status # "ABSENT", Follows(c)'
  PROVE  StepOK
  <1>1. TypeOK'
    BY DEF RunInv, TypeOK, Moves, CallerRecord
  <1>2. history \in Log /\ run.version \in Nat
    BY DEF RunInv, TypeOK, Log
  <1>3. Grown
    BY <1>2 DEF Grown, Prefix, Log
  <1>4. Unstarted'
    BY DEF Unstarted
  <1>5. \A d \in Callers : Follows(d)'
    BY <1>3, BystanderFollows DEF Moves
  <1> QED
    BY <1>1, <1>3, <1>4, <1>5 DEF StepOK, StoreMove

\* The facts every case below starts from.
LEMMA Basics ==
  ASSUME RunInv
  PROVE  /\ TypeOK /\ Unstarted /\ StoreInv /\ (\A c \in Callers : Follows(c))
         /\ caller \in [Callers -> CallerRecord] /\ history \in Log /\ Len(history) \in Nat
         /\ run.version \in Nat /\ run.avail \in Instants /\ run.status \in RunStatus
         /\ due \subseteq Steps /\ crashes \in 0..MaxCrashes /\ MaxCrashes \in Nat
         /\ escalated \in BOOLEAN
         /\ \A c \in Callers :
              /\ caller[c] \in CallerRecord /\ caller[c].version \in Nat /\ caller[c].seen \in Nat
              /\ caller[c].version <= run.version /\ caller[c].seen <= Len(history)
              /\ caller[c].pc # "idle" => run.status # "ABSENT"
  <1>1. /\ TypeOK /\ Unstarted /\ StoreInv /\ (\A c \in Callers : Follows(c))
        /\ caller \in [Callers -> CallerRecord]
    BY DEF RunInv, TypeOK, CallerRecord
  <1>2. /\ history \in Log /\ Len(history) \in Nat
        /\ run.version \in Nat /\ run.avail \in Instants /\ run.status \in RunStatus
        /\ due \subseteq Steps /\ crashes \in 0..MaxCrashes /\ MaxCrashes \in Nat
        /\ escalated \in BOOLEAN
    BY <1>1, BoundAssumption DEF TypeOK, Log
  <1>3. ASSUME NEW c \in Callers
        PROVE  /\ caller[c] \in CallerRecord /\ caller[c].version \in Nat /\ caller[c].seen \in Nat
               /\ caller[c].version <= run.version /\ caller[c].seen <= Len(history)
               /\ caller[c].pc # "idle" => run.status # "ABSENT"
    BY <1>1 DEF CallerRecord, Follows, NeverAhead, Unstarted
  <1> QED
    BY <1>1, <1>2, <1>3

\* The steps of a caller that reads, waits or gives up.
LEMMA ReadingSteps ==
  ASSUME RunInv, NEW c \in Callers,
         \/ ScanOnce(c) \/ FailRun(c) \/ GetRun(c) \/ ReadHistory(c) \/ NotWaiting(c)
         \/ ReGetRun(c) \/ ReReadHistory(c) \/ StillJoining(c) \/ DecideUnavailable(c)
         \/ Crash(c)
  PROVE  StepOK
  <1>0. /\ caller \in [Callers -> CallerRecord] /\ history \in Log /\ Len(history) \in Nat
        /\ run.version \in Nat /\ run.avail \in Instants /\ run.status \in RunStatus
        /\ due \subseteq Steps /\ crashes \in 0..MaxCrashes /\ MaxCrashes \in Nat
        /\ escalated \in BOOLEAN
        /\ caller[c] \in CallerRecord /\ caller[c].version \in Nat /\ caller[c].seen \in Nat
        /\ caller[c].version <= run.version /\ caller[c].seen <= Len(history)
        /\ caller[c].pc # "idle" => run.status # "ABSENT" /\ Follows(c)
    BY Basics
  <1> USE DEF store, World
  <1>1. CASE ScanOnce(c)
    <2>1. Moves(c, [Idle EXCEPT !.pc = "get"])
      BY <1>0, <1>1, CallerMoves DEF ScanOnce, PCs
    <2>2. Follows(c)'
      BY <1>0, <1>1, <2>1, PassiveFollows DEF Moves, Idle, ScanOnce
    <2> QED
      BY <1>0, <1>1, <2>1, <2>2, QuietStep DEF ScanOnce, RunsAwaitingAdvance
  <1>2. CASE Crash(c)
    <2>1. Moves(c, Idle)
      BY <1>0, <1>2, CallerMoves DEF Crash
    <2>2. Follows(c)'
      BY <1>0, <1>2, <2>1, PassiveFollows DEF Moves, Idle, Crash
    <2> QED
      BY <1>0, <1>2, <2>1, <2>2, QuietStep DEF Crash, At
  <1>3. CASE ((FailRun(c) \/ GetRun(c)) /\ Stop(c)) \/ StillJoining(c) \/ DecideUnavailable(c)
    <2>1. /\ Moves(c, Idle) /\ run.status # "ABSENT"
          /\ UNCHANGED <<run, history, task, stored, due, crashes, escalated>>
      BY <1>0, <1>3, CallerMoves
      DEF FailRun, GetRun, StillJoining, DecideUnavailable, At
    <2>2. Follows(c)'
      BY <1>0, <2>1, PassiveFollows DEF Moves, Idle
    <2> QED
      BY <1>0, <2>1, <2>2, QuietStep
  <1>4. CASE (GetRun(c) /\ ~Stop(c)) \/ ReGetRun(c)
    <2> DEFINE x(pc) == [caller[c] EXCEPT !.pc = pc, !.version = run.version, !.avail = run.avail]
    <2>1. /\ \E pc \in {"history", "rehistory"} : caller' = [caller EXCEPT ![c] = x(pc)]
          /\ UNCHANGED <<run, history, task, stored, due, crashes, escalated>>
          /\ run.status # "ABSENT"
      BY <1>0, <1>4 DEF GetRun, ReGetRun, At
    <2>2. PICK pc \in {"history", "rehistory"} : caller' = [caller EXCEPT ![c] = x(pc)]
      BY <2>1
    <2>3. x(pc) \in CallerRecord
      BY <1>0 DEF CallerRecord, PCs
    <2>4. Moves(c, x(pc))
      BY <1>0, <2>2, <2>3, CallerMoves
    <2>5. /\ caller'[c].pc = pc /\ caller'[c].version = run.version
          /\ caller'[c].seen = caller[c].seen
      BY <1>0, <2>4 DEF Moves, CallerRecord
    <2>6. Follows(c)'
      BY <1>0, <2>1, <2>5, PassiveFollows
    <2> HIDE DEF x
    <2> QED
      BY <1>0, <2>1, <2>4, <2>6, QuietStep
  <1>5. CASE ReadHistory(c) \/ ReReadHistory(c)
    <2> DEFINE x(pc) == [caller[c] EXCEPT !.pc = pc, !.seen = Len(history)]
    <2>1. /\ \E pc \in {"check", "decide"} : caller' = [caller EXCEPT ![c] = x(pc)]
          /\ UNCHANGED <<run, history, task, stored, due, crashes, escalated>>
          /\ run.status # "ABSENT"
      BY <1>0, <1>5 DEF ReadHistory, ReReadHistory, At
    <2>2. PICK pc \in {"check", "decide"} : caller' = [caller EXCEPT ![c] = x(pc)]
      BY <2>1
    <2>3. x(pc) \in CallerRecord
      BY <1>0 DEF CallerRecord, PCs
    <2>4. Moves(c, x(pc))
      BY <1>0, <2>2, <2>3, CallerMoves
    <2>5. /\ caller'[c].pc = pc /\ caller'[c].version = caller[c].version
          /\ caller'[c].seen = Len(history)
      BY <1>0, <2>4 DEF Moves, CallerRecord
    <2>6. Follows(c)'
      BY <1>0, <2>1, <2>5
      DEF Follows, NeverAhead, OnlyOutcomesMissed, RelyingOnSeen, ReparkIsMeant, WakeIsMeant,
          DecisionIsMeant, DeliveryIsMeant, At
    <2> HIDE DEF x
    <2> QED
      BY <1>0, <2>1, <2>4, <2>6, QuietStep
  <1>6. CASE NotWaiting(c)
    <2>1. Moves(c, [caller[c] EXCEPT !.pc = "decide"])
      BY <1>0, <1>6, CallerMoves DEF NotWaiting, PCs
    <2>2. /\ caller'[c].pc = "decide" /\ caller'[c].version = caller[c].version
          /\ caller'[c].seen = caller[c].seen /\ caller[c].pc = "check"
          /\ UNCHANGED <<run, history, task, stored, due, crashes, escalated>>
      BY <1>0, <1>6, <2>1 DEF Moves, CallerRecord, NotWaiting, At
    <2>3. Follows(c)'
      BY <1>0, <2>2
      DEF Follows, NeverAhead, OnlyOutcomesMissed, RelyingOnSeen, ReparkIsMeant, WakeIsMeant,
          DecisionIsMeant, DeliveryIsMeant, At
    <2> QED
      BY <1>0, <2>1, <2>2, <2>3, QuietStep
  <1>7. CASE FailRun(c) /\ ~Stop(c)
    <2> DEFINE x == [caller[c] EXCEPT !.pc = "commit", !.version = run.version,
                                      !.plan = OfRun("FAIL")]
    <2>1. /\ caller' = [caller EXCEPT ![c] = x] /\ run.status # "ABSENT"
          /\ UNCHANGED <<run, history, task, stored, due, crashes, escalated>>
      BY <1>0, <1>7 DEF FailRun, At
    <2>2. OfRun("FAIL") \in Facts(Carried) /\ OfRun("FAIL").type = "FAIL"
      BY PlainFacts DEF Carried, Decisions
    <2>3. x \in CallerRecord
      BY <1>0, <2>2 DEF CallerRecord, PCs
    <2>4. Moves(c, x)
      BY <1>0, <2>1, <2>3, CallerMoves
    <2>5. /\ caller'[c].pc = "commit" /\ caller'[c].version = run.version
          /\ caller'[c].seen = caller[c].seen /\ caller'[c].plan.type = "FAIL"
      BY <1>0, <2>2, <2>4 DEF Moves, CallerRecord
    <2>6. Follows(c)'
      BY <1>0, <2>1, <2>5
      DEF Follows, NeverAhead, OnlyOutcomesMissed, RelyingOnSeen, ReparkIsMeant, WakeIsMeant,
          DecisionIsMeant, DeliveryIsMeant, At
    <2> HIDE DEF x
    <2> QED
      BY <1>0, <2>1, <2>4, <2>6, QuietStep
  <1> QED
    BY <1>1, <1>2, <1>3, <1>4, <1>5, <1>6, <1>7

\* What ends a wait is its own wake-up, with its cause.
LEMMA WaitIsOverIs ==
  ASSUME TypeOK, NEW h \in Log, NEW w \in PendingWait(h), NEW e \in WaitIsOver(h, w)
  PROVE  e \in Facts(WaitEnds) /\ Answers(e, w)
  <1>0. w.step \in 0..Len(Program) /\ w.until \in Instants /\ w.signal \in BOOLEAN
    <2>1. PICK a \in 1..Len(h) : w = WaitAt(h, a)
      BY PendingWaitIs
    <2>2. h[a] \in Facts(EventTypes)
      BY <2>1 DEF Log
    <2> QED
      BY <2>1, <2>2 DEF WaitAt, Facts
  <1> DEFINE s == IF w.signal THEN UnconsumedSignal(h, Program[w.step].name) ELSE {}
  <1>1. CASE s # {}
    <2>1. PICK x \in s : e = Fact("SIGNAL_RECEIVED", <<w.step, 0>>, x, Ready)
      BY <1>1 DEF WaitIsOver
    <2>2. w.signal
      BY <1>1
    <2>3. \E j \in DOMAIN stored : x = stored[j]
      BY <2>1, <2>2 DEF UnconsumedSignal, Unconsumed
    <2>4. x \in Signals
      BY <2>3 DEF TypeOK
    <2>5. /\ e \in Facts(WaitEnds)
          /\ e = [type |-> "SIGNAL_RECEIVED", step |-> w.step, child |-> 0, sig |-> x,
                  until |-> Ready]
      BY <1>0, <2>1, <2>4, PlainFacts DEF WaitEnds, Fact, Facts
    <2> QED
      BY <2>2, <2>3, <2>5 DEF Answers
  <1>2. CASE s = {}
    <2> DEFINE t == IF w.signal THEN "SIGNAL_WAIT_TIMED_OUT" ELSE "TIMER_FIRED"
    <2>1. w.until \in due /\ e = Fact(t, <<w.step, 0>>, NoSignal, w.until)
      BY <1>2 DEF WaitIsOver, Elapsed
    <2>2. t \in WaitEnds /\ t # "SIGNAL_RECEIVED"
      BY DEF WaitEnds
    <2> HIDE DEF t
    <2>3. /\ e \in Facts(WaitEnds)
          /\ e = [type |-> t, step |-> w.step, child |-> 0, sig |-> NoSignal, until |-> w.until]
      BY <1>0, <2>1, <2>2 DEF Fact, Facts
    <2> QED
      BY <2>1, <2>2, <2>3 DEF Answers
  <1> QED
    BY <1>1, <1>2

\* The steps after which a caller carries something to a later one.
LEMMA PlanningSteps ==
  ASSUME RunInv, NEW c \in Callers,
         \/ CheckWait(c) \/ Decide(c) \/ DecideFails(c)
         \/ \E s \in Signals, path \in Paths : SendSignal(c, s, path)
  PROVE  StepOK
  <1>0. /\ caller \in [Callers -> CallerRecord] /\ history \in Log /\ Len(history) \in Nat
        /\ run.version \in Nat /\ run.avail \in Instants /\ run.status \in RunStatus
        /\ due \subseteq Steps /\ crashes \in 0..MaxCrashes /\ MaxCrashes \in Nat
        /\ escalated \in BOOLEAN
        /\ caller[c] \in CallerRecord /\ caller[c].version \in Nat /\ caller[c].seen \in Nat
        /\ caller[c].version <= run.version /\ caller[c].seen <= Len(history)
        /\ (caller[c].pc # "idle" => run.status # "ABSENT") /\ Follows(c) /\ TypeOK
    BY Basics
  <1>s. Seen(c) \in Log
    BY <1>0, SeenIsLog DEF Follows
  <1> USE DEF store, World
  \* A plan carried to pc, the rest of the caller's record unchanged.
  <1>c. ASSUME NEW pc \in PCs, NEW plan \in Facts(Carried), Carry(c, pc, plan),
               UNCHANGED <<run, history, task, stored, due, crashes, escalated>>
        PROVE  /\ Moves(c, [caller[c] EXCEPT !.pc = pc, !.plan = plan])
               /\ caller'[c].pc = pc /\ caller'[c].plan = plan
               /\ caller'[c].version = caller[c].version /\ caller'[c].seen = caller[c].seen
               /\ NeverAhead(c)' /\ Seen(c)' = Seen(c)
    <2>1. Moves(c, [caller[c] EXCEPT !.pc = pc, !.plan = plan])
      BY <1>0, <1>c, CallerMoves
    <2>2. /\ caller'[c].pc = pc /\ caller'[c].plan = plan
          /\ caller'[c].version = caller[c].version /\ caller'[c].seen = caller[c].seen
      BY <1>0, <2>1 DEF Moves, CallerRecord
    <2> QED
      BY <1>0, <1>c, <2>1, <2>2 DEF NeverAhead, Seen
  <1>1. ASSUME NEW s \in Signals, NEW path \in Paths, SendSignal(c, s, path) PROVE StepOK
    <2> DEFINE plan == Fact(path, <<0, 0>>, s, Ready)
    <2>1. plan \in Facts(Carried) /\ plan.sig = s
      BY ProgramTypes, PlainFacts DEF Carried, Fact, Facts
    <2>2. /\ Carry(c, "deliver", plan) /\ run.status # "ABSENT"
          /\ UNCHANGED <<run, history, task, stored, due, crashes, escalated>>
      BY <1>1 DEF SendSignal, Refused
    <2> HIDE DEF plan
    <2>3. /\ Moves(c, [caller[c] EXCEPT !.pc = "deliver", !.plan = plan])
          /\ caller'[c].pc = "deliver" /\ caller'[c].plan = plan /\ NeverAhead(c)'
      BY <1>c, <2>1, <2>2 DEF PCs
    <2>4. Follows(c)'
      BY <2>1, <2>3
      DEF Follows, OnlyOutcomesMissed, RelyingOnSeen, ReparkIsMeant, WakeIsMeant,
          DecisionIsMeant, DeliveryIsMeant, At
    <2> QED
      BY <1>0, <2>2, <2>3, <2>4, QuietStep
  <1>2. CASE Decide(c)
    <2> DEFINE plan == Decision(Seen(c))
    <2>1. /\ plan \in Facts(Decisions)
          /\ \/ plan.type = "FAIL"
             \/ plan.type \in {"COMPLETE", "CANCEL"} /\ Position(Seen(c)) = Len(Program) + 1
             \/ /\ plan.step \in Steps /\ plan.type = Begins[Program[plan.step].kind]
                /\ plan.child = 0 /\ plan.step = Position(Seen(c)) /\ ~Raises(Seen(c), plan.step)
      BY DecisionIs
    <2>2. plan \in Facts(Carried)
      BY <2>1 DEF Facts, Carried
    <2>3. /\ Carry(c, "commit", plan) /\ run.status # "ABSENT" /\ caller[c].pc = "decide"
          /\ UNCHANGED <<run, history, task, stored, due, crashes, escalated>>
      BY <1>0, <1>2 DEF Decide, At
    <2> HIDE DEF plan
    <2>4. /\ Moves(c, [caller[c] EXCEPT !.pc = "commit", !.plan = plan])
          /\ caller'[c].pc = "commit" /\ caller'[c].plan = plan /\ NeverAhead(c)'
          /\ caller'[c].version = caller[c].version /\ caller'[c].seen = caller[c].seen
          /\ Seen(c)' = Seen(c)
      BY <1>c, <2>2, <2>3 DEF PCs
    <2>5. OnlyOutcomesMissed(c)'
      BY <1>0, <2>3, <2>4 DEF Follows, OnlyOutcomesMissed, RelyingOnSeen
    <2>6. DecisionIsMeant(c)'
      BY <2>1, <2>4 DEF DecisionIsMeant
    <2>7. Follows(c)'
      BY <2>4, <2>5, <2>6 DEF Follows, ReparkIsMeant, WakeIsMeant, DeliveryIsMeant, At
    <2> QED
      BY <1>0, <2>3, <2>4, <2>7, QuietStep
  <1>3. CASE DecideFails(c)
    <2> DEFINE plan == OfRun("FAIL")
    <2>1. plan \in Facts(Carried) /\ plan.type = "FAIL"
      BY PlainFacts DEF Carried, Decisions
    <2>2. /\ Carry(c, "commit", plan) /\ run.status # "ABSENT"
          /\ UNCHANGED <<run, history, task, stored, due, crashes, escalated>>
      BY <1>0, <1>3 DEF DecideFails, At
    <2> HIDE DEF plan
    <2>3. /\ Moves(c, [caller[c] EXCEPT !.pc = "commit", !.plan = plan])
          /\ caller'[c].pc = "commit" /\ caller'[c].plan = plan /\ NeverAhead(c)'
      BY <1>c, <2>1, <2>2 DEF PCs
    <2>4. Follows(c)'
      BY <2>1, <2>3
      DEF Follows, OnlyOutcomesMissed, RelyingOnSeen, ReparkIsMeant, WakeIsMeant,
          DecisionIsMeant, DeliveryIsMeant, At
    <2> QED
      BY <1>0, <2>2, <2>3, <2>4, QuietStep
  <1>4. CASE CheckWait(c)
    <2>1. PICK w \in PendingWait(Seen(c)) :
             LET over == WaitIsOver(Seen(c), w)
             IN  \/ \E e \in over : Carry(c, "release", e)
                 \/ /\ over = {} /\ caller[c].avail = Ready
                    /\ Carry(c, "repark", Fact("REPARK", <<w.step, 0>>, NoSignal, w.until))
                 \/ over = {} /\ caller[c].avail # Ready /\ Stop(c)
      BY <1>4 DEF CheckWait
    <2>2. /\ run.status # "ABSENT" /\ caller[c].pc = "check"
          /\ UNCHANGED <<run, history, task, stored, due, crashes, escalated>>
      BY <1>0, <1>4 DEF CheckWait, At
    <2>3. ASSUME NEW e \in WaitIsOver(Seen(c), w), Carry(c, "release", e) PROVE StepOK
      <3>1. e \in Facts(WaitEnds) /\ Answers(e, w)
        BY <1>0, <1>s, <2>3, WaitIsOverIs
      <3>2. e \in Facts(Carried) /\ e.type \in WaitEnds
        BY <3>1 DEF Facts, Carried
      <3>3. /\ Moves(c, [caller[c] EXCEPT !.pc = "release", !.plan = e])
            /\ caller'[c].pc = "release" /\ caller'[c].plan = e /\ NeverAhead(c)'
            /\ caller'[c].version = caller[c].version /\ caller'[c].seen = caller[c].seen
            /\ Seen(c)' = Seen(c)
        BY <1>c, <2>2, <2>3, <3>2 DEF PCs
      <3>4. OnlyOutcomesMissed(c)'
        BY <1>0, <2>2, <3>3 DEF Follows, OnlyOutcomesMissed, RelyingOnSeen
      <3>5. WakeIsMeant(c)'
        <4>1. Answers(e, w)'
          BY <2>2, <3>1 DEF Answers
        <4>2. caller'[c].plan.type \in WaitEnds
          BY <3>2, <3>3
        <4>3. \E v \in PendingWait(Seen(c)') : Answers(caller[c].plan, v)'
          BY <3>3, <4>1 DEF Answers
        <4> QED
          BY <4>2, <4>3 DEF WakeIsMeant
      <3>6. Follows(c)'
        BY <3>3, <3>4, <3>5 DEF Follows, ReparkIsMeant, DecisionIsMeant, DeliveryIsMeant, At
      <3> QED
        BY <1>0, <2>2, <3>3, <3>6, QuietStep
    <2>4. ASSUME Carry(c, "repark", Fact("REPARK", <<w.step, 0>>, NoSignal, w.until)) PROVE StepOK
      <3> DEFINE plan == Fact("REPARK", <<w.step, 0>>, NoSignal, w.until)
      <3>1. plan \in Facts(Carried) /\ plan.type = "REPARK" /\ plan.until = w.until
        <4>1. PICK a \in 1..Len(Seen(c)) : w = WaitAt(Seen(c), a)
          BY <1>s, PendingWaitIs
        <4>2. Seen(c)[a] \in Facts(EventTypes)
          BY <1>s, <4>1 DEF Log
        <4>3. w.step \in 0..Len(Program) /\ w.until \in Instants
          BY <4>1, <4>2 DEF WaitAt, Facts
        <4> QED
          BY <4>3 DEF Fact, Facts, Carried
      <3> HIDE DEF plan
      <3>2. /\ Moves(c, [caller[c] EXCEPT !.pc = "repark", !.plan = plan])
            /\ caller'[c].pc = "repark" /\ caller'[c].plan = plan /\ NeverAhead(c)'
            /\ caller'[c].version = caller[c].version /\ caller'[c].seen = caller[c].seen
            /\ Seen(c)' = Seen(c)
        BY <1>c, <2>2, <2>4, <3>1 DEF PCs, plan
      <3>3. OnlyOutcomesMissed(c)'
        BY <1>0, <2>2, <3>2 DEF Follows, OnlyOutcomesMissed, RelyingOnSeen
      <3>4. ReparkIsMeant(c)'
        BY <3>1, <3>2 DEF ReparkIsMeant
      <3>5. Follows(c)'
        BY <3>2, <3>3, <3>4 DEF Follows, WakeIsMeant, DecisionIsMeant, DeliveryIsMeant, At
      <3> QED
        BY <1>0, <2>2, <3>2, <3>5, QuietStep
    <2>5. ASSUME Stop(c) PROVE StepOK
      <3>1. Moves(c, Idle)
        BY <1>0, <2>5, CallerMoves
      <3>2. Follows(c)'
        BY <1>0, <2>2, <3>1, PassiveFollows DEF Moves, Idle
      <3> QED
        BY <1>0, <2>2, <3>1, <3>2, QuietStep
    <2> QED
      BY <2>1, <2>3, <2>4, <2>5
  <1> QED
    BY <1>1, <1>2, <1>3, <1>4

\* A caller whose version is still the row's sees the open wait the log has.
LEMMA SeesTheWait ==
  ASSUME RunInv, NEW c \in Callers, RelyingOnSeen(c), caller[c].version = run.version
  PROVE  PendingWait(Seen(c)) = PendingWait(history)
  <1>1. history \in Log /\ TypeOK /\ Follows(c)
    BY Basics
  <1>2. Seen(c) \in Log /\ Len(Seen(c)) = caller[c].seen /\ Prefix(Seen(c), history)
    BY <1>1, SeenIsLog DEF Follows
  <1>3. \A t \in Outcomes : t \notin WaitTypes
    BY DEF Outcomes, WaitTypes, WaitStarts, WaitEnds
  <1>4. GoesOnWithout(Seen(c), history, WaitTypes)
    BY <1>1, <1>2, <1>3 DEF GoesOnWithout, Follows, OnlyOutcomesMissed
  <1> QED
    BY <1>1, <1>2, <1>4, SameWait

\* And it sees the body where it stands, if the step it saw has no answer yet.
LEMMA SeesThePosition ==
  ASSUME RunInv, NEW c \in Callers, RelyingOnSeen(c), caller[c].version = run.version,
         Stops(history, Position(Seen(c)))
  PROVE  Position(history) = Position(Seen(c))
  <1>1. history \in Log /\ TypeOK /\ Follows(c) /\ TaskLog /\ WellTold(history)
    BY Basics, LogIsWellTold DEF StoreInv
  <1>2. Seen(c) \in Log /\ Len(Seen(c)) = caller[c].seen /\ Prefix(Seen(c), history)
    BY <1>1, SeenIsLog DEF Follows
  <1> DEFINE g == Seen(c)
             i == Position(g)
  <1>3. /\ i \in 1..(Len(Program) + 1)
        /\ \A j \in 1..(i - 1) : Answered(g, j) /\ ~Raises(g, j)
    BY PositionIs
  <1>4. \A j \in (Len(g) + 1)..Len(history) : \A s : ~Touches(history[j], s)
    <2>1. \A t \in Outcomes : t \notin WaitTypes
      BY DEF Outcomes, WaitTypes, WaitStarts, WaitEnds
    <2> QED
      BY <1>1, <1>2, <2>1 DEF Follows, OnlyOutcomesMissed, Touches
  <1>i. i = Position(Seen(c)) /\ g = Seen(c)
    OBVIOUS
  <1> HIDE DEF g, i
  <1>5. ASSUME NEW j \in 1..(i - 1) PROVE Answered(history, j) /\ ~Raises(history, j)
    <2>1. j \in Steps
      BY <1>3, <1>5, ProgramTypes
    <2> QED
      BY <1>1, <1>2, <1>3, <1>4, <1>i, <2>1, PassedStays
  <1> QED
    BY <1>3, <1>5, <1>i, PositionOnly

\* A step whose tasks do not exist has no answer, and neither does a wait
\* whose record the caller has seen to be open.
LEMMA UntoldStops ==
  ASSUME RunInv, NEW i \in Steps, Program[i].kind \in {"call", "fan"},
         \A k \in TasksOf(i) : task[k] = "ABSENT"
  PROVE  Stops(history, i)
  <1>1. TaskLog
    BY Basics DEF StoreInv
  <1>2. CASE Program[i].kind = "call"
    <2>1. <<i, 0>> \in TasksOf(i) /\ <<i, 0>> \in TaskIds
      BY <1>2, TaskIdsAre
    <2> QED
      BY <1>1, <1>2, <2>1 DEF TaskLog, Stops, Answered
  <1>3. CASE Program[i].kind = "fan"
    <2>1. ASSUME NEW e \in {"TASK_COMPLETED", "TASK_FAILED"} PROVE Settled(history, e, i) = {}
      <3> SUFFICES ASSUME NEW n \in Settled(history, e, i) PROVE FALSE
        OBVIOUS
      <3>1. /\ <<i, n>> \in TasksOf(i) /\ <<i, n>> \in TaskIds /\ Has(history, e, <<i, n>>)
        BY <1>1, <1>3, <2>1, SettledChild
      <3> QED
        BY <1>1, <2>1, <3>1 DEF TaskLog
    <2>2. ~Satisfied(history, i)
      BY <1>3, <2>1, NotJoinedAtFirst
    <2> QED
      BY <1>3, <2>2 DEF Stops, Answered
  <1> QED
    BY <1>2, <1>3

\* A sleep or a wait the caller saw open is open: only a commit that bumps the
\* version could have ended it.
LEMMA OpenWaitStops ==
  ASSUME RunInv, NEW c \in Callers, RelyingOnSeen(c), caller[c].version = run.version,
         NEW i \in Steps, Program[i].kind \in {"sleep", "wait"}, i = Position(Seen(c))
  PROVE  Stops(history, i)
  <1>1. history \in Log /\ TypeOK /\ Follows(c) /\ TaskLog
    BY Basics DEF StoreInv
  <1>2. Seen(c) \in Log /\ Len(Seen(c)) = caller[c].seen /\ Prefix(Seen(c), history)
    BY <1>1, SeenIsLog DEF Follows
  <1>3. ASSUME NEW j \in (Len(Seen(c)) + 1)..Len(history)
        PROVE  history[j].step = i => history[j].type \notin Outcomes \cup WaitTypes
    <2>1. history[j].type \in Outcomes /\ j \in DOMAIN history
      BY <1>1, <1>2, <1>3 DEF Follows, OnlyOutcomesMissed, Log
    <2>2. <<history[j].step, history[j].child>> \in TaskIds
      BY <1>1, <2>1 DEF TaskLog
    <2>3. PICK i2 \in Steps : <<history[j].step, history[j].child>> \in TasksOf(i2)
      BY <2>2, TaskIdsAre
    <2>4. history[j].step = i2 /\ Program[i2].kind \in {"call", "fan"}
      BY <2>3, TaskIdsAre
    <2> QED
      BY <2>4
  <1>4. (Answered(history, i) <=> Answered(Seen(c), i)) /\ (Raises(history, i) <=> Raises(Seen(c), i))
    BY <1>1, <1>2, <1>3, SameAnswer
  <1>5. Stops(Seen(c), i)
    BY PositionIs
  <1> QED
    BY <1>4, <1>5 DEF Stops

----------------------------------------------------------------------------
(***************************************************************************)
(* The steps that write. Whatever it wrote, a caller then relies on        *)
(* nothing it has read: it stops, or reads again.                          *)
(***************************************************************************)

\* Recording events leaves what was recorded in place.
Recorded(g, h, es) == g = h \o es

\* The new events are the ones recorded, after the old ones.
LEMMA Appended ==
  ASSUME NEW h \in Log, NEW es \in Log, NEW g, Recorded(g, h, es)
  PROVE  /\ g \in Log /\ Prefix(h, g) /\ Len(g) = Len(h) + Len(es)
         /\ \A j \in (Len(h) + 1)..Len(g) : \E n \in 1..Len(es) : g[j] = es[n]
  <1>0. h \in Seq(Facts(EventTypes)) /\ es \in Seq(Facts(EventTypes))
        /\ Len(h) \in Nat /\ Len(es) \in Nat
    BY DEF Log
  <1>r. g = h \o es
    BY DEF Recorded
  <1>1. g \in Log /\ Len(g) = Len(h) + Len(es)
    BY <1>0, <1>r DEF Log
  <1>2. \A j \in 1..Len(h) : g[j] = h[j]
    BY <1>0, <1>r
  <1>3. \A j \in (Len(h) + 1)..(Len(h) + Len(es)) :
           j - Len(h) \in 1..Len(es) /\ g[j] = es[j - Len(h)]
    BY <1>0, <1>r
  <1> QED
    BY <1>0, <1>1, <1>2, <1>3 DEF Prefix

\* The same of one event.
LEMMA AppendedOne ==
  ASSUME NEW h \in Log, NEW e \in Facts(EventTypes), NEW g, g = h \o <<e>> \/ g = Append(h, e)
  PROVE  /\ g = Append(h, e) /\ g \in Log /\ Prefix(h, g) /\ Len(g) = Len(h) + 1
         /\ g[Len(g)] = e /\ \A j \in (Len(h) + 1)..Len(g) : g[j] = e
  <1>1. <<e>> \in Log /\ Len(<<e>>) = 1 /\ <<e>>[1] = e
    BY DEF Log
  <1>2. h \o <<e>> = Append(h, e)
    BY DEF Log
  <1>3. Recorded(g, h, <<e>>) /\ Len(h) \in Nat
    BY <1>2 DEF Log, Recorded
  <1>4. /\ g \in Log /\ Prefix(h, g) /\ Len(g) = Len(h) + 1
        /\ \A j \in (Len(h) + 1)..Len(g) : \E n \in 1..1 : g[j] = <<e>>[n]
    BY <1>1, <1>3, Appended
  <1>5. \A j \in (Len(h) + 1)..Len(g) : g[j] = e
    BY <1>1, <1>3, <1>4
  <1>6. g[Len(g)] = e
    BY <1>3, <1>4, <1>5
  <1> QED
    BY <1>2, <1>3, <1>4, <1>5, <1>6 DEF Recorded

\* The caller stops or starts reading afresh.
Resting(d) ==
    /\ caller'[d].pc \in {"idle", "get", "failrun", "reget"}
    /\ caller'[d].version \in Nat /\ caller'[d].version <= run.version
    /\ caller'[d].seen \in Nat /\ caller'[d].seen <= Len(history)

AtRest == /\ caller' \in [Callers -> CallerRecord]
          /\ \A d \in Callers : caller'[d] = caller[d] \/ Resting(d)

\* A caller that has written holds on to nothing it read.
LEMMA WriterRests ==
  ASSUME RunInv, NEW c \in Callers,
         Stop(c) \/ Begin(c, "get") \/ Begin(c, "failrun") \/ GoTo(c, "reget")
  PROVE  AtRest
  <1>0. /\ caller \in [Callers -> CallerRecord] /\ Len(history) \in Nat /\ run.version \in Nat
        /\ caller[c] \in CallerRecord /\ caller[c].version \in Nat /\ caller[c].seen \in Nat
        /\ caller[c].version <= run.version /\ caller[c].seen <= Len(history)
    BY Basics
  <1>1. "get" \in PCs /\ "failrun" \in PCs /\ "reget" \in PCs
    BY DEF PCs
  <1>2. PICK x \in {Idle, [Idle EXCEPT !.pc = "get"], [Idle EXCEPT !.pc = "failrun"],
                    [caller[c] EXCEPT !.pc = "reget"]} : Moves(c, x)
    BY <1>0, <1>1, CallerMoves
  <1>3. /\ x.pc \in {"idle", "get", "failrun", "reget"}
        /\ x.version \in Nat /\ x.version <= run.version
        /\ x.seen \in Nat /\ x.seen <= Len(history)
    BY <1>0 DEF Idle, CallerRecord
  <1>4. caller'[c] = x /\ caller' \in [Callers -> CallerRecord]
        /\ \A d \in Callers : d # c => caller'[d] = caller[d]
    BY <1>2 DEF Moves
  <1>5. Resting(c)
    BY <1>3, <1>4 DEF Resting
  <1> QED
    BY <1>4, <1>5 DEF AtRest

\* What a writing step has to show.
LEMMA WritingStep ==
  ASSUME RunInv, AtRest, Grown, StoreMove,
         run' \in [status : RunStatus, version : Nat, avail : Instants], run'.status # "ABSENT",
         task' \in [TaskIds -> TaskStatus], stored' \in Seq(Signals),
         due' \subseteq Steps, crashes' \in 0..MaxCrashes, escalated' \in BOOLEAN
  PROVE  StepOK
  <1>0. Len(history) \in Nat /\ Len(history') \in Nat /\ Len(history) <= Len(history')
        /\ run.version \in Nat /\ run'.version \in Nat /\ run.version <= run'.version
    BY Basics DEF Grown, Prefix, Log
  <1>1. TypeOK'
    BY DEF TypeOK, AtRest, CallerRecord, Grown, Log
  <1>2. Unstarted'
    BY DEF Unstarted
  <1>3. ASSUME NEW d \in Callers PROVE Follows(d)'
    <2>1. CASE caller'[d] = caller[d]
      BY <2>1, BystanderFollows
    <2>2. CASE Resting(d)
      <3>1. /\ caller'[d].pc \in {"idle", "get", "failrun", "history", "reget", "rehistory"}
            /\ caller'[d].version <= run'.version /\ caller'[d].seen <= Len(history')
        BY <1>0, <2>2 DEF Resting
      <3> QED
        BY <3>1, PassiveFollows
    <2> QED
      BY <2>1, <2>2 DEF AtRest
  <1> QED
    BY <1>1, <1>2, <1>3 DEF StepOK

\* A commit that lost its race writes nothing.
LEMMA LostRace ==
  ASSUME RunInv, AtRest, run.status # "ABSENT",
         UNCHANGED <<run, history, task, stored, due, crashes, escalated>>
  PROVE  StepOK
  <1>1. /\ run \in [status : RunStatus, version : Nat, avail : Instants]
        /\ task \in [TaskIds -> TaskStatus] /\ stored \in Seq(Signals)
        /\ due \subseteq Steps /\ crashes \in 0..MaxCrashes /\ escalated \in BOOLEAN
        /\ history \in Log /\ Len(history) \in Nat /\ run.version \in Nat
    BY Basics DEF TypeOK
  <1>2. Grown
    BY <1>1 DEF Grown, Prefix
  <1>3. StoreMove
    BY DEF StoreMove
  <1> QED
    BY <1>1, <1>2, <1>3, WritingStep

\* Starting the run, and what becomes of its tasks.
LEMMA ReportingSteps ==
  ASSUME RunInv,
         \/ \E c \in Callers : StartRun(c)
         \/ \E c \in Callers, k \in TaskIds : Reports(c, k)
         \/ \E k \in TaskIds : Bury(k)
  PROVE  StepOK
  <1>0. /\ caller \in [Callers -> CallerRecord] /\ history \in Log /\ Len(history) \in Nat
        /\ run \in [status : RunStatus, version : Nat, avail : Instants] /\ run.version \in Nat
        /\ task \in [TaskIds -> TaskStatus] /\ stored \in Seq(Signals)
        /\ due \subseteq Steps /\ crashes \in 0..MaxCrashes /\ escalated \in BOOLEAN /\ Unstarted
    BY Basics DEF TypeOK
  <1> USE DEF World
  <1>1. ASSUME NEW c \in Callers, StartRun(c) PROVE StepOK
    <2> DEFINE e == OfRun("RUN_STARTED")
    <2>1. e \in Facts(EventTypes)
      BY PlainFacts DEF EventTypes
    <2>2. /\ run.status = "ABSENT" /\ run' = [run EXCEPT !.status = "RUNNING"]
          /\ history' = history \o <<e>> /\ Begin(c, "get")
          /\ UNCHANGED <<task, stored, due, crashes, escalated>>
      BY <1>1 DEF StartRun, Record
    <2> HIDE DEF e
    <2>3. history' = Append(history, e) /\ history' \in Log /\ Prefix(history, history')
      BY <1>0, <2>1, <2>2, AppendedOne
    <2>4. /\ run' \in [status : RunStatus, version : Nat, avail : Instants]
          /\ run'.status = "RUNNING" /\ run'.version = run.version
      BY <1>0, <2>2 DEF RunStatus
    <2>5. Grown
      BY <1>0, <2>2, <2>3, <2>4 DEF Grown
    <2>6. StoreMove
      BY <2>2, <2>3 DEF StoreMove, StartMove, e
    <2>7. AtRest
      BY <2>2, WriterRests
    <2> QED
      BY <1>0, <2>2, <2>4, <2>5, <2>6, <2>7, WritingStep
  <1>2. ASSUME NEW k \in TaskIds, OutcomeMove(k), AtRest, UNCHANGED <<stored, due, crashes>>,
               escalated' \in BOOLEAN
        PROVE  StepOK
    <2>1. run.status # "ABSENT" /\ run' = run
      BY <1>0, <1>2 DEF Unstarted, OutcomeMove
    <2>2. /\ OfTask("TASK_COMPLETED", k) \in Facts(EventTypes)
          /\ OfTask("TASK_FAILED", k) \in Facts(EventTypes)
          /\ OfTask("TASK_DEAD_LETTERED", k) \in Facts(EventTypes)
          /\ OfTask("TASK_COMPLETED", k).type \in Outcomes
          /\ OfTask("TASK_FAILED", k).type \in Outcomes
          /\ OfTask("TASK_DEAD_LETTERED", k).type \in Outcomes
      BY PlainFacts DEF EventTypes, Outcomes
    <2>3. PICK es \in Log : /\ Recorded(history', history, es)
                            /\ \A j \in 1..Len(es) : es[j].type \in Outcomes
      <3> DEFINE c == OfTask("TASK_COMPLETED", k)
                 f == OfTask("TASK_FAILED", k)
                 d == OfTask("TASK_DEAD_LETTERED", k)
      <3>1. history' = history \o <<c>> \/ history' = history \o <<f, d>> \/ history' = history \o <<d>>
        BY <1>2 DEF OutcomeMove
      <3>2. \A e \in {c, f, d} : e \in Facts(EventTypes) /\ e.type \in Outcomes
        BY <2>2
      <3> HIDE DEF c, f, d
      <3>3. ASSUME NEW e \in {c, f, d}
            PROVE  <<e>> \in Log /\ \A j \in 1..Len(<<e>>) : <<e>>[j].type \in Outcomes
        BY <3>2 DEF Log
      <3>4. <<f, d>> \in Log /\ \A j \in 1..Len(<<f, d>>) : <<f, d>>[j].type \in Outcomes
        BY <3>2 DEF Log
      <3> QED
        BY <3>1, <3>3, <3>4 DEF Recorded
    <2>4. /\ history' \in Log /\ Prefix(history, history')
          /\ \A j \in (Len(history) + 1)..Len(history') : history'[j].type \in Outcomes
      <3>1. /\ history' \in Log /\ Prefix(history, history')
            /\ \A j \in (Len(history) + 1)..Len(history') : \E n \in 1..Len(es) : history'[j] = es[n]
        BY <1>0, <2>3, Appended
      <3> QED
        BY <2>3, <3>1
    <2>5. task' \in [TaskIds -> TaskStatus]
      BY <1>0, <1>2 DEF OutcomeMove, TaskStatus
    <2>6. Grown
      BY <1>0, <1>2, <2>1, <2>4 DEF Grown
    <2>7. StoreMove
      BY <1>2 DEF StoreMove
    <2> QED
      BY <1>0, <1>2, <2>1, <2>5, <2>6, <2>7, WritingStep
  <1>3. ASSUME NEW c \in Callers, NEW k \in TaskIds, CompleteTask(c, k) PROVE StepOK
    <2>1. OutcomeMove(k) /\ Begin(c, "get") /\ UNCHANGED <<stored, due, crashes, escalated>>
      BY <1>3 DEF CompleteTask, OutcomeMove, Record
    <2> QED
      BY <1>0, <1>2, <2>1, WriterRests
  <1>4. ASSUME NEW c \in Callers, NEW k \in TaskIds, NEW e \in BOOLEAN, FailTask(c, k, e)
        PROVE  StepOK
    <2>1. OutcomeMove(k) /\ UNCHANGED <<stored, due, crashes>>
      BY <1>4 DEF FailTask, OutcomeMove, Record
    <2>2. Begin(c, "get") \/ Begin(c, "failrun")
      BY <1>4 DEF FailTask
    <2>3. escalated' \in BOOLEAN
      BY <1>0, <1>4 DEF FailTask
    <2> QED
      BY <1>2, <2>1, <2>2, <2>3, WriterRests
  <1>5. ASSUME NEW k \in TaskIds, Bury(k) PROVE StepOK
    <2>1. OutcomeMove(k) /\ UNCHANGED <<stored, due, crashes, escalated, caller>>
      BY <1>5 DEF Bury, OutcomeMove, Record
    <2>2. AtRest
      BY <1>0, <2>1 DEF AtRest
    <2> QED
      BY <1>0, <1>2, <2>1, <2>2
  <1> QED
    BY <1>1, <1>3, <1>4, <1>5 DEF Reports

\* The version is bumped, and the log grows.
LEMMA BumpGrows ==
  ASSUME RunInv, history' \in Log, Prefix(history, history'), NEW status, NEW avail,
         AdvanceRun(status, avail), UNCHANGED <<stored, due>>
  PROVE  /\ Grown /\ run'.status = status /\ run'.avail = avail
         /\ status \in RunStatus /\ avail \in Instants =>
               run' \in [status : RunStatus, version : Nat, avail : Instants]
  <1>1. run.version \in Nat /\ history \in Log /\ Len(history) \in Nat
    BY Basics
  <1>2. run' = [status |-> status, version |-> run.version + 1, avail |-> avail]
    BY DEF AdvanceRun
  <1>3. run'.version = run.version + 1 /\ run'.status = status /\ run'.avail = avail
    BY <1>2
  <1>4. Grown
    BY <1>1, <1>3 DEF Grown
  <1>5. status \in RunStatus /\ avail \in Instants =>
               run' \in [status : RunStatus, version : Nat, avail : Instants]
    BY <1>1, <1>2
  <1> QED
    BY <1>3, <1>4, <1>5

\* A caller in the middle of Advance that may still commit.
LEMMA MayCommit ==
  ASSUME RunInv, NEW c \in Callers, caller[c].pc # "idle", NEW to, CanAdvance(c, to)
  PROVE  /\ caller[c].version = run.version /\ run.status # "ABSENT"
         /\ run.status = "RUNNING" \/ run.status = to
  <1>1. run.status \in RunStatus /\ run.status # "ABSENT"
    BY Basics
  <1> QED
    BY <1>1 DEF CanAdvance, IsTerminal, RunStatus

\* The clock passes an instant, and everyone stays where they are.
LEMMA ClockSteps ==
  ASSUME RunInv, NEW i \in Steps, ClockPasses(i)
  PROVE  StepOK
  <1>1. /\ due' = due \cup {i} /\ due \subseteq Steps /\ TypeOK /\ Unstarted
        /\ UNCHANGED <<run, history, task, stored, caller, crashes, escalated>>
        /\ history \in Log /\ Len(history) \in Nat /\ run.version \in Nat
    BY Basics DEF ClockPasses, store
  <1>2. Grown
    BY <1>1 DEF Grown, Prefix
  <1>3. \A d \in Callers : Follows(d)'
    BY <1>1, <1>2, BystanderFollows
  <1>4. TypeOK' /\ Unstarted'
    BY <1>1 DEF TypeOK, Unstarted
  <1> QED
    BY <1>1, <1>2, <1>3, <1>4 DEF StepOK, StoreMove

\* The park is set or cleared: by a signal that arrives, and by a caller that
\* found the run's row without the park its history calls for.
LEMMA ParkingSteps ==
  ASSUME RunInv, NEW c \in Callers, DeliverSignal(c) \/ Repark(c)
  PROVE  StepOK
  <1>0. /\ history \in Log /\ Len(history) \in Nat
        /\ run \in [status : RunStatus, version : Nat, avail : Instants]
        /\ run.version \in Nat /\ run.avail \in Instants /\ run.status \in RunStatus
        /\ task \in [TaskIds -> TaskStatus] /\ stored \in Seq(Signals)
        /\ due \subseteq Steps /\ crashes \in 0..MaxCrashes /\ escalated \in BOOLEAN
        /\ Follows(c) /\ caller[c] \in CallerRecord
    BY Basics DEF TypeOK
  <1>s. run.status # "ABSENT"
    BY Basics DEF DeliverSignal, Repark, At
  <1> USE DEF World
  <1>1. CASE DeliverSignal(c)
    <2> DEFINE s == caller[c].plan.sig
    <2>1. s \in Signals
      BY <1>0, <1>1 DEF DeliverSignal, Follows, DeliveryIsMeant
    <2>2. AtRest
      BY <1>1, WriterRests DEF DeliverSignal, AfterDelivery
    <2>3. UNCHANGED <<history, task, due, crashes, escalated>>
      BY <1>1 DEF DeliverSignal
    <2>4. UNCHANGED <<run, stored>> \/ (stored' = Append(stored, s) /\ ReleaseRun)
      BY <1>1 DEF DeliverSignal
    <2> HIDE DEF s
    <2>5. ASSUME stored' = Append(stored, s), ReleaseRun PROVE StepOK
      <3>1. /\ run' \in [status : RunStatus, version : Nat, avail : Instants]
            /\ run'.status = run.status /\ run'.avail = Ready /\ run'.version = run.version
        BY <1>0, <2>5, PlainFacts DEF ReleaseRun
      <3>2. /\ stored' \in Seq(Signals)
            /\ \A k \in DOMAIN stored : k \in DOMAIN stored' /\ stored'[k] = stored[k]
        BY <1>0, <2>1, <2>5
      <3>3. Grown
        BY <1>0, <2>3, <3>1, <3>2 DEF Grown, Prefix
      <3>4. StoreMove
        BY <2>3, <3>1 DEF StoreMove, ParkChanged
      <3> QED
        BY <1>0, <1>s, <2>2, <2>3, <3>1, <3>2, <3>3, <3>4, WritingStep
    <2> QED
      BY <1>s, <2>2, <2>3, <2>4, <2>5, LostRace
  <1>2. CASE Repark(c)
    <2>1. At(c, "repark") /\ AtRest /\ UNCHANGED <<history, task, stored, due, crashes, escalated>>
      BY <1>2, WriterRests DEF Repark
    <2>2. CASE CanAdvance(c, "RUNNING")
      <3> DEFINE u == caller[c].plan.until
      <3>1. AdvanceRun("RUNNING", u)
        BY <1>2, <2>2 DEF Repark
      <3>2. caller[c].version = run.version /\ run.status = "RUNNING"
        BY <2>1, <2>2, MayCommit DEF At
      <3>3. PICK w \in PendingWait(history) : w.until = u
        <4>1. RelyingOnSeen(c)
          BY <2>1 DEF RelyingOnSeen, At
        <4>2. PendingWait(Seen(c)) = PendingWait(history)
          BY <3>2, <4>1, SeesTheWait
        <4> QED
          BY <1>0, <2>1, <4>2 DEF Follows, ReparkIsMeant
      <3>4. u \in Instants /\ "RUNNING" \in RunStatus
        BY <1>0 DEF CallerRecord, Facts, RunStatus
      <3> HIDE DEF u
      <3>5. history' \in Log /\ Prefix(history, history')
        BY <1>0, <2>1 DEF Prefix
      <3>6. /\ Grown /\ run'.status = "RUNNING" /\ run'.avail = u
            /\ run' \in [status : RunStatus, version : Nat, avail : Instants]
        BY <2>1, <3>1, <3>4, <3>5, BumpGrows
      <3>7. StoreMove
        BY <2>1, <3>2, <3>3, <3>6 DEF StoreMove, ParkChanged
      <3> QED
        BY <1>0, <2>1, <3>6, <3>7, WritingStep
    <2>3. CASE ~CanAdvance(c, "RUNNING")
      BY <1>2, <1>s, <2>1, <2>3, LostRace DEF Repark
    <2> QED
      BY <2>2, <2>3
  <1> QED
    BY <1>1, <1>2

\* The wake-up is recorded.
LEMMA WakingSteps ==
  ASSUME RunInv, NEW c \in Callers, Release(c)
  PROVE  StepOK
  <1>0. /\ history \in Log /\ Len(history) \in Nat
        /\ task \in [TaskIds -> TaskStatus] /\ stored \in Seq(Signals)
        /\ due \subseteq Steps /\ crashes \in 0..MaxCrashes /\ escalated \in BOOLEAN
        /\ Follows(c) /\ caller[c] \in CallerRecord
    BY Basics DEF TypeOK
  <1>1. /\ At(c, "release") /\ run.status # "ABSENT"
        /\ UNCHANGED <<task, stored, due, crashes, escalated>>
    BY Basics DEF Release, At, World
  <1>2. AtRest
    BY WriterRests DEF Release
  <1>3. CASE CanAdvance(c, "RUNNING")
    <2> DEFINE e == caller[c].plan
    <2>1. AdvanceRun("RUNNING", Ready) /\ history' = history \o <<e>>
      BY <1>3 DEF Release, Record
    <2>2. caller[c].version = run.version /\ run.status = "RUNNING"
      BY <1>1, <1>3, MayCommit DEF At
    <2>3. PendingWait(Seen(c)) = PendingWait(history)
      BY <1>1, <2>2, SeesTheWait DEF RelyingOnSeen, At
    <2>4. e.type \in WaitEnds /\ \E w \in PendingWait(history) : Answers(e, w)
      BY <1>0, <1>1, <2>3 DEF Follows, WakeIsMeant
    <2>5. e \in Facts(WaitEnds) /\ e \in Facts(EventTypes)
      BY <1>0, <2>4 DEF CallerRecord, Facts, EventTypes
    <2> HIDE DEF e
    <2>6. history' = Append(history, e) /\ history' \in Log /\ Prefix(history, history')
      BY <1>0, <2>1, <2>5, AppendedOne
    <2>7. /\ Grown /\ run'.status = "RUNNING"
          /\ run' \in [status : RunStatus, version : Nat, avail : Instants]
      BY <1>1, <2>1, <2>6, BumpGrows, PlainFacts DEF RunStatus
    <2>8. WakeMove(e)
      BY <1>1, <2>1, <2>2, <2>4, <2>5, <2>6 DEF WakeMove, Bumped, AdvanceRun, e
    <2> QED
      BY <1>0, <1>1, <1>2, <2>5, <2>7, <2>8, WritingStep DEF StoreMove
  <1>4. CASE ~CanAdvance(c, "RUNNING")
    BY <1>1, <1>2, <1>4, LostRace DEF Release
  <1> QED
    BY <1>3, <1>4

\* The decision to begin step i is committed: what its caller saw is still so.
LEMMA CommitsPosition ==
  ASSUME RunInv, NEW c \in Callers, caller[c].version = run.version,
         At(c, "commit"), caller[c].plan.type \in {"CALL_TOOL", "CALL_TOOL_PARALLEL", "SLEEP",
                                                   "WAIT_FOR_SIGNAL"}
  PROVE  LET i == caller[c].plan.step
         IN  /\ i \in Steps /\ caller[c].plan.type = Begins[Program[i].kind]
             /\ i = Position(Seen(c)) /\ RelyingOnSeen(c)
             /\ Stops(history, i) => i = Position(history)
  <1> DEFINE i == caller[c].plan.step
  <1>1. Follows(c)
    BY Basics
  <1>2. i \in Steps /\ caller[c].plan.type = Begins[Program[i].kind] /\ i = Position(Seen(c))
    BY <1>1 DEF Follows, DecisionIsMeant
  <1>3. RelyingOnSeen(c)
    BY DEF RelyingOnSeen, At
  <1> HIDE DEF i
  <1>4. Stops(history, i) => i = Position(history)
    BY <1>2, <1>3, SeesThePosition
  <1> QED
    BY <1>2, <1>3, <1>4 DEF i

\* What Dispatch records of step i.
Created(i) == IF Program[i].kind = "call"
              THEN <<OfTask("TASK_CREATED", <<i, 0>>)>>
              ELSE <<OfTask("FAN_OUT_STARTED", <<i, 0>>)>> \o
                   [n \in 1..Program[i].calls |-> OfTask("TASK_CREATED", <<i, n>>)]

\* What a dispatch records is about its own step.
LEMMA CreatedIs ==
  ASSUME NEW i \in Steps, Program[i].kind \in {"call", "fan"}
  PROVE  /\ Created(i) \in Log /\ Len(Created(i)) > 0
         /\ \A j \in 1..Len(Created(i)) :
               /\ Created(i)[j].step = i
               /\ Created(i)[j].type \in {"TASK_CREATED", "FAN_OUT_STARTED"}
  <1>0. i \in 0..Len(Program) /\ Program[i].calls \in Nat
    BY ProgramTypes
  <1>1. ASSUME NEW n \in Nat, NEW t \in {"TASK_CREATED", "FAN_OUT_STARTED"}
        PROVE  /\ OfTask(t, <<i, n>>) \in Facts(EventTypes)
               /\ OfTask(t, <<i, n>>).step = i /\ OfTask(t, <<i, n>>).type = t
    BY <1>0, PlainFacts DEF OfTask, Fact, Facts, EventTypes, Starts
  <1>2. CASE Program[i].kind = "call"
    <2>1. PICK e \in Facts(EventTypes) : /\ e = OfTask("TASK_CREATED", <<i, 0>>)
                                         /\ e.step = i /\ e.type = "TASK_CREATED"
      BY <1>1
    <2>0. <<e>> \in Log /\ Len(<<e>>) = 1 /\ <<e>>[1] = e
      BY DEF Log
    <2>2. PICK d : d = <<e>> /\ d \in Log /\ Len(d) = 1 /\ d[1] = e
      BY <2>0
    <2>3. Created(i) = d
      BY <1>2, <2>1, <2>2 DEF Created
    <2> QED
      BY <2>1, <2>2, <2>3
  <1>3. CASE Program[i].kind = "fan"
    <2>1. PICK e \in Facts(EventTypes) : /\ e = OfTask("FAN_OUT_STARTED", <<i, 0>>)
                                         /\ e.step = i /\ e.type = "FAN_OUT_STARTED"
      BY <1>1
    <2>2. PICK es : es = [n \in 1..Program[i].calls |-> OfTask("TASK_CREATED", <<i, n>>)]
      OBVIOUS
    <2>3. \A n \in 1..Program[i].calls : /\ es[n] \in Facts(EventTypes) /\ es[n].step = i
                                         /\ es[n].type = "TASK_CREATED"
      BY <1>0, <1>1, <2>2
    <2>4. es \in Log /\ Len(es) = Program[i].calls
      <3>1. DOMAIN es = 1..Program[i].calls /\ es = [n \in 1..Program[i].calls |-> es[n]]
        BY <2>2
      <3>2. es \in [1..Program[i].calls -> Facts(EventTypes)]
        BY <2>3, <3>1
      <3> QED
        BY <1>0, <3>2 DEF Log
    <2>5. <<e>> \in Log /\ Len(<<e>>) = 1 /\ <<e>>[1] = e
      BY DEF Log
    <2>6. Recorded(Created(i), <<e>>, es)
      BY <1>3, <2>1, <2>2 DEF Created, Recorded
    <2>7. PICK d \in Log : Len(d) = 1 /\ d[1] = e /\ Recorded(Created(i), d, es)
      BY <2>5, <2>6
    <2>8. /\ Created(i) \in Log /\ Prefix(d, Created(i)) /\ Len(Created(i)) = Len(d) + Len(es)
          /\ \A j \in (Len(d) + 1)..Len(Created(i)) : \E n \in 1..Len(es) : Created(i)[j] = es[n]
      <3>1. \A h \in Log : \A t \in Log : \A g : Recorded(g, h, t) =>
               /\ g \in Log /\ Prefix(h, g) /\ Len(g) = Len(h) + Len(t)
               /\ \A j \in (Len(h) + 1)..Len(g) : \E n \in 1..Len(t) : g[j] = t[n]
        BY Appended
      <3>2. es \in Log /\ d \in Log /\ Recorded(Created(i), d, es)
        BY <2>4, <2>7
      <3> QED
        BY <3>1, <3>2
    <2>9. ASSUME NEW j \in 1..Len(Created(i))
          PROVE  /\ Created(i)[j].step = i
                 /\ Created(i)[j].type \in {"TASK_CREATED", "FAN_OUT_STARTED"}
      <3>1. CASE j = 1
        BY <2>1, <2>7, <2>8, <3>1 DEF Prefix
      <3>2. CASE j # 1
        <4>1. PICK n \in 1..Len(es) : Created(i)[j] = es[n]
          BY <1>0, <2>4, <2>7, <2>8, <3>2
        <4> QED
          BY <2>3, <2>4, <4>1
      <3> QED
        BY <3>1, <3>2
    <2> QED
      BY <1>0, <2>4, <2>7, <2>8, <2>9
  <1> QED
    BY <1>2, <1>3

\* A call or a fan-out is dispatched.
LEMMA DispatchingSteps ==
  ASSUME RunInv, NEW c \in Callers, Dispatch(c)
  PROVE  StepOK
  <1> DEFINE i == caller[c].plan.step
  <1>0. /\ history \in Log /\ Len(history) \in Nat
        /\ task \in [TaskIds -> TaskStatus] /\ stored \in Seq(Signals)
        /\ due \subseteq Steps /\ crashes \in 0..MaxCrashes /\ escalated \in BOOLEAN
    BY Basics DEF TypeOK
  <1>1. /\ At(c, "commit") /\ caller[c].plan.type \in {"CALL_TOOL", "CALL_TOOL_PARALLEL"}
        /\ run.status # "ABSENT" /\ UNCHANGED <<stored, due, crashes, escalated>>
    BY Basics DEF Dispatch, Plans, At, World
  <1>2. AtRest
    BY WriterRests DEF Dispatch
  <1>3. CASE CanAdvance(c, "RUNNING") /\ \A k \in TasksOf(i) : task[k] = "ABSENT"
    <2>1. /\ AdvanceRun("RUNNING", Ready)
          /\ task' = [k \in TaskIds |-> IF k \in TasksOf(i) THEN "LIVE" ELSE task[k]]
          /\ history' = history \o Created(i)
      BY <1>3 DEF Dispatch, Record, Created
    <2>2. caller[c].version = run.version /\ run.status = "RUNNING"
      BY <1>1, <1>3, MayCommit DEF At
    <2>3. /\ i \in Steps /\ caller[c].plan.type = Begins[Program[i].kind]
          /\ Stops(history, i) => i = Position(history)
      BY <1>1, <2>2, CommitsPosition
    <2>4. Program[i].kind \in {"call", "fan"}
      BY <1>1, <2>3, ProgramTypes DEF Begins
    <2>5. i = Position(history)
      BY <1>3, <2>3, <2>4, UntoldStops
    <2> HIDE DEF i
    <2>6. PICK es \in Log : /\ Recorded(history', history, es) /\ Len(es) > 0
                            /\ \A j \in 1..Len(es) :
                                  /\ es[j].step = i
                                  /\ es[j].type \in {"TASK_CREATED", "FAN_OUT_STARTED"}
      BY <2>1, <2>3, <2>4, CreatedIs DEF Recorded
    <2>7. /\ history' \in Log /\ Prefix(history, history')
          /\ Len(history') = Len(history) + Len(es)
          /\ \A j \in (Len(history) + 1)..Len(history') : \E n \in 1..Len(es) : history'[j] = es[n]
      BY <1>0, <2>6, Appended
    <2>8. Len(history') > Len(history)
      BY <1>0, <2>6, <2>7 DEF Log
    <2>9. /\ Grown /\ run'.status = "RUNNING"
          /\ run' \in [status : RunStatus, version : Nat, avail : Instants]
      BY <1>1, <2>1, <2>7, BumpGrows, PlainFacts DEF RunStatus
    <2>10. DispatchMove(i)
      <3>1. Bumped("RUNNING", Ready)
        BY <2>1, <2>2 DEF Bumped, AdvanceRun
      <3>2. \A j \in (Len(history) + 1)..Len(history') :
               history'[j].step = i /\ history'[j].type \in {"TASK_CREATED", "FAN_OUT_STARTED"}
        BY <2>6, <2>7
      <3> QED
        BY <1>3, <2>1, <2>3, <2>4, <2>5, <2>7, <2>8, <3>1, <3>2 DEF DispatchMove, i
    <2>11. task' \in [TaskIds -> TaskStatus]
      BY <1>0, <2>1 DEF TaskStatus
    <2>12. StoreMove
      BY <2>3, <2>10 DEF StoreMove
    <2> QED
      BY <1>0, <1>1, <1>2, <2>9, <2>11, <2>12, WritingStep
  <1>4. CASE ~(CanAdvance(c, "RUNNING") /\ \A k \in TasksOf(i) : task[k] = "ABSENT")
    <2>1. UNCHANGED <<run, task, history>>
      BY <1>4 DEF Dispatch
    <2> QED
      BY <1>1, <1>2, <2>1, LostRace
  <1> QED
    BY <1>3, <1>4

\* A sleep or a wait begins.
LEMMA SuspendingSteps ==
  ASSUME RunInv, NEW c \in Callers, Park(c)
  PROVE  StepOK
  <1> DEFINE d == caller[c].plan
             i == d.step
  <1>0. /\ history \in Log /\ Len(history) \in Nat
        /\ task \in [TaskIds -> TaskStatus] /\ stored \in Seq(Signals)
        /\ due \subseteq Steps /\ crashes \in 0..MaxCrashes /\ escalated \in BOOLEAN
        /\ d \in Facts(Carried)
    BY Basics DEF TypeOK, CallerRecord
  <1>1. /\ At(c, "commit") /\ d.type \in {"SLEEP", "WAIT_FOR_SIGNAL"}
        /\ run.status # "ABSENT" /\ UNCHANGED <<task, stored, due, crashes, escalated>>
    BY Basics DEF Park, Plans, At, World
  <1>2. AtRest
    BY WriterRests DEF Park
  <1>3. CASE CanAdvance(c, "RUNNING")
    <2> DEFINE t == IF d.type = "SLEEP" THEN "TIMER_SET" ELSE "SIGNAL_WAIT_STARTED"
               e == [d EXCEPT !.type = t]
    <2>1. AdvanceRun("RUNNING", d.until) /\ history' = history \o <<e>>
      BY <1>3 DEF Park, Record
    <2>2. caller[c].version = run.version /\ run.status = "RUNNING"
      BY <1>1, <1>3, MayCommit DEF At
    <2>3. /\ i \in Steps /\ d.type = Begins[Program[i].kind]
          /\ i = Position(Seen(c)) /\ RelyingOnSeen(c)
          /\ Stops(history, i) => i = Position(history)
      BY <1>1, <2>2, CommitsPosition
    <2>4. Program[i].kind \in {"sleep", "wait"}
      BY <1>1, <2>3, ProgramTypes DEF Begins
    <2>5. i = Position(history)
      BY <2>2, <2>3, <2>4, OpenWaitStops
    <2>6. e \in Facts(WaitStarts) /\ e.step = i /\ e.until = d.until /\ d.until \in Instants
      <3>1. t \in WaitStarts
        BY DEF WaitStarts
      <3> HIDE DEF t
      <3> QED
        BY <1>0, <3>1 DEF Facts
    <2>7. e \in Facts(EventTypes)
      BY <2>6 DEF Facts, EventTypes, Starts
    <2> HIDE DEF e
    <2>8. history' = Append(history, e) /\ history' \in Log /\ Prefix(history, history')
      BY <1>0, <2>1, <2>7, AppendedOne
    <2>9. /\ Grown /\ run'.status = "RUNNING"
          /\ run' \in [status : RunStatus, version : Nat, avail : Instants]
      BY <1>1, <2>1, <2>6, <2>8, BumpGrows DEF RunStatus
    <2>10. SuspendMove(e)
      <3>1. Bumped("RUNNING", e.until)
        BY <2>1, <2>2, <2>6 DEF Bumped, AdvanceRun
      <3> HIDE DEF d
      <3> QED
        BY <1>1, <2>3, <2>4, <2>5, <2>6, <2>8, <3>1 DEF SuspendMove
    <2>11. StoreMove
      BY <2>6, <2>10 DEF StoreMove
    <2> QED
      BY <1>0, <1>1, <1>2, <2>9, <2>11, WritingStep
  <1>4. CASE ~CanAdvance(c, "RUNNING")
    <2>1. UNCHANGED <<run, history>>
      BY <1>4 DEF Park
    <2> QED
      BY <1>1, <1>2, <2>1, LostRace
  <1> QED
    BY <1>3, <1>4

\* The run ends.
LEMMA FinishingSteps ==
  ASSUME RunInv, NEW c \in Callers, Finish(c)
  PROVE  StepOK
  <1> DEFINE d == caller[c].plan.type
  <1>0. /\ history \in Log /\ Len(history) \in Nat
        /\ task \in [TaskIds -> TaskStatus] /\ stored \in Seq(Signals)
        /\ due \subseteq Steps /\ crashes \in 0..MaxCrashes /\ escalated \in BOOLEAN
        /\ Follows(c)
    BY Basics DEF TypeOK
  <1>1. /\ At(c, "commit") /\ d \in {"COMPLETE", "FAIL", "CANCEL"}
        /\ run.status # "ABSENT" /\ UNCHANGED <<task, stored, due, crashes, escalated>>
    BY Basics DEF Finish, Plans, At, World
  <1>2. AtRest
    BY WriterRests DEF Finish
  <1>3. /\ FinalStatus(d) \in {"COMPLETED", "FAILED", "CANCELLED"} /\ FinalEvent(d) \in Finals
        /\ FinalStatus(d) # "FAILED" => d \in {"COMPLETE", "CANCEL"}
    BY <1>1 DEF FinalStatus, FinalEvent, Finals
  <1>4. CASE CanAdvance(c, FinalStatus(d))
    <2> DEFINE s == FinalStatus(d)
               t == FinalEvent(d)
               e == OfRun(t)
    <2>1. AdvanceRun(s, Ready) /\ history' = history \o <<e>>
      BY <1>4 DEF Finish, Record
    <2>2. caller[c].version = run.version /\ (run.status = "RUNNING" \/ run.status = s)
      BY <1>1, <1>4, MayCommit DEF At
    <2>3. s # "FAILED" => Position(history) = Len(Program) + 1
      <3> SUFFICES ASSUME s # "FAILED" PROVE Position(history) = Len(Program) + 1
        OBVIOUS
      <3>1. d \in {"COMPLETE", "CANCEL"}
        BY <1>3
      <3>2. \A i \in Steps : Program[i].kind \in {"call", "fan", "sleep", "wait"}
        BY ProgramTypes
      <3>3. Position(Seen(c)) = Len(Program) + 1
        BY <1>0, <1>1, <3>1, <3>2 DEF Follows, DecisionIsMeant, Begins
      <3>4. Stops(history, Position(Seen(c)))
        <4>1. Len(Program) \in Nat /\ Steps = 1..Len(Program)
          BY ProgramTypes
        <4> QED
          BY <3>3, <4>1 DEF Stops
      <3>5. RelyingOnSeen(c)
        BY <1>1, <3>1 DEF RelyingOnSeen, At
      <3> QED
        BY <2>2, <3>3, <3>4, <3>5, SeesThePosition
    <2>4. e \in Facts(EventTypes) /\ s \in RunStatus /\ s # "ABSENT" /\ IsTerminal(s)
      BY <1>3, PlainFacts DEF EventTypes, RunStatus, IsTerminal
    <2>5. t \in Finals
      BY <1>3
    <2> HIDE DEF s, t
    <2>6. history' = Append(history, e) /\ history' \in Log /\ Prefix(history, history')
      <3> HIDE DEF e
      <3> QED
        BY <1>0, <2>1, <2>4, AppendedOne
    <2>7. /\ Grown /\ run'.status = s
          /\ run' \in [status : RunStatus, version : Nat, avail : Instants]
      BY <1>1, <2>1, <2>4, <2>6, BumpGrows, PlainFacts
    <2>8. FinishMove(s, t)
      BY <1>1, <2>1, <2>2, <2>3, <2>4, <2>5, <2>6 DEF FinishMove, Bumped, AdvanceRun
    <2>9. StoreMove
      BY <2>4, <2>5, <2>8 DEF StoreMove
    <2> QED
      BY <1>0, <1>1, <1>2, <2>4, <2>7, <2>9, WritingStep
  <1>5. CASE ~CanAdvance(c, FinalStatus(d))
    <2>1. UNCHANGED <<run, history>>
      BY <1>5 DEF Finish
    <2> QED
      BY <1>1, <1>2, <2>1, LostRace
  <1> QED
    BY <1>4, <1>5

\* Every step of the engine and its environment.
LEMMA EveryStep ==
  ASSUME RunInv, [Next]_vars
  PROVE  StepOK
  <1>1. CASE Next
    <2>1. ASSUME NEW c \in Callers, Working(c) PROVE StepOK
      BY <2>1, ReadingSteps, PlanningSteps, ParkingSteps, WakingSteps, DispatchingSteps,
         SuspendingSteps, FinishingSteps DEF Working
    <2>2. ASSUME NEW c \in Callers, Asked(c) PROVE StepOK
      BY <2>2, ReadingSteps, PlanningSteps DEF Asked
    <2>3. ASSUME NEW c \in Callers, ScanOnce(c) \/ Crash(c) PROVE StepOK
      BY <2>3, ReadingSteps
    <2>4. ASSUME NEW c \in Callers, NEW s \in Signals, NEW path \in Paths, SendSignal(c, s, path)
          PROVE  StepOK
      BY <2>4, PlanningSteps
    <2>5. ASSUME \/ \E c \in Callers : StartRun(c)
                 \/ \E c \in Callers, k \in TaskIds : Reports(c, k)
                 \/ \E k \in TaskIds : Bury(k)
          PROVE  StepOK
      BY <2>5, ReportingSteps
    <2>6. ASSUME NEW i \in Steps, ClockPasses(i) PROVE StepOK
      BY <2>6, ClockSteps
    <2> QED
      BY <1>1, <2>1, <2>2, <2>3, <2>4, <2>5, <2>6 DEF Next
  <1>2. CASE UNCHANGED vars
    <2>1. /\ UNCHANGED <<run, history, task, stored, due, caller, crashes, escalated>>
          /\ TypeOK /\ Unstarted /\ history \in Log /\ Len(history) \in Nat /\ run.version \in Nat
      BY <1>2, Basics DEF vars
    <2>2. Grown
      BY <2>1 DEF Grown, Prefix
    <2>3. \A d \in Callers : Follows(d)'
      BY <2>1, <2>2, BystanderFollows
    <2>4. TypeOK' /\ Unstarted'
      BY <2>1 DEF TypeOK, Unstarted
    <2> QED
      BY <2>1, <2>2, <2>3, <2>4 DEF StepOK, StoreMove
  <1> QED
    BY <1>1, <1>2

----------------------------------------------------------------------------
(***************************************************************************)
(* The store keeps its part of the invariant.                              *)
(***************************************************************************)

\* The open wait is the step the body stands at.
LEMMA WaitIsCurrent ==
  ASSUME RunInv, NEW w \in PendingWait(history)
  PROVE  /\ w.step = Position(history) /\ w.step \in Steps
         /\ Program[w.step].kind \in {"sleep", "wait"}
  <1>0. history \in Log /\ Len(history) \in Nat /\ DOMAIN history = 1..Len(history)
        /\ TaskLog /\ NothingAhead
    BY Basics DEF StoreInv, Log
  <1>1. PICK a \in 1..Len(history) : Opens(history, a) /\ w = WaitAt(history, a)
    BY <1>0, PendingWaitIs
  <1> DEFINE s == history[a].step
  <1>2. w.step = s /\ s \in Steps /\ Program[s].kind \in {"sleep", "wait"}
    BY <1>0, <1>1 DEF WaitAt, Opens, TaskLog, WaitTypes
  <1>3. PICK b \in 0..Len(history) :
            /\ b # 0 => Touches(history[b], s)
            /\ \A k \in (b + 1)..Len(history) : ~Touches(history[k], s)
            /\ WaitRecord(history, s) = IF b = 0 THEN "none" ELSE history[b].type
    BY <1>0, WaitRecordIs
  <1>4. b = a
    <2>1. Touches(history[a], s) /\ \A k \in (a + 1)..Len(history) : ~Touches(history[k], s)
      BY <1>1 DEF Touches, Opens, WaitTypes
    <2> HIDE DEF s
    <2> QED
      BY <1>0, <1>3, <2>1
  <1>5. WaitRecord(history, s) \notin WaitEnds
    BY <1>1, <1>3, <1>4 DEF Opens, WaitStarts, WaitEnds
  <1>6. ~Answered(history, s)
    BY <1>2, <1>5 DEF Answered
  <1> HIDE DEF s
  <1>7. s <= Position(history)
    BY <1>0, <1>1 DEF NothingAhead, s
  <1>8. ~(s < Position(history))
    <2>1. Position(history) \in 1..(Len(Program) + 1)
          /\ \A j \in 1..(Position(history) - 1) : Answered(history, j)
      BY PositionIs
    <2>2. Len(Program) \in Nat /\ s \in 1..Len(Program)
      BY <1>2, ProgramTypes
    <2> QED
      BY <1>6, <2>1, <2>2
  <1>9. Position(history) \in Nat /\ s \in Nat
    BY <1>2, PositionIs, ProgramTypes
  <1> QED
    BY <1>2, <1>7, <1>8, <1>9

\* What can be new in the log, and which change of the store brings it.
NewEvent(e, j) ==
    /\ e.step = 0 \/ (e.step \in Steps /\ e.step <= Position(history))
    /\ e.step # 0 => Begun(e.step) \/ e.type \in Starts
    /\ e.type \in Outcomes => \E k \in TaskIds :
          /\ k = <<e.step, e.child>> /\ OutcomeMove(k)
          /\ e.type = "TASK_COMPLETED" => task'[k] = "COMPLETED"
          /\ e.type = "TASK_FAILED" => task'[k] = "DEAD_LETTER"
    /\ e.type \in {"TASK_CREATED", "FAN_OUT_STARTED"} => e.step \in Steps /\ DispatchMove(e.step)
    /\ e.type \in WaitEnds => WakeMove(e) /\ j = Len(history) + 1
    /\ e.type \in WaitStarts => SuspendMove(e) /\ j = Len(history) + 1

\* Which events a step of the store can add, and where the body then stands.
LEMMA NewEvents ==
  ASSUME RunInv, StoreMove, NEW j \in (Len(history) + 1)..Len(history')
  PROVE  NewEvent(history'[j], j)
  <1>0. /\ history \in Log /\ Len(history) \in Nat /\ DOMAIN history = 1..Len(history)
        /\ TaskLog /\ NothingAhead /\ BegunFirst /\ task \in [TaskIds -> TaskStatus]
    BY Basics DEF StoreInv, Log, TypeOK
  <1> DEFINE p == Position(history)
  <1>p. p \in 1..(Len(Program) + 1) /\ p \in Nat /\ Len(Program) \in Nat
    BY PositionIs, ProgramTypes
  <1> HIDE DEF p
  <1>t. /\ Outcomes \cap ({"RUN_STARTED"} \cup Starts \cup WaitEnds \cup Finals) = {}
        /\ Starts \cap WaitEnds = {} /\ Starts \cap Finals = {} /\ WaitEnds \cap Finals = {}
        /\ WaitStarts \subseteq Starts /\ {"TASK_CREATED", "FAN_OUT_STARTED"} \subseteq Starts
        /\ {"TASK_CREATED", "FAN_OUT_STARTED"} \cap WaitStarts = {}
        /\ "RUN_STARTED" \notin Starts \cup WaitEnds
    BY DEF Outcomes, Starts, WaitStarts, WaitEnds, Finals
  <1>1. CASE UNCHANGED <<run, history, task>> \/ ParkChanged
    BY <1>0, <1>1 DEF ParkChanged
  <1>2. ASSUME NEW t \in {"RUN_STARTED"} \cup Finals, history' = Append(history, OfRun(t))
        PROVE  NewEvent(history'[j], j)
    <2>1. OfRun(t) \in Facts(EventTypes) /\ OfRun(t).type = t /\ OfRun(t).step = 0
      BY PlainFacts DEF EventTypes
    <2>2. history'[j] = OfRun(t)
      BY <1>0, <1>2, <2>1, AppendedOne
    <2>3. /\ t \notin Outcomes /\ t \notin Starts /\ t \notin WaitEnds /\ t \notin WaitStarts
          /\ t \notin {"TASK_CREATED", "FAN_OUT_STARTED"}
      BY <1>t
    <2> QED
      BY <2>1, <2>2, <2>3 DEF NewEvent
  <1>3. ASSUME NEW k \in TaskIds, OutcomeMove(k) PROVE NewEvent(history'[j], j)
    <2> DEFINE c == OfTask("TASK_COMPLETED", k)
               f == OfTask("TASK_FAILED", k)
               d == OfTask("TASK_DEAD_LETTERED", k)
    <2>1. /\ c \in Facts(EventTypes) /\ c.type = "TASK_COMPLETED" /\ c.step = k[1] /\ c.child = k[2]
          /\ f \in Facts(EventTypes) /\ f.type = "TASK_FAILED" /\ f.step = k[1] /\ f.child = k[2]
          /\ d \in Facts(EventTypes) /\ d.type = "TASK_DEAD_LETTERED" /\ d.step = k[1]
          /\ d.child = k[2] /\ k = <<k[1], k[2]>> /\ k[1] \in Steps
      <3>1. {"TASK_COMPLETED", "TASK_FAILED", "TASK_DEAD_LETTERED"} \subseteq EventTypes
        BY DEF EventTypes
      <3>2. ASSUME NEW t \in EventTypes
            PROVE  /\ OfTask(t, k) \in Facts(EventTypes) /\ OfTask(t, k).type = t
                   /\ OfTask(t, k).step = k[1] /\ OfTask(t, k).child = k[2]
                   /\ k = <<k[1], k[2]>> /\ k[1] \in Steps
        BY PlainFacts
      <3> QED
        BY <3>1, <3>2
    <2>2. \/ history' = history \o <<c>> /\ task'[k] = "COMPLETED"
          \/ history' = history \o <<f, d>> /\ task'[k] = "DEAD_LETTER"
          \/ history' = history \o <<d>> /\ task'[k] = "DEAD_LETTER"
      BY <1>0, <1>3 DEF OutcomeMove
    <2> HIDE DEF c, f, d
    <2>3. \/ history'[j] = c /\ task'[k] = "COMPLETED"
          \/ history'[j] \in {f, d} /\ task'[k] = "DEAD_LETTER"
      <3>1. CASE history' = history \o <<c>> /\ task'[k] = "COMPLETED"
        BY <1>0, <2>1, <3>1, AppendedOne
      <3>2. CASE history' = history \o <<f, d>> /\ task'[k] = "DEAD_LETTER"
        <4>1. <<f, d>> \in Log /\ \A n \in 1..Len(<<f, d>>) : <<f, d>>[n] \in {f, d}
          BY <2>1 DEF Log
        <4>2. PICK es \in Log : /\ Recorded(history', history, es)
                                /\ \A n \in 1..Len(es) : es[n] \in {f, d}
          BY <3>2, <4>1 DEF Recorded
        <4>3. \E n \in 1..Len(es) : history'[j] = es[n]
          BY <1>0, <4>2, Appended
        <4> QED
          BY <3>2, <4>2, <4>3
      <3>3. CASE history' = history \o <<d>> /\ task'[k] = "DEAD_LETTER"
        BY <1>0, <2>1, <3>3, AppendedOne
      <3> QED
        BY <2>2, <3>1, <3>2, <3>3
    <2>4. task[k] # "ABSENT"
      BY <1>3 DEF OutcomeMove
    <2>5. k[1] <= Position(history) /\ Begun(k[1])
      BY <1>0, <2>4 DEF NothingAhead, BegunFirst
    <2>6. /\ history'[j].type \in Outcomes /\ history'[j].step = k[1] /\ history'[j].child = k[2]
          /\ history'[j].type = "TASK_COMPLETED" => task'[k] = "COMPLETED"
          /\ history'[j].type = "TASK_FAILED" => task'[k] = "DEAD_LETTER"
      BY <2>1, <2>3 DEF Outcomes
    <2>7. /\ history'[j].type \notin Starts /\ history'[j].type \notin WaitEnds
          /\ history'[j].type \notin WaitStarts
          /\ history'[j].type \notin {"TASK_CREATED", "FAN_OUT_STARTED"}
      BY <1>t, <2>6
    <2> QED
      BY <1>3, <2>1, <2>5, <2>6, <2>7 DEF NewEvent
  <1>4. ASSUME NEW e \in Facts(WaitEnds), WakeMove(e) PROVE NewEvent(history'[j], j)
    <2>1. e \in Facts(EventTypes) /\ e.type \in WaitEnds
      BY DEF Facts, EventTypes
    <2>2. history'[j] = e /\ j = Len(history) + 1
      BY <1>0, <1>4, <2>1, AppendedOne DEF WakeMove
    <2>3. PICK w \in PendingWait(history) : w.step = e.step
      BY <1>4 DEF WakeMove, Answers
    <2>4. e.step = Position(history) /\ e.step \in Steps
      BY <2>3, WaitIsCurrent
    <2>5. Begun(e.step)
      <3>1. PICK a \in 1..Len(history) : Opens(history, a) /\ w = WaitAt(history, a)
        BY <1>0, PendingWaitIs
      <3>2. history[a].type \in Starts /\ history[a].step = e.step
        BY <1>t, <2>3, <3>1 DEF Opens, WaitAt
      <3> QED
        BY <1>0, <3>2 DEF Begun
    <2>6. /\ e.type \notin Outcomes /\ e.type \notin WaitStarts
          /\ e.type \notin {"TASK_CREATED", "FAN_OUT_STARTED"}
      BY <1>t, <2>1
    <2>7. e.step <= Position(history)
      BY <1>p, <2>4 DEF p
    <2> QED
      BY <1>4, <2>2, <2>4, <2>5, <2>6, <2>7 DEF NewEvent
  <1>5. ASSUME NEW i \in Steps, DispatchMove(i) PROVE NewEvent(history'[j], j)
    <2>1. /\ history'[j].step = i /\ history'[j].type \in {"TASK_CREATED", "FAN_OUT_STARTED"}
          /\ i = Position(history)
      BY <1>5 DEF DispatchMove
    <2>2. /\ history'[j].type \in Starts /\ history'[j].type \notin Outcomes
          /\ history'[j].type \notin WaitEnds /\ history'[j].type \notin WaitStarts
      BY <1>t, <2>1
    <2>3. i <= Position(history)
      BY <1>p, <2>1 DEF p
    <2> QED
      BY <1>5, <2>1, <2>2, <2>3 DEF NewEvent
  <1>6. ASSUME NEW e \in Facts(WaitStarts), SuspendMove(e) PROVE NewEvent(history'[j], j)
    <2>1. e \in Facts(EventTypes) /\ e.type \in WaitStarts
      BY DEF Facts, EventTypes, Starts
    <2>2. history'[j] = e /\ j = Len(history) + 1 /\ e.step = Position(history) /\ e.step \in Steps
      BY <1>0, <1>6, <2>1, AppendedOne DEF SuspendMove
    <2>3. /\ e.type \in Starts /\ e.type \notin Outcomes /\ e.type \notin WaitEnds
          /\ e.type \notin {"TASK_CREATED", "FAN_OUT_STARTED"}
      BY <1>t, <2>1
    <2>4. e.step <= Position(history)
      BY <1>p, <2>2 DEF p
    <2> QED
      BY <1>6, <2>2, <2>3, <2>4 DEF NewEvent
  <1>7. CASE StartMove
    BY <1>2, <1>7 DEF StartMove
  <1>8. ASSUME NEW s \in RunStatus, NEW e \in Finals, FinishMove(s, e) PROVE NewEvent(history'[j], j)
    BY <1>2, <1>8 DEF FinishMove
  <1> QED
    BY <1>1, <1>3, <1>4, <1>5, <1>6, <1>7, <1>8 DEF StoreMove

\* What can happen to a task's row.
LEMMA TaskRows ==
  ASSUME RunInv, StoreMove, NEW k \in TaskIds
  PROVE  /\ task[k] # "ABSENT" => task'[k] # "ABSENT"
         /\ task[k] \in {"COMPLETED", "DEAD_LETTER"} => task'[k] = task[k]
         /\ task[k] = "ABSENT" /\ task'[k] # "ABSENT" => DispatchMove(k[1])
  <1>0. task \in [TaskIds -> TaskStatus]
    BY Basics DEF TypeOK
  <1>1. CASE task' = task
    BY <1>1
  <1>2. ASSUME NEW x \in TaskIds, OutcomeMove(x)
        PROVE  /\ task[k] # "ABSENT" => task'[k] # "ABSENT"
               /\ task[k] \in {"COMPLETED", "DEAD_LETTER"} => task'[k] = task[k]
               /\ task[k] = "ABSENT" => task'[k] = "ABSENT"
    BY <1>0, <1>2 DEF OutcomeMove
  <1>3. ASSUME NEW i \in Steps, DispatchMove(i)
        PROVE  /\ task[k] # "ABSENT" => task'[k] = task[k]
               /\ task[k] = "ABSENT" /\ task'[k] # "ABSENT" => DispatchMove(k[1])
    <2>1. k \in TasksOf(i) => k[1] = i
      BY TaskIdsAre
    <2>2. task'[k] = IF k \in TasksOf(i) THEN "LIVE" ELSE task[k]
      BY <1>3 DEF DispatchMove
    <2>3. k \in TasksOf(i) => task[k] = "ABSENT"
      BY <1>3 DEF DispatchMove
    <2> QED
      BY <1>3, <2>1, <2>2, <2>3
  <1>4. \/ task' = task
        \/ \E x \in TaskIds : OutcomeMove(x)
        \/ \E i \in Steps : DispatchMove(i)
    BY DEF StoreMove, StartMove, ParkChanged, WakeMove, SuspendMove, FinishMove
  <1> QED
    BY <1>1, <1>2, <1>3, <1>4

\* The log still tells of a task only what its row says.
LEMMA TaskLogKept ==
  ASSUME RunInv, StepOK
  PROVE  TaskLog'
  <1>0. /\ history \in Log /\ Len(history) \in Nat /\ DOMAIN history = 1..Len(history)
        /\ history' \in Log /\ Len(history') \in Nat /\ DOMAIN history' = 1..Len(history')
        /\ Prefix(history, history') /\ StoreMove /\ TaskLog
    BY Basics DEF StoreInv, Log, StepOK, Grown
  <1>1. \A j \in DOMAIN history : j \in DOMAIN history' /\ history'[j] = history[j]
    BY <1>0 DEF Prefix
  <1>2. ASSUME NEW j \in DOMAIN history', j \notin DOMAIN history PROVE NewEvent(history'[j], j)
    <2>1. j \in (Len(history) + 1)..Len(history')
      BY <1>0, <1>2
    <2> QED
      BY <1>0, <2>1, NewEvents
  <1>3. ASSUME NEW k \in TaskIds
        PROVE  /\ task[k] # "ABSENT" => task'[k] # "ABSENT"
               /\ task[k] \in {"COMPLETED", "DEAD_LETTER"} => task'[k] = task[k]
    BY <1>0, TaskRows
  <1>4. ASSUME NEW j \in DOMAIN history', history'[j].type \in Outcomes
        PROVE  <<history'[j].step, history'[j].child>> \in TaskIds
    <2>1. CASE j \in DOMAIN history
      BY <1>0, <1>1, <1>4, <2>1 DEF TaskLog
    <2>2. CASE j \notin DOMAIN history
      BY <1>2, <1>4, <2>2 DEF NewEvent
    <2> QED
      BY <2>1, <2>2
  <1>5. ASSUME NEW k \in TaskIds, Has(history', "TASK_COMPLETED", k) PROVE task'[k] = "COMPLETED"
    <2>1. PICK j \in DOMAIN history' : /\ history'[j].type = "TASK_COMPLETED"
                                       /\ <<history'[j].step, history'[j].child>> = k
      BY <1>5 DEF Has
    <2>2. CASE j \in DOMAIN history
      <3>1. Has(history, "TASK_COMPLETED", k)
        BY <1>1, <2>1, <2>2 DEF Has
      <3> QED
        BY <1>0, <1>3, <3>1 DEF TaskLog
    <2>3. CASE j \notin DOMAIN history
      BY <1>2, <2>1, <2>3 DEF NewEvent, Outcomes
    <2> QED
      BY <2>2, <2>3
  <1>6. ASSUME NEW k \in TaskIds, Has(history', "TASK_FAILED", k) PROVE task'[k] = "DEAD_LETTER"
    <2>1. PICK j \in DOMAIN history' : /\ history'[j].type = "TASK_FAILED"
                                       /\ <<history'[j].step, history'[j].child>> = k
      BY <1>6 DEF Has
    <2>2. CASE j \in DOMAIN history
      <3>1. Has(history, "TASK_FAILED", k)
        BY <1>1, <2>1, <2>2 DEF Has
      <3> QED
        BY <1>0, <1>3, <3>1 DEF TaskLog
    <2>3. CASE j \notin DOMAIN history
      BY <1>2, <2>1, <2>3 DEF NewEvent, Outcomes
    <2> QED
      BY <2>2, <2>3
  <1>7. ASSUME NEW j \in DOMAIN history',
               history'[j].type \in {"TASK_CREATED", "FAN_OUT_STARTED"}
        PROVE  /\ history'[j].step \in Steps
               /\ \E k \in TasksOf(history'[j].step) : task'[k] # "ABSENT"
    <2>1. CASE j \in DOMAIN history
      <3>1. /\ history[j].step \in Steps
            /\ \E k \in TasksOf(history[j].step) : task[k] # "ABSENT"
        BY <1>0, <1>1, <1>7, <2>1 DEF TaskLog
      <3> QED
        BY <1>1, <1>3, <2>1, <3>1, TaskIdsAre
    <2>2. CASE j \notin DOMAIN history
      <3> DEFINE i == history'[j].step
      <3>1. i \in Steps /\ DispatchMove(i)
        BY <1>2, <1>7, <2>2 DEF NewEvent
      <3> HIDE DEF i
      <3>2. Program[i].kind \in {"call", "fan"} /\ \A k \in TaskIds : k \in TasksOf(i) => task'[k] = "LIVE"
        BY <3>1 DEF DispatchMove
      <3>3. \E k \in TasksOf(i) : k \in TaskIds
        <4>1. CASE Program[i].kind = "call"
          BY <3>1, <4>1, TaskIdsAre
        <4>2. CASE Program[i].kind = "fan"
          <5>1. 1 \in 1..Program[i].calls
            BY <3>1, <4>2, ProgramTypes
          <5> QED
            <6>1. TasksOf(i) = {<<i, n>> : n \in 1..Program[i].calls} /\ TasksOf(i) \subseteq TaskIds
              BY <3>1, <4>2, TaskIdsAre
            <6>2. <<i, 1>> \in TasksOf(i)
              BY <5>1, <6>1
            <6> QED
              BY <6>1, <6>2
        <4> QED
          BY <3>2, <4>1, <4>2
      <3> QED
        BY <3>1, <3>2, <3>3 DEF i
    <2> QED
      BY <2>1, <2>2
  <1>8. ASSUME NEW j \in DOMAIN history', history'[j].type \in WaitTypes
        PROVE  /\ history'[j].step \in Steps
               /\ Program[history'[j].step].kind \in {"sleep", "wait"}
    <2>1. CASE j \in DOMAIN history
      BY <1>0, <1>1, <1>8, <2>1 DEF TaskLog
    <2>2. CASE j \notin DOMAIN history /\ history'[j].type \in WaitEnds
      <3>1. WakeMove(history'[j])
        BY <1>2, <2>2 DEF NewEvent
      <3>2. PICK w \in PendingWait(history) : w.step = history'[j].step
        BY <3>1 DEF WakeMove, Answers
      <3> QED
        BY <3>2, WaitIsCurrent
    <2>3. CASE j \notin DOMAIN history /\ history'[j].type \in WaitStarts
      BY <1>2, <2>3 DEF NewEvent, SuspendMove
    <2> QED
      BY <1>8, <2>1, <2>2, <2>3 DEF WaitTypes
  <1> QED
    BY <1>4, <1>5, <1>6, <1>7, <1>8 DEF TaskLog

\* A step of the engine moves the body by at most one step.
LEMMA PositionSteps ==
  ASSUME RunInv, StepOK
  PROVE  /\ Position(history') = Position(history) \/ Position(history') = Position(history) + 1
         /\ Position(history') = Position(history) + 1 =>
               Position(history) \in Steps /\ Answered(history', Position(history))
         /\ \A j \in DOMAIN history' : history'[j].step <= Position(history)
         /\ Position(history) \in Nat
  <1>0. /\ history \in Log /\ Len(history) \in Nat /\ DOMAIN history = 1..Len(history)
        /\ history' \in Log /\ Len(history') \in Nat /\ DOMAIN history' = 1..Len(history')
        /\ Prefix(history, history') /\ StoreMove /\ NothingAhead
    BY Basics DEF StoreInv, Log, StepOK, Grown
  <1>1. WellTold(history')
    <2>1. TaskLog'
      BY TaskLogKept
    <2>2. (history \in Log /\ TaskLog => WellTold(history))'
      BY LogIsWellTold, PTL
    <2> QED
      BY <1>0, <2>1, <2>2 DEF WellTold, Log
  <1>p. Position(history) \in Nat
    BY PositionIs, ProgramTypes
  <1>2. ASSUME NEW j \in DOMAIN history' PROVE history'[j].step <= Position(history)
    <2>1. CASE j \in 1..Len(history)
      BY <1>0, <2>1 DEF Prefix, NothingAhead
    <2>2. CASE j \notin 1..Len(history)
      <3>1. NewEvent(history'[j], j)
        BY <1>0, <2>2, NewEvents
      <3> QED
        BY <1>p, <3>1 DEF NewEvent
    <2> QED
      BY <2>1, <2>2
  <1>3. ASSUME NEW j \in (Len(history) + 1)..Len(history'), history'[j].type \in WaitTypes
        PROVE  history'[j].step = Position(history)
    <2>1. NewEvent(history'[j], j)
      BY <1>0, NewEvents
    <2>2. CASE history'[j].type \in WaitEnds
      <3>1. PICK w \in PendingWait(history) : w.step = history'[j].step
        BY <2>1, <2>2 DEF NewEvent, WakeMove, Answers
      <3> QED
        BY <3>1, WaitIsCurrent
    <2>3. CASE history'[j].type \in WaitStarts
      BY <2>1, <2>3 DEF NewEvent, SuspendMove
    <2> QED
      BY <1>3, <2>2, <2>3 DEF WaitTypes
  <1>4. /\ Position(history') = Position(history) \/ Position(history') = Position(history) + 1
        /\ Position(history') = Position(history) + 1 =>
              Position(history) \in Steps /\ Answered(history', Position(history))
    BY <1>0, <1>1, <1>2, <1>3, PositionMoves
  <1> QED
    BY <1>2, <1>4, <1>p

\* Beginning something answers nothing: the body stands where it stood.
LEMMA SamePosition ==
  ASSUME NEW g \in Log, NEW h \in Log, Prefix(g, h),
         \A j \in (Len(g) + 1)..Len(h) : h[j].type \notin Outcomes \cup WaitTypes
  PROVE  Position(h) = Position(g)
  <1>1. \A i \in Steps : (Answered(h, i) <=> Answered(g, i)) /\ (Raises(h, i) <=> Raises(g, i))
    BY SameAnswer
  <1> DEFINE p == Position(g)
  <1>2. /\ p \in 1..(Len(Program) + 1) /\ Stops(g, p)
        /\ \A j \in 1..(p - 1) : Answered(g, j) /\ ~Raises(g, j)
    BY PositionIs
  <1> HIDE DEF p
  <1>3. Len(Program) \in Nat /\ Steps = 1..Len(Program)
    BY ProgramTypes
  <1>4. Stops(h, p) /\ \A j \in 1..(p - 1) : Answered(h, j) /\ ~Raises(h, j)
    BY <1>1, <1>2, <1>3 DEF Stops
  <1> QED
    BY <1>2, <1>4, PositionOnly DEF p

\* Every step keeps what the invariant says of the store.
LEMMA StoreKept ==
  ASSUME RunInv, StepOK
  PROVE  StoreInv'
  <1>0. /\ history \in Log /\ Len(history) \in Nat /\ DOMAIN history = 1..Len(history)
        /\ history' \in Log /\ Len(history') \in Nat /\ DOMAIN history' = 1..Len(history')
        /\ Prefix(history, history') /\ Len(history) <= Len(history')
        /\ StoreMove /\ StoreInv /\ Grown /\ Unstarted
    BY Basics DEF StoreInv, Log, StepOK, Grown, Prefix
  <1>1. \A j \in DOMAIN history : j \in DOMAIN history' /\ history'[j] = history[j]
    BY <1>0 DEF Prefix
  <1>2. ASSUME NEW j \in DOMAIN history', j \notin DOMAIN history
        PROVE  j \in (Len(history) + 1)..Len(history') /\ NewEvent(history'[j], j)
    <2>1. j \in (Len(history) + 1)..Len(history')
      BY <1>0, <1>2
    <2> QED
      BY <1>0, <2>1, NewEvents
  <1>3. /\ Position(history') = Position(history) \/ Position(history') = Position(history) + 1
        /\ \A j \in DOMAIN history' : history'[j].step <= Position(history)
        /\ Position(history) \in Nat
    BY PositionSteps
  <1>b. \A i : Begun(i) => Begun(i)'
    BY <1>1 DEF Begun
  \* What was recorded before an event is still what was recorded before it.
  <1>s. ASSUME NEW j \in DOMAIN history'
        PROVE  /\ j \in DOMAIN history => Before(j)' = Before(j)
               /\ j \in (Len(history) + 1)..Len(history') =>
                     /\ Before(j)' \in Log /\ Len(Before(j)') = j - 1 /\ Prefix(history, Before(j)')
                     /\ \A n \in 1..(j - 1) : Before(j)'[n] = history'[n]
    <2>1. \A s \in Log : \A n \in 0..Len(s) :
             /\ SubSeq(s, 1, n) \in Log /\ Len(SubSeq(s, 1, n)) = n
             /\ \A m \in 1..n : SubSeq(s, 1, n)[m] = s[m]
      BY DEF Log
    <2>2. j - 1 \in 0..Len(history')
      BY <1>0
    <2>3. \A n \in 0..Len(history) : SubSeq(history', 1, n) = SubSeq(history, 1, n)
      BY <1>0 DEF Prefix, Log
    <2>4. j \in DOMAIN history => Before(j)' = Before(j)
      BY <1>0, <2>3 DEF Before
    <2>5. /\ Before(j)' \in Log /\ Len(Before(j)') = j - 1
          /\ \A n \in 1..(j - 1) : Before(j)'[n] = history'[n]
      BY <1>0, <2>1, <2>2 DEF Before
    <2>6. j \in (Len(history) + 1)..Len(history') => Prefix(history, Before(j)')
      BY <1>0, <2>5 DEF Prefix
    <2> QED
      BY <2>4, <2>5, <2>6
  <1>4. NothingAhead'
    <2>1. ASSUME NEW k \in TaskIds, task'[k] # "ABSENT" PROVE k[1] <= Position(history')
      <3>1. CASE task[k] # "ABSENT"
        <4>1. k[1] <= Position(history) /\ k[1] \in Nat
          BY <1>0, <3>1, PlainFacts, ProgramTypes DEF StoreInv, NothingAhead
        <4> QED
          BY <1>3, <4>1
      <3>2. CASE task[k] = "ABSENT"
        <4>1. DispatchMove(k[1])
          BY <1>0, <2>1, <3>2, TaskRows
        <4>2. k[1] = Position(history)
          BY <4>1 DEF DispatchMove
        <4> QED
          BY <1>3, <4>2
      <3> QED
        BY <3>1, <3>2
    <2>2. ASSUME NEW j \in DOMAIN history' PROVE history'[j].step <= Position(history')
      <3>1. history'[j].step \in Nat
        <4>1. history'[j] \in Facts(EventTypes)
          BY <1>0 DEF Log
        <4> QED
          BY <4>1, ProgramTypes DEF Facts
      <3>2. history'[j].step <= Position(history)
        BY <1>3
      <3> QED
        BY <1>3, <3>1, <3>2
    <2> QED
      BY <2>1, <2>2 DEF NothingAhead
  <1>5. BegunFirst'
    <2>1. ASSUME NEW k \in TaskIds, task'[k] # "ABSENT" PROVE Begun(k[1])'
      <3>1. CASE task[k] # "ABSENT"
        BY <1>0, <1>b, <3>1 DEF StoreInv, BegunFirst
      <3>2. CASE task[k] = "ABSENT"
        <4>1. DispatchMove(k[1])
          BY <1>0, <2>1, <3>2, TaskRows
        <4>2. Len(history) + 1 \in (Len(history) + 1)..Len(history')
          BY <1>0, <4>1 DEF DispatchMove
        <4>3. PICK j \in DOMAIN history' : j = Len(history) + 1
          BY <1>0, <4>2
        <4>4. history'[j].step = k[1] /\ history'[j].type \in {"TASK_CREATED", "FAN_OUT_STARTED"}
          BY <4>1, <4>2, <4>3 DEF DispatchMove
        <4> QED
          BY <4>3, <4>4 DEF Begun, Starts
      <3> QED
        BY <3>1, <3>2
    <2>2. ASSUME NEW j \in DOMAIN history', history'[j].step # 0 PROVE Begun(history[j].step)'
      <3>1. CASE j \in DOMAIN history
        <4>1. history[j].step # 0 /\ history'[j].step = history[j].step
          BY <1>1, <2>2, <3>1
        <4>2. Begun(history[j].step)
          BY <1>0, <3>1, <4>1 DEF StoreInv, BegunFirst
        <4> QED
          BY <1>1, <3>1, <4>1, <4>2 DEF Begun
      <3>2. CASE j \notin DOMAIN history
        <4>1. Begun(history'[j].step) \/ history'[j].type \in Starts
          BY <1>2, <2>2, <3>2 DEF NewEvent
        <4> QED
          BY <1>1, <4>1 DEF Begun
      <3> QED
        BY <3>1, <3>2
    <2> QED
      BY <2>1, <2>2 DEF BegunFirst
  <1>6. ParkMatchesHistory'
    <2> SUFFICES ASSUME run'.avail # Ready
                 PROVE  \E w \in PendingWait(history') : w.until = run'.avail
      BY DEF ParkMatchesHistory
    <2>1. CASE UNCHANGED <<run, history, task>>
      BY <1>0, <2>1 DEF StoreInv, ParkMatchesHistory
    <2>2. CASE StartMove
      <3>1. run.avail = Ready /\ run'.avail = run.avail
        BY <1>0, <2>2 DEF StartMove, Unstarted
      <3> QED
        BY <3>1
    <2>3. CASE ParkChanged
      BY <2>3 DEF ParkChanged
    <2>4. ASSUME NEW k \in TaskIds, OutcomeMove(k)
          PROVE  \E w \in PendingWait(history') : w.until = run'.avail
      <3>1. run' = run
        BY <2>4 DEF OutcomeMove
      <3>2. run.status # "ABSENT"
        BY <1>0, <2>4 DEF OutcomeMove, Unstarted
      <3>3. \A t \in Outcomes : t \notin WaitTypes
        BY DEF Outcomes, WaitTypes, WaitStarts, WaitEnds
      <3>4. GoesOnWithout(history, history', WaitTypes)
        BY <1>0, <3>1, <3>2, <3>3 DEF GoesOnWithout, Grown
      <3>5. PendingWait(history') = PendingWait(history)
        BY <1>0, <3>4, SameWait
      <3> QED
        BY <1>0, <3>1, <3>5 DEF StoreInv, ParkMatchesHistory
    <2>5. ASSUME NEW e \in Facts(WaitStarts), SuspendMove(e)
          PROVE  \E w \in PendingWait(history') : w.until = run'.avail
      <3>1. e \in Facts(EventTypes) /\ e.type \in WaitStarts
        BY DEF Facts, EventTypes, Starts
      <3>2. history'[Len(history')] = e /\ Len(history') = Len(history) + 1
        BY <1>0, <2>5, <3>1, AppendedOne DEF SuspendMove
      <3>3. WaitAt(history', Len(history')) \in PendingWait(history')
        BY <1>0, <3>1, <3>2, SuspensionOpens
      <3>4. WaitAt(history', Len(history')).until = e.until /\ run'.avail = e.until
        BY <2>5, <3>2 DEF WaitAt, SuspendMove, Bumped
      <3> QED
        BY <3>3, <3>4
    <2>6. ASSUME \/ \E e \in Facts(WaitEnds) : WakeMove(e)
                 \/ \E i \in Steps : DispatchMove(i)
                 \/ \E s \in RunStatus, e \in Finals : FinishMove(s, e)
          PROVE  FALSE
      BY <2>6 DEF WakeMove, DispatchMove, FinishMove, Bumped
    <2> QED
      BY <1>0, <2>1, <2>2, <2>3, <2>4, <2>5, <2>6 DEF StoreMove
  <1>7. WakesAreOwed'
    <2> SUFFICES ASSUME NEW j \in DOMAIN history', history'[j].type \in WaitEnds
                 PROVE  \E w \in PendingWait(Before(j)') : Answers(history[j], w)'
      BY DEF WakesAreOwed, Answers
    <2>1. CASE j \in DOMAIN history
      <3>1. PICK w \in PendingWait(Before(j)) : Answers(history[j], w)
        BY <1>0, <1>1, <2>1 DEF StoreInv, WakesAreOwed, Answers
      <3>2. Answers(history[j], w)'
        BY <1>0, <1>1, <2>1, <3>1 DEF Answers, Grown
      <3> QED
        BY <1>s, <2>1, <3>1, <3>2
    <2>2. CASE j \notin DOMAIN history
      <3>1. WakeMove(history'[j]) /\ j = Len(history) + 1
        BY <1>2, <2>2 DEF NewEvent
      <3>2. PICK w \in PendingWait(history) : Answers(history'[j], w)
        BY <3>1 DEF WakeMove
      <3>3. Answers(history[j], w)'
        BY <1>0, <3>2 DEF Answers, Grown
      <3>4. Before(j)' = history
        <4>1. \A n \in 0..Len(history) : SubSeq(history', 1, n) = SubSeq(history, 1, n)
          BY <1>0 DEF Prefix, Log
        <4>2. SubSeq(history, 1, Len(history)) = history
          BY <1>0 DEF Log
        <4>3. j - 1 = Len(history)
          BY <1>0, <3>1
        <4> QED
          BY <1>0, <4>1, <4>2, <4>3 DEF Before
      <3> QED
        BY <3>2, <3>3, <3>4
    <2> QED
      BY <2>1, <2>2
  <1>8. OneTimeline'
    <2> SUFFICES ASSUME NEW j \in DOMAIN history', history'[j].type \in Starts
                 PROVE  history'[j].step = Position(Before(j)')
      BY DEF OneTimeline
    <2>1. CASE j \in DOMAIN history
      BY <1>0, <1>1, <1>s, <2>1 DEF StoreInv, OneTimeline
    <2>2. CASE j \notin DOMAIN history
      <3>1. j \in (Len(history) + 1)..Len(history') /\ NewEvent(history'[j], j)
        BY <1>2, <2>2
      <3>2. /\ Before(j)' \in Log /\ Len(Before(j)') = j - 1 /\ Prefix(history, Before(j)')
            /\ \A n \in 1..(j - 1) : Before(j)'[n] = history'[n]
        BY <1>s, <3>1
      <3>3. /\ history'[j].step = Position(history)
            /\ \A n \in (Len(history) + 1)..(j - 1) :
                  history'[n].type \in {"TASK_CREATED", "FAN_OUT_STARTED"}
        <4>1. CASE history'[j].type \in {"TASK_CREATED", "FAN_OUT_STARTED"}
          BY <1>0, <3>1, <4>1 DEF NewEvent, DispatchMove
        <4>2. CASE history'[j].type \in WaitStarts
          <5>1. j = Len(history) + 1 /\ SuspendMove(history'[j])
            BY <3>1, <4>2 DEF NewEvent
          <5> QED
            BY <1>0, <5>1 DEF SuspendMove
        <4> QED
          BY <4>1, <4>2 DEF Starts
      <3>4. \A n \in (Len(history) + 1)..Len(Before(j)') :
               Before(j)'[n].type \notin Outcomes \cup WaitTypes
        <4>1. \A t \in {"TASK_CREATED", "FAN_OUT_STARTED"} : t \notin Outcomes \cup WaitTypes
          BY DEF Outcomes, WaitTypes, WaitStarts, WaitEnds
        <4> QED
          BY <1>0, <3>1, <3>2, <3>3, <4>1
      <3>5. Position(Before(j)') = Position(history)
        BY <1>0, <3>2, <3>4, SamePosition
      <3> QED
        BY <3>3, <3>5
    <2> QED
      BY <2>1, <2>2
  <1>9. TaskLog'
    BY TaskLogKept
  <1> QED
    BY <1>4, <1>5, <1>6, <1>7, <1>8, <1>9 DEF StoreInv

----------------------------------------------------------------------------
(***************************************************************************)
(* The order in which signals are taken. The taker chose from the log and  *)
(* the table it read; while its version is the row's, the log has gained   *)
(* outcomes only, and whatever the table has gained arrived after the      *)
(* signal it chose.                                                        *)
(***************************************************************************)

\* The choice a caller carries was the first in line when it was made.
ChoiceIsFirst(c) ==
    At(c, "release") /\ caller[c].plan.type = "SIGNAL_RECEIVED" =>
        NextInLine(caller[c].plan.sig, Seen(c))

OrderInv == TakenInOrder /\ \A c \in Callers : ChoiceIsFirst(c)

\* NextInLine of any set of taken signals and any table.
InLine(s, taken, table) ==
    /\ s \notin taken
    /\ \A i \in DOMAIN table :
          \/ table[i] = s \/ SignalName[table[i]] # SignalName[s] \/ table[i] \in taken
          \/ Rank[s] < Rank[table[i]]
          \/ \E a, b \in DOMAIN table : a < b /\ table[a] = s /\ table[b] = table[i]

\* Whatever is stored after a signal leaves its place alone.
LEMMA InLineStays ==
  ASSUME NEW table \in Seq(Signals), NEW longer \in Seq(Signals), NEW s, NEW taken,
         \A k \in DOMAIN table : k \in DOMAIN longer /\ longer[k] = table[k],
         \E k \in DOMAIN table : table[k] = s, InLine(s, taken, table)
  PROVE  InLine(s, taken, longer)
  <1>1. PICK a \in DOMAIN table : table[a] = s
    OBVIOUS
  <1>2. /\ DOMAIN table = 1..Len(table) /\ DOMAIN longer = 1..Len(longer)
        /\ Len(table) \in Nat /\ Len(longer) \in Nat
    OBVIOUS
  <1>3. ASSUME NEW i \in DOMAIN longer, i \notin DOMAIN table
        PROVE  \E x, y \in DOMAIN longer : x < y /\ longer[x] = s /\ longer[y] = longer[i]
    BY <1>1, <1>2, <1>3
  <1>4. ASSUME NEW i \in DOMAIN table
        PROVE  \/ longer[i] = s \/ SignalName[longer[i]] # SignalName[s] \/ longer[i] \in taken
               \/ Rank[s] < Rank[longer[i]]
               \/ \E x, y \in DOMAIN longer : x < y /\ longer[x] = s /\ longer[y] = longer[i]
    BY <1>4 DEF InLine
  <1> QED
    BY <1>3, <1>4 DEF InLine

\* A log and its continuation by outcomes have taken the same signals.
LEMMA SameTaken ==
  ASSUME NEW g \in Log, NEW h \in Log, GoesOnWithout(g, h, {"SIGNAL_RECEIVED"})
  PROVE  ConsumedSignals(g) = ConsumedSignals(h)
  <1>1. DOMAIN g = 1..Len(g) /\ DOMAIN h = 1..Len(h) /\ Len(g) \in Nat /\ Len(h) \in Nat
    BY DEF Log
  <1>2. \A j \in DOMAIN g : j \in DOMAIN h /\ g[j] = h[j]
    BY <1>1 DEF GoesOnWithout, Prefix
  <1>3. \A j \in DOMAIN h : h[j].type = "SIGNAL_RECEIVED" => j \in DOMAIN g
    BY <1>1 DEF GoesOnWithout
  <1> QED
    BY <1>2, <1>3 DEF ConsumedSignals

\* A caller comes to the release of a wait only from the look at it.
LEMMA ComesFromCheck ==
  ASSUME TypeOK, Next, NEW d \in Callers, caller'[d].pc = "release"
  PROVE  caller'[d] = caller[d] \/ CheckWait(d)
  <1>0. caller \in [Callers -> CallerRecord]
    BY DEF TypeOK, CallerRecord
  <1> USE DEF CallerRecord
  \* One caller moves, to another place.
  <1>1. ASSUME NEW c \in Callers,
               \/ Stop(c) \/ \E pc : pc # "release" /\ (Begin(c, pc) \/ GoTo(c, pc))
               \/ \E pc, plan : pc # "release" /\ Carry(c, pc, plan)
        PROVE  caller'[d] = caller[d]
    <2>1. CASE Stop(c)
      BY <1>0, <2>1 DEF Stop, Idle
    <2>2. ASSUME NEW pc, pc # "release", Begin(c, pc) PROVE caller'[d] = caller[d]
      BY <1>0, <2>2 DEF Begin, Idle
    <2>3. ASSUME NEW pc, pc # "release", GoTo(c, pc) PROVE caller'[d] = caller[d]
      BY <1>0, <2>3 DEF GoTo
    <2>4. ASSUME NEW pc, NEW plan, pc # "release", Carry(c, pc, plan) PROVE caller'[d] = caller[d]
      BY <1>0, <2>4 DEF Carry
    <2> QED
      BY <1>1, <2>1, <2>2, <2>3, <2>4
  <1>3. ASSUME NEW c \in Callers, Working(c) PROVE caller'[d] = caller[d] \/ CheckWait(d)
    <2>1. CASE FailRun(c)
      <3>1. CASE Stop(c)
        BY <1>1, <3>1
      <3>2. CASE caller' = [caller EXCEPT ![c] =
                [@ EXCEPT !.pc = "commit", !.version = run.version, !.plan = OfRun("FAIL")]]
        BY <1>0, <3>2
      <3> QED
        BY <2>1, <3>1, <3>2 DEF FailRun
    <2>2. CASE GetRun(c)
      <3>1. CASE Stop(c)
        BY <1>1, <3>1
      <3>2. CASE caller' = [caller EXCEPT ![c] =
                [@ EXCEPT !.pc = "history", !.version = run.version, !.avail = run.avail]]
        BY <1>0, <3>2
      <3> QED
        BY <2>2, <3>1, <3>2 DEF GetRun
    <2>7. CASE ReadHistory(c)
      BY <1>0, <2>7 DEF ReadHistory
    <2>8. CASE ReGetRun(c)
      BY <1>0, <2>8 DEF ReGetRun
    <2>9. CASE ReReadHistory(c)
      BY <1>0, <2>9 DEF ReReadHistory
    <2>3. CASE DeliverSignal(c)
      BY <1>1, <2>3 DEF DeliverSignal, AfterDelivery
    <2>4. CASE NotWaiting(c) \/ Repark(c) \/ Release(c)
      BY <1>1, <2>4 DEF NotWaiting, Repark, Release
    <2>5. CASE CheckWait(c)
      <3>1. caller' = caller \/ \E x : caller' = [caller EXCEPT ![c] = x]
        BY <2>5 DEF CheckWait, Carry, Stop
      <3> QED
        BY <1>0, <2>5, <3>1
    <2>6. CASE Dispatch(c) \/ Park(c) \/ Finish(c)
      BY <1>1, <2>6 DEF Dispatch, Park, Finish
    <2> QED
      BY <1>3, <2>1, <2>2, <2>3, <2>4, <2>5, <2>6, <2>7, <2>8, <2>9 DEF Working
  <1>4. ASSUME NEW c \in Callers, StartRun(c) \/ ScanOnce(c) \/ Asked(c) \/ Crash(c)
        PROVE  caller'[d] = caller[d]
    BY <1>1, <1>4
    DEF StartRun, ScanOnce, Asked, Crash, StillJoining, Decide, DecideUnavailable, DecideFails
  <1>5. ASSUME NEW c \in Callers, NEW k \in TaskIds, Reports(c, k)
        PROVE  caller'[d] = caller[d]
    BY <1>1, <1>5 DEF Reports, CompleteTask, FailTask
  <1>6. ASSUME NEW c \in Callers, NEW s \in Signals, NEW path \in Paths, SendSignal(c, s, path)
        PROVE  caller'[d] = caller[d]
    BY <1>1, <1>6 DEF SendSignal
  <1>7. CASE (\E k \in TaskIds : Bury(k)) \/ \E i \in Steps : ClockPasses(i)
    BY <1>7 DEF Bury, ClockPasses
  <1> QED
    BY <1>3, <1>4, <1>5, <1>6, <1>7 DEF Next

\* What the callers carry and what the log says stay in order.
LEMMA OrderStep ==
  ASSUME RunInv, RunInv', StepOK, OrderInv, [Next]_vars
  PROVE  OrderInv'
  <1>0. /\ TypeOK /\ history \in Log /\ history' \in Log /\ Len(history) \in Nat
        /\ Len(history') \in Nat /\ DOMAIN history = 1..Len(history)
        /\ DOMAIN history' = 1..Len(history') /\ Prefix(history, history')
        /\ stored \in Seq(Signals) /\ stored' \in Seq(Signals)
        /\ \A k \in DOMAIN stored : k \in DOMAIN stored' /\ stored'[k] = stored[k]
    BY DEF RunInv, StepOK, Grown, TypeOK, Log
  <1>1. \A s, taken : InLine(s, taken, stored) /\ (\E k \in DOMAIN stored : stored[k] = s)
                         => InLine(s, taken, stored')
    BY <1>0, InLineStays
  <1>2. \A j \in 1..(Len(history) + 1) :
           SubSeq(history', 1, j - 1) = SubSeq(history, 1, j - 1) \/ j - 1 > Len(history')
    BY <1>0 DEF Prefix, Log
  <1>3. ASSUME NEW d \in Callers, caller'[d] = caller[d] PROVE ChoiceIsFirst(d)'
    <2> DEFINE s == caller[d].plan.sig
    <2>1. SUFFICES ASSUME At(d, "release"), caller[d].plan.type = "SIGNAL_RECEIVED"
                   PROVE  NextInLine(caller[d].plan.sig, Seen(d))'
      BY <1>3 DEF ChoiceIsFirst, At
    <2>2. Follows(d) /\ ChoiceIsFirst(d)
      BY DEF RunInv, OrderInv
    <2>3. Seen(d)' = Seen(d)
      <3>1. caller[d].seen \in 0..Len(history)
        BY <1>0, <2>2 DEF Follows, NeverAhead, TypeOK
      <3>2. caller[d].seen + 1 \in 1..(Len(history) + 1) /\ Len(history) <= Len(history')
        BY <1>0, <3>1 DEF Prefix
      <3> QED
        BY <1>0, <1>2, <1>3, <3>1, <3>2 DEF Seen
    <2>4. \E k \in DOMAIN stored : stored[k] = s
      BY <2>1, <2>2 DEF Follows, WakeIsMeant, Answers
    <2>5. InLine(s, ConsumedSignals(Seen(d)), stored)
      BY <2>1, <2>2 DEF ChoiceIsFirst, NextInLine, InLine, ArrivedBefore
    <2>6. InLine(s, ConsumedSignals(Seen(d)), stored')
      BY <1>1, <2>4, <2>5
    <2>7. ConsumedSignals(Seen(d))' = ConsumedSignals(Seen(d))
      BY <2>3 DEF ConsumedSignals
    <2> QED
      BY <1>3, <2>6, <2>7 DEF NextInLine, InLine, ArrivedBefore
  <1>4. ASSUME NEW d \in Callers, CheckWait(d) PROVE ChoiceIsFirst(d)'
    <2>1. UNCHANGED <<history, stored>> /\ caller \in [Callers -> CallerRecord]
      BY <1>0, <1>4 DEF CheckWait, store, TypeOK, CallerRecord
    <2>2. SUFFICES ASSUME caller'[d].pc = "release", caller'[d].plan.type = "SIGNAL_RECEIVED"
                   PROVE  NextInLine(caller[d].plan.sig, Seen(d))'
      BY DEF ChoiceIsFirst, At
    <2>3. PICK w \in PendingWait(Seen(d)) :
              \E e \in WaitIsOver(Seen(d), w) : Carry(d, "release", e)
      BY <1>4, <2>1, <2>2 DEF CheckWait, Carry, Stop, Idle, CallerRecord
    <2>e. PICK e \in WaitIsOver(Seen(d), w) : Carry(d, "release", e)
      BY <2>3
    <2>4. caller'[d].plan = e /\ caller'[d].seen = caller[d].seen /\ Seen(d)' = Seen(d)
      BY <2>1, <2>e DEF Carry, CallerRecord, Seen
    <2>5. e.sig \in UnconsumedSignal(Seen(d), Program[w.step].name)
      BY <2>2, <2>e, <2>4 DEF WaitIsOver, Fact
    <2>6. NextInLine(e.sig, Seen(d))
      <3>1. \A i \in DOMAIN stored : stored[i] \in Signals
        BY <1>0
      <3>2. ASSUME NEW i \in DOMAIN stored, stored[i] # e.sig,
                   SignalName[stored[i]] = SignalName[e.sig],
                   stored[i] \notin ConsumedSignals(Seen(d))
            PROVE  Rank[e.sig] < Rank[stored[i]]
        <4>1. stored[i] \in Unconsumed(Seen(d), Program[w.step].name) /\ e.sig \in Signals
          BY <2>5, <3>1, <3>2 DEF UnconsumedSignal, Unconsumed
        <4>2. Rank[e.sig] <= Rank[stored[i]]
          BY <2>5, <4>1 DEF UnconsumedSignal
        <4> QED
          BY <3>1, <3>2, <4>1, <4>2, SignalAssumption
      <3> QED
        BY <2>5, <3>2 DEF NextInLine, UnconsumedSignal, Unconsumed
    <2> QED
      BY <2>1, <2>4, <2>6 DEF NextInLine, ArrivedBefore, ConsumedSignals
  <1>5. \A d \in Callers : ChoiceIsFirst(d)'
    <2>1. ASSUME NEW d \in Callers, caller'[d].pc # "release" PROVE ChoiceIsFirst(d)'
      BY <2>1 DEF ChoiceIsFirst, At
    <2>2. CASE UNCHANGED vars
      BY <1>3, <2>2 DEF vars
    <2> QED
      BY <1>0, <1>3, <1>4, <2>1, <2>2, ComesFromCheck
  <1>6. ASSUME NEW j \in DOMAIN history', history'[j].type = "SIGNAL_RECEIVED"
        PROVE  InLine(history'[j].sig, ConsumedSignals(SubSeq(history', 1, j - 1)), stored')
    <2>0. j \in 1..Len(history') /\ Len(history) <= Len(history')
      BY <1>0 DEF Prefix
    <2>1. CASE j \in DOMAIN history
      <3> DEFINE s == history[j].sig
      <3>1. history'[j] = history[j] /\ SubSeq(history', 1, j - 1) = Before(j)
        BY <1>0, <1>2, <2>0, <2>1 DEF Prefix, Before
      <3>2. \E k \in DOMAIN stored : stored[k] = s
        BY <1>6, <2>1, <3>1 DEF RunInv, StoreInv, WakesAreOwed, WaitEnds
      <3>3. InLine(s, ConsumedSignals(Before(j)), stored)
        BY <1>6, <2>1, <3>1 DEF OrderInv, TakenInOrder, NextInLine, InLine, ArrivedBefore
      <3> QED
        BY <1>1, <3>1, <3>2, <3>3
    <2>2. CASE j \notin DOMAIN history
      <3> DEFINE e == history'[j]
      <3>1. NewEvent(history'[j], j)
        BY <1>0, <2>0, <2>2, NewEvents DEF StepOK
      <3>2. WakeMove(e) /\ j = Len(history) + 1
        BY <1>6, <3>1 DEF NewEvent, WaitEnds
      <3>3. PICK c \in Callers : /\ At(c, "release") /\ caller[c].plan = e
                                 /\ caller[c].version = run.version
        BY <3>2 DEF WakeMove
      <3>4. /\ Follows(c) /\ ChoiceIsFirst(c) /\ Seen(c) \in Log
            /\ Len(Seen(c)) = caller[c].seen /\ Prefix(Seen(c), history)
        BY <1>0, SeenIsLog DEF RunInv, OrderInv, Follows
      <3>5. \A i \in (caller[c].seen + 1)..Len(history) : history[i].type \in Outcomes
        BY <3>3, <3>4 DEF Follows, OnlyOutcomesMissed, RelyingOnSeen, At
      <3>6. ConsumedSignals(Seen(c)) = ConsumedSignals(history)
        <4>1. GoesOnWithout(Seen(c), history, {"SIGNAL_RECEIVED"})
          BY <3>4, <3>5 DEF GoesOnWithout, Outcomes
        <4> QED
          BY <1>0, <3>4, <4>1, SameTaken
      <3>7. InLine(e.sig, ConsumedSignals(history), stored)
        BY <1>6, <3>3, <3>4, <3>6 DEF ChoiceIsFirst, NextInLine, InLine, ArrivedBefore
      <3>8. \E k \in DOMAIN stored : stored[k] = e.sig
        BY <1>6, <3>3, <3>4 DEF Follows, WakeIsMeant, Answers
      <3>9. SubSeq(history', 1, j - 1) = history
        BY <1>0, <1>2, <2>0, <3>2 DEF Log
      <3> QED
        BY <1>1, <3>7, <3>8, <3>9
    <2> QED
      BY <2>1, <2>2
  <1>7. TakenInOrder'
    BY <1>6 DEF TakenInOrder, Before, NextInLine, InLine, ArrivedBefore, ConsumedSignals
  <1> QED
    BY <1>5, <1>7 DEF OrderInv

----------------------------------------------------------------------------
(***************************************************************************)
(* The theorems.                                                           *)
(***************************************************************************)
\* A run that has just been created satisfies the invariant.
LEMMA RunInit ==
  ASSUME Init
  PROVE  RunInv
  <1>0. history = <<>> /\ history \in Log /\ Len(history) = 0 /\ DOMAIN history = {}
    BY DEF Init, Log
  <1>1. TypeOK
    <2>1. Idle \in CallerRecord
      <3>1. "idle" \in PCs /\ "NONE" \in Carried
        BY DEF PCs, Carried
      <3> QED
        BY <3>1, PlainFacts DEF Idle, CallerRecord
    <2>2. caller \in [Callers -> CallerRecord]
      BY <2>1 DEF Init
    <2>3. task \in [TaskIds -> TaskStatus] /\ stored \in Seq(Signals)
      BY DEF Init, TaskStatus
    <2>4. run \in [status : RunStatus, version : Nat, avail : Instants]
      BY PlainFacts DEF Init, RunStatus
    <2> QED
      <3>1. due \subseteq Steps /\ crashes \in 0..MaxCrashes /\ escalated \in BOOLEAN
        <4>1. due = {} /\ crashes = 0 /\ escalated = FALSE /\ MaxCrashes \in Nat
          BY BoundAssumption DEF Init
        <4>2. due \subseteq Steps /\ crashes \in 0..MaxCrashes
          BY <4>1
        <4>3. escalated \in BOOLEAN
          BY <4>1
        <4> QED
          BY <4>2, <4>3
      <3> QED
        BY <1>0, <2>2, <2>3, <2>4, <3>1 DEF TypeOK, CallerRecord, Log
  <1>2. Unstarted
    BY <1>0 DEF Init, Unstarted, Idle
  <1>3. ASSUME NEW c \in Callers PROVE Follows(c)
    BY <1>0, <1>3
    DEF Init, Idle, Follows, NeverAhead, OnlyOutcomesMissed, RelyingOnSeen, ReparkIsMeant,
        WakeIsMeant, DecisionIsMeant, DeliveryIsMeant, At
  <1>4. \A k \in TaskIds : task[k] = "ABSENT"
    BY DEF Init
  <1>5. TaskLog /\ NothingAhead /\ BegunFirst
    BY <1>0, <1>4 DEF TaskLog, NothingAhead, BegunFirst, Has
  <1>6. ParkMatchesHistory /\ WakesAreOwed /\ OneTimeline
    BY <1>0 DEF Init, ParkMatchesHistory, WakesAreOwed, OneTimeline
  <1> QED
    BY <1>1, <1>2, <1>3, <1>5, <1>6 DEF RunInv, StoreInv

\* Every step preserves it, and is one of the ways the store may change.
LEMMA RunStep ==
  ASSUME RunInv, [Next]_vars
  PROVE  RunInv' /\ StepOK
  <1>1. StepOK
    BY EveryStep
  <1>2. StoreInv'
    BY <1>1, StoreKept
  <1> QED
    BY <1>1, <1>2 DEF RunInv, StepOK

\* The inductive invariant holds of every behaviour.
THEOREM RunInvariant == Spec => []RunInv
  <1>1. Init => RunInv
    BY RunInit
  <1>2. RunInv /\ [Next]_vars => RunInv'
    BY RunStep
  <1> QED
    BY <1>1, <1>2, PTL DEF Spec

\* The store and the callers have the shapes the code gives them, whatever
\* callers do concurrently.
THEOREM TypeCorrect == Spec => []TypeOK
  <1>1. RunInv => TypeOK
    BY DEF RunInv
  <1> QED
    BY <1>1, RunInvariant, PTL

\* The run never forks: every task, fan-out, sleep and wait is begun at the
\* step the body stands at in the log it is appended to, for every body and
\* any number of concurrent callers of Advance.
THEOREM RunNeverForks == Spec => []OneTimeline
  <1>1. RunInv => OneTimeline
    BY DEF RunInv, StoreInv
  <1> QED
    BY <1>1, RunInvariant, PTL

\* Every wake-up answers the suspension that is open when it is recorded, and
\* has its cause in the store or on the clock.
THEOREM WakesAnswer == Spec => []WakesAreOwed
  <1>1. RunInv => WakesAreOwed
    BY DEF RunInv, StoreInv
  <1> QED
    BY <1>1, RunInvariant, PTL

\* A signal is taken once, and never past another under its name that was both
\* sent and stored before it, for any number of concurrent callers and senders
\* and whatever order the senders' clocks give.
THEOREM SignalsTakenInOrder == Spec => []TakenInOrder
  <1>1. Init => OrderInv
    BY DEF Init, OrderInv, TakenInOrder, ChoiceIsFirst, At, Idle
  <1>2. RunInv /\ RunInv' /\ OrderInv /\ [Next]_vars => OrderInv'
    BY RunStep, OrderStep
  <1>3. OrderInv => TakenInOrder
    BY DEF OrderInv
  <1> QED
    BY <1>1, <1>2, <1>3, RunInvariant, PTL DEF Spec

\* The park in the run's row is always the one its history ends with.
THEOREM ParkAgrees == Spec => []ParkMatchesHistory
  <1>1. RunInv => ParkMatchesHistory
    BY DEF RunInv, StoreInv
  <1> QED
    BY <1>1, RunInvariant, PTL

\* A finished run keeps its status and begins nothing, although callers that
\* read it while it ran still commit.
THEOREM EndIsFinal == Spec => FinishedStaysFinished
  <1>1. ASSUME RunInv, StepOK, IsTerminal(run.status)
        PROVE  /\ run'.status = run.status
               /\ \A j \in (Len(history) + 1)..Len(history') : history'[j].type \notin Starts
    <2>0. StoreMove /\ run.status # "RUNNING" /\ run.status # "ABSENT"
      BY <1>1 DEF StepOK, IsTerminal
    <2>1. run'.status = run.status
      <3>1. \A s, a : Bumped(s, a) => run'.status = s /\ run.status = s
        BY <2>0 DEF Bumped
      <3>2. ~StartMove /\ (ParkChanged => run'.status = run.status)
        BY <2>0 DEF StartMove, ParkChanged
      <3>3. \A k \in TaskIds : OutcomeMove(k) => run'.status = run.status
        BY DEF OutcomeMove
      <3>4. /\ \A e \in Facts(WaitEnds) : WakeMove(e) => run'.status = run.status
            /\ \A i \in Steps : DispatchMove(i) => run'.status = run.status
            /\ \A e \in Facts(WaitStarts) : SuspendMove(e) => run'.status = run.status
        BY <3>1 DEF WakeMove, DispatchMove, SuspendMove
      <3>5. \A s \in RunStatus, e \in Finals : FinishMove(s, e) => run'.status = run.status
        BY <3>1 DEF FinishMove
      <3> QED
        BY <2>0, <3>2, <3>3, <3>4, <3>5 DEF StoreMove
    <2>2. ASSUME NEW j \in (Len(history) + 1)..Len(history'), history'[j].type \in Starts
          PROVE  FALSE
      <3>1. NewEvent(history'[j], j)
        BY <1>1, <2>0, NewEvents
      <3>2. Bumped("RUNNING", Ready) \/ Bumped("RUNNING", history'[j].until)
        BY <2>2, <3>1 DEF NewEvent, Starts, DispatchMove, SuspendMove
      <3> QED
        BY <2>0, <3>2 DEF Bumped
    <2> QED
      BY <2>1, <2>2
  <1>2. RunInv /\ [Next]_vars =>
           [IsTerminal(run.status) =>
              /\ run'.status = run.status
              /\ \A j \in (Len(history) + 1)..Len(history') : history'[j].type \notin Starts]_vars
    BY <1>1, RunStep
  <1> QED
    BY <1>2, RunInvariant, PTL DEF Spec, FinishedStaysFinished

----------------------------------------------------------------------------
(***************************************************************************)
(* The engine implements RunContract.                                      *)
(***************************************************************************)

\* Without a new beginning the body stays where it is, or the step it stands
\* at has been begun and is answered, and the next one has not been begun.
LEMMA AnswerOrStay ==
  ASSUME RunInv, StepOK,
         \A j \in (Len(history) + 1)..Len(history') : history'[j].type \notin Starts
  PROVE  \/ /\ Position(history') = Position(history)
            /\ Begun(Position(history))' <=> Begun(Position(history))
         \/ /\ Position(history') = Position(history) + 1
            /\ Begun(Position(history)) /\ ~Begun(Position(history))'
  <1>0. /\ history \in Log /\ Len(history) \in Nat /\ DOMAIN history = 1..Len(history)
        /\ history' \in Log /\ Len(history') \in Nat /\ DOMAIN history' = 1..Len(history')
        /\ Prefix(history, history') /\ Len(history) <= Len(history') /\ BegunFirst /\ StoreMove
    BY Basics DEF StoreInv, Log, StepOK, Grown, Prefix
  <1>1. \A j \in DOMAIN history : j \in DOMAIN history' /\ history'[j] = history[j]
    BY <1>0 DEF Prefix
  <1>2. \A j \in DOMAIN history' : history'[j].type \in Starts => j \in DOMAIN history
    BY <1>0
  <1> DEFINE p == Position(history)
             q == Position(history')
  <1>3. /\ q = p \/ q = p + 1
        /\ q = p + 1 => p \in Steps /\ Answered(history', p)
        /\ \A j \in DOMAIN history' : history'[j].step <= p
        /\ p \in Nat
    BY PositionSteps
  <1>4. Begun(Position(history))' <=> \E j \in DOMAIN history' : /\ history'[j].type \in Starts
                                                                 /\ history'[j].step = q
    BY DEF Begun
  <1>5. Begun(p) <=> \E j \in DOMAIN history : history[j].type \in Starts /\ history[j].step = p
    BY DEF Begun
  <1> HIDE DEF p, q
  <1>6. CASE q = p
    <2>1. Begun(Position(history))' <=> Begun(p)
      BY <1>1, <1>2, <1>4, <1>5, <1>6
    <2> QED
      BY <1>6, <2>1 DEF p, q
  <1>7. CASE q = p + 1
    <2>1. ~Begun(Position(history))'
      BY <1>3, <1>4, <1>7
    <2>2. Begun(p)
      <3> SUFFICES ASSUME ~Begun(p) PROVE FALSE
        OBVIOUS
      <3>p. p # 0
        BY <1>3, <1>7, ProgramTypes
      <3>1. ASSUME NEW j \in DOMAIN history', history'[j].step = p PROVE FALSE
        <4>1. CASE j \in DOMAIN history
          BY <1>0, <1>1, <3>1, <3>p, <4>1 DEF BegunFirst
        <4>2. CASE j \notin DOMAIN history
          <5>1. NewEvent(history'[j], j) /\ history'[j].type \notin Starts
            BY <1>0, <4>2, NewEvents
          <5> QED
            BY <3>1, <3>p, <5>1 DEF NewEvent
        <4> QED
          BY <4>1, <4>2
      <3>2. ~Answered(history', p)
        BY <1>0, <1>3, <1>7, <3>1, NothingTold
      <3> QED
        BY <1>3, <1>7, <3>2
    <2> QED
      BY <1>7, <2>1, <2>2 DEF p, q
  <1> QED
    BY <1>3, <1>6, <1>7

\* Beginning a step leaves the body at it, and the step begun.
LEMMA BeginsHere ==
  ASSUME RunInv, StepOK,
         \/ \E i \in Steps : DispatchMove(i)
         \/ \E e \in Facts(WaitStarts) : SuspendMove(e)
  PROVE  /\ Position(history') = Position(history) /\ Position(history) \in Steps
         /\ Begun(Position(history))' /\ run.status = "RUNNING" /\ run'.status = "RUNNING"
  <1>0. /\ history \in Log /\ Len(history) \in Nat /\ DOMAIN history = 1..Len(history)
        /\ history' \in Log /\ Len(history') \in Nat /\ DOMAIN history' = 1..Len(history')
        /\ Prefix(history, history')
    BY Basics DEF Log, StepOK, Grown
  <1>1. ASSUME NEW i \in Steps, DispatchMove(i)
        PROVE  /\ Position(history') = Position(history) /\ Position(history) \in Steps
               /\ Begun(Position(history))'
    <2>1. \A j \in (Len(history) + 1)..Len(history') :
             history'[j].step = i /\ history'[j].type \in {"TASK_CREATED", "FAN_OUT_STARTED"}
      BY <1>1 DEF DispatchMove
    <2>2. \A t \in {"TASK_CREATED", "FAN_OUT_STARTED"} : t \notin Outcomes \cup WaitTypes /\ t \in Starts
      BY DEF Outcomes, WaitTypes, WaitStarts, WaitEnds, Starts
    <2>3. Position(history') = Position(history) /\ i = Position(history)
      BY <1>0, <1>1, <2>1, <2>2, SamePosition DEF DispatchMove
    <2>4. PICK j \in (Len(history) + 1)..Len(history') : j \in DOMAIN history'
      BY <1>0, <1>1 DEF DispatchMove
    <2> QED
      BY <2>1, <2>2, <2>3, <2>4 DEF Begun
  <1>2. ASSUME NEW e \in Facts(WaitStarts), SuspendMove(e)
        PROVE  /\ Position(history') = Position(history) /\ Position(history) \in Steps
               /\ Begun(Position(history))'
    <2>1. e \in Facts(EventTypes) /\ e.type \in WaitStarts
      BY DEF Facts, EventTypes, Starts
    <2>2. history'[Len(history')] = e /\ Len(history') = Len(history) + 1
      BY <1>0, <1>2, <2>1, AppendedOne DEF SuspendMove
    <2> DEFINE p == Position(history)
    <2>3. /\ p \in Steps /\ e.step = p /\ Program[p].kind \in {"sleep", "wait"}
      BY <1>2 DEF SuspendMove
    <2>4. Position(history') = p \/ (Position(history') = p + 1 /\ Answered(history', p))
      BY PositionSteps
    <2> HIDE DEF p
    <2>5. WaitRecord(history', p) = e.type
      BY <1>0, <2>1, <2>2, <2>3, LatestWaitRecord DEF Touches, WaitTypes
    <2>6. ~Answered(history', p)
      BY <2>1, <2>3, <2>5 DEF Answered, WaitStarts, WaitEnds
    <2>7. Position(history') = p
      BY <2>4, <2>6
    <2>8. Len(history') \in DOMAIN history' /\ e.type \in Starts
      BY <1>0, <2>1, <2>2 DEF Starts
    <2> QED
      BY <2>2, <2>3, <2>7, <2>8 DEF Begun, p
  <1>3. run.status = "RUNNING" /\ run'.status = "RUNNING"
    BY DEF DispatchMove, SuspendMove, Bumped
  <1> QED
    BY <1>1, <1>2, <1>3

\* A step that ends the run, or starts it, leaves the body where it is.
LEMMA MarksNothing ==
  ASSUME RunInv, StepOK, NEW t \in {"RUN_STARTED"} \cup Finals, history' = Append(history, OfRun(t))
  PROVE  /\ Position(history') = Position(history)
         /\ Begun(Position(history))' <=> Begun(Position(history))
  <1>0. history \in Log /\ Len(history) \in Nat
    BY Basics
  <1>1. OfRun(t) \in Facts(EventTypes) /\ OfRun(t).type = t
    BY PlainFacts DEF EventTypes
  <1>2. /\ history' \in Log /\ Prefix(history, history')
        /\ \A j \in (Len(history) + 1)..Len(history') : history'[j] = OfRun(t)
    <2>1. PICK e \in Facts(EventTypes) : e = OfRun(t) /\ history' = Append(history, e)
      BY <1>1
    <2> QED
      BY <1>0, <2>1, AppendedOne
  <1>3. t \notin Outcomes \cup WaitTypes /\ t \notin Starts
    BY DEF Outcomes, WaitTypes, WaitStarts, WaitEnds, Starts, Finals
  <1>4. Position(history') = Position(history)
    BY <1>0, <1>1, <1>2, <1>3, SamePosition
  <1>5. Position(history) \in Nat
    BY PositionIs, ProgramTypes
  <1> QED
    <2>1. \A j \in (Len(history) + 1)..Len(history') : history'[j].type \notin Starts
      BY <1>1, <1>2, <1>3
    <2>2. Position(history') # Position(history) + 1
      BY <1>4, <1>5
    <2> QED
      BY <1>4, <2>1, <2>2, AnswerOrStay

\* The run that was created is the contract's initial state.
LEMMA AbstractInit ==
  ASSUME Init
  PROVE  Contract!Init
  <1>0. history = <<>> /\ history \in Log /\ DOMAIN history = {}
    BY DEF Init, Log
  <1>1. Position(history) = 1
    <2>1. 1 \in 1..(Len(Program) + 1) /\ 1 - 1 = 0
      BY ProgramTypes
    <2>2. Stops(history, 1)
      BY <1>0, NothingTold DEF Stops
    <2>3. \A j \in 1..(1 - 1) : Answered(history, j) /\ ~Raises(history, j)
      OBVIOUS
    <2> QED
      BY <2>1, <2>2, <2>3, PositionOnly
  <1>2. run.status = "ABSENT"
    BY DEF Init
  <1>3. (\E at \in {Position(history)}, j \in DOMAIN history :
           history[j].type \in Starts /\ history[j].step = at) = FALSE
    BY <1>0
  <1> QED
    BY <1>1, <1>2, <1>3 DEF Contract!Init

\* The variables of the contract, mapped.
AbsBegun == \E at \in {Position(history)}, j \in DOMAIN history :
                history[j].type \in Starts /\ history[j].step = at

\* Each way the store may change is a step of the contract or none.
LEMMA AbstractStep ==
  ASSUME RunInv, StepOK
  PROVE  [Contract!Next]_(Contract!contract)
  <1>0. /\ AbsBegun \in BOOLEAN /\ AbsBegun' \in BOOLEAN
        /\ (AbsBegun <=> Begun(Position(history))) /\ (AbsBegun' <=> Begun(Position(history))')
    BY DEF AbsBegun, Begun
  <1>1. StoreMove /\ Position(history) \in Nat
    BY PositionIs, ProgramTypes DEF StepOK
  <1>s. ASSUME run'.status = run.status, Position(history') = Position(history),
               Begun(Position(history))' <=> Begun(Position(history))
        PROVE  UNCHANGED Contract!contract
    <2>1. AbsBegun' = AbsBegun
      BY <1>0, <1>s
    <2> QED
      BY <1>s, <2>1 DEF Contract!contract, AbsBegun
  <1>2. CASE history' = history /\ run'.status = run.status
    <2>1. Begun(Position(history))' <=> Begun(Position(history))
      BY <1>2 DEF Begun
    <2> QED
      BY <1>2, <1>s, <2>1
  <1>3. CASE StartMove
    <2>1. /\ Position(history') = Position(history)
          /\ Begun(Position(history))' <=> Begun(Position(history))
      BY <1>3, MarksNothing DEF StartMove
    <2>2. AbsBegun' = AbsBegun
      BY <1>0, <2>1
    <2>3. run.status = "ABSENT" /\ run'.status = "RUNNING"
      BY <1>3, Basics DEF StartMove, TypeOK
    <2>4. Contract!Start
      BY <2>1, <2>2, <2>3 DEF Contract!Start, AbsBegun
    <2> QED
      BY <2>4 DEF Contract!Next
  <1>4. ASSUME \/ \E k \in TaskIds : OutcomeMove(k)
               \/ \E e \in Facts(WaitEnds) : WakeMove(e)
        PROVE  [Contract!Next]_(Contract!contract)
    <2>1. run'.status = run.status
      <3>1. (\E k \in TaskIds : OutcomeMove(k)) => run' = run
        BY DEF OutcomeMove
      <3>2. (\E e \in Facts(WaitEnds) : WakeMove(e)) => Bumped("RUNNING", Ready)
        BY DEF WakeMove
      <3>3. Bumped("RUNNING", Ready) => run'.status = run.status
        BY DEF Bumped
      <3> QED
        BY <1>4, <3>1, <3>2, <3>3
    <2>2. ASSUME NEW j \in (Len(history) + 1)..Len(history') PROVE history'[j].type \notin Starts
      <3> SUFFICES ASSUME history'[j].type \in Starts PROVE FALSE
        OBVIOUS
      <3>1. NewEvent(history'[j], j)
        BY <1>1, NewEvents
      <3>2. (\E i \in Steps : DispatchMove(i)) \/ \E e \in Facts(WaitStarts) : SuspendMove(e)
        BY <3>1 DEF NewEvent, Starts, SuspendMove
      <3>3. history' \in Log /\ history \in Log /\ Len(history) \in Nat
        BY Basics DEF StepOK, Grown
      <3>4. CASE \E k \in TaskIds : OutcomeMove(k)
        <4>1. run'.version = run.version /\ run.version \in Nat
          BY <3>4, Basics DEF OutcomeMove
        <4>2. run'.version = run.version + 1
          BY <3>2 DEF DispatchMove, SuspendMove, Bumped
        <4> QED
          BY <4>1, <4>2
      <3>5. CASE \E e \in Facts(WaitEnds) : WakeMove(e)
        <4>1. PICK e \in Facts(WaitEnds) : history' = Append(history, e)
          BY <3>5 DEF WakeMove
        <4>2. e \in Facts(EventTypes) /\ e.type \in WaitEnds
          BY DEF Facts, EventTypes
        <4>3. history'[j] = e
          BY <3>3, <4>1, <4>2, AppendedOne
        <4> QED
          BY <4>2, <4>3 DEF WaitEnds, Starts, WaitStarts
      <3> QED
        BY <1>4, <3>4, <3>5
    <2>3. \/ /\ Position(history') = Position(history)
             /\ Begun(Position(history))' <=> Begun(Position(history))
          \/ /\ Position(history') = Position(history) + 1
             /\ Begun(Position(history)) /\ ~Begun(Position(history))'
      BY <2>2, AnswerOrStay
    <2>4. CASE /\ Position(history') = Position(history) + 1
               /\ Begun(Position(history)) /\ ~Begun(Position(history))'
      <3>1. AbsBegun /\ ~AbsBegun'
        BY <1>0, <2>4
      <3>2. Contract!Answer
        BY <2>1, <2>4, <3>1 DEF Contract!Answer, AbsBegun
      <3> QED
        BY <3>2 DEF Contract!Next
    <2> QED
      BY <1>s, <2>1, <2>3, <2>4
  <1>5. ASSUME \/ \E i \in Steps : DispatchMove(i)
               \/ \E e \in Facts(WaitStarts) : SuspendMove(e)
        PROVE  [Contract!Next]_(Contract!contract)
    <2>1. /\ Position(history') = Position(history) /\ Position(history) \in Steps
          /\ Begun(Position(history))' /\ run.status = "RUNNING" /\ run'.status = "RUNNING"
      BY <1>5, BeginsHere
    <2>2. CASE Begun(Position(history))
      BY <1>s, <2>1, <2>2
    <2>3. CASE ~Begun(Position(history))
      <3>1. ~AbsBegun /\ AbsBegun'
        BY <1>0, <2>1, <2>3
      <3>2. Position(history) <= Len(Program)
        BY <2>1, ProgramTypes
      <3>3. Contract!BeginStep
        BY <2>1, <3>1, <3>2 DEF Contract!BeginStep, AbsBegun
      <3> QED
        BY <3>3 DEF Contract!Next
    <2> QED
      BY <2>2, <2>3
  <1>6. ASSUME NEW s \in RunStatus, NEW e \in Finals, FinishMove(s, e)
        PROVE  [Contract!Next]_(Contract!contract)
    <2>1. /\ Position(history') = Position(history)
          /\ Begun(Position(history))' <=> Begun(Position(history))
      BY <1>6, MarksNothing DEF FinishMove
    <2>2. AbsBegun' = AbsBegun
      BY <1>0, <2>1
    <2>3. run'.status = s /\ (run.status = "RUNNING" \/ run.status = s) /\ IsTerminal(s)
      BY <1>6 DEF FinishMove, Bumped
    <2>4. CASE run.status = s
      BY <1>s, <2>1, <2>3, <2>4
    <2>5. CASE run.status = "RUNNING"
      <3>1. \/ run'.status = "FAILED"
            \/ run'.status \in {"COMPLETED", "CANCELLED"} /\ Position(history) = Len(Program) + 1
        BY <1>6, <2>3 DEF FinishMove, IsTerminal
      <3>2. Contract!End
        BY <2>1, <2>2, <2>5, <3>1 DEF Contract!End, AbsBegun
      <3> QED
        BY <3>2 DEF Contract!Next
    <2> QED
      BY <2>3, <2>4, <2>5
  <1> QED
    BY <1>1, <1>2, <1>3, <1>4, <1>5, <1>6 DEF StoreMove, ParkChanged

\* The engine implements RunContract: to whoever watches the log, any number
\* of concurrent callers of Advance, workers, senders and the reaper are one
\* sequential interpreter of the body.
THEOREM EngineImplementsContract == Spec => ImplementsContract
  <1>1. Init => Contract!Init
    BY AbstractInit
  <1>2. RunInv /\ [Next]_vars => [Contract!Next]_(Contract!contract)
    BY RunStep, AbstractStep
  <1> QED
    BY <1>1, <1>2, RunInvariant, PTL DEF Spec, ImplementsContract, Contract!Spec
=============================================================================
