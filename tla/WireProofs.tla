----------------------------- MODULE WireProofs -----------------------------
(***************************************************************************)
(* What the conversions of Wire and the joins of Joins guarantee for every *)
(* message a worker can send, whatever its strings, its number of calls    *)
(* and the 64 bits of its instants, and what the static decider reads out  *)
(* of every history.                                                       *)
(***************************************************************************)
EXTENDS Wire, StaticDecider, FiniteSetTheorems, SequenceTheorems, TLAPS

\* Every DecideResult's decision, sensible or not.
Messages == [kind : STRING, step : STRING, tool : STRING, calls : Seq(STRING),
             join : [kind : STRING, quorum : Int], wake : Int64, signal : STRING,
             deadline : Int64]

\* Every tool descriptor of a Register.
Declarations == [name : STRING, class : STRING, reconcilable : BOOLEAN]

----------------------------------------------------------------------------
(***************************************************************************)
(* Joins.                                                                  *)
(***************************************************************************)

\* A valid join is open when its fan-out starts and over when every child has
\* settled, however many of them failed: the exit "that gets forgotten"
\* (FanOut.Satisfied).
LEMMA JoinOpensAndEnds ==
    ASSUME NEW p, p.quorum \in Int, NEW n \in Nat, ValidJoin(p, n)
    PROVE  /\ ~JoinSatisfied(p, n, 0, 0)
           /\ \A s, f \in Nat : s + f = n => JoinSatisfied(p, n, s, f)
BY DEF ValidJoin, JoinSatisfied, JoinKinds

\* The policy survives the event it is recorded in: reading back what String
\* wrote gives a policy that waits for the same children.
LEMMA JoinSurvivesHistory ==
    ASSUME NEW p, p.quorum \in Int, NEW n \in Nat, ValidJoin(p, n)
    PROVE  \A s, f \in Nat :
               JoinSatisfied(joinFrom(JoinString(p)), n, s, f) <=> JoinSatisfied(p, n, s, f)
<1>1. CASE p.kind = "ALL"
  BY <1>1 DEF JoinSatisfied, joinFrom, JoinString, Policy
<1>2. CASE p.kind = "ANY"
  BY <1>2 DEF JoinSatisfied, joinFrom, JoinString, Policy
<1>3. CASE p.kind = "QUORUM"
  <2>1. joinFrom(JoinString(p)) = Policy("QUORUM", p.quorum)
    BY <1>3 DEF joinFrom, JoinString, Policy, ValidJoin
  <2> QED BY <1>3, <2>1 DEF JoinSatisfied, Policy
<1> QED BY <1>1, <1>2, <1>3 DEF ValidJoin, JoinKinds

\* A join that has finished waiting stays finished while the children it did
\* not wait for settle, so a body that has seen it satisfied is never asked to
\* wait for it again (FanOut.Satisfied, PendingFanOut).
THEOREM JoinStaysSatisfied ==
    ASSUME NEW p, p.quorum \in Int, NEW n \in Nat, ValidJoin(p, n),
           NEW s \in Nat, NEW f \in Nat, NEW s2 \in Nat, NEW f2 \in Nat,
           s <= s2, f <= f2, s2 + f2 <= n,
           JoinSatisfied(p, n, s, f)
    PROVE  JoinSatisfied(p, n, s2, f2)
<1>1. CASE p.kind = "ALL"
  BY <1>1 DEF JoinSatisfied
<1>2. CASE p.kind = "ANY"
  BY <1>2 DEF JoinSatisfied
<1>3. CASE p.kind = "QUORUM"
  BY <1>3 DEF JoinSatisfied
<1> QED BY <1>1, <1>2, <1>3 DEF ValidJoin, JoinKinds

----------------------------------------------------------------------------
(***************************************************************************)
(* Decisions.                                                              *)
(***************************************************************************)

\* joinPolicy yields a whole number of children, enough or not, for every join a
\* worker can send.
LEMMA JoinPolicyType ==
    ASSUME NEW j, j.quorum \in Int
    PROVE  joinPolicy(j).quorum \in Int
BY DEF joinPolicy, Policy, NoPolicy

\* Whatever a worker sends, a fan-out that is let in has calls, and its join,
\* as PendingFanOut reads it back from history, is open when the fan-out starts
\* and over when every child has settled: no accepted fan-out parks its run for
\* ever, and none is skipped (wire.parallel, dispatchParallel, PendingFanOut).
THEOREM AcceptedFanOutJoins ==
    ASSUME NEW m \in Messages, Decision(m).kind = "CALL_TOOL_PARALLEL"
    PROVE  LET n == Len(Decision(m).calls)
               p == joinFrom(JoinString(Decision(m).join))
           IN  /\ n > 0
               /\ ~JoinSatisfied(p, n, 0, 0)
               /\ \A s, f \in Nat : s + f = n => JoinSatisfied(p, n, s, f)
<1>1. /\ Decision(m).calls = m.calls
      /\ Decision(m).join = joinPolicy(m.join)
      /\ ValidJoin(joinPolicy(m.join), Len(m.calls))
  <2>1. Decision(m) = parallel(m)
    BY DEF Decision, Refused, callTool, parallel, sleep, waitForSignal
  <2>2. parallel(m).kind = "CALL_TOOL_PARALLEL" /\ Refused.kind = "REFUSED"
    BY <2>1 DEF Refused
  <2>3. parallel(m) # Refused
    BY <2>2
  <2> QED BY <2>1, <2>3 DEF parallel, Refused
<1>2. joinPolicy(m.join).quorum \in Int
  <2>1. m.join.quorum \in Int
    BY DEF Messages
  <2> QED BY <2>1, JoinPolicyType
<1>3. Len(m.calls) \in Nat
  BY DEF Messages
<1>4. Len(m.calls) > 0
  BY <1>1 DEF ValidJoin
<1> QED BY <1>1, <1>2, <1>3, <1>4, JoinOpensAndEnds, JoinSurvivesHistory

\* A run that is let in to sleep, or to wait with a deadline, is parked at an
\* instant the recovery scan will reach: no 64-bit instant is taken for the
\* sentinel that means "never", and only a wait without a deadline gets that
\* (wire.Decision, waitForSignal, Advance, IsIndefinite).
THEOREM AcceptedSuspensionIsScheduled ==
    ASSUME NEW m \in Messages, Decision(m).kind \in {"SLEEP", "WAIT_FOR_SIGNAL"}
    PROVE  /\ ParkUntil(Decision(m)) > 0
           /\ ParkUntil(Decision(m)) >= Never <=>
                  m.kind = "DECISION_KIND_WAIT_FOR_SIGNAL" /\ m.deadline <= 0
<1>1. /\ Never \in Int /\ Never > 0
      /\ m.wake \in Int /\ m.deadline \in Int
      /\ m.wake < Never /\ m.deadline < Never
  BY DEF Messages, Int64, MaxInt64, Never
<1>2. CASE m.kind = "DECISION_KIND_SLEEP"
  <2>1. Decision(m).kind = "SLEEP" /\ Decision(m).wake = m.wake /\ m.wake > 0
    BY <1>2 DEF Decision, sleep, Refused
  <2> QED BY <1>1, <1>2, <2>1 DEF ParkUntil
<1>3. CASE m.kind = "DECISION_KIND_WAIT_FOR_SIGNAL"
  <2>1. /\ Decision(m).kind = "WAIT_FOR_SIGNAL"
        /\ Decision(m).deadline = IF m.deadline > 0 THEN m.deadline ELSE 0
    BY <1>3 DEF Decision, waitForSignal, Refused
  <2> QED BY <1>1, <1>3, <2>1 DEF ParkUntil
<1>4. m.kind \in {"DECISION_KIND_SLEEP", "DECISION_KIND_WAIT_FOR_SIGNAL"}
  BY DEF Decision, Refused, callTool, parallel, sleep, waitForSignal
<1> QED BY <1>2, <1>3, <1>4

----------------------------------------------------------------------------
(***************************************************************************)
(* Tools.                                                                  *)
(***************************************************************************)

\* A worker gets a tool in exactly when the registry would take the Go tool that
\* declares the same, and what the remote registry then hands out is complete:
\* "the same rule the Go registry enforces" (wire.ToolDescriptor,
\* Registry.Register, remoteRegistry.Lookup).
THEOREM WireRuleIsRegistryRule ==
    ASSUME NEW d \in Declarations
    PROVE  /\ ToolAccepted(d) <=>
                  RegistryAccepts([name |-> d.name, class |-> EffectClassFrom(d.class),
                                   handler |-> TRUE, reconciler |-> d.reconcilable])
           /\ ToolAccepted(d) => /\ RegistryAccepts(RemoteTool(d))
                                 /\ EffectClassTo(RemoteTool(d).class) = d.class
<1>1. EffectClassFrom(d.class) # NoClass <=> EffectClassFrom(d.class) \in Classes
  BY DEF EffectClassFrom, NoClass, Classes
<1>2. ToolAccepted(d) <=>
          RegistryAccepts([name |-> d.name, class |-> EffectClassFrom(d.class),
                           handler |-> TRUE, reconciler |-> d.reconcilable])
  BY <1>1 DEF ToolAccepted, RegistryAccepts
<1>3. ASSUME ToolAccepted(d) PROVE RegistryAccepts(RemoteTool(d))
  BY <1>1, <1>3 DEF ToolAccepted, RegistryAccepts, RemoteTool
<1>4. ASSUME ToolAccepted(d) PROVE EffectClassTo(RemoteTool(d).class) = d.class
  BY <1>4 DEF ToolAccepted, RemoteTool, EffectClassTo, EffectClassFrom, NoClass
<1> QED BY <1>2, <1>3, <1>4

----------------------------------------------------------------------------
(***************************************************************************)
(* The static decider.                                                     *)
(***************************************************************************)

\* Its place in the list moves by exactly one with a completion and with no
\* other event, however the events interleave: retries, failures and lease
\* losses between two completions do not make it skip or repeat a step
\* (Static.Decide, completedSteps).
THEOREM StaticMovesWithCompletions ==
    ASSUME NEW EventTypes, NEW h \in Seq(EventTypes), NEW e \in EventTypes
    PROVE  completedSteps(Append(h, e)) =
               completedSteps(h) + (IF e = "TASK_COMPLETED" THEN 1 ELSE 0)
<1> DEFINE n == Len(h) + 1
<1>0. Len(h) \in Nat
  BY LenProperties
<1>1. /\ Len(Append(h, e)) = n
      /\ Append(h, e)[n] = e
      /\ \A j \in 1..Len(h) : Append(h, e)[j] = h[j]
  BY AppendProperties
<1>2. IsFiniteSet(Completions(h))
  <2>1. IsFiniteSet(1..Len(h))
    BY <1>0, FS_Interval
  <2>2. Completions(h) \subseteq 1..Len(h)
    BY DEF Completions
  <2> QED BY <2>1, <2>2, FS_Subset
<1>3. n \notin Completions(h)
  BY <1>0 DEF Completions
<1>4. Completions(Append(h, e)) =
          IF e = "TASK_COMPLETED" THEN Completions(h) \cup {n} ELSE Completions(h)
  BY <1>0, <1>1 DEF Completions
<1>5. CASE e = "TASK_COMPLETED"
  BY <1>2, <1>3, <1>4, <1>5, FS_AddElement DEF completedSteps
<1>6. CASE e # "TASK_COMPLETED"
  <2>1. Cardinality(Completions(h)) \in Nat
    BY <1>2, FS_CardinalityType
  <2> QED BY <1>4, <1>6, <2>1 DEF completedSteps
<1> QED BY <1>5, <1>6
=============================================================================
