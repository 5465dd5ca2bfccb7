-------------------------------- MODULE Wire --------------------------------
(***************************************************************************)
(* internal/sdk/wire: what the runtime makes of the messages a worker in   *)
(* another language sends, and of the tools it declares, beside the rule   *)
(* the registry for Go tools enforces. Pure functions.                     *)
(*                                                                         *)
(* A field that was not set has the value protobuf gives it: the empty     *)
(* string, zero, the UNSPECIFIED enumerator. A nil message is one whose    *)
(* kind is NIL. Payloads are left out: no conversion looks at them.        *)
(* Instants are nanoseconds since 1970 and so are what int64 can hold.     *)
(*                                                                         *)
(* Definitions named Fault... are faulty variants of the definition that   *)
(* follows them. No specification uses them; substituting one must break   *)
(* the property that guards against it.                                    *)
(***************************************************************************)
EXTENDS Integers, Sequences, Joins

MaxInt64 == 8 * 1073741824 * 1073741824 - 1
Int64 == (-MaxInt64 - 1)..MaxInt64

(* Effect classes.                                                         *)

Classes == {"NONE", "IDEMPOTENT_BY_KEY", "QUERYABLE", "UNRECONCILABLE"}
NoClass == ""

EffectClassTo(c) ==
    CASE c = "NONE"              -> "EFFECT_CLASS_NONE"
      [] c = "IDEMPOTENT_BY_KEY" -> "EFFECT_CLASS_IDEMPOTENT_BY_KEY"
      [] c = "QUERYABLE"         -> "EFFECT_CLASS_QUERYABLE"
      [] c = "UNRECONCILABLE"    -> "EFFECT_CLASS_UNRECONCILABLE"
      [] OTHER                   -> "EFFECT_CLASS_UNSPECIFIED"

\* An enumerator this build does not know is refused, never defaulted.
EffectClassFrom(w) ==
    CASE w = "EFFECT_CLASS_NONE"              -> "NONE"
      [] w = "EFFECT_CLASS_IDEMPOTENT_BY_KEY" -> "IDEMPOTENT_BY_KEY"
      [] w = "EFFECT_CLASS_QUERYABLE"         -> "QUERYABLE"
      [] w = "EFFECT_CLASS_UNRECONCILABLE"    -> "UNRECONCILABLE"
      [] OTHER                                -> NoClass

(* Tools.                                                                  *)

FaultHookNotRequired(d) == d.name # "" /\ EffectClassFrom(d.class) # NoClass

\* ToolDescriptor's conditions: a name, a class, and a hook if it says that it
\* can be asked.
ToolAccepted(d) ==
    /\ d.name # ""
    /\ EffectClassFrom(d.class) # NoClass
    /\ EffectClassFrom(d.class) = "QUERYABLE" => d.reconcilable

\* ToolDescriptor and the remote registry's Lookup: the handler and, for a
\* QUERYABLE tool only, the reconciler call back over the stream.
RemoteTool(d) ==
    [name |-> d.name, class |-> EffectClassFrom(d.class), handler |-> TRUE,
     reconciler |-> EffectClassFrom(d.class) = "QUERYABLE"]

\* Registry.Register of the Go tools; a descriptor it refuses is a panic.
RegistryAccepts(t) ==
    /\ t.name # ""
    /\ t.handler
    /\ t.class \in Classes
    /\ t.class = "QUERYABLE" => t.reconciler

(* Decisions.                                                              *)

Refused == [kind |-> "REFUSED", step |-> "", tool |-> "", calls |-> <<>>,
            join |-> NoPolicy, wake |-> 0, signal |-> "", deadline |-> 0]

\* No join, or one of a kind this build does not know, has no default.
joinPolicy(j) ==
    IF j.kind = "JOIN_KIND_ALL" THEN Policy("ALL", 0)
    ELSE IF j.kind = "JOIN_KIND_ANY" THEN Policy("ANY", 0)
    ELSE IF j.kind = "JOIN_KIND_QUORUM" THEN Policy("QUORUM", j.quorum)
    ELSE NoPolicy

callTool(m) ==
    IF m.tool # "" /\ m.step # ""
    THEN [Refused EXCEPT !.kind = "CALL_TOOL", !.step = m.step, !.tool = m.tool]
    ELSE Refused

parallel(m) ==
    IF /\ m.step # ""
       /\ Len(m.calls) > 0
       /\ \A i \in 1..Len(m.calls) : m.calls[i] # ""
       /\ ValidJoin(joinPolicy(m.join), Len(m.calls))
    THEN [Refused EXCEPT !.kind = "CALL_TOOL_PARALLEL", !.step = m.step, !.calls = m.calls,
                         !.join = joinPolicy(m.join)]
    ELSE Refused

\* A sleep that names no instant is not given one.
sleep(m) ==
    IF m.step # "" /\ m.wake > 0
    THEN [Refused EXCEPT !.kind = "SLEEP", !.step = m.step, !.wake = m.wake]
    ELSE Refused

\* No deadline, the zero time, is a wait for as long as it takes.
waitForSignal(m) ==
    IF m.step # "" /\ m.signal # ""
    THEN [Refused EXCEPT !.kind = "WAIT_FOR_SIGNAL", !.step = m.step, !.signal = m.signal,
                         !.deadline = IF m.deadline > 0 THEN m.deadline ELSE 0]
    ELSE Refused

Decision(m) ==
    CASE m.kind = "DECISION_KIND_CALL_TOOL"          -> callTool(m)
      [] m.kind = "DECISION_KIND_CALL_TOOL_PARALLEL" -> parallel(m)
      [] m.kind = "DECISION_KIND_SLEEP"              -> sleep(m)
      [] m.kind = "DECISION_KIND_WAIT_FOR_SIGNAL"    -> waitForSignal(m)
      [] m.kind = "DECISION_KIND_COMPLETE"           -> [Refused EXCEPT !.kind = "COMPLETE"]
      [] m.kind = "DECISION_KIND_FAIL"               -> [Refused EXCEPT !.kind = "FAIL"]
      [] m.kind = "DECISION_KIND_CANCEL"             -> [Refused EXCEPT !.kind = "CANCEL"]
      [] OTHER                                       -> Refused

\* The last second of the year 9999.
Never == (253402300 * 1000 + 799) * 1000000000

\* Where Advance parks the run for a decision that suspends it.
ParkUntil(d) == IF d.kind = "SLEEP" THEN d.wake
                ELSE IF d.deadline # 0 THEN d.deadline ELSE Never

(* Results.                                                                *)

FaultUnsetIsProof(f) == f # "CERTAINTY_UNKNOWN"

\* Failure: only NOT_EXECUTED asserts that nothing was sent. A nil failure, an
\* unset certainty and one this build does not know assert nothing.
Failure(f) == f = "CERTAINTY_NOT_EXECUTED"

\* FailureFrom, for a worker written in Go; its error either asserts or not.
FailureFrom(notExecuted) ==
    IF notExecuted THEN "CERTAINTY_NOT_EXECUTED" ELSE "CERTAINTY_UNKNOWN"

\* An answer that cannot be read is "cannot tell", which escalates.
Resolution(r) ==
    CASE r = "RESOLUTION_KIND_COMMITTED"    -> "COMMITTED"
      [] r = "RESOLUTION_KIND_NOT_EXECUTED" -> "NOT_EXECUTED"
      [] OTHER                              -> "STILL_UNKNOWN"
=============================================================================
