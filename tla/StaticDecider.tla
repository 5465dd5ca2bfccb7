--------------------------- MODULE StaticDecider ---------------------------
(***************************************************************************)
(* internal/decider/static.go: the decider that walks a fixed list of tool *)
(* calls. Its only memory is the run's history, here the sequence of the   *)
(* types of its events, so two processes that read the same history decide *)
(* alike.                                                                  *)
(***************************************************************************)
EXTENDS Naturals, Sequences, FiniteSets

\* completedSteps: a failed attempt is not counted, its step is still owed.
Completions(history) == {j \in 1..Len(history) : history[j] = "TASK_COMPLETED"}
completedSteps(history) == Cardinality(Completions(history))

\* Decide: the first step history has no completion for, then the end.
StaticDecide(steps, history) ==
    LET done == completedSteps(history)
    IN  IF done < Len(steps)
        THEN [kind |-> "CALL_TOOL", step |-> done + 1, tool |-> steps[done + 1]]
        ELSE [kind |-> "COMPLETE", step |-> 0, tool |-> ""]
=============================================================================
