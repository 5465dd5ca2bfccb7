---------------------------- MODULE RunContract ----------------------------
(***************************************************************************)
(* What the engine promises about one run, with no callers, versions,      *)
(* snapshots or crashes in sight: the body's steps are begun one at a time *)
(* and in order, each only when every earlier one has its answer; the run  *)
(* ends the way the body says only after the last answer, may fail at any  *)
(* time, and begins nothing afterwards. An answer may still arrive then.   *)
(***************************************************************************)
EXTENDS Naturals

CONSTANT Last      \* how many steps the body has

VARIABLES phase,   \* the run's status
          pos,     \* the step the body stands at; Last + 1 when it has returned
          begun    \* whether that step has been begun

contract == <<phase, pos, begun>>

Init == phase = "ABSENT" /\ pos = 1 /\ begun = FALSE

Start ==
    /\ phase = "ABSENT" /\ phase' = "RUNNING"
    /\ UNCHANGED <<pos, begun>>

BeginStep ==
    /\ phase = "RUNNING" /\ UNCHANGED phase
    /\ ~begun /\ begun'
    /\ pos <= Last /\ UNCHANGED pos

Answer ==
    /\ UNCHANGED phase
    /\ begun /\ ~begun'
    /\ pos' = pos + 1

End ==
    /\ phase = "RUNNING"
    /\ \/ phase' = "FAILED"
       \/ phase' \in {"COMPLETED", "CANCELLED"} /\ pos = Last + 1
    /\ UNCHANGED <<pos, begun>>

Next == Start \/ BeginStep \/ Answer \/ End

Spec == Init /\ [][Next]_contract
=============================================================================
