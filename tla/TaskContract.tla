---------------------------- MODULE TaskContract ----------------------------
(***************************************************************************)
(* What the runtime promises about one task, with no leases, tokens,       *)
(* deliveries or crashes in sight: attempts are made one after the other,  *)
(* at most MaxAttempts of them, each handed to one holder; an attempt is   *)
(* given back, gives the task up, or yields the result; and the result     *)
(* that stands is the one of the last attempt.                             *)
(***************************************************************************)
EXTENDS Naturals

CONSTANTS Tasks, MaxAttempts

VARIABLES phase,   \* where each task stands
          claims,  \* how many attempts have been handed out
          result   \* the attempt whose result is recorded, 0 while none is

contract == <<phase, claims, result>>

Init ==
    /\ phase = [t \in Tasks |-> "absent"]
    /\ claims = [t \in Tasks |-> 0]
    /\ result = [t \in Tasks |-> 0]

Offer(t) ==
    /\ phase[t] = "absent"
    /\ phase' = [phase EXCEPT ![t] = "open"]
    /\ UNCHANGED <<claims, result>>

Take(t) ==
    /\ phase[t] = "open" /\ claims[t] < MaxAttempts
    /\ phase' = [phase EXCEPT ![t] = "held"]
    /\ claims' = [claims EXCEPT ![t] = @ + 1]
    /\ UNCHANGED result

GiveBack(t) ==
    /\ phase[t] = "held" /\ claims[t] < MaxAttempts
    /\ phase' = [phase EXCEPT ![t] = "open"]
    /\ UNCHANGED <<claims, result>>

Resolve(t) ==
    /\ phase[t] = "held"
    /\ phase' = [phase EXCEPT ![t] = "done"]
    /\ result' = [result EXCEPT ![t] = claims[t]]
    /\ UNCHANGED claims

GiveUp(t) ==
    /\ phase[t] = "held"
    /\ phase' = [phase EXCEPT ![t] = "dead"]
    /\ UNCHANGED <<claims, result>>

Next == \E t \in Tasks :
    Offer(t) \/ Take(t) \/ GiveBack(t) \/ Resolve(t) \/ GiveUp(t)

Spec == Init /\ [][Next]_contract
=============================================================================
