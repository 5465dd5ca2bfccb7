----------------------------- MODULE MCRunLoop -----------------------------
(* Instantiates RunLoop for TLC: the bodies the runs drive. *)
EXTENDS RunLoop, TLC

Call  == [kind |-> "call", name |-> "", timed |-> FALSE, tolerant |-> FALSE,
          calls |-> 0, join |-> "ALL", quorum |-> 0]
Sleep == [Call EXCEPT !.kind = "sleep"]
Wait  == [Call EXCEPT !.kind = "wait", !.name = "go"]
WaitTimed == [Wait EXCEPT !.timed = TRUE, !.tolerant = TRUE]
Fan(n, how, q) == [Call EXCEPT !.kind = "fan", !.calls = n, !.join = how, !.quorum = q]

TwoWaits    == <<Wait, WaitTimed>>
OneWait     == <<Wait>>
SleepWait   == <<Sleep, WaitTimed>>
FanSleep    == <<Fan(2, "ANY", 0), Sleep>>
FanOnly     == <<Fan(2, "ALL", 0)>>
CallOnly    == <<Call>>

NoNames   == [s \in {} |-> ""]
OneStray  == LET x == CHOOSE s \in Signals : TRUE
             IN  [s \in Signals |-> IF s = x THEN "stray" ELSE "go"]

AllGo     == [s \in Signals |-> "go"]

\* The senders' clocks rank the signals in some order; nothing ties it to the
\* order of arrival, so which one it is makes no difference.
SomeRank  == CHOOSE f \in [Signals -> 1..Cardinality(Signals)] :
                 \A s, u \in Signals : f[s] = f[u] => s = u

CallerSymmetry == Permutations(Callers)
=============================================================================
