------------------------------- MODULE Joins -------------------------------
(***************************************************************************)
(* When a fan-out has finished waiting: core.JoinPolicy and FanOut's       *)
(* Satisfied, as functions of how many children settled either way, and    *)
(* the policy's passage through the FAN_OUT_STARTED event.                 *)
(***************************************************************************)
EXTENDS Integers

JoinKinds == {"ALL", "ANY", "QUORUM"}
Policy(kind, quorum) == [kind |-> kind, quorum |-> quorum]
NoPolicy == Policy("", 0)      \* the zero JoinPolicy

\* Valid: at least one call, and a quorum that the calls can reach.
ValidJoin(p, n) ==
    /\ n > 0
    /\ p.kind \in JoinKinds
    /\ p.kind = "QUORUM" => p.quorum > 0 /\ p.quorum <= n

\* Enough children settled, or too few are left for enough to be possible. A
\* policy this build cannot read counts as finished, so that the body is asked.
JoinSatisfied(p, total, succeeded, failed) ==
    /\ p.kind = "ALL"    => succeeded + failed = total
    /\ p.kind = "ANY"    => succeeded > 0 \/ failed = total
    /\ p.kind = "QUORUM" => succeeded >= p.quorum \/ total - failed < p.quorum

\* String: what the event records. Only a quorum keeps its number.
JoinString(p) ==
    IF p.kind = "QUORUM" THEN [text |-> "QUORUM(%d)", number |-> p.quorum]
                         ELSE [text |-> p.kind, number |-> 0]

\* joinFrom: what PendingFanOut reads back.
joinFrom(s) ==
    CASE s.text = "ALL" -> Policy("ALL", 0)
      [] s.text = "ANY" -> Policy("ANY", 0)
      [] s.text = "QUORUM(%d)" /\ s.number > 0 -> Policy("QUORUM", s.number)
      [] OTHER -> NoPolicy
=============================================================================
