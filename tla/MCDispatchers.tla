--------------------------- MODULE MCDispatchers ---------------------------
(* Instantiates Dispatchers for TLC, and checks the retry curve by value. *)
EXTENDS Dispatchers, Timing

Over(n, d) == [num |-> n, den |-> d]
Policies ==
    [initialBackoff : 0..3, maxBackoff : 0..7,
     multiplier : {Over(0, 1), Over(1, 2), Over(1, 1), Over(2, 1), Over(3, 1)},
     jitter : {Over(-1, 2), Over(0, 1), Over(1, 2), Over(1, 1), Over(3, 2)}]

\* The reference: the n-th delay is initial * multiplier^(n - 1), cut off at the
\* cap, and the jitter takes away no more than its share.
Reference(p, n) ==
    LET m    == IF p.multiplier.num > p.multiplier.den THEN p.multiplier.num ELSE 1
        full == p.initialBackoff * m ^ (n - 1)
    IN  IF p.maxBackoff > 0 /\ full > p.maxBackoff THEN p.maxBackoff ELSE full

ASSUME BackoffFollowsPolicy ==
    \A p \in Policies, n \in 1..4 :
        LET waits == Backoff(p, n)
            most  == Reference(p, n)
        IN  /\ most \in waits /\ \A w \in waits : 0 <= w /\ w <= most
            /\ p.jitter.num <= 0 => waits = {most}
            /\ p.jitter = Over(1, 2) => \A w \in waits : 2 * w >= most
            /\ p.initialBackoff = 0 => waits = {0}
============================================================================
