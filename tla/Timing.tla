------------------------------- MODULE Timing -------------------------------
(***************************************************************************)
(* How long the runtime waits: before a failed task is tried again         *)
(* (core.RetryPolicy), and before the recovery loop scans again            *)
(* (nextDelay). Pure functions of a policy, the store's answer and the     *)
(* clock, in nanoseconds.                                                  *)
(*                                                                         *)
(* Fractions are given as num / den, and a product is rounded down where   *)
(* the code computes in float64. An uncapped curve that outgrows int64 is  *)
(* left out: its conversion back to a Duration is whatever the processor   *)
(* makes of it.                                                            *)
(***************************************************************************)
EXTENDS Integers

Times(x, f) == (x * f.num) \div f.den
One == [num |-> 1, den |-> 1]

(* Retries.                                                                *)

\* A multiplier below 1 is read as 1, a jitter outside 0..1 as the nearer end.
Growth(p) == IF p.multiplier.num < p.multiplier.den THEN One ELSE p.multiplier
Jitter(p) == IF p.jitter.num <= 0 THEN [num |-> 0, den |-> 1]
             ELSE IF p.jitter.num > p.jitter.den THEN One ELSE p.jitter

Capped(p, delay) == IF p.maxBackoff > 0 /\ delay > p.maxBackoff THEN p.maxBackoff ELSE delay

\* The delay after the n-th failure, before jitter. The loop stops at the cap;
\* going on would not leave it, since the curve does not shrink.
Delay(p, attempt) ==
    LET delay[n \in 1..attempt] ==
            IF n = 1 THEN p.initialBackoff ELSE Capped(p, Times(delay[n - 1], Growth(p)))
    IN  Capped(p, delay[attempt])

\* Everything the random source may make of it.
Backoff(p, attempt) ==
    IF p.initialBackoff <= 0 \/ attempt < 1 THEN {0}
    ELSE LET delay == Delay(p, attempt)
         IN  (delay - Times(delay, Jitter(p)))..delay

(* The recovery loop.                                                      *)

\* The store's answer: the earliest park after the instant asked about, of the
\* runs that are RUNNING; nothing when there is none.
NextWakeUp(parked, after) ==
    {w \in parked : w > after /\ \A v \in parked : v > after => w <= v}

minScanDelay == 50000000

Floor(interval) == IF interval < minScanDelay THEN interval ELSE minScanDelay

\* The hint is clamped at both ends. An error is the empty answer.
nextDelay(interval, answer, now) ==
    IF answer = {} THEN interval
    ELSE LET d == (CHOOSE w \in answer : TRUE) - now
         IN  IF d > interval THEN interval
             ELSE IF d < Floor(interval) THEN Floor(interval) ELSE d
=============================================================================
