---------------------------- MODULE TimingProofs ----------------------------
(***************************************************************************)
(* What holds of the recovery loop's pauses, for every interval, instant   *)
(* and set of parked runs.                                                 *)
(***************************************************************************)
EXTENDS Timing, TLAPS

\* The hint never makes the loop sleep longer than its interval, which is the
\* guarantee, nor spin: the floor of nextDelay is positive and kept.
THEOREM ScanPausesAreBounded ==
    ASSUME NEW interval \in Nat \ {0}, NEW now \in Int, NEW answer \in SUBSET Int
    PROVE  /\ nextDelay(interval, answer, now) \in Floor(interval)..interval
           /\ Floor(interval) > 0
<1>1. Floor(interval) \in 1..interval
  BY DEF Floor, minScanDelay
<1>2. CASE answer = {}
  BY <1>1, <1>2 DEF nextDelay
<1>3. CASE answer # {}
  <2> DEFINE w == CHOOSE x \in answer : TRUE
  <2>1. w \in Int
    BY <1>3
  <2>2. (w - now) \in Int
    BY <2>1
  <2> HIDE DEF w
  <2>3. nextDelay(interval, answer, now) =
            IF w - now > interval THEN interval
            ELSE IF w - now < Floor(interval) THEN Floor(interval) ELSE w - now
    BY <1>3 DEF nextDelay, w
  <2>4. QED
    BY <1>1, <2>2, <2>3
<1>4. QED
  BY <1>2, <1>3

\* A store's answer is the only one of its kind, so nextDelay's choice is not a
\* choice: both stores, asked about the same rows, give the same hint.
LEMMA OneWakeUp ==
    ASSUME NEW parked \in SUBSET Int, NEW after \in Int,
           NEW u \in NextWakeUp(parked, after), NEW w \in NextWakeUp(parked, after)
    PROVE  u = w
BY DEF NextWakeUp

\* No park that the store could see is slept through. The instant is read once
\* to ask and once more to compute the pause; whatever passes in between, the
\* loop scans again by the time a park it was asked about falls due, or one
\* floor after computing the pause, and in any case within the interval. (There
\* is an answer whenever a park lies ahead, since a table has finitely many rows.)
THEOREM ParkedRunsAreMet ==
    ASSUME NEW interval \in Nat \ {0}, NEW parked \in SUBSET Int,
           NEW asked \in Int, NEW now \in Int, asked <= now,
           NEW v \in parked, v > asked,
           NextWakeUp(parked, asked) # {}
    PROVE  LET scan == now + nextDelay(interval, NextWakeUp(parked, asked), now)
           IN  /\ scan <= now + interval
               /\ scan <= v \/ scan <= now + Floor(interval)
<1> DEFINE answer == NextWakeUp(parked, asked)
           w == CHOOSE x \in answer : TRUE
<1>1. w \in answer
  OBVIOUS
<1>2. w \in Int /\ w <= v /\ answer \in SUBSET Int
  BY <1>1 DEF NextWakeUp
<1>3. nextDelay(interval, answer, now) =
          IF w - now > interval THEN interval
          ELSE IF w - now < Floor(interval) THEN Floor(interval) ELSE w - now
  BY DEF nextDelay
<1>4. /\ nextDelay(interval, answer, now) \in Floor(interval)..interval
      /\ Floor(interval) > 0
  BY <1>2, ScanPausesAreBounded
<1>5. Floor(interval) \in Int
  BY DEF Floor, minScanDelay
<1> HIDE DEF answer, w
<1>6. QED
  BY <1>2, <1>3, <1>4, <1>5 DEF answer
=============================================================================
