----------------------------- MODULE ScalePolicy -----------------------------
(***************************************************************************)
(* The leaf's autoscaling policy (leaf/autoscaling/policy.go) for one      *)
(* function: from the demand it is shown at each decision, the instances   *)
(* the function should have.  Decisions are taken under the policy's lock  *)
(* and are atomic; the time between them is in whole seconds.              *)
(*                                                                         *)
(* Fractions are exact: utilization and concurrency targets are counted in *)
(* hundredths, an average is a sum and a number of samples.                *)
(***************************************************************************)
EXTENDS Integers, Sequences, FiniteSetsExt

CONSTANTS
    ScaleConfig, \* the settings of policy and function a behaviour may have
    MaxDemand,   \* bound: requests in flight
    MaxScale     \* bound: instances of the function

ASSUME ScaleAssumption ==
    /\ MaxDemand \in Nat /\ MaxScale \in Nat
    /\ \A s \in ScaleConfig :
         /\ {s.maxConcurrency, s.targetConcurrency, s.unlimitedTarget, s.utilization, s.minInstances,
             s.maxInstances, s.stableWindow, s.panicWindow, s.panicThresholdRatio, s.maxScaleUpRate} \subseteq Nat
         /\ s.maxScaleDownRate \in Nat \ {0}

\* Seconds.
defaultScalingPeriod == 2

VARIABLES
    settings,     \* the behaviour's member of ScaleConfig
    buckets,      \* dirigentState: samples,
    windowHead,   \* index of the newest one,
    sinceSample,  \* seconds since lastSample, at most a period,
    inPanic,      \* panic mode,
    sincePanic,   \* seconds since panicStarted, at most the stable window and one,
    maxPanicInstances, \* and the largest panic decision
    latest        \* history: newest samples first, one for each period

dirigentState == <<buckets, windowHead, sinceSample, inPanic, sincePanic, maxPanicInstances>>
scaleVars == <<settings, dirigentState, latest>>

ScaleInit ==
    /\ settings \in ScaleConfig
    /\ buckets = <<>>
    /\ windowHead = 0
    /\ sinceSample = 0
    /\ inPanic = FALSE
    /\ sincePanic = 0
    /\ maxPanicInstances = 0
    /\ latest = <<>>

----------------------------------------------------------------------------
AtLeast(floor, n) == IF n < floor THEN floor ELSE n
AtMost(ceiling, n) == IF n > ceiling THEN ceiling ELSE n

\* n / d rounded up.
CeilDiv(n, d) == IF n <= 0 \/ d <= 0 THEN 0 ELSE (n + d - 1) \div d

\* Hundredths: a value above one is a percentage.
normalizeUtilization(v) ==
    LET fraction == IF v > 100 THEN v \div 100 ELSE v
    IN  IF v <= 0 \/ fraction <= 0 \/ fraction > 100 THEN 100 ELSE fraction

\* Requests per instance to aim for, in hundredths.
resolveScaleTarget ==
    LET breaker == settings.maxConcurrency
        soft == settings.targetConcurrency
        total == IF breaker = 0
                 THEN IF soft > 0 THEN soft ELSE AtLeast(1, settings.unlimitedTarget)
                 ELSE IF soft > 0 THEN AtMost(soft, breaker) ELSE breaker
    IN  AtLeast(1, total * normalizeUtilization(settings.utilization))

clampBetween(n, low, high) ==
    LET raised == AtLeast(low, n) IN IF high > 0 THEN AtMost(high, raised) ELSE raised

clampDesired(n) == clampBetween(n, settings.minInstances, settings.maxInstances)

\* The samples a window spans.
Count(window) == AtLeast(1, window \div defaultScalingPeriod)

\* Mutant: the head is not moved past the last bucket.
recordSameHead(value) ==
    LET due == sinceSample >= defaultScalingPeriod \/ buckets = <<>>
        grows == Len(buckets) < Count(settings.stableWindow)
    IN  [buckets |-> IF due /\ grows THEN Append(buckets, value)
                     ELSE [buckets EXCEPT ![windowHead] = value],
         head |-> IF due /\ grows THEN Len(buckets) + 1 ELSE windowHead,
         due |-> due]

\* record: the buckets and the head after a sample.
record(value) ==
    LET due == sinceSample >= defaultScalingPeriod \/ buckets = <<>>
        grows == Len(buckets) < Count(settings.stableWindow)
        head == IF ~due THEN windowHead
                ELSE IF grows THEN Len(buckets) + 1
                ELSE (windowHead % Count(settings.stableWindow)) + 1
    IN  [buckets |-> IF due /\ grows THEN Append(buckets, value)
                     ELSE [buckets EXCEPT ![head] = value],
         head |-> head,
         due |-> due]

\* The index i samples before the newest one, walking back from the head.
Back(head, size, i) == IF i < head THEN head - i ELSE head - i + size

Total(samples, count) ==
    LET sum[i \in 0..count] == IF i = 0 THEN 0 ELSE sum[i - 1] + samples[i]
    IN  sum[count]

\* average: the newest samples of the ring.
average(ring, head, window) ==
    LET count == AtMost(Len(ring), Count(window))
    IN  [sum |-> Total([i \in 1..count |-> ring[Back(head, Len(ring), i - 1)]], count), count |-> count]

\* Instances for an average, in hundredths as the target is.
Wanted(avg) == CeilDiv(100 * avg.sum, avg.count * resolveScaleTarget)

\* Mutant: demand counts through the averages only.
dirigentDesiredSmoothed(current, inFlight) ==
    LET sampled == record(inFlight)
        ready == AtLeast(1, current)
        stable == clampBetween(Wanted(average(sampled.buckets, sampled.head, settings.stableWindow)),
                               ready \div settings.maxScaleDownRate, settings.maxScaleUpRate * ready)
    IN  [sampled |-> sampled, desired |-> stable, inPanic |-> inPanic, sincePanic |-> sincePanic,
         maxPanic |-> maxPanicInstances]

\* dirigentDesired: the decision and the state it leaves.
dirigentDesired(current, inFlight) ==
    LET sampled == record(inFlight)
        ready == AtLeast(1, current)
        maxScaleUp == settings.maxScaleUpRate * ready
        maxScaleDown == ready \div settings.maxScaleDownRate
        desiredFor(window) ==
            clampBetween(Wanted(average(sampled.buckets, sampled.head, window)), maxScaleDown, maxScaleUp)
        desiredStable == desiredFor(settings.stableWindow)
        desiredPanic == desiredFor(settings.panicWindow)
        desiredInstant == clampBetween(Wanted([sum |-> inFlight, count |-> 1]), 0, maxScaleUp)
        high == desiredPanic >= settings.panicThresholdRatio * ready
        panics == high \/ (inPanic /\ sincePanic <= settings.stableWindow)
        maxPanic == IF ~panics THEN 0
                    ELSE IF high THEN AtLeast(desiredPanic, maxPanicInstances)
                    ELSE maxPanicInstances
    IN  [sampled |-> sampled,
         desired |-> Max({desiredStable, desiredInstant}
                         \cup IF panics THEN {desiredPanic, maxPanic} ELSE {}),
         inPanic |-> panics,
         sincePanic |-> IF high \/ ~panics THEN 0 ELSE sincePanic,
         maxPanic |-> maxPanic]

\* DesiredScale takes the averages into account only while the function is in
\* use and, without admission, not for one request per instance under cold
\* start panic scaling.
Smoothed(current, observed, idle) ==
    IF observed > 0
    THEN IF settings.dirigentAdmission THEN current > 0
         ELSE ~(settings.coldStartPanicScaling /\ settings.maxConcurrency = 1)
    ELSE current > 0 /\ ~idle

\* The instances decided on.  idle: the function's last activity is older than
\* the scale-to-zero timeout.
Desired(current, observed, idle) ==
    clampDesired(
      CASE Smoothed(current, observed, idle) ->
             AtLeast(IF observed = 0 THEN 1 ELSE 0, dirigentDesired(current, observed).desired)
        [] observed > 0 /\ ~Smoothed(current, observed, idle) ->
             IF settings.dirigentAdmission THEN 1 ELSE AtLeast(current, observed)
        [] OTHER -> 0)

----------------------------------------------------------------------------
\* One decision; observed is the larger of the requests in flight and the
\* high-water mark since the last one.  A decision that is not Smoothed leaves
\* the samples and the mode as they are.
DesiredScale(current, observed, idle) ==
    /\ Smoothed(current, observed, idle)
    /\ \E outcome \in {dirigentDesired(current, observed)} :
         LET sampled == outcome.sampled
             older == IF sampled.due \/ latest = <<>> THEN latest ELSE Tail(latest)
         IN  /\ buckets' = sampled.buckets
             /\ windowHead' = sampled.head
             /\ sinceSample' = IF sampled.due THEN 0 ELSE sinceSample
             /\ inPanic' = outcome.inPanic
             /\ sincePanic' = outcome.sincePanic
             /\ maxPanicInstances' = outcome.maxPanic
             /\ latest' = SubSeq(<<observed>> \o older, 1,
                                 AtMost(Count(settings.stableWindow), Len(older) + 1))
    /\ UNCHANGED settings

\* A second passes.
Second ==
    /\ sinceSample' = AtMost(defaultScalingPeriod, sinceSample + 1)
    /\ sincePanic' = IF inPanic THEN AtMost(settings.stableWindow + 1, sincePanic + 1) ELSE 0
    /\ UNCHANGED <<settings, buckets, windowHead, inPanic, maxPanicInstances, latest>>

ScaleNext ==
    \/ \E current \in 0..MaxScale, observed \in 0..MaxDemand, idle \in BOOLEAN :
         DesiredScale(current, observed, idle)
    \/ Second

ScaleSpec == ScaleInit /\ [][ScaleNext]_scaleVars

----------------------------------------------------------------------------
\* Whatever the windows remember, no decision hides work that is queued now: it
\* asks for enough instances for the demand it was shown, up to the scale-up
\* rate and the function's maximum, and for one instance from zero under
\* admission (DesiredScale, dirigentDesired's floor desiredInstant).  Cold start
\* panic scaling counts one request per instance and no utilization target.
CoversDemand ==
    \A current \in 0..MaxScale, observed \in 1..MaxDemand :
      LET needed == IF Smoothed(current, observed, FALSE) \/ settings.dirigentAdmission
                    THEN CeilDiv(100 * observed, resolveScaleTarget)
                    ELSE observed
          ready == AtLeast(1, current)
          allowed == IF settings.dirigentAdmission /\ current = 0 THEN 1
                     ELSE settings.maxScaleUpRate * ready
          cap == IF settings.maxInstances > 0 THEN settings.maxInstances ELSE needed
      IN  Desired(current, observed, FALSE) >= Min({needed, allowed, cap})

\* The averages are taken over exactly the newest samples, one for each period,
\* also after the buckets wrapped around and when several decisions fell in one
\* period (record, average).
WindowExact ==
    buckets # <<>> =>
      \A window \in {settings.stableWindow, settings.panicWindow} :
        LET avg == average(buckets, windowHead, window)
        IN  /\ avg.count = AtMost(Len(latest), Count(window))
            /\ avg.sum = Total(latest, avg.count)
=============================================================================
