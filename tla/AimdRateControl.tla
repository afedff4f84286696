--------------------------- MODULE AimdRateControl ---------------------------
(***************************************************************************)
(* The rate control of the receiver's delay-based estimator, class         *)
(* AimdRateControl of google_cc/aimd_rate_control.cc, with the link        *)
(* capacity estimate it keeps (google_cc/link_capacity_estimator.cc).      *)
(*                                                                         *)
(* The class is a record, its methods are operators on that record.  Rates *)
(* are whole kbps, times integers; Second is one second in the unit of     *)
(* time.  Left out: last_decrease_, which nothing but the expected period  *)
(* reads and which is a parameter of it; in_alr_, which is always false;   *)
(* and the value of the capacity estimate's deviation, of which only the   *)
(* range it is clamped to is kept: it is a parameter, in tenths, of the    *)
(* comparisons.                                                            *)
(***************************************************************************)
EXTENDS Units

CONSTANTS
    MinBitrate,             \* congestion_controller::GetMinBitrate, 5 kbps
    MaxConfiguredBitrate,   \* initial value of current_bitrate_, 30 Mbps
    DefaultRtt,             \* kDefaultRtt, 200 ms
    MinReduction,           \* TimeToReduceFurther's bounds on rtt_, 10 ms
    MaxReduction,           \* and 200 ms
    ResponseTime,           \* 100 ms, approximating the over-use detector's delay
    InitializationTime,     \* kInitializationTime, 5 s
    Second,                 \* one second
    Growth                  \* 1.08^(dt/Second) - 1 in 1/10000, for dt in 0 .. Second

ASSUME AimdAssumption ==
    /\ MinBitrate \in Nat \ {0}
    /\ MaxConfiguredBitrate \in Nat /\ MinBitrate <= MaxConfiguredBitrate
    /\ DefaultRtt \in Nat /\ ResponseTime \in Nat \ {0}
    /\ MinReduction \in Nat /\ MaxReduction \in Nat /\ MinReduction <= MaxReduction
    /\ InitializationTime \in Nat
    /\ Second \in Nat \ {0}
    /\ Growth \in [0 .. Second -> Nat] /\ Growth[0] = 0

\* The link capacity estimator, as its estimate, which may be missing.
LinkCapacityEstimator == {NoRate} \cup Nat

\* The class.
RateControl ==
    [ min_configured : Nat, rtt : Nat,
      current_bitrate : Nat, latest_throughput : Nat,
      state : {"kRcHold", "kRcIncrease", "kRcDecrease"},
      time_last_change : Int, time_last_decrease : Int, time_first_throughput : Int,
      initialized : BOOLEAN,
      link_capacity : Int ]

\* AimdRateControl after its constructor.
InitialAimd ==
    [ min_configured |-> MinBitrate,
      rtt |-> DefaultRtt,
      current_bitrate |-> MaxConfiguredBitrate,
      latest_throughput |-> MaxConfiguredBitrate,
      state |-> "kRcHold",
      time_last_change |-> Never,
      time_last_decrease |-> Never,
      time_first_throughput |-> Never,
      initialized |-> FALSE,
      link_capacity |-> NoRate ]

ClampBitrate(a, bitrate) == Higher(bitrate, a.min_configured)

\* SetStartBitrate, SetMinBitrate and SetRtt.
SetStartBitrate(a, bitrate) ==
    [a EXCEPT !.current_bitrate = bitrate,
              !.latest_throughput = bitrate,
              !.initialized = TRUE]

SetMinBitrate(a, bitrate) ==
    [a EXCEPT !.min_configured = bitrate,
              !.current_bitrate = Higher(bitrate, @)]

SetRtt(a, rtt) == [a EXCEPT !.rtt = rtt]

ValidEstimate(a) == a.initialized
LatestEstimate(a) == a.current_bitrate

\* What Update gets of the detector and the throughput.
RateControlInput(bw_state, throughput) ==
    [bw_state |-> bw_state, estimated_throughput |-> throughput]

-----------------------------------------------------------------------------
(* LinkCapacityEstimator *)

\* throughput > UpperBound(), where the bound is the estimate plus three
\* standard deviations, sqrt(deviation * estimate); infinite without estimate.
AboveCapacity(a, throughput, deviation) ==
    LET gap == throughput - a.link_capacity
    IN  /\ a.link_capacity # NoRate
        /\ gap > 0 /\ 10 * gap * gap > 9 * deviation * a.link_capacity

\* throughput < LowerBound().
BelowCapacity(a, throughput, deviation) ==
    LET gap == a.link_capacity - throughput
    IN  /\ a.link_capacity # NoRate
        /\ gap > 0 /\ 10 * gap * gap > 9 * deviation * a.link_capacity

\* Reset, when the throughput is outside the bounds.
ResetIf(outside, a) == IF outside THEN NoRate ELSE a.link_capacity

\* OnOveruseDetected: the estimate moves 5% towards the sample.
UpdatedCapacity(capacity, sample) ==
    IF capacity = NoRate THEN sample ELSE (95 * capacity + 5 * sample) \div 100

-----------------------------------------------------------------------------
(* When to reduce *)

\* Mutant: the round-trip time is ignored.
ReductionInterval_Fixed(a) == MinReduction

\* bitrate_reduction_interval.
ReductionInterval(a) == Clamped(a.rtt, MinReduction, MaxReduction)

TimeToReduceFurther(a, t, throughput) ==
    \/ Since(t, a.time_last_change) >= ReductionInterval(a)
    \/ ValidEstimate(a) /\ 2 * throughput < LatestEstimate(a)

InitialTimeToReduceFurther(a) == IsInfinite(a.time_last_decrease)

\* SetEstimate.
WithEstimate(a, bitrate, t) ==
    [a EXCEPT !.initialized = TRUE,
              !.current_bitrate = ClampBitrate(a, bitrate),
              !.time_last_change = t,
              !.time_last_decrease = IF ClampBitrate(a, bitrate) < a.current_bitrate
                                     THEN t ELSE @]

-----------------------------------------------------------------------------
(* Update *)

\* GetNearMaxIncreaseRateBpsPerSecond, in kbps per second: a packet of the
\* average size per response time, with 30 frames per second made of packets of
\* up to 1200 bytes, and at least 4 kbps.
NearMaxIncrease(a) ==
    LET packets_per_frame == Higher(1, (a.current_bitrate + 287) \div 288)
        response_time == a.rtt + ResponseTime
    IN  Higher(4, (a.current_bitrate * Second) \div (30 * response_time * packets_per_frame))

\* GetExpectedBandwidthPeriod: the time to recover the last reduction, within
\* bounds; three seconds when there has not been one.
GetExpectedBandwidthPeriod(a, last_decrease) ==
    IF HasValue(last_decrease)
    THEN Clamped((last_decrease * Second) \div NearMaxIncrease(a), 2 * Second, 50 * Second)
    ELSE 3 * Second

AdditiveIncrease(a, t) ==
    (NearMaxIncrease(a) * Since(t, a.time_last_change)) \div Second

MultiplicativeIncrease(bitrate, t, last) ==
    LET dt == IF IsFinite(last) THEN Lower(Since(t, last), Second) ELSE Second
    IN  Higher((bitrate * Growth[dt]) \div 10000, 1)

\* The beginning of Update: without an estimate, the throughput becomes the
\* bitrate InitializationTime after the first one was measured.
WithFirstEstimate(a, throughput, t) ==
    IF a.initialized \/ throughput = NoRate THEN a
    ELSE IF IsInfinite(a.time_first_throughput)
         THEN [a EXCEPT !.time_first_throughput = t]
         ELSE IF Since(t, a.time_first_throughput) > InitializationTime
              THEN [a EXCEPT !.current_bitrate = throughput, !.initialized = TRUE]
              ELSE a

\* Mutant: leaving the hold state does not restart the clock of the increase.
WithState_NoRestart(a, usage, t) ==
    CASE usage = "kBwNormal" /\ a.state = "kRcHold" -> [a EXCEPT !.state = "kRcIncrease"]
      [] usage = "kBwNormal" /\ a.state # "kRcHold" -> a
      [] usage = "kBwOverusing" -> [a EXCEPT !.state = "kRcDecrease"]
      [] usage = "kBwUnderusing" -> [a EXCEPT !.state = "kRcHold"]

\* ChangeState.
WithState(a, usage, t) ==
    CASE usage = "kBwNormal" /\ a.state = "kRcHold" ->
            [a EXCEPT !.state = "kRcIncrease", !.time_last_change = t]
      [] usage = "kBwNormal" /\ a.state # "kRcHold" -> a
      [] usage = "kBwOverusing" -> [a EXCEPT !.state = "kRcDecrease"]
      [] usage = "kBwUnderusing" -> [a EXCEPT !.state = "kRcHold"]

\* troughput_based_limit.
ThroughputLimit(throughput) == (3 * throughput) \div 2 + 10

\* Mutant: the increase is not limited by the throughput.
Increased_Unlimited(a, throughput, t, deviation) ==
    [a EXCEPT !.current_bitrate =
                ClampBitrate(a, @ + MultiplicativeIncrease(@, t, a.time_last_change)),
              !.time_last_change = t]

\* ChangeBitrate in the state kRcIncrease.
Increased(a, throughput, t, deviation) ==
    LET capacity == ResetIf(AboveCapacity(a, throughput, deviation), a)
        increase == IF capacity # NoRate
                    THEN AdditiveIncrease(a, t)
                    ELSE MultiplicativeIncrease(a.current_bitrate, t, a.time_last_change)
        bitrate == IF a.current_bitrate < ThroughputLimit(throughput)
                   THEN Lower(Plus(a.current_bitrate, increase), ThroughputLimit(throughput))
                   ELSE a.current_bitrate
    IN  [a EXCEPT !.link_capacity = capacity,
                  !.current_bitrate = ClampBitrate(a, bitrate),
                  !.time_last_change = t]

\* beta_ = 0.85.
BackedOff(bitrate) == Scaled(bitrate, 85, 100)

\* Mutant: the new bitrate is not compared with the current one.
DecreasedBitrate_Unchecked(a, throughput) == BackedOff(throughput)

\* The bitrate in the state kRcDecrease: below the throughput or, when that is
\* no decrease, below the link capacity.
DecreasedBitrate(a, throughput) ==
    LET decreased == IF BackedOff(throughput) > a.current_bitrate /\ a.link_capacity # NoRate
                     THEN BackedOff(a.link_capacity)
                     ELSE BackedOff(throughput)
    IN  Lower(decreased, a.current_bitrate)

\* Mutant: the state kRcDecrease is not left.
Decreased_StaysDecreasing(a, throughput, t, deviation) ==
    LET capacity == ResetIf(BelowCapacity(a, throughput, deviation), a)
    IN  [a EXCEPT !.current_bitrate = ClampBitrate(a, DecreasedBitrate(a, throughput)),
                  !.initialized = TRUE,
                  !.link_capacity = UpdatedCapacity(capacity, throughput),
                  !.time_last_change = t,
                  !.time_last_decrease = t]

\* ChangeBitrate in the state kRcDecrease.
Decreased(a, throughput, t, deviation) ==
    LET capacity == ResetIf(BelowCapacity(a, throughput, deviation), a)
    IN  [a EXCEPT !.current_bitrate = ClampBitrate(a, DecreasedBitrate(a, throughput)),
                  !.initialized = TRUE,
                  !.link_capacity = UpdatedCapacity(capacity, throughput),
                  !.state = "kRcHold",
                  !.time_last_change = t,
                  !.time_last_decrease = t]

\* ChangeBitrate.
WithBitrate(a, usage, throughput, t, deviation) ==
    LET estimated == IF throughput = NoRate THEN a.latest_throughput ELSE throughput
        b == [a EXCEPT !.latest_throughput = estimated]
        c == WithState(b, usage, t)
    IN  CASE ~b.initialized /\ usage # "kBwOverusing" -> b
          [] (b.initialized \/ usage = "kBwOverusing") /\ c.state = "kRcHold" ->
                [c EXCEPT !.current_bitrate = ClampBitrate(b, @)]
          [] (b.initialized \/ usage = "kBwOverusing") /\ c.state = "kRcIncrease" ->
                Increased(c, estimated, t, deviation)
          [] (b.initialized \/ usage = "kBwOverusing") /\ c.state = "kRcDecrease" ->
                Decreased(c, estimated, t, deviation)

Update(a, input, t, deviation) ==
    WithBitrate(WithFirstEstimate(a, input.estimated_throughput, t),
                input.bw_state, input.estimated_throughput, t, deviation)

=============================================================================
