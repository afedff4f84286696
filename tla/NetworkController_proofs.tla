----------------------- MODULE NetworkController_proofs -----------------------
(***************************************************************************)
(* Proofs about NetworkController: its types, the limits its target keeps, *)
(* that it implements RateLimits, which is all that RateFeedback knows of  *)
(* it, what the caller knows, the loss fraction, and when the target falls *)
(* and rises.  They hold for every value of the constants.                 *)
(***************************************************************************)
EXTENDS NetworkController, SequenceTheorems, FiniteSetTheorems, WellFoundedInduction, TLAPS

Entry == [time : Nat, rate : Nat]

\* The parts of the type invariant that the estimate works with.
LEMMA BweTypes ==
  ASSUME TypeOK
  PROVE  /\ now \in Nat /\ current_target \in Nat /\ receiver_limit \in Nat
         /\ min_configured \in Nat /\ max_configured \in Nat
         /\ min_configured <= max_configured /\ max_configured < PlusInfinity
         /\ PlusInfinity \in Nat /\ DefaultMinBitrate \in Nat /\ DefaultMaxBitrate \in Nat
         /\ DefaultMinBitrate <= DefaultMaxBitrate /\ DefaultMaxBitrate < PlusInfinity
  BY ControllerAssumption, BweAssumption, UnitsAssumption DEF TypeOK, RemoteBitrateReport

\* What UpdateTargetBitrate stores is within the configured limits
\* (send_side_bandwidth_estimation.cc:455-469).
LEMMA CappedWithin ==
  ASSUME TypeOK, NEW bitrate \in Int
  PROVE  /\ Capped(bitrate) \in Nat
         /\ min_configured <= Capped(bitrate) /\ Capped(bitrate) <= max_configured
         /\ Capped(bitrate) = Clamped(bitrate, min_configured, max_configured)
  BY BweTypes DEF Capped, GetUpperLimit, Clamped, Higher, Lower

\* Scaling keeps a rate a rate.
LEMMA RatesStayRates ==
  ASSUME NEW rate \in Nat, NEW fraction \in 0 .. 255
  PROVE  Increased(rate) \in Int /\ Decreased(rate, fraction) \in Int
  <1>1. Increased(rate) \in Int
    <2>1. (rate * 108 + 100 \div 2) \div 100 \in Int
      OBVIOUS
    <2> QED
      BY <2>1, UnitsAssumption DEF Increased, Scaled, Plus, MinusInfinity
  <1>2. Decreased(rate, fraction) \in Int
    <2> DEFINE product == rate * (512 - fraction)
    <2>1. product \in Int
      OBVIOUS
    <2> HIDE DEF product
    <2>2. product \div 512 \in Int /\ (-product) \div 512 \in Int
      BY <2>1
    <2>3. -((-product) \div 512) \in Int
      BY <2>2
    <2> QED
      BY <2>2, <2>3 DEF Decreased, Truncated, Quotient, product
  <1> QED
    BY <1>1, <1>2

\* UpdateMinHistory leaves entries, one at least, and the newest is the target
\* (send_side_bandwidth_estimation.cc:413-431).
LEMMA HistoryType ==
  ASSUME TypeOK
  PROVE  /\ UpdatedMinHistory(now) \in Seq(Entry)
         /\ UpdatedMinHistory(now)[1] \in Entry
  <1> DEFINE h == min_bitrate_history
             newest == [time |-> now, rate |-> current_target]
             first == Cardinality(TooOld(now)) + 1
             last == Len(h) - Cardinality(NotBelowTarget)
             kept == IF first <= last THEN SubSeq(h, first, last) ELSE <<>>
  <1>1. h \in Seq(Entry) /\ newest \in Entry /\ Len(h) \in Nat /\ DOMAIN h = 1 .. Len(h)
    BY BweTypes, LenProperties DEF TypeOK, Entry
  <1>2. ASSUME NEW S, S \subseteq 1 .. Len(h) PROVE Cardinality(S) \in Nat
    <2>1. IsFiniteSet(1 .. Len(h))
      BY <1>1, FS_Interval
    <2>2. IsFiniteSet(S)
      BY <1>2, <2>1, FS_Subset
    <2> QED
      BY <2>2, FS_CardinalityType
  <1>3. Cardinality(TooOld(now)) \in Nat /\ Cardinality(NotBelowTarget) \in Nat
    BY <1>1, <1>2 DEF TooOld, NotBelowTarget
  <1>4. kept \in Seq(Entry)
    <2>1. CASE first <= last
      <3>1. first \in Nat \ {0} /\ last \in Nat /\ last <= Len(h)
        BY <1>1, <1>3, <2>1
      <3>2. \A j \in first .. last : h[j] \in Entry
        BY <1>1, <3>1, ElementOfSeq
      <3> HIDE DEF first, last, h
      <3>3. SubSeq(h, first, last) \in Seq(Entry)
        BY <1>1, <3>1, <3>2
      <3> QED
        BY <2>1, <3>3
    <2>2. CASE ~(first <= last)
      BY <2>2
    <2> QED
      BY <2>1, <2>2
  <1>5. UpdatedMinHistory(now) = Append(kept, newest)
    BY DEF UpdatedMinHistory
  <1> HIDE DEF kept, newest
  <1>6. Append(kept, newest) \in Seq(Entry) /\ Len(Append(kept, newest)) = Len(kept) + 1
    BY <1>1, <1>4, AppendProperties
  <1>7. Append(kept, newest)[1] \in Entry
    <2>1. Len(kept) \in Nat
      BY <1>4, LenProperties
    <2>2. 1 \in 1 .. Len(Append(kept, newest))
      BY <1>6, <2>1
    <2> QED
      BY <1>6, <2>2, ElementOfSeq
  <1> QED
    BY <1>5, <1>6, <1>7

\* The rate control keeps its type, whatever it is told
\* (aimd_rate_control.cc:35-65, :111-114).
LEMMA RateControlTyped ==
  ASSUME NEW a \in Aimd!RateControl, NEW rate \in Nat
  PROVE  /\ Aimd!SetStartBitrate(a, rate) \in Aimd!RateControl
         /\ Aimd!SetRtt(a, rate) \in Aimd!RateControl
         /\ Aimd!SetMinBitrate(a, rate) \in Aimd!RateControl
         /\ Aimd!SetMinBitrate(a, rate).min_configured = rate
         /\ rate <= Aimd!SetMinBitrate(a, rate).current_bitrate
  <1> USE DEF Aimd!RateControl
  <1>1. ASSUME NEW b \in Aimd!RateControl, NEW r \in Nat
        PROVE  /\ [b EXCEPT !.current_bitrate = r] \in Aimd!RateControl
               /\ [b EXCEPT !.latest_throughput = r] \in Aimd!RateControl
               /\ [b EXCEPT !.initialized = TRUE] \in Aimd!RateControl
               /\ [b EXCEPT !.min_configured = r] \in Aimd!RateControl
               /\ [b EXCEPT !.rtt = r] \in Aimd!RateControl
    BY <1>1
  <1>2. Aimd!SetRtt(a, rate) \in Aimd!RateControl
    BY <1>1 DEF Aimd!SetRtt
  <1>3. Aimd!SetStartBitrate(a, rate) \in Aimd!RateControl
    <2> DEFINE b == [a EXCEPT !.current_bitrate = rate]
               c == [b EXCEPT !.latest_throughput = rate]
               d == [c EXCEPT !.initialized = TRUE]
    <2>1. b \in Aimd!RateControl
      BY <1>1
    <2>2. c \in Aimd!RateControl
      BY <1>1, <2>1
    <2>3. d \in Aimd!RateControl
      BY <1>1, <2>2
    <2>4. Aimd!SetStartBitrate(a, rate) = d
      BY Zenon DEF Aimd!SetStartBitrate
    <2> QED
      BY <2>3, <2>4
  <1> DEFINE least == IF rate > a.current_bitrate THEN rate ELSE a.current_bitrate
             low == [a EXCEPT !.min_configured = rate]
  <1>4. /\ least \in Nat /\ rate <= least
        /\ Aimd!SetMinBitrate(a, rate) = [low EXCEPT !.current_bitrate = least]
    <2>1. a.current_bitrate \in Nat
      OBVIOUS
    <2>2. least \in Nat /\ rate <= least
      BY <2>1
    <2>3. Aimd!SetMinBitrate(a, rate) = [low EXCEPT !.current_bitrate = least]
      BY DEF Aimd!SetMinBitrate, Aimd!Higher
    <2> QED
      BY <2>2, <2>3
  <1>5. low \in Aimd!RateControl /\ low.min_configured = rate
    BY <1>1
  <1> HIDE DEF least, low
  <1>6. /\ Aimd!SetMinBitrate(a, rate) \in Aimd!RateControl
        /\ Aimd!SetMinBitrate(a, rate).min_configured = rate
        /\ Aimd!SetMinBitrate(a, rate).current_bitrate = least
    BY <1>1, <1>4, <1>5
  <1> QED
    BY <1>2, <1>3, <1>4, <1>6

\* The rate control the controller is constructed with
\* (goog_cc_network_control.cc:64-85).
LEMMA InitialRateControl ==
  /\ Aimd!SetMinBitrate(Aimd!InitialAimd, DefaultMinBitrate) \in Aimd!RateControl
  /\ Aimd!SetMinBitrate(Aimd!InitialAimd, DefaultMinBitrate).min_configured = DefaultMinBitrate
  /\ DefaultMinBitrate <= Aimd!SetMinBitrate(Aimd!InitialAimd, DefaultMinBitrate).current_bitrate
  <1>1. Aimd!InitialAimd \in Aimd!RateControl
    BY ControllerAssumption, BweAssumption, UnitsAssumption
       DEF Aimd!InitialAimd, Aimd!RateControl, Aimd!Never, Aimd!MinusInfinity, Aimd!NoRate
  <1> QED
    BY <1>1, BweAssumption, RateControlTyped

\* What the configuration gives is numbers, set or not.
LEMMA ConfigTyped ==
  LET config == Config.stream_based_config
  IN  /\ ValueOr(config.pacing_factor, 25) \in Int
      /\ ValueOr(config.min_total_allocated_bitrate, 0) \in Int
      /\ ValueOr(config.max_padding_rate, 0) \in Int
      /\ StartingRates \subseteq Int
  <1> DEFINE config == Config.stream_based_config
  <1>1. config \in StreamsConfig /\ Config.constraints \in TargetRateConstraints
    BY ControllerAssumption DEF NetworkControllerConfig
  <1> HIDE DEF config
  <1>2. /\ config.pacing_factor \in Int
        /\ config.min_total_allocated_bitrate \in Int
        /\ config.max_padding_rate \in Int
    BY <1>1, UnitsAssumption DEF StreamsConfig, NoRate
  <1>3. Config.constraints.start \in Int
    BY <1>1, UnitsAssumption DEF TargetRateConstraints, NoRate
  <1>4. StartingRates \subseteq Int
    BY <1>3, ControllerAssumption DEF StartingRates
  <1> QED
    BY <1>2, <1>4 DEF ValueOr, config

\* What a rate lets through in a second is a number (common/data_rate.h:100-104).
LEMMA TransferredTyped ==
  ASSUME NEW rate \in Int
  PROVE  Transferred(rate, 1, 1) \in Int
  <1> DEFINE product == rate * 1 + 4 * 1
  <1>1. product \in Int
    OBVIOUS
  <1> HIDE DEF product
  <1>2. product \div 8 \in Int /\ (-product) \div 8 \in Int
    BY <1>1
  <1>3. -((-product) \div 8) \in Int
    BY <1>2
  <1>4. Transferred(rate, 1, 1) = IF product >= 0 THEN product \div 8 ELSE -((-product) \div 8)
    BY DEF Transferred, Quotient, product
  <1> QED
    BY <1>2, <1>3, <1>4

\* The windows computed from rates are numbers (goog_cc_network_control.cc:369-383).
LEMMA PacerTyped ==
  ASSUME NEW rates \in TargetTransferRate
  PROVE  GetPacingRates(rates) \in PacerConfig
  <1> DEFINE factor == ValueOr(Config.stream_based_config.pacing_factor, 25)
             least == ValueOr(Config.stream_based_config.min_total_allocated_bitrate, 0)
             padding == ValueOr(Config.stream_based_config.max_padding_rate, 0)
             base == Higher(least, rates.target)
             product == base * factor + 10 \div 2
  <1>1. factor \in Int /\ least \in Int /\ padding \in Int
    BY ConfigTyped
  <1>2. rates.target \in Int
    BY DEF TargetTransferRate
  <1>3. PacingRate(rates) = product \div 10 /\ PaddingRate(rates) = Lower(padding, rates.target)
    BY DEF PacingRate, PaddingRate, Scaled
  <1> HIDE DEF factor, least, padding
  <1>4. base \in Int
    BY <1>1, <1>2 DEF Higher
  <1> HIDE DEF base
  <1>5. product \in Int
    BY <1>1, <1>4
  <1> HIDE DEF product
  <1>6. PacingRate(rates) \in Int
    BY <1>3, <1>5
  <1>7. PaddingRate(rates) \in Int
    BY <1>1, <1>2, <1>3 DEF Lower
  <1> QED
    BY <1>6, <1>7, TransferredTyped DEF GetPacingRates, PacerConfig

\* Without a reduction the expected period is the default one.
LEMMA PeriodFixed ==
  GetExpectedBwePeriod = 3 * Second /\ GetExpectedBwePeriod' = 3 * Second
  BY DEF GetExpectedBwePeriod, Aimd!GetExpectedBandwidthPeriod, Aimd!HasValue, Aimd!NoRate,
         NoRate

\* What the controller publishes is well typed
\* (goog_cc_network_control.cc:325-367).
LEMMA PublishTyped ==
  ASSUME TypeOK, Publish,
         min_configured' \in Nat, current_target' \in Nat, receiver_limit' \in Nat,
         link_capacity' \in Nat, last_fraction_loss' \in 0 .. 255,
         last_round_trip_time' \in Nat
  PROVE  /\ last_published' \in TargetTransferRate
         /\ announced' \in {NoUpdate} \cup NetworkControlUpdate
  <1>1. TargetRate' \in Int
    BY DEF TargetRate, Higher, Lower
  <1>2. Current' \in TargetTransferRate
    BY <1>1 DEF Current, GetEstimatedLinkCapacity, TargetTransferRate, Lower
  <1>3. CASE Changed
    <2>1. /\ last_published' = Current'
          /\ announced' = [ rates |-> Current', pacer |-> GetPacingRates(last_published'),
                            bwe_period |-> GetExpectedBwePeriod' ]
      BY <1>3 DEF Publish
    <2>2. GetPacingRates(last_published') \in PacerConfig
      BY <1>2, <2>1, PacerTyped
    <2>3. GetExpectedBwePeriod' \in Nat
      BY PeriodFixed, ControllerAssumption
    <2> QED
      BY <1>2, <2>1, <2>2, <2>3 DEF NetworkControlUpdate
  <1>4. CASE ~Changed
    BY <1>4 DEF Publish, TypeOK
  <1> QED
    BY <1>3, <1>4

\* The initial state is well typed.
LEMMA InitTyped == Init => TypeOK
  <1> SUFFICES ASSUME Init PROVE TypeOK
    OBVIOUS
  <1>1. <<>> \in Seq(Entry)
    OBVIOUS
  <1>2. min_bitrate_history \in Seq(Entry)
    BY <1>1 DEF Init, BweInit
  <1>3. /\ now = 0 /\ messages = 0 /\ calls = 0 /\ current_target = InitialTarget
        /\ min_configured = DefaultMinBitrate /\ max_configured = DefaultMaxBitrate
        /\ receiver_limit = PlusInfinity /\ lost_packets = 0 /\ expected_packets = 0
        /\ last_fraction_loss = 0 /\ has_decreased = FALSE
        /\ time_last_decrease = Never /\ first_report_time = Never
        /\ last_round_trip_time = 0 /\ link_capacity = 0
    BY DEF Init, BweInit, CapacityInit
  <1>4. /\ MaxTime \in Nat /\ LimitNumPackets \in Nat \ {0}
        /\ DefaultMinBitrate \in Nat /\ DefaultMaxBitrate \in Nat /\ InitialTarget \in Nat
        /\ DefaultMinBitrate <= DefaultMaxBitrate /\ DefaultMaxBitrate < PlusInfinity
    BY ControllerAssumption, BweAssumption, UnitsAssumption
  <1>5. /\ now \in 0 .. MaxTime
        /\ expected_packets \in 0 .. (LimitNumPackets - 1)
        /\ lost_packets \in 0 .. expected_packets
        /\ last_fraction_loss \in 0 .. 255
        /\ messages \in Nat /\ calls \in Nat
        /\ last_round_trip_time \in RoundTripTimeUpdate /\ link_capacity \in Nat
        /\ DefaultMinBitrate <= min_configured /\ min_configured <= max_configured
        /\ max_configured < PlusInfinity
    BY <1>3, <1>4, UnitsAssumption DEF RoundTripTimeUpdate
  <1>6. delay_based \in Aimd!RateControl
    BY InitialRateControl DEF Init
  <1>7. last_published \in TargetTransferRate
    BY ConfigTyped, UnitsAssumption DEF Init, TargetTransferRate
  <1>8. announced \in {NoUpdate} \cup NetworkControlUpdate
    BY DEF Init
  <1> QED
    BY <1>2, <1>3, <1>4, <1>5, <1>6, <1>7, <1>8 DEF TypeOK, Entry

\* What an estimate changes keeps its type, and the target its limits
\* (send_side_bandwidth_estimation.cc:316-397).
LEMMA EstimateTyped ==
  ASSUME TypeOK, NEW fraction \in 0 .. 255, NEW first, UpdateEstimate(now, fraction, first)
  PROVE  /\ current_target' \in Nat
         /\ min_configured <= current_target' /\ current_target' <= max_configured
         /\ min_bitrate_history' \in Seq(Entry)
         /\ last_fraction_loss' \in 0 .. 255
         /\ has_decreased' \in BOOLEAN
         /\ time_last_decrease' \in {Never} \cup (0 .. now)
  <1>1. last_fraction_loss' \in 0 .. 255
    BY DEF UpdateEstimate
  <1>2. time_last_decrease \in {Never} \cup (0 .. now) /\ now \in 0 .. now
    BY BweTypes DEF TypeOK
  <1>3. CASE FollowsReceiverLimit(now, fraction, first)
    <2>1. /\ min_bitrate_history' = <<[time |-> now, rate |-> current_target]>>
          /\ current_target' = Capped(StartPhaseTarget)
          /\ has_decreased' = FALSE /\ time_last_decrease' = time_last_decrease
      BY <1>3 DEF UpdateEstimate
    <2>2. StartPhaseTarget \in Int
      BY BweTypes DEF StartPhaseTarget, Higher
    <2>3. [time |-> now, rate |-> current_target] \in Entry
      BY BweTypes DEF Entry
    <2>4. min_bitrate_history' \in Seq(Entry)
      BY <2>1, <2>3
    <2> QED
      BY <1>1, <1>2, <2>1, <2>2, <2>4, CappedWithin
  <1>4. CASE ~FollowsReceiverLimit(now, fraction, first)
    <2>1. min_bitrate_history' = UpdatedMinHistory(now)
      BY <1>4 DEF UpdateEstimate
    <2>2. \/ Raise(UpdatedMinHistory(now)[1].rate)
          \/ Reduce(now, fraction)
          \/ Keep
      BY <1>4 DEF UpdateEstimate
    <2>3. /\ current_target' \in Nat
          /\ min_configured <= current_target' /\ current_target' <= max_configured
      <3>1. UpdatedMinHistory(now)[1].rate \in Nat
        BY HistoryType DEF Entry
      <3>2. PICK rate \in Int : current_target' = Capped(rate)
        <4>1. /\ Increased(UpdatedMinHistory(now)[1].rate) \in Int
              /\ Decreased(current_target, fraction) \in Int
              /\ current_target \in Int
          <5>1. 0 \in 0 .. 255
            OBVIOUS
          <5>2. Increased(UpdatedMinHistory(now)[1].rate) \in Int
            BY <3>1, <5>1, RatesStayRates
          <5>3. current_target \in Nat
            BY BweTypes
          <5>4. Decreased(current_target, fraction) \in Int
            BY <5>3, RatesStayRates
          <5> QED
            BY <5>2, <5>3, <5>4
        <4> QED
          BY <2>2, <4>1 DEF Raise, Reduce, Keep
      <3> QED
        BY <3>2, CappedWithin
    <2>4. has_decreased' \in BOOLEAN /\ time_last_decrease' \in {Never} \cup (0 .. now)
      BY <1>2, <2>2 DEF Raise, Reduce, Keep
    <2> QED
      BY <1>1, <2>1, <2>3, <2>4, HistoryType
  <1> QED
    BY <1>3, <1>4

\* A receiver report either is accumulated and nothing else, or makes an
\* estimate (send_side_bandwidth_estimation.cc:248-280).
LEMMA ReportTyped ==
  ASSUME TypeOK, NEW report \in LossReports, UpdatePacketsLost(now, report)
  PROVE  /\ current_target' \in Nat
         /\ \/ /\ current_target' = current_target /\ expected_packets' # 0
            \/ /\ min_configured <= current_target' /\ current_target' <= max_configured
               /\ expected_packets' = 0
         /\ min_bitrate_history' \in Seq(Entry)
         /\ expected_packets' \in 0 .. (LimitNumPackets - 1)
         /\ lost_packets' \in 0 .. expected_packets'
         /\ last_fraction_loss' \in 0 .. 255
         /\ has_decreased' \in BOOLEAN
         /\ time_last_decrease' \in {Never} \cup (0 .. now)
         /\ first_report_time' \in {Never} \cup (0 .. now)
  <1> DEFINE lost == lost_packets + report.lost
             expected == expected_packets + report.lost + report.received
             first == IF IsInfinite(first_report_time) THEN now ELSE first_report_time
  <1>1. /\ report.lost \in Nat /\ report.received \in Nat \ {0}
        /\ LimitNumPackets \in Nat \ {0}
        /\ expected_packets \in 0 .. (LimitNumPackets - 1)
        /\ lost_packets \in 0 .. expected_packets
    BY ControllerAssumption, BweAssumption DEF TypeOK, TransportLossReport
  <1>2. lost \in 0 .. expected /\ expected \in Nat \ {0}
    BY <1>1
  <1>3. first_report_time' \in {Never} \cup (0 .. now)
    BY BweTypes DEF UpdatePacketsLost, TypeOK
  <1>4. CASE expected < LimitNumPackets
    <2>1. /\ lost_packets' = lost /\ expected_packets' = expected
          /\ UNCHANGED <<current_target, min_bitrate_history, last_fraction_loss,
                         has_decreased, time_last_decrease>>
      BY <1>1, <1>4 DEF UpdatePacketsLost, lossVars
    <2>2. /\ current_target \in Nat /\ min_bitrate_history \in Seq(Entry)
          /\ last_fraction_loss \in 0 .. 255 /\ has_decreased \in BOOLEAN
          /\ time_last_decrease \in {Never} \cup (0 .. now)
      BY DEF TypeOK, Entry
    <2> HIDE DEF lost, expected
    <2>3. /\ expected_packets' \in 0 .. (LimitNumPackets - 1) /\ expected_packets' # 0
          /\ lost_packets' \in 0 .. expected_packets'
      BY <1>1, <1>2, <1>4, <2>1
    <2> QED
      BY <1>3, <2>1, <2>2, <2>3
  <1>5. CASE expected >= LimitNumPackets
    <2>1. /\ lost_packets' = 0 /\ expected_packets' = 0
          /\ UpdateEstimate(now, FractionLoss(lost, expected), first)
      BY <1>1, <1>2, <1>5 DEF UpdatePacketsLost
    <2>2. FractionLoss(lost, expected) \in 0 .. 255
      <3> HIDE DEF lost, expected
      <3>1. (lost * 256) \div expected \in Nat
        BY <1>2
      <3> QED
        BY <3>1 DEF FractionLoss, Lower
    <2>3. /\ current_target' \in Nat
          /\ min_configured <= current_target' /\ current_target' <= max_configured
          /\ min_bitrate_history' \in Seq(Entry)
          /\ last_fraction_loss' \in 0 .. 255
          /\ has_decreased' \in BOOLEAN
          /\ time_last_decrease' \in {Never} \cup (0 .. now)
      BY <2>1, <2>2, EstimateTyped
    <2>4. expected_packets' \in 0 .. (LimitNumPackets - 1) /\ lost_packets' \in 0 .. expected_packets'
      BY <1>1, <2>1
    <2> QED
      BY <1>3, <2>1, <2>3, <2>4
  <1> QED
    BY <1>1, <1>2, <1>4, <1>5

\* New limits keep their order and a minimum of the default
\* (goog_cc_network_control.cc:161-190, send_side_bandwidth_estimation.cc:170-201).
LEMMA ConstraintsTyped ==
  ASSUME TypeOK, NEW new \in Constraints, ResetConstraints(new)
  PROVE  /\ min_configured' \in Nat /\ max_configured' \in Nat
         /\ DefaultMinBitrate <= min_configured' /\ min_configured' <= max_configured'
         /\ max_configured' < PlusInfinity
         /\ current_target' \in Nat
         /\ \/ /\ ~HasValue(new.start) /\ current_target' = current_target
               /\ min_bitrate_history' = min_bitrate_history /\ link_capacity' = link_capacity
            \/ /\ HasValue(new.start)
               /\ min_configured' <= current_target' /\ current_target' <= max_configured'
               /\ min_bitrate_history' = <<>> /\ link_capacity' \in Nat
  <1> DEFINE c == ClampConstraints(ValueOr(new.min, 0), ValueOr(new.max, PlusInfinity), new.start)
             low == c.min
             high == c.max
             start == c.start
  <1>1. /\ new.min \in NoRate .. DefaultMaxBitrate
        /\ new.max \in NoRate .. PlusInfinity
        /\ new.start \in NoRate .. PlusInfinity
    BY ControllerAssumption DEF TargetRateConstraints
  <1>2. /\ low \in Nat /\ high \in Nat
        /\ DefaultMinBitrate <= low /\ low <= DefaultMaxBitrate /\ low <= high
        /\ high <= PlusInfinity
        /\ IF HasValue(new.start) THEN start \in Nat ELSE start = NoRate
    BY <1>1, BweTypes DEF ClampConstraints, ValueOr, HasValue, Higher, NoRate
  <1>3. SetBitrates(start, low, high)
    BY DEF ResetConstraints
  <1> HIDE DEF c, low, high, start
  <1>4. /\ min_configured' \in Nat /\ max_configured' \in Nat
        /\ DefaultMinBitrate <= min_configured' /\ min_configured' <= max_configured'
        /\ max_configured' < PlusInfinity
    <2>1. SetMinMaxBitrate(low, high)
      BY <1>3 DEF SetBitrates
    <2>2. min_configured' = low
      BY <1>2, <2>1, BweTypes DEF SetMinMaxBitrate, Higher
    <2>3. max_configured' = IF high > 0 /\ high < PlusInfinity THEN high ELSE DefaultMaxBitrate
      <3>1. IsFinite(high) <=> high < PlusInfinity
        BY <1>2, UnitsAssumption DEF IsFinite, IsInfinite, MinusInfinity
      <3> QED
        BY <1>2, <2>1, <2>2, <3>1 DEF SetMinMaxBitrate, Higher
    <2> QED
      BY <1>2, <2>2, <2>3, BweTypes
  <1>5. CASE HasValue(new.start)
    <2>1. start \in Nat /\ HasValue(start)
      BY <1>2, <1>5 DEF HasValue, NoRate
    <2>2. SetSendBitrate(start)
      BY <1>3, <2>1 DEF SetBitrates
    <2>3. /\ current_target' = Clamped(start, min_configured', max_configured')
          /\ min_bitrate_history' = <<>> /\ link_capacity' = start
      BY <2>2 DEF SetSendBitrate, OnStartingRate
    <2>4. /\ current_target' \in Nat
          /\ min_configured' <= current_target' /\ current_target' <= max_configured'
      BY <1>4, <2>1, <2>3 DEF Clamped, Higher, Lower
    <2> QED
      BY <1>4, <1>5, <2>1, <2>3, <2>4
  <1>6. CASE ~HasValue(new.start)
    <2>1. UNCHANGED <<current_target, min_bitrate_history, link_capacity>>
      BY <1>2, <1>3, <1>6 DEF SetBitrates, HasValue
    <2> QED
      BY <1>4, <1>6, <2>1, BweTypes
  <1> QED
    BY <1>5, <1>6

\* New constraints give both estimators the same minimum, and the delay-based
\* one a bitrate that is not below it (goog_cc_network_control.cc:161-190).
LEMMA RateControlAgrees ==
  ASSUME TypeOK, NEW new \in Constraints, ResetConstraints(new)
  PROVE  /\ delay_based' \in Aimd!RateControl
         /\ delay_based'.min_configured = min_configured'
         /\ min_configured' <= delay_based'.current_bitrate
  <1> DEFINE c == ClampConstraints(ValueOr(new.min, 0), ValueOr(new.max, PlusInfinity), new.start)
             low == c.min
             high == c.max
             start == c.start
             started == IF HasValue(start)
                        THEN Aimd!SetStartBitrate(delay_based, start) ELSE delay_based
  <1>1. /\ new.min \in NoRate .. DefaultMaxBitrate
        /\ new.max \in NoRate .. PlusInfinity
        /\ new.start \in NoRate .. PlusInfinity
    BY ControllerAssumption DEF TargetRateConstraints
  <1>2. /\ low \in Nat /\ DefaultMinBitrate <= low
        /\ start \in Nat \/ start = NoRate
    BY <1>1, BweTypes DEF ClampConstraints, ValueOr, HasValue, Higher, NoRate
  <1>3. /\ SetMinMaxBitrate(low, high)
        /\ delay_based' = Aimd!SetMinBitrate(started, low)
    BY DEF ResetConstraints, SetBitrates
  <1> HIDE DEF c, low, high, start
  <1>4. min_configured' = low
    BY <1>2, <1>3, BweTypes DEF SetMinMaxBitrate, Higher
  <1>5. started \in Aimd!RateControl
    <2>1. delay_based \in Aimd!RateControl
      BY DEF TypeOK
    <2>2. CASE HasValue(start)
      BY <1>2, <2>1, <2>2, RateControlTyped DEF HasValue, NoRate
    <2>3. CASE ~HasValue(start)
      BY <2>1, <2>3
    <2> QED
      BY <2>2, <2>3
  <1> HIDE DEF started
  <1> QED
    BY <1>2, <1>3, <1>4, <1>5, RateControlTyped

\* Every step keeps the types, action by action.
LEMMA StepTyped == TypeOK /\ [Next]_vars => TypeOK'
  <1> SUFFICES ASSUME TypeOK, [Next]_vars PROVE TypeOK'
    OBVIOUS
  <1> USE DEF TypeOK, configuredVars, accumulatorVars, lossVars, controllerVars
  <1>1. CASE Tick
    <2>1. now' \in 0 .. MaxTime /\ messages' \in Nat
      BY <1>1, ControllerAssumption DEF Tick
    <2>2. /\ time_last_decrease' \in {Never} \cup (0 .. now')
          /\ first_report_time' \in {Never} \cup (0 .. now')
      BY <1>1 DEF Tick, bweVars
    <2> QED
      BY <1>1, <2>1, <2>2 DEF Tick, bweVars
  <1>2. ASSUME NEW report \in LossReports, OnTransportLossReport(report) PROVE TypeOK'
    <2>1. /\ now' = now /\ messages' \in Nat /\ calls' = calls
          /\ UpdatePacketsLost(now, report)
      BY <1>2 DEF OnTransportLossReport, HandleMessage
    <2>2. UNCHANGED <<receiver_limit, last_round_trip_time, link_capacity, configuredVars>>
      BY <2>1 DEF UpdatePacketsLost
    <2>3. UNCHANGED <<delay_based, last_published, announced>>
      BY <1>2 DEF OnTransportLossReport
    <2> QED
      BY <2>1, <2>2, <2>3, ReportTyped DEF Entry
  <1>3. ASSUME NEW rate \in RembRates, OnRemoteBitrateReport(rate) PROVE TypeOK'
    <2>1. /\ now' = now /\ messages' \in Nat /\ calls' = calls
          /\ UpdateReceiverEstimate(rate)
      BY <1>3 DEF OnRemoteBitrateReport, HandleMessage
    <2>2. current_target' \in Nat
      BY <2>1, CappedWithin, BweTypes DEF UpdateReceiverEstimate
    <2>3. receiver_limit' \in (RembRates \ {0}) \cup {PlusInfinity}
      BY <2>1 DEF UpdateReceiverEstimate
    <2>4. UNCHANGED <<delay_based, last_published, announced>>
      BY <1>3 DEF OnRemoteBitrateReport
    <2> QED
      BY <2>1, <2>2, <2>3, <2>4 DEF UpdateReceiverEstimate
  <1>4. ASSUME NEW rtt \in Rtts, OnRoundTripTimeUpdate(rtt) PROVE TypeOK'
    <2>1. /\ now' = now /\ messages' = messages /\ calls' \in Nat /\ UpdateRtt(rtt)
      BY <1>4 DEF OnRoundTripTimeUpdate, HandleCall
    <2>2. last_round_trip_time' \in RoundTripTimeUpdate
      BY <2>1, ControllerAssumption DEF UpdateRtt
    <2>3. delay_based' \in Aimd!RateControl
      <3>1. rtt \in Nat
        BY ControllerAssumption, UnitsAssumption DEF RoundTripTimeUpdate
      <3>2. delay_based' = Aimd!SetRtt(delay_based, rtt)
        BY <1>4 DEF OnRoundTripTimeUpdate
      <3> QED
        BY <3>1, <3>2, RateControlTyped
    <2>4. UNCHANGED <<last_published, announced>>
      BY <1>4 DEF OnRoundTripTimeUpdate
    <2> QED
      BY <2>1, <2>2, <2>3, <2>4 DEF UpdateRtt
  <1>5. ASSUME NEW new \in Constraints, OnTargetRateConstraints(new) PROVE TypeOK'
    <2>1. /\ now' = now /\ messages' = messages /\ calls' \in Nat /\ ResetConstraints(new)
      BY <1>5 DEF OnTargetRateConstraints, HandleCall
    <2>2. UNCHANGED <<receiver_limit, last_round_trip_time, accumulatorVars, lossVars>>
      BY <2>1 DEF ResetConstraints, SetBitrates
    <2>3. min_bitrate_history' \in Seq([time : Nat, rate : Nat])
      <3>1. min_bitrate_history' = min_bitrate_history \/ min_bitrate_history' = <<>>
        BY <2>1, ConstraintsTyped
      <3>2. <<>> \in Seq([time : Nat, rate : Nat])
        OBVIOUS
      <3>3. min_bitrate_history \in Seq([time : Nat, rate : Nat])
        OBVIOUS
      <3> HIDE DEF TypeOK
      <3> QED
        BY <3>1, <3>2, <3>3
    <2>4. link_capacity' \in Nat
      BY <2>1, ConstraintsTyped
    <2>5. delay_based' \in Aimd!RateControl
      BY <2>1, RateControlAgrees
    <2>6. /\ last_published' \in TargetTransferRate
          /\ announced' \in {NoUpdate} \cup NetworkControlUpdate
      <3>1. Publish
        BY <1>5 DEF OnTargetRateConstraints
      <3>2. /\ min_configured' \in Nat /\ current_target' \in Nat
            /\ receiver_limit' \in Nat
            /\ last_fraction_loss' \in 0 .. 255 /\ last_round_trip_time' \in Nat
        BY <2>1, <2>2, ConstraintsTyped, BweTypes DEF RoundTripTimeUpdate
      <3> QED
        BY <2>4, <3>1, <3>2, PublishTyped
    <2> QED
      BY <2>1, <2>2, <2>3, <2>4, <2>5, <2>6, ConstraintsTyped
  <1>6. CASE UNCHANGED vars
    BY <1>6 DEF vars, bweVars
  <1> QED
    BY <1>1, <1>2, <1>3, <1>4, <1>5, <1>6 DEF Next

\* Every variable keeps its type: the limits stay in order and the accumulated
\* counts below one estimate's, whatever is reported and whatever is set.
THEOREM ControllerTypeCorrect == Spec => []TypeOK
  BY InitTyped, StepTyped, PTL DEF Spec

-----------------------------------------------------------------------------

\* The initial target lies within the default limits.
LEMMA InitWithin == Init => TargetWithinLimits
  BY BweAssumption DEF Init, BweInit, TargetWithinLimits

\* Every step keeps the target within the limits, or leaves the new limits
\* unapplied.
LEMMA StepWithin == TypeOK /\ TargetWithinLimits /\ [Next]_vars => TargetWithinLimits'
  <1> SUFFICES ASSUME TypeOK, TargetWithinLimits, [Next]_vars PROVE TargetWithinLimits'
    OBVIOUS
  <1> USE DEF configuredVars, accumulatorVars, lossVars
  <1>1. CASE UNCHANGED <<current_target, configuredVars, unapplied>>
    BY <1>1 DEF TargetWithinLimits
  <1>2. CASE Tick
    BY <1>1, <1>2 DEF Tick, bweVars, historyVars
  <1>3. ASSUME NEW report \in LossReports, OnTransportLossReport(report)
        PROVE  TargetWithinLimits'
    <2>1. /\ UpdatePacketsLost(now, report) /\ UNCHANGED configuredVars
          /\ unapplied' = (unapplied /\ expected_packets' # 0)
      BY <1>3 DEF OnTransportLossReport, UpdatePacketsLost
    <2>2. \/ current_target' = current_target /\ expected_packets' # 0
          \/ min_configured <= current_target' /\ current_target' <= max_configured
      BY <2>1, ReportTyped
    <2> QED
      BY <2>1, <2>2 DEF TargetWithinLimits
  <1>4. ASSUME NEW rate \in RembRates, OnRemoteBitrateReport(rate)
        PROVE  TargetWithinLimits'
    <2>1. current_target' = Capped(current_target) /\ UNCHANGED configuredVars
      BY <1>4 DEF OnRemoteBitrateReport, UpdateReceiverEstimate
    <2> QED
      BY <2>1, CappedWithin, BweTypes DEF TargetWithinLimits
  <1>5. ASSUME NEW rtt \in Rtts, OnRoundTripTimeUpdate(rtt)
        PROVE  TargetWithinLimits'
    BY <1>1, <1>5 DEF OnRoundTripTimeUpdate, UpdateRtt
  <1>6. ASSUME NEW new \in Constraints, OnTargetRateConstraints(new)
        PROVE  TargetWithinLimits'
    <2>1. ResetConstraints(new) /\ unapplied' = ~HasValue(new.start)
      BY <1>6 DEF OnTargetRateConstraints
    <2> QED
      BY <2>1, ConstraintsTyped DEF TargetWithinLimits
  <1>7. CASE UNCHANGED vars
    BY <1>1, <1>7 DEF vars, bweVars, historyVars
  <1> QED
    BY <1>2, <1>3, <1>4, <1>5, <1>6, <1>7 DEF Next

\* The target is within the configured limits, unless they were changed without
\* a rate to start from and nothing has applied them yet
\* (send_side_bandwidth_estimation.cc:170-201, :455-469).
THEOREM TargetLimited == Spec => []TargetWithinLimits
  BY ControllerTypeCorrect, InitWithin, StepWithin, PTL DEF Spec

-----------------------------------------------------------------------------

\* The controller starts as RateLimits does.
LEMMA InitLimits == Init => Limits!Init
  BY BweAssumption DEF Init, BweInit, Limits!Init

\* Every step of the controller is a step of RateLimits, or does not concern it.
LEMMA StepLimits == TypeOK /\ [Next]_vars => [Limits!Next]_Limits!limitsVars
  <1> SUFFICES ASSUME TypeOK, [Next]_vars
               PROVE  Limits!Next \/ UNCHANGED Limits!limitsVars
    OBVIOUS
  <1> USE DEF configuredVars, accumulatorVars, lossVars
  <1>1. CASE UNCHANGED <<current_target, receiver_limit, configuredVars>>
    BY <1>1 DEF Limits!limitsVars
  <1>2. CASE Tick
    BY <1>1, <1>2 DEF Tick, bweVars
  <1>3. ASSUME NEW report \in LossReports, OnTransportLossReport(report)
        PROVE  Limits!Next
    <2>1. UpdatePacketsLost(now, report) /\ UNCHANGED <<receiver_limit, configuredVars>>
      BY <1>3 DEF OnTransportLossReport, UpdatePacketsLost
    <2>2. /\ current_target' \in Nat
          /\ \/ current_target' = current_target
             \/ min_configured <= current_target' /\ current_target' <= max_configured
      BY <2>1, ReportTyped
    <2> QED
      BY <2>1, <2>2 DEF Limits!Next, Limits!Report
  <1>4. ASSUME NEW rate \in RembRates, OnRemoteBitrateReport(rate)
        PROVE  Limits!Next
    <2>1. /\ current_target' = Capped(current_target) /\ UNCHANGED configuredVars
          /\ receiver_limit' = IF rate = 0 THEN PlusInfinity ELSE rate
      BY <1>4 DEF OnRemoteBitrateReport, UpdateReceiverEstimate
    <2>2. current_target' = Clamped(current_target, min_configured, max_configured)
      BY <2>1, CappedWithin, BweTypes
    <2>3. Limits!Remb(rate)
      BY <2>1, <2>2
         DEF Limits!Remb, Limits!Clamped, Limits!Higher, Limits!Lower, Clamped, Higher, Lower
    <2> QED
      BY <2>1, <2>3 DEF Limits!Next
  <1>5. ASSUME NEW rtt \in Rtts, OnRoundTripTimeUpdate(rtt)
        PROVE  UNCHANGED Limits!limitsVars
    BY <1>5 DEF OnRoundTripTimeUpdate, UpdateRtt, Limits!limitsVars
  <1>6. ASSUME NEW new \in Constraints, OnTargetRateConstraints(new)
        PROVE  Limits!Next
    <2>1. ResetConstraints(new) /\ UNCHANGED receiver_limit
      BY <1>6 DEF OnTargetRateConstraints, ResetConstraints, SetBitrates
    <2> QED
      BY <2>1, ConstraintsTyped DEF Limits!Next, Limits!Constrain
  <1>7. CASE UNCHANGED vars
    BY <1>1, <1>7 DEF vars, bweVars
  <1> QED
    BY <1>2, <1>3, <1>4, <1>5, <1>6, <1>7 DEF Next

\* The controller implements what RateFeedback takes it to do: a report moves
\* the target within the limits or not at all, a REMB moves the limit, and only
\* new constraints change what the target is held to
\* (goog_cc_network_control.cc:107-201).
THEOREM ImplementsLimits == Spec => LimitsSpec
  BY ControllerTypeCorrect, InitLimits, StepLimits, PTL DEF Spec, LimitsSpec, Limits!Spec

-----------------------------------------------------------------------------

\* The two estimators start with the same minimum.
LEMMA InitAgree == Init => EstimatorsAgree
  BY InitialRateControl DEF Init, BweInit, EstimatorsAgree

\* Only new constraints move a minimum, and they move both.
LEMMA StepAgree == TypeOK /\ EstimatorsAgree /\ [Next]_vars => EstimatorsAgree'
  <1> SUFFICES ASSUME TypeOK, EstimatorsAgree, [Next]_vars PROVE EstimatorsAgree'
    OBVIOUS
  <1> USE DEF configuredVars, accumulatorVars, lossVars, controllerVars
  <1>1. CASE UNCHANGED <<delay_based, min_configured>>
    BY <1>1 DEF EstimatorsAgree
  <1>2. CASE Tick
    BY <1>1, <1>2 DEF Tick, bweVars
  <1>3. ASSUME NEW report \in LossReports, OnTransportLossReport(report)
        PROVE  EstimatorsAgree'
    BY <1>1, <1>3 DEF OnTransportLossReport, UpdatePacketsLost
  <1>4. ASSUME NEW rate \in RembRates, OnRemoteBitrateReport(rate)
        PROVE  EstimatorsAgree'
    BY <1>1, <1>4 DEF OnRemoteBitrateReport, UpdateReceiverEstimate
  <1>5. ASSUME NEW rtt \in Rtts, OnRoundTripTimeUpdate(rtt)
        PROVE  EstimatorsAgree'
    <2>1. delay_based' = [delay_based EXCEPT !.rtt = rtt] /\ min_configured' = min_configured
      BY <1>5 DEF OnRoundTripTimeUpdate, UpdateRtt, Aimd!SetRtt
    <2>2. delay_based \in Aimd!RateControl
      BY DEF TypeOK
    <2>3. /\ delay_based'.min_configured = delay_based.min_configured
          /\ delay_based'.current_bitrate = delay_based.current_bitrate
      BY <2>1, <2>2 DEF Aimd!RateControl
    <2> QED
      BY <2>1, <2>3 DEF EstimatorsAgree
  <1>6. ASSUME NEW new \in Constraints, OnTargetRateConstraints(new)
        PROVE  EstimatorsAgree'
    BY <1>6, RateControlAgrees DEF OnTargetRateConstraints, EstimatorsAgree
  <1>7. CASE UNCHANGED vars
    BY <1>1, <1>7 DEF vars, bweVars
  <1> QED
    BY <1>2, <1>3, <1>4, <1>5, <1>6, <1>7 DEF Next

\* Both estimators work with the same minimum at all times, and the delay-based
\* one is not below it (goog_cc_network_control.cc:161-190).
THEOREM EstimatorsShareMinimum == Spec => []EstimatorsAgree
  BY ControllerTypeCorrect, InitAgree, StepAgree, PTL DEF Spec

-----------------------------------------------------------------------------

\* What the caller got last is what the controller compares with; before that,
\* the controller compares with a round-trip time no measurement gives.
CallerUpToDate ==
    \/ announced = NoUpdate /\ last_published.round_trip_time = PlusInfinity
    \/ announced = [ rates |-> last_published, pacer |-> GetPacingRates(last_published),
                     bwe_period |-> GetExpectedBwePeriod ]

\* Nothing has been announced when the controller is constructed.
LEMMA InitUpToDate == Init => CallerUpToDate
  BY DEF Init, CallerUpToDate

\* New constraints announce what has changed, and what has not was announced.
LEMMA ConstraintsAnnounced ==
  ASSUME TypeOK, CallerUpToDate, NEW new \in Constraints, OnTargetRateConstraints(new)
  PROVE  /\ last_published' = Current'
         /\ announced' = [ rates |-> Current', pacer |-> GetPacingRates(Current'),
                           bwe_period |-> GetExpectedBwePeriod' ]
  <1>1. Publish
    BY DEF OnTargetRateConstraints
  <1>2. CASE Changed
    BY <1>1, <1>2 DEF Publish
  <1>3. CASE ~Changed
    <2>1. Current' = last_published /\ announced' = announced /\ last_published' = last_published
      BY <1>1, <1>3 DEF Publish, Changed
    <2>2. Current'.round_trip_time = last_round_trip_time'
      BY DEF Current
    <2>3. last_round_trip_time' = last_round_trip_time
      BY DEF OnTargetRateConstraints, ResetConstraints, SetBitrates
    <2>4. last_round_trip_time # PlusInfinity
      BY UnitsAssumption DEF TypeOK, RoundTripTimeUpdate
    <2>5. announced = [ rates |-> last_published, pacer |-> GetPacingRates(last_published),
                        bwe_period |-> GetExpectedBwePeriod ]
      BY <2>1, <2>2, <2>3, <2>4 DEF CallerUpToDate
    <2> QED
      BY <2>1, <2>5, PeriodFixed
  <1> QED
    BY <1>2, <1>3

\* Every step keeps the caller up to date.
LEMMA StepUpToDate == TypeOK /\ CallerUpToDate /\ [Next]_vars => CallerUpToDate'
  <1> SUFFICES ASSUME TypeOK, CallerUpToDate, [Next]_vars PROVE CallerUpToDate'
    OBVIOUS
  <1>1. CASE UNCHANGED <<last_published, announced>>
    BY <1>1, PeriodFixed DEF CallerUpToDate, GetPacingRates, PacingRate, PaddingRate
  <1>2. ASSUME NEW new \in Constraints, OnTargetRateConstraints(new)
        PROVE  CallerUpToDate'
    BY <1>2, ConstraintsAnnounced DEF CallerUpToDate
  <1> QED
    BY <1>1, <1>2
       DEF Next, Tick, OnTransportLossReport, OnRemoteBitrateReport, OnRoundTripTimeUpdate,
           controllerVars, vars

\* After new constraints the caller knows the rates and windows computed from
\* them, although nothing is returned when nothing has changed, and asking for
\* them gives the same (goog_cc_network_control.cc:304-383).
THEOREM CallerInformed == Spec => CallerKnowsRates
  <1> DEFINE Known ==
        /\ announced' = [ rates |-> Current', pacer |-> GetPacingRates(Current'),
                          bwe_period |-> GetExpectedBwePeriod' ]
        /\ GetNetworkState'.pacer = announced'.pacer
        /\ GetNetworkState'.bwe_period = announced'.bwe_period
        /\ GetNetworkState'.rates.target = announced'.rates.target
        /\ Lower(GetNetworkState'.rates.stable, announced'.rates.target)
              = announced'.rates.stable
  <1>1. ASSUME TypeOK, CallerUpToDate, NEW new \in Constraints, OnTargetRateConstraints(new)
        PROVE  Known
    <2>1. /\ last_published' = Current'
          /\ announced' = [ rates |-> Current', pacer |-> GetPacingRates(Current'),
                            bwe_period |-> GetExpectedBwePeriod' ]
      BY <1>1, ConstraintsAnnounced
    <2>2. /\ GetNetworkState'.pacer = GetPacingRates(last_published')
          /\ GetNetworkState'.bwe_period = GetExpectedBwePeriod'
          /\ GetNetworkState'.rates
                = [last_published' EXCEPT !.stable = GetEstimatedLinkCapacity']
      BY DEF GetNetworkState, GetPacingRates, PacingRate, PaddingRate
    <2>3. /\ Current'.target = TargetRate'
          /\ Current'.stable = Lower(GetEstimatedLinkCapacity', TargetRate')
          /\ [Current' EXCEPT !.stable = GetEstimatedLinkCapacity'].target = TargetRate'
          /\ [Current' EXCEPT !.stable = GetEstimatedLinkCapacity'].stable
                = GetEstimatedLinkCapacity'
      BY DEF Current, Lower
    <2> QED
      BY <2>1, <2>2, <2>3
  <1>2. TypeOK /\ CallerUpToDate /\ [Next]_vars
        => [\A new \in Constraints : OnTargetRateConstraints(new) => Known]_vars
    BY <1>1
  <1> QED
    BY <1>2, ControllerTypeCorrect, InitUpToDate, StepUpToDate, PTL
       DEF Spec, CallerKnowsRates

-----------------------------------------------------------------------------

\* The accumulators hold what was reported since the last estimate.
Accumulated ==
    /\ reported.lost \in Nat /\ reported.received \in Nat
    /\ lost_packets = reported.lost
    /\ expected_packets = reported.lost + reported.received

LEMMA InitAccumulated == Init => Accumulated
  BY DEF Init, BweInit, Accumulated

\* A report is added to both, and an estimate resets both; nothing else touches
\* them (send_side_bandwidth_estimation.cc:256-277).
LEMMA StepAccumulated == TypeOK /\ Accumulated /\ [Next]_vars => Accumulated'
  <1> SUFFICES ASSUME TypeOK, Accumulated, [Next]_vars PROVE Accumulated'
    OBVIOUS
  <1> USE DEF configuredVars, accumulatorVars, lossVars
  <1>1. CASE UNCHANGED <<reported, lost_packets, expected_packets>>
    BY <1>1 DEF Accumulated
  <1>2. ASSUME NEW report \in LossReports, OnTransportLossReport(report)
        PROVE  Accumulated'
    <2> DEFINE lost == lost_packets + report.lost
               expected == expected_packets + report.lost + report.received
    <2>1. /\ report.lost \in Nat /\ report.received \in Nat \ {0}
          /\ LimitNumPackets \in Nat \ {0}
      BY ControllerAssumption, BweAssumption DEF TransportLossReport
    <2>2. expected \in Nat \ {0}
      <3>1. expected_packets \in Nat
        BY <2>1 DEF TypeOK
      <3> QED
        BY <2>1, <3>1
    <2>3. /\ \/ lost_packets' = lost /\ expected_packets' = expected
             \/ lost_packets' = 0 /\ expected_packets' = 0
          /\ reported' = IF expected_packets' = 0
                         THEN [lost |-> 0, received |-> 0]
                         ELSE [lost |-> reported.lost + report.lost,
                               received |-> reported.received + report.received]
      BY <1>2 DEF OnTransportLossReport, UpdatePacketsLost
    <2>4. CASE expected_packets' = 0
      <3>1. lost_packets' = 0 /\ reported' = [lost |-> 0, received |-> 0]
        BY <2>2, <2>3, <2>4
      <3> QED
        BY <2>4, <3>1 DEF Accumulated
    <2>5. CASE expected_packets' # 0
      <3>1. /\ lost_packets' = lost /\ expected_packets' = expected
            /\ reported'.lost = reported.lost + report.lost
            /\ reported'.received = reported.received + report.received
        BY <2>3, <2>5
      <3> QED
        BY <2>1, <3>1 DEF Accumulated
    <2> QED
      BY <2>4, <2>5
  <1>3. ASSUME NEW rate \in RembRates, OnRemoteBitrateReport(rate) PROVE Accumulated'
    BY <1>1, <1>3 DEF OnRemoteBitrateReport, UpdateReceiverEstimate
  <1>4. ASSUME NEW rtt \in Rtts, OnRoundTripTimeUpdate(rtt) PROVE Accumulated'
    BY <1>1, <1>4 DEF OnRoundTripTimeUpdate, HandleCall, UpdateRtt
  <1>5. ASSUME NEW new \in Constraints, OnTargetRateConstraints(new) PROVE Accumulated'
    BY <1>1, <1>5 DEF OnTargetRateConstraints, HandleCall, ResetConstraints, SetBitrates
  <1>6. CASE Tick
    BY <1>1, <1>6 DEF Tick, bweVars, historyVars
  <1>7. CASE UNCHANGED vars
    BY <1>1, <1>7 DEF vars, bweVars, historyVars
  <1> QED
    BY <1>2, <1>3, <1>4, <1>5, <1>6, <1>7 DEF Next

\* An estimate's loss fraction is that of all packets reported since the estimate
\* before, each of them counted once (send_side_bandwidth_estimation.cc:256-277).
THEOREM FractionOfAllReports == Spec => FractionCoversReports
  <1>1. ASSUME TypeOK, Accumulated, NEW report \in LossReports,
               OnTransportLossReport(report), Estimates(report)
        PROVE  last_fraction_loss' =
                  LossRate(reported.lost + report.lost, reported.received + report.received)
    <2> DEFINE lost == lost_packets + report.lost
               expected == expected_packets + report.lost + report.received
    <2>1. /\ report.lost \in Nat /\ report.received \in Nat \ {0}
          /\ LimitNumPackets \in Nat \ {0}
      BY ControllerAssumption, BweAssumption DEF TransportLossReport
    <2>2. /\ lost = reported.lost + report.lost
          /\ expected = (reported.lost + report.lost) + (reported.received + report.received)
          /\ expected \in Nat /\ lost \in Nat
      BY <1>1, <2>1 DEF Accumulated
    <2>3. last_fraction_loss' = FractionLoss(lost, expected)
      <3>1. ~(expected < LimitNumPackets)
        BY <1>1, <2>1, <2>2 DEF Estimates
      <3> QED
        BY <1>1, <3>1 DEF OnTransportLossReport, UpdatePacketsLost, UpdateEstimate
    <2>4. lost * 256 = 256 * lost
      BY <2>2
    <2> QED
      BY <2>2, <2>3, <2>4 DEF FractionLoss, LossRate
  <1>2. TypeOK /\ Accumulated /\ [Next]_vars =>
           [\A report \in LossReports :
               OnTransportLossReport(report) /\ Estimates(report) =>
                  last_fraction_loss' =
                     LossRate(reported.lost + report.lost,
                              reported.received + report.received)]_vars
    BY <1>1
  <1> QED
    BY <1>2, ControllerTypeCorrect, InitAccumulated, StepAccumulated, PTL
       DEF Spec, FractionCoversReports

-----------------------------------------------------------------------------

\* A set of naturals that is not empty has a least element.
LEMMA LeastNatural ==
  ASSUME NEW T \in SUBSET Nat, T # {}
  PROVE  \E x \in T : \A y \in T : x <= y
  <1> DEFINE R == OpToRel(<, Nat)
  <1>1. IsWellFoundedOn(R, Nat)
    BY NatLessThanWellFounded
  <1>2. \A x, y \in Nat : y < x => <<y, x>> \in R
    BY DEF OpToRel
  <1> HIDE DEF R
  <1>3. PICK x \in T : \A y \in T : ~(<<y, x>> \in R)
    BY <1>1, WFMin
  <1>4. \A y \in T : x <= y
    <2> TAKE y \in T
    <2>1. x \in Nat /\ y \in Nat
      OBVIOUS
    <2>2. ~(y < x)
      BY <1>2, <1>3, <2>1
    <2> QED
      BY <2>1, <2>2
  <1> QED
    BY <1>4

\* As many as meet a condition that only a front of the indices meets are that
\* front: the loop that pops from the front pops as many entries as meet its
\* condition.
LEMMA FrontCount ==
  ASSUME NEW n \in Nat, NEW S \in SUBSET (1 .. n),
         \A i \in S : \A j \in 1 .. n : j <= i => j \in S
  PROVE  Cardinality(S) \in 0 .. n /\ S = 1 .. Cardinality(S)
  <1> DEFINE T == (1 .. (n + 1)) \ S
  <1>1. T \in SUBSET Nat /\ n + 1 \in T
    OBVIOUS
  <1>2. PICK least \in T : \A y \in T : least <= y
    BY <1>1, LeastNatural
  <1>3. least \in 1 .. (n + 1) /\ least \notin S
    OBVIOUS
  <1>4. S = 1 .. (least - 1)
    <2>1. ASSUME NEW i \in S PROVE i \in 1 .. (least - 1)
      <3>1. i \in 1 .. n
        OBVIOUS
      <3>2. CASE least <= i
        <4>1. least \in 1 .. n
          BY <1>3, <3>1, <3>2
        <4> QED
          BY <1>3, <3>2, <4>1
      <3> QED
        BY <1>3, <3>1, <3>2
    <2>2. ASSUME NEW i \in 1 .. (least - 1) PROVE i \in S
      <3>1. i \in 1 .. (n + 1) /\ ~(least <= i)
        BY <1>3
      <3> QED
        BY <1>2, <3>1
    <2> QED
      BY <2>1, <2>2
  <1>5. Cardinality(1 .. (least - 1)) = least - 1
    BY <1>3, FS_Interval
  <1> QED
    BY <1>3, <1>4, <1>5

\* The same at the back.
LEMMA BackCount ==
  ASSUME NEW n \in Nat, NEW S \in SUBSET (1 .. n),
         \A i \in S : \A j \in 1 .. n : i <= j => j \in S
  PROVE  Cardinality(S) \in 0 .. n /\ S = (n - Cardinality(S) + 1) .. n
  <1> DEFINE rest == (1 .. n) \ S
             k == Cardinality(rest)
  <1>1. \A i \in rest : \A j \in 1 .. n : j <= i => j \in rest
    OBVIOUS
  <1>2. rest \in SUBSET (1 .. n)
    OBVIOUS
  <1>3. k \in 0 .. n /\ rest = 1 .. k
    <2> HIDE DEF rest
    <2> QED
      BY <1>1, <1>2, FrontCount
  <1>4. \A i \in 1 .. n : i \in S <=> i \notin 1 .. k
    BY <1>3
  <1> HIDE DEF k
  <1>5. S = (k + 1) .. n
    <2>1. \A i \in S : i \in (k + 1) .. n
      BY <1>3, <1>4
    <2>2. \A i \in (k + 1) .. n : i \in S
      BY <1>3, <1>4
    <2> QED
      BY <2>1, <2>2
  <1>6. Cardinality((k + 1) .. n) = n - k
    <2>1. k + 1 \in Int /\ n \in Int
      BY <1>3
    <2>2. Cardinality((k + 1) .. n) = IF k + 1 > n THEN 0 ELSE n - (k + 1) + 1
      BY <2>1, FS_Interval
    <2> QED
      BY <1>3, <2>2
  <1> QED
    BY <1>3, <1>5, <1>6

-----------------------------------------------------------------------------

\* An entry UpdateMinHistory does not drop for its age.
Fresh(entry) == now - entry.time + HistoryPrecision <= IncreaseInterval

\* Times and rates of the history increase from front to back.
HistoryOrdered ==
    \A i, j \in DOMAIN min_bitrate_history : i <= j =>
        /\ min_bitrate_history[i].time <= min_bitrate_history[j].time
        /\ min_bitrate_history[i].rate <= min_bitrate_history[j].rate

\* No entry is of a later time.
HistoryPast == \A i \in DOMAIN min_bitrate_history : min_bitrate_history[i].time <= now

\* The entries that are kept are those that are neither too old nor, for the
\* current target, too high (send_side_bandwidth_estimation.cc:413-431).
LEMMA EntriesKept ==
  ASSUME TypeOK, HistoryOrdered,
         NEW first, first = Cardinality(TooOld(now)) + 1,
         NEW last, last = Len(min_bitrate_history) - Cardinality(NotBelowTarget)
  PROVE  /\ first \in 1 .. (Len(min_bitrate_history) + 1)
         /\ last \in 0 .. Len(min_bitrate_history)
         /\ \A i \in 1 .. Len(min_bitrate_history) :
               /\ i < first <=> ~Fresh(min_bitrate_history[i])
               /\ i > last <=> min_bitrate_history[i].rate >= current_target
  <1> DEFINE h == min_bitrate_history
             n == Len(h)
             old == TooOld(now)
             high == NotBelowTarget
  <1>1. /\ n \in Nat /\ DOMAIN h = 1 .. n
        /\ \A i \in 1 .. n : h[i].time \in Nat /\ h[i].rate \in Nat
        /\ now \in Nat /\ current_target \in Nat
        /\ HistoryPrecision \in Nat /\ IncreaseInterval \in Nat
    <2>1. h \in Seq(Entry)
      BY DEF TypeOK, Entry
    <2>2. n \in Nat /\ DOMAIN h = 1 .. n
      BY <2>1, LenProperties
    <2>3. \A i \in 1 .. n : h[i] \in Entry
      BY <2>1, ElementOfSeq
    <2> QED
      BY <2>2, <2>3, BweTypes, BweAssumption DEF Entry
  <1>2. /\ old = {i \in 1 .. n : ~Fresh(h[i])}
        /\ high = {i \in 1 .. n : h[i].rate >= current_target}
    <2>1. \A i \in 1 .. n :
             now - h[i].time + HistoryPrecision > IncreaseInterval <=> ~Fresh(h[i])
      BY <1>1 DEF Fresh
    <2> QED
      BY <1>1, <2>1 DEF TooOld, NotBelowTarget
  <1>3. \A i, j \in 1 .. n : i <= j => h[i].time <= h[j].time /\ h[i].rate <= h[j].rate
    BY <1>1 DEF HistoryOrdered
  <1>4. \A i \in old : \A j \in 1 .. n : j <= i => j \in old
    <2> SUFFICES ASSUME NEW i \in 1 .. n, ~Fresh(h[i]), NEW j \in 1 .. n, j <= i
                 PROVE  ~Fresh(h[j])
      BY <1>2
    <2>1. h[j].time <= h[i].time
      BY <1>3
    <2>2. h[i].time \in Nat /\ h[j].time \in Nat
      BY <1>1
    <2>3. ~(now - h[i].time + HistoryPrecision <= IncreaseInterval)
      BY DEF Fresh
    <2> DEFINE early == h[j].time
               late == h[i].time
    <2>4. ~(now - early + HistoryPrecision <= IncreaseInterval)
      <3>1. /\ early \in Nat /\ late \in Nat /\ now \in Nat
            /\ HistoryPrecision \in Nat /\ IncreaseInterval \in Nat
        BY <1>1, <2>2
      <3>2. early <= late /\ ~(now - late + HistoryPrecision <= IncreaseInterval)
        BY <2>1, <2>3
      <3> HIDE DEF early, late
      <3> QED
        BY <3>1, <3>2
    <2> QED
      BY <2>4 DEF Fresh
  <1>5. \A i \in high : \A j \in 1 .. n : i <= j => j \in high
    <2> SUFFICES ASSUME NEW i \in 1 .. n, h[i].rate >= current_target, NEW j \in 1 .. n, i <= j
                 PROVE  h[j].rate >= current_target
      BY <1>2
    <2>1. h[i].rate <= h[j].rate
      BY <1>3
    <2> HIDE DEF h
    <2> QED
      BY <1>1, <2>1
  <1>6. old \in SUBSET (1 .. n) /\ high \in SUBSET (1 .. n)
    BY <1>2
  <1> HIDE DEF old, high, h
  <1>7. Cardinality(old) \in 0 .. n /\ old = 1 .. Cardinality(old)
    BY <1>1, <1>4, <1>6, FrontCount
  <1>8. Cardinality(high) \in 0 .. n /\ high = (n - Cardinality(high) + 1) .. n
    BY <1>1, <1>5, <1>6, BackCount
  <1>9. first = Cardinality(old) + 1 /\ last = n - Cardinality(high)
    BY DEF old, high, h
  <1>10. \A i \in 1 .. n : (i < first <=> i \in old) /\ (i > last <=> i \in high)
    BY <1>1, <1>7, <1>8, <1>9
  <1>11. first \in 1 .. (n + 1) /\ last \in 0 .. n
    BY <1>1, <1>7, <1>8, <1>9
  <1>12. \A i \in 1 .. n : /\ i < first <=> ~Fresh(h[i])
                           /\ i > last <=> h[i].rate >= current_target
    BY <1>2, <1>10
  <1> QED
    BY <1>11, <1>12 DEF h

\* The updated history is in order; each entry is the current target's or one that
\* was kept; and each entry that is not too old has one in it that is not earlier
\* and not higher (send_side_bandwidth_estimation.cc:413-431).
LEMMA HistoryUpdated ==
  ASSUME TypeOK, HistoryOrdered, HistoryPast
  PROVE  LET h == min_bitrate_history
             new == UpdatedMinHistory(now)
             newest == [time |-> now, rate |-> current_target]
         IN  /\ 1 \in DOMAIN new
             /\ \A j \in DOMAIN new :
                   \/ new[j] = newest
                   \/ \E i \in DOMAIN h : new[j] = h[i] /\ Fresh(h[i]) /\ h[i].rate < current_target
             /\ \A i, j \in DOMAIN new :
                   i <= j => new[i].time <= new[j].time /\ new[i].rate <= new[j].rate
             /\ \A i \in DOMAIN h : Fresh(h[i]) =>
                   \E j \in DOMAIN new : h[i].time <= new[j].time /\ new[j].rate <= h[i].rate
             /\ \E j \in DOMAIN new : new[j] = newest
  <1> DEFINE h == min_bitrate_history
             new == UpdatedMinHistory(now)
             newest == [time |-> now, rate |-> current_target]
             first == Cardinality(TooOld(now)) + 1
             last == Len(h) - Cardinality(NotBelowTarget)
             kept == IF first <= last THEN SubSeq(h, first, last) ELSE <<>>
             size == IF first <= last THEN last - first + 1 ELSE 0
  <1>1. h \in Seq(Entry) /\ newest \in Entry /\ Len(h) \in Nat /\ DOMAIN h = 1 .. Len(h)
    BY BweTypes, LenProperties DEF TypeOK, Entry
  <1>2. \A i \in 1 .. Len(h) : h[i] \in Entry
    BY <1>1, ElementOfSeq
  <1>3. /\ first \in 1 .. (Len(h) + 1) /\ last \in 0 .. Len(h)
        /\ \A i \in 1 .. Len(h) : /\ i < first <=> ~Fresh(h[i])
                                  /\ i > last <=> h[i].rate >= current_target
    BY EntriesKept
  <1>4. new = Append(kept, newest)
    BY DEF UpdatedMinHistory
  <1>5. /\ \A i, j \in 1 .. Len(h) : i <= j => h[i].time <= h[j].time /\ h[i].rate <= h[j].rate
        /\ \A i \in 1 .. Len(h) : h[i].time <= now
    BY <1>1 DEF HistoryOrdered, HistoryPast
  <1>6. newest.time = now /\ newest.rate = current_target /\ now \in Nat /\ current_target \in Nat
    BY BweTypes
  <1> HIDE DEF h, newest, first, last, new
  <1>7. /\ kept \in Seq(Entry) /\ Len(kept) = size /\ size \in Nat
        /\ \A j \in 1 .. size : /\ first + j - 1 \in first .. last
                                /\ kept[j] = h[first + j - 1]
    <2>1. CASE first <= last
      <3>1. \A j \in first .. last : h[j] \in Entry
        BY <1>2, <1>3
      <3>2. /\ SubSeq(h, first, last) \in Seq(Entry)
            /\ Len(SubSeq(h, first, last)) = last - first + 1
            /\ \A j \in 1 .. last - first + 1 : SubSeq(h, first, last)[j] = h[first + j - 1]
        BY <1>3, <2>1, <3>1, SubSeqProperties
      <3>3. \A j \in 1 .. last - first + 1 : first + j - 1 \in first .. last
        BY <1>3, <2>1
      <3>4. last - first + 1 \in Nat
        BY <1>3, <2>1
      <3> QED
        BY <2>1, <3>2, <3>3, <3>4
    <2>2. CASE ~(first <= last)
      <3>1. kept = <<>> /\ size = 0
        BY <2>2
      <3>2. <<>> \in Seq(Entry) /\ Len(<<>>) = 0
        OBVIOUS
      <3>3. 1 .. 0 = {}
        OBVIOUS
      <3> HIDE DEF kept, size
      <3> QED
        BY <3>1, <3>2, <3>3
    <2> QED
      BY <2>1, <2>2
  <1>8. \A i \in first .. last : i - first + 1 \in 1 .. size
    BY <1>3
  <1> HIDE DEF kept, size
  <1>9. /\ new \in Seq(Entry) /\ Len(new) = size + 1
        /\ \A j \in 1 .. size : new[j] = kept[j]
        /\ new[size + 1] = newest
    BY <1>1, <1>4, <1>7, AppendProperties
  <1>10. DOMAIN new = 1 .. (size + 1)
    BY <1>9, LenProperties
  <1>11. \A j \in 1 .. size :
            LET i == first + j - 1
            IN  i \in 1 .. Len(h) /\ new[j] = h[i] /\ Fresh(h[i]) /\ h[i].rate < current_target
    <2> TAKE j \in 1 .. size
    <2> DEFINE i == first + j - 1
    <2>1. i \in first .. last /\ new[j] = h[i]
      BY <1>7, <1>9
    <2>2. i \in 1 .. Len(h) /\ ~(i < first) /\ ~(i > last)
      BY <1>3, <2>1
    <2> HIDE DEF i
    <2>3. h[i].rate \in Nat
      BY <1>2, <2>2 DEF Entry
    <2>4. Fresh(h[i]) /\ ~(h[i].rate >= current_target)
      BY <1>3, <2>2
    <2>5. h[i].rate < current_target
      BY <1>6, <2>3, <2>4
    <2> QED
      BY <2>1, <2>2, <2>4, <2>5 DEF i
  <1>12. \A j \in DOMAIN new :
            \/ new[j] = newest
            \/ \E i \in DOMAIN h : new[j] = h[i] /\ Fresh(h[i]) /\ h[i].rate < current_target
    <2> TAKE j \in DOMAIN new
    <2>1. j \in 1 .. size \/ j = size + 1
      BY <1>7, <1>10
    <2> QED
      BY <1>1, <1>9, <1>11, <2>1
  <1>13. \A i, j \in DOMAIN new :
            i <= j => new[i].time <= new[j].time /\ new[i].rate <= new[j].rate
    <2> SUFFICES ASSUME NEW i \in 1 .. (size + 1), NEW j \in 1 .. (size + 1), i <= j
                 PROVE  new[i].time <= new[j].time /\ new[i].rate <= new[j].rate
      BY <1>10
    <2>1. CASE j = size + 1 /\ i = size + 1
      BY <1>6, <1>9, <2>1
    <2>2. CASE j = size + 1 /\ i # size + 1
      <3>1. i \in 1 .. size
        BY <1>7, <2>2
      <3> DEFINE k == first + i - 1
      <3>2. k \in 1 .. Len(h) /\ new[i] = h[k] /\ h[k].rate < current_target
        BY <1>11, <3>1
      <3> HIDE DEF k
      <3>3. h[k].time <= now /\ h[k].rate \in Nat
        BY <1>2, <1>5, <3>2 DEF Entry
      <3>4. h[k].rate <= current_target
        BY <1>6, <3>2, <3>3
      <3>5. new[j] = newest
        BY <1>9, <2>2
      <3> QED
        BY <1>6, <3>2, <3>3, <3>4, <3>5
    <2>3. CASE j # size + 1
      <3>1. i \in 1 .. size /\ j \in 1 .. size
        BY <1>7, <2>3
      <3> DEFINE k == first + i - 1
                 l == first + j - 1
      <3>2. k \in 1 .. Len(h) /\ new[i] = h[k] /\ l \in 1 .. Len(h) /\ new[j] = h[l]
        BY <1>11, <3>1
      <3>3. k <= l
        BY <1>3, <3>1
      <3> HIDE DEF k, l
      <3> QED
        BY <1>5, <3>2, <3>3
    <2> QED
      BY <2>1, <2>2, <2>3
  <1>14. \A i \in DOMAIN h : Fresh(h[i]) =>
            \E j \in DOMAIN new : h[i].time <= new[j].time /\ new[j].rate <= h[i].rate
    <2> SUFFICES ASSUME NEW i \in 1 .. Len(h), Fresh(h[i])
                 PROVE  \E j \in DOMAIN new : h[i].time <= new[j].time /\ new[j].rate <= h[i].rate
      BY <1>1
    <2>1. h[i].time \in Nat /\ h[i].rate \in Nat
      BY <1>2 DEF Entry
    <2>2. CASE i > last
      <3>1. h[i].time <= now /\ current_target <= h[i].rate
        BY <1>3, <1>5, <1>6, <2>1, <2>2
      <3>2. size + 1 \in DOMAIN new
        BY <1>7, <1>10
      <3> QED
        BY <1>6, <1>9, <3>1, <3>2
    <2>3. CASE ~(i > last)
      <3> DEFINE j == i - first + 1
      <3>1. i \in first .. last
        BY <1>3, <2>3
      <3>2. j \in 1 .. size
        BY <1>8, <3>1
      <3>3. first + j - 1 = i
        BY <1>3, <3>1
      <3> HIDE DEF j
      <3>4. new[j] = h[i] /\ j \in DOMAIN new
        BY <1>7, <1>9, <1>10, <3>2, <3>3
      <3>5. h[i].time <= h[i].time /\ h[i].rate <= h[i].rate
        BY <2>1
      <3> QED
        BY <3>4, <3>5
    <2> QED
      BY <2>2, <2>3
  <1>15. 1 \in DOMAIN new /\ size + 1 \in DOMAIN new
    BY <1>7, <1>10
  <1> QED
    BY <1>9, <1>12, <1>13, <1>14, <1>15 DEF h, newest, new

-----------------------------------------------------------------------------

\* The arithmetic of a raise: more for more, and never less than what is raised.
\* Near the end of the range the sum may decide for infinity, which is above every
\* rate (send_side_bandwidth_estimation.cc:361-368).
LEMMA IncreasedAbove ==
  ASSUME NEW a \in Nat, NEW b \in Nat, a <= b, NEW c \in Int, c < PlusInfinity
  PROVE  /\ c <= Increased(a) => c <= Increased(b)
         /\ a < PlusInfinity => a <= Increased(a)
  <1> DEFINE scaled(rate) == (rate * 108 + 50) \div 100
  <1>1. /\ scaled(a) \in Nat /\ scaled(b) \in Nat
        /\ scaled(a) <= scaled(b) /\ a <= scaled(a)
    OBVIOUS
  <1>2. Scaled(a, 108, 100) = scaled(a) /\ Scaled(b, 108, 100) = scaled(b)
    <2>1. 100 \div 2 = 50
      OBVIOUS
    <2> QED
      BY <2>1 DEF Scaled
  <1>3. Increased(a) = Plus(scaled(a), 1000) /\ Increased(b) = Plus(scaled(b), 1000)
    BY <1>2 DEF Increased
  <1> DEFINE x == scaled(a)
             y == scaled(b)
  <1> HIDE DEF scaled
  <1>4. x \in Nat /\ y \in Nat /\ x <= y /\ a <= x
    BY <1>1
  <1> HIDE DEF x, y
  <1>5. /\ Plus(x, 1000) = IF x = PlusInfinity \/ 1000 = PlusInfinity THEN PlusInfinity ELSE x + 1000
        /\ Plus(y, 1000) = IF y = PlusInfinity \/ 1000 = PlusInfinity THEN PlusInfinity ELSE y + 1000
    BY <1>4, UnitsAssumption DEF Plus, MinusInfinity
  <1>6. /\ c <= Plus(x, 1000) => c <= Plus(y, 1000)
        /\ a < PlusInfinity => a <= Plus(x, 1000)
    BY <1>4, <1>5, UnitsAssumption
  <1> QED
    BY <1>3, <1>6 DEF x, y

\* The arithmetic of a reduction: half of what is reduced stays, at least
\* (send_side_bandwidth_estimation.cc:385-390).
LEMMA DecreasedBelow ==
  ASSUME NEW rate \in Nat, NEW fraction \in 0 .. 255
  PROVE  Decreased(rate, fraction) <= rate /\ rate \div 2 <= Decreased(rate, fraction)
  <1> DEFINE product == rate * (512 - fraction)
  <1>1. product \in Nat /\ rate * 256 <= product /\ product <= rate * 512
    <2>1. rate * fraction \in Nat /\ rate * (256 - fraction) \in Nat
      <3>1. fraction \in Nat /\ 256 - fraction \in Nat
        OBVIOUS
      <3> QED
        BY <3>1
    <2>2. product = rate * 512 - rate * fraction
      OBVIOUS
    <2>3. product = rate * 256 + rate * (256 - fraction)
      OBVIOUS
    <2> HIDE DEF product
    <2> QED
      BY <2>1, <2>2, <2>3
  <1> HIDE DEF product
  <1>2. product \div 512 <= rate /\ rate \div 2 <= product \div 512
    BY <1>1
  <1>3. Decreased(rate, fraction) = product \div 512
    BY <1>1 DEF Decreased, Truncated, Quotient, product
  <1> QED
    BY <1>2, <1>3

-----------------------------------------------------------------------------

\* The start phase was over at time t.
SinceStart(t) == ~InStartPhase(t, first_report_time)

\* Nothing is remembered before the first report.
MemoryStarts ==
    IsInfinite(first_report_time) => min_bitrate_history = <<>> /\ used = {}

\* The target is not above what any remembered rate allows, or the minimum has
\* lifted it there.  A rate remembered from the start phase, when the REMB sets the
\* target, or from before the minimum was lowered, does not bound it.
TargetBounded ==
    \A i \in DOMAIN min_bitrate_history :
        SinceStart(min_bitrate_history[i].time) /\ lowered < min_bitrate_history[i].time =>
           current_target <= Higher(min_configured, Increased(min_bitrate_history[i].rate))

\* For every target that was in use since the start phase, the history has an entry
\* that is not older and not above it.
UsedRemembered ==
    \A u \in used :
        /\ u.until \in 0 .. now /\ u.rate \in Nat
        /\ SinceStart(u.until) =>
              \E i \in DOMAIN min_bitrate_history :
                  /\ u.until <= min_bitrate_history[i].time
                  /\ min_bitrate_history[i].rate <= u.rate

\* What min_bitrate_history_ remembers, with the facts that keep it so.
HistoryInv ==
    /\ MemoryStarts
    /\ HistoryOrdered
    /\ HistoryPast
    /\ TargetBounded
    /\ UsedRemembered
    /\ current_target < PlusInfinity
    /\ lowered \in {Never} \cup (0 .. now)

\* The first report's time is finite once there is one.
LEMMA FirstReport ==
  ASSUME TypeOK
  PROVE  /\ IsFinite(now)
         /\ IsFinite(first_report_time) <=> first_report_time \in 0 .. now
         /\ IsInfinite(first_report_time) <=> first_report_time = Never
  <1>1. now \in Nat /\ now < PlusInfinity
    BY ControllerAssumption, UnitsAssumption DEF TypeOK
  <1>2. first_report_time = Never \/ first_report_time \in 0 .. now
    BY DEF TypeOK
  <1> QED
    BY <1>1, <1>2, UnitsAssumption DEF IsFinite, IsInfinite, Never, MinusInfinity

\* An empty memory is in order.
LEMMA NothingRemembered ==
  ASSUME min_bitrate_history' = <<>>, used' = {}, current_target' < PlusInfinity,
         lowered' \in {Never} \cup (0 .. now')
  PROVE  HistoryInv'
  <1>1. DOMAIN min_bitrate_history' = {}
    OBVIOUS
  <1> QED
    BY <1>1 DEF HistoryInv, MemoryStarts, HistoryOrdered, HistoryPast, TargetBounded,
                UsedRemembered

\* Initially nothing is remembered.
LEMMA InitHistory == Init => HistoryInv
  <1> SUFFICES ASSUME Init PROVE HistoryInv
    OBVIOUS
  <1>1. /\ DOMAIN min_bitrate_history = {} /\ min_bitrate_history = <<>> /\ used = {}
        /\ current_target = InitialTarget /\ lowered = Never
    BY DEF Init, BweInit
  <1>2. InitialTarget < PlusInfinity
    BY BweAssumption, UnitsAssumption
  <1> QED
    BY <1>1, <1>2 DEF HistoryInv, MemoryStarts, HistoryOrdered, HistoryPast, TargetBounded,
                      UsedRemembered

\* Whatever leaves the history alone keeps its invariant: it raises the target at
\* most to the minimum, or it lowers the minimum and says so.
LEMMA MemoryKept ==
  ASSUME TypeOK, TypeOK', HistoryInv,
         UNCHANGED <<min_bitrate_history, first_report_time>>,
         now <= now', used' \subseteq used, current_target' < PlusInfinity,
         \/ lowered' = now /\ now' = now
         \/ /\ lowered' = lowered /\ min_configured <= min_configured'
            /\ current_target' <= Higher(min_configured', current_target)
  PROVE  HistoryInv'
  <1> DEFINE h == min_bitrate_history
  <1>1. now \in Nat /\ now' \in Nat
    BY DEF TypeOK
  <1>2. \A t : SinceStart(t) <=> SinceStart(t)'
    BY DEF SinceStart, InStartPhase
  <1>3. h' = h
    OBVIOUS
  <1>4. \A i \in DOMAIN h : h[i].time \in Nat /\ h[i].rate \in Nat /\ h[i].time <= now
    <2>1. h \in Seq(Entry)
      BY DEF TypeOK, Entry
    <2>2. \A i \in DOMAIN h : h[i] \in Entry
      BY <2>1
    <2> QED
      BY <2>2 DEF Entry, HistoryInv, HistoryPast
  <1>5. MemoryStarts'
    BY DEF HistoryInv, MemoryStarts
  <1>6. HistoryOrdered'
    BY DEF HistoryInv, HistoryOrdered
  <1>7. HistoryPast'
    <2> HIDE DEF h
    <2>1. \A i \in DOMAIN h : h[i].time <= now'
      BY <1>1, <1>4
    <2> QED
      BY <1>3, <2>1 DEF HistoryPast, h
  <1>8. TargetBounded'
    <2> SUFFICES ASSUME NEW i \in DOMAIN h, SinceStart(h[i].time), lowered' < h[i].time
                 PROVE  current_target' <= Higher(min_configured', Increased(h[i].rate))
      BY <1>2, <1>3 DEF TargetBounded
    <2>1. CASE lowered' = now /\ now' = now
      BY <1>1, <1>4, <2>1
    <2>2. CASE /\ lowered' = lowered /\ min_configured <= min_configured'
               /\ current_target' <= Higher(min_configured', current_target)
      <3> DEFINE bound == Increased(h[i].rate)
      <3>1. current_target <= Higher(min_configured, bound)
        BY <2>2 DEF HistoryInv, TargetBounded
      <3>2. bound \in Int
        <4>1. h[i].rate \in Nat /\ 0 \in 0 .. 255
          BY <1>4
        <4> QED
          BY <4>1, RatesStayRates
      <3> HIDE DEF bound
      <3>3. /\ current_target \in Nat /\ current_target' \in Nat
            /\ min_configured \in Nat /\ min_configured' \in Nat
        BY DEF TypeOK
      <3>4. current_target' <= Higher(min_configured', bound)
        BY <2>2, <3>1, <3>2, <3>3 DEF Higher
      <3> QED
        BY <3>4 DEF bound
    <2> QED
      BY <2>1, <2>2
  <1>9. UsedRemembered'
    <2> SUFFICES ASSUME NEW u \in used'
                 PROVE  /\ u.until \in 0 .. now' /\ u.rate \in Nat
                        /\ SinceStart(u.until) =>
                              \E i \in DOMAIN h : u.until <= h[i].time /\ h[i].rate <= u.rate
      BY <1>2, <1>3 DEF UsedRemembered
    <2>1. u \in used
      OBVIOUS
    <2>2. u.until \in 0 .. now
      BY <2>1 DEF HistoryInv, UsedRemembered
    <2>3. u.until \in 0 .. now'
      BY <1>1, <2>2
    <2> QED
      BY <2>1, <2>3 DEF HistoryInv, UsedRemembered
  <1>10. lowered' \in {Never} \cup (0 .. now')
    <2>1. lowered' = now \/ lowered' = lowered
      OBVIOUS
    <2>2. lowered \in {Never} \cup (0 .. now)
      BY DEF HistoryInv
    <2> QED
      BY <1>1, <2>1, <2>2
  <1> QED
    BY <1>5, <1>6, <1>7, <1>8, <1>9, <1>10 DEF HistoryInv

\* The front of the updated history is the lowest of it, and of what is in use.
LEMMA FrontLowest ==
  ASSUME TypeOK, HistoryInv
  PROVE  LET new == UpdatedMinHistory(now)
         IN  /\ new[1].rate \in Nat /\ new[1].rate <= current_target
             /\ \A j \in DOMAIN new : /\ new[j].time \in Nat /\ new[j].rate \in Nat
                                      /\ new[1].rate <= new[j].rate
  <1> DEFINE new == UpdatedMinHistory(now)
             newest == [time |-> now, rate |-> current_target]
  <1>1. new \in Seq(Entry)
    BY HistoryType
  <1>2. \A j \in DOMAIN new : new[j] \in Entry
    BY <1>1
  <1>3. /\ 1 \in DOMAIN new
        /\ \A i, j \in DOMAIN new : i <= j => new[i].rate <= new[j].rate
        /\ \E j \in DOMAIN new : new[j] = newest
    BY HistoryUpdated DEF HistoryInv
  <1>4. DOMAIN new = 1 .. Len(new) /\ Len(new) \in Nat
    BY <1>1, LenProperties
  <1> HIDE DEF new
  <1>5. \A j \in DOMAIN new : new[1].rate <= new[j].rate
    <2>1. \A j \in DOMAIN new : 1 <= j
      BY <1>4
    <2> QED
      BY <1>3, <2>1
  <1>6. new[1].rate <= current_target
    BY <1>3, <1>5
  <1> QED
    BY <1>2, <1>3, <1>5, <1>6 DEF Entry, new

\* How far an estimate takes the target: not above 8% over the front of the
\* history, when it is raised, and not above itself otherwise; in both cases but for
\* the minimum (send_side_bandwidth_estimation.cc:341-397).
LEMMA EstimateBounds ==
  ASSUME TypeOK, HistoryInv, NEW fraction \in 0 .. 255, NEW first,
         UpdateEstimate(now, fraction, first), ~FollowsReceiverLimit(now, fraction, first)
  PROVE  /\ current_target' \in Nat /\ current_target' < PlusInfinity
         /\ \/ /\ Raise(UpdatedMinHistory(now)[1].rate)
               /\ current_target' <= Higher(min_configured, Increased(UpdatedMinHistory(now)[1].rate))
            \/ /\ ~Raise(UpdatedMinHistory(now)[1].rate)
               /\ current_target' <= Higher(min_configured, current_target)
  <1> DEFINE front == UpdatedMinHistory(now)[1].rate
  <1>1. current_target' \in Nat /\ current_target' < PlusInfinity
    <2>1. current_target' \in Nat /\ current_target' <= max_configured
      BY EstimateTyped
    <2> QED
      BY <2>1, BweTypes
  <1>2. front \in Nat
    BY FrontLowest
  <1>3. Raise(front) \/ Reduce(now, fraction) \/ Keep
    BY DEF UpdateEstimate
  <1> HIDE DEF front
  <1>4. CASE Raise(front)
    <2> DEFINE raised == Increased(front)
    <2>1. 0 \in 0 .. 255
      OBVIOUS
    <2>2. raised \in Int
      BY <1>2, <2>1, RatesStayRates
    <2>3. current_target' = Capped(raised)
      BY <1>4 DEF Raise
    <2> HIDE DEF raised
    <2>4. current_target' <= Higher(min_configured, raised)
      BY <2>2, <2>3, CappedWithin, BweTypes DEF Clamped, Higher, Lower
    <2> QED
      BY <1>1, <1>4, <2>4 DEF raised, front
  <1>5. CASE ~Raise(front)
    <2>1. PICK rate \in Int : rate <= current_target /\ current_target' = Capped(rate)
      <3>1. current_target \in Nat
        BY BweTypes
      <3>2. Decreased(current_target, fraction) \in Int /\ Decreased(current_target, fraction) <= current_target
        BY <3>1, RatesStayRates, DecreasedBelow
      <3>3. CASE Reduce(now, fraction)
        BY <3>2, <3>3 DEF Reduce
      <3>4. CASE Keep
        BY <3>1, <3>4 DEF Keep
      <3> QED
        BY <1>3, <1>5, <3>3, <3>4
    <2>2. current_target' <= Higher(min_configured, current_target)
      BY <2>1, CappedWithin, BweTypes DEF Clamped, Higher, Lower
    <2> QED
      BY <1>1, <1>5, <2>2 DEF front
  <1> QED
    BY <1>4, <1>5

\* Following the REMB, in the start phase, begins the memory again.
LEMMA StartRemembered ==
  ASSUME TypeOK, HistoryInv, NEW fraction \in 0 .. 255,
         NEW first, first = IF IsInfinite(first_report_time) THEN now ELSE first_report_time,
         UpdateEstimate(now, fraction, first), FollowsReceiverLimit(now, fraction, first),
         first_report_time' = first, now' = now, lowered' = lowered,
         used' \subseteq used \cup {[until |-> now, rate |-> current_target]}
  PROVE  HistoryInv'
  <1> DEFINE newest == [time |-> now, rate |-> current_target]
  <1>1. min_bitrate_history' = <<newest>>
    BY DEF UpdateEstimate
  <1>2. DOMAIN min_bitrate_history' = {1} /\ min_bitrate_history'[1] = newest
    BY <1>1
  <1>3. InStartPhase(now, first)
    BY DEF FollowsReceiverLimit
  <1>4. now \in Nat /\ current_target \in Nat /\ StartPhase \in Nat
    BY BweTypes, BweAssumption
  <1>5. first \in 0 .. now /\ IsFinite(first)
    BY <1>4, FirstReport DEF IsFinite
  <1>6. \A t \in 0 .. now : ~SinceStart(t)'
    <2> TAKE t \in 0 .. now
    <2>1. now - first < StartPhase
      BY <1>3 DEF InStartPhase
    <2> HIDE DEF newest
    <2>2. t - first < StartPhase
      BY <1>4, <1>5, <2>1
    <2> QED
      BY <2>2 DEF SinceStart, InStartPhase
  <1>7. newest.time = now /\ newest.rate = current_target /\ now \in 0 .. now
    BY <1>4
  <1> HIDE DEF newest
  <1>8. MemoryStarts'
    BY <1>5 DEF MemoryStarts, IsFinite
  <1>9. HistoryOrdered' /\ HistoryPast'
    BY <1>2, <1>4, <1>7 DEF HistoryOrdered, HistoryPast
  <1>10. TargetBounded'
    BY <1>2, <1>6, <1>7 DEF TargetBounded
  <1>11. UsedRemembered'
    <2> SUFFICES ASSUME NEW u \in used'
                 PROVE  u.until \in 0 .. now /\ u.rate \in Nat
      BY <1>6 DEF UsedRemembered
    <2>1. CASE u \in used
      BY <2>1 DEF HistoryInv, UsedRemembered
    <2>2. CASE u = [until |-> now, rate |-> current_target]
      BY <1>4, <1>7, <2>2
    <2> QED
      BY <2>1, <2>2
  <1>12. current_target' < PlusInfinity
    <2>1. current_target' = Capped(StartPhaseTarget) /\ StartPhaseTarget \in Int
      BY BweTypes DEF UpdateEstimate, StartPhaseTarget, Higher
    <2> QED
      BY <2>1, CappedWithin, BweTypes
  <1>13. (lowered \in {Never} \cup (0 .. now))'
    BY DEF HistoryInv
  <1> QED
    BY <1>8, <1>9, <1>10, <1>11, <1>12, <1>13 DEF HistoryInv

\* Every other estimate remembers the target it replaces, and no target higher
\* than it may be.
LEMMA EstimateRemembered ==
  ASSUME TypeOK, HistoryInv, NEW fraction \in 0 .. 255,
         NEW first, first = IF IsInfinite(first_report_time) THEN now ELSE first_report_time,
         UpdateEstimate(now, fraction, first), ~FollowsReceiverLimit(now, fraction, first),
         first_report_time' = first, now' = now, lowered' = lowered,
         min_configured' = min_configured,
         used' \subseteq RecentlyUsed(used) \cup {[until |-> now, rate |-> current_target]}
  PROVE  HistoryInv'
  <1> DEFINE h == min_bitrate_history
             new == UpdatedMinHistory(now)
             newest == [time |-> now, rate |-> current_target]
             front == new[1].rate
  <1>1. min_bitrate_history' = new
    BY DEF UpdateEstimate
  <1>2. /\ \A j \in DOMAIN new :
              \/ new[j] = newest
              \/ \E i \in DOMAIN h : new[j] = h[i] /\ Fresh(h[i]) /\ h[i].rate < current_target
        /\ \A i, j \in DOMAIN new :
              i <= j => new[i].time <= new[j].time /\ new[i].rate <= new[j].rate
        /\ \A i \in DOMAIN h : Fresh(h[i]) =>
              \E j \in DOMAIN new : h[i].time <= new[j].time /\ new[j].rate <= h[i].rate
        /\ \E j \in DOMAIN new : new[j] = newest
    BY HistoryUpdated DEF HistoryInv
  <1>3. /\ front \in Nat /\ front <= current_target
        /\ \A j \in DOMAIN new : /\ new[j].time \in Nat /\ new[j].rate \in Nat
                                 /\ front <= new[j].rate
    BY FrontLowest
  <1>4. /\ current_target' \in Nat /\ current_target' < PlusInfinity
        /\ \/ current_target' <= Higher(min_configured, Increased(front))
           \/ current_target' <= Higher(min_configured, current_target)
    BY EstimateBounds
  <1>5. /\ now \in Nat /\ current_target \in Nat /\ current_target < PlusInfinity
        /\ min_configured \in Nat /\ now \in 0 .. now
    BY BweTypes DEF HistoryInv
  <1>6. first \in 0 .. now /\ IsFinite(first)
    BY <1>5, FirstReport DEF IsFinite
  <1>7. /\ \A t : SinceStart(t)' <=> ~InStartPhase(t, first)
        /\ h # <<>> \/ used # {} => \A t : SinceStart(t) <=> ~InStartPhase(t, first)
    <2> SUFFICES ASSUME h # <<>> \/ used # {} PROVE first = first_report_time
      BY DEF SinceStart, InStartPhase
    <2>1. ~IsInfinite(first_report_time)
      BY DEF HistoryInv, MemoryStarts
    <2> QED
      BY <2>1
  <1>8. newest.time = now /\ newest.rate = current_target
    OBVIOUS
  <1> HIDE DEF h, new, newest, front
  <1>9. MemoryStarts'
    BY <1>6 DEF MemoryStarts, IsFinite
  <1>10. HistoryOrdered'
    BY <1>1, <1>2 DEF HistoryOrdered
  <1>11. HistoryPast'
    <2> SUFFICES ASSUME NEW j \in DOMAIN new PROVE new[j].time <= now
      BY <1>1 DEF HistoryPast
    <2>1. CASE new[j] = newest
      BY <1>5, <1>8, <2>1
    <2>2. ASSUME NEW i \in DOMAIN h, new[j] = h[i] PROVE new[j].time <= now
      BY <2>2 DEF HistoryInv, HistoryPast, h
    <2> QED
      BY <1>2, <2>1, <2>2
  <1>12. TargetBounded'
    <2> SUFFICES ASSUME NEW j \in DOMAIN new, ~InStartPhase(new[j].time, first),
                        lowered < new[j].time
                 PROVE  current_target' <= Higher(min_configured, Increased(new[j].rate))
      BY <1>1, <1>7 DEF TargetBounded
    <2> DEFINE bound == Increased(new[j].rate)
    <2>1. /\ new[j].rate \in Nat /\ front <= new[j].rate /\ 0 \in 0 .. 255
          /\ Increased(front) \in Int /\ bound \in Int
      <3>1. new[j].rate \in Nat /\ front <= new[j].rate /\ 0 \in 0 .. 255
        BY <1>3
      <3> QED
        BY <1>3, <3>1, RatesStayRates
    <2>2. CASE current_target' <= Higher(min_configured, Increased(front))
      <3>1. current_target' <= Increased(front) => current_target' <= bound
        BY <1>3, <1>4, <2>1, IncreasedAbove
      <3> HIDE DEF bound
      <3>2. current_target' <= Higher(min_configured, bound)
        BY <1>4, <1>5, <2>1, <2>2, <3>1 DEF Higher
      <3> QED
        BY <3>2 DEF bound
    <2>3. CASE current_target' <= Higher(min_configured, current_target)
      <3>1. current_target <= Higher(min_configured, bound)
        <4>1. CASE new[j] = newest
          <5>1. bound = Increased(current_target)
            BY <1>8, <4>1
          <5>2. current_target <= current_target
            BY <1>5
          <5>3. current_target <= Increased(current_target)
            BY <1>5, <5>2, IncreasedAbove
          <5>4. current_target <= bound
            BY <5>1, <5>3
          <5> HIDE DEF bound
          <5> QED
            BY <1>5, <2>1, <5>4 DEF Higher
        <4>2. ASSUME NEW i \in DOMAIN h, new[j] = h[i]
              PROVE  current_target <= Higher(min_configured, bound)
          <5>1. h # <<>>
            BY <4>2
          <5>2. SinceStart(h[i].time) /\ lowered < h[i].time
            BY <1>7, <4>2, <5>1
          <5> QED
            BY <4>2, <5>2 DEF HistoryInv, TargetBounded, h
        <4> QED
          BY <1>2, <4>1, <4>2
      <3> HIDE DEF bound
      <3>2. current_target' <= Higher(min_configured, bound)
        BY <1>4, <1>5, <2>1, <2>3, <3>1 DEF Higher
      <3> QED
        BY <3>2 DEF bound
    <2> QED
      BY <1>4, <2>2, <2>3
  <1>13. UsedRemembered'
    <2> SUFFICES ASSUME NEW u \in used'
                 PROVE  /\ u.until \in 0 .. now /\ u.rate \in Nat
                        /\ SinceStart(u.until)' =>
                              \E j \in DOMAIN new : u.until <= new[j].time /\ new[j].rate <= u.rate
      BY <1>1 DEF UsedRemembered
    <2>1. CASE u \in RecentlyUsed(used)
      <3>1. u \in used /\ now - u.until + HistoryPrecision <= IncreaseInterval
        BY <2>1 DEF RecentlyUsed
      <3>2. u.until \in 0 .. now /\ u.rate \in Nat
        BY <3>1 DEF HistoryInv, UsedRemembered
      <3>3. ASSUME SinceStart(u.until)'
            PROVE  \E j \in DOMAIN new : u.until <= new[j].time /\ new[j].rate <= u.rate
        <4>1. SinceStart(u.until)
          BY <1>7, <3>1, <3>3
        <4>2. PICK i \in DOMAIN h : u.until <= h[i].time /\ h[i].rate <= u.rate
          BY <3>1, <4>1 DEF HistoryInv, UsedRemembered, h
        <4>3. h[i].time \in Nat /\ h[i].rate \in Nat
          <5>1. h \in Seq(Entry)
            BY DEF TypeOK, Entry, h
          <5>2. h[i] \in Entry
            BY <5>1
          <5> QED
            BY <5>2 DEF Entry
        <4> DEFINE time == h[i].time
                   rate == h[i].rate
        <4>4. Fresh(h[i])
          <5>1. time \in Nat /\ u.until <= time
            BY <4>2, <4>3
          <5> HIDE DEF time
          <5>2. now - time + HistoryPrecision <= IncreaseInterval
            BY <1>5, <3>1, <3>2, <5>1, BweAssumption
          <5> QED
            BY <5>2 DEF Fresh, time
        <4>5. PICK j \in DOMAIN new : time <= new[j].time /\ new[j].rate <= rate
          BY <1>2, <4>4
        <4>6. /\ time \in Nat /\ rate \in Nat /\ new[j].time \in Nat /\ new[j].rate \in Nat
              /\ u.until <= time /\ rate <= u.rate
          BY <1>3, <4>2, <4>3
        <4> HIDE DEF time, rate
        <4>7. u.until <= new[j].time /\ new[j].rate <= u.rate
          BY <3>2, <4>5, <4>6
        <4> QED
          BY <4>7
      <3> QED
        BY <3>2, <3>3
    <2>2. CASE u = [until |-> now, rate |-> current_target]
      <3>1. u.until = now /\ u.rate = current_target
        BY <2>2
      <3>2. PICK j \in DOMAIN new : new[j] = newest
        BY <1>2
      <3>3. u.until <= new[j].time /\ new[j].rate <= u.rate
        BY <1>5, <1>8, <3>1, <3>2
      <3> QED
        BY <1>5, <3>1, <3>3
    <2> QED
      BY <2>1, <2>2
  <1>14. (lowered \in {Never} \cup (0 .. now))'
    BY DEF HistoryInv
  <1> QED
    BY <1>4, <1>9, <1>10, <1>11, <1>12, <1>13, <1>14 DEF HistoryInv

\* A report that makes an estimate, as UpdateEstimate sees it.
LEMMA ReportEstimates ==
  ASSUME TypeOK, NEW report \in LossReports, OnTransportLossReport(report)
  PROVE  LET first == IF IsInfinite(first_report_time) THEN now ELSE first_report_time
         IN  /\ first_report_time' = first /\ now' = now /\ lowered' = lowered
             /\ UNCHANGED <<min_configured, max_configured, last_round_trip_time>>
             /\ used' \subseteq RecentlyUsed(used) \cup {[until |-> now, rate |-> current_target]}
             /\ \/ /\ UNCHANGED <<current_target, min_bitrate_history>>
                   /\ used' = RecentlyUsed(used)
                \/ \E fraction \in 0 .. 255 : UpdateEstimate(now, fraction, first)
  <1> DEFINE lost == lost_packets + report.lost
             expected == expected_packets + report.lost + report.received
             first == IF IsInfinite(first_report_time) THEN now ELSE first_report_time
  <1>1. /\ UpdatePacketsLost(now, report) /\ NoteTarget(TRUE)
        /\ now' = now /\ lowered' = lowered
    BY DEF OnTransportLossReport, HandleMessage
  <1>2. /\ first_report_time' = first
        /\ UNCHANGED <<min_configured, max_configured, last_round_trip_time>>
        /\ \/ UNCHANGED <<current_target, min_bitrate_history>>
           \/ UpdateEstimate(now, FractionLoss(lost, expected), first)
    BY <1>1 DEF UpdatePacketsLost, configuredVars
  <1>3. /\ used' \subseteq RecentlyUsed(used) \cup {[until |-> now, rate |-> current_target]}
        /\ current_target' = current_target => used' = RecentlyUsed(used)
    BY <1>1 DEF NoteTarget
  <1>4. FractionLoss(lost, expected) \in 0 .. 255
    <2>1. /\ report.lost \in Nat /\ report.received \in Nat \ {0}
          /\ expected_packets \in Nat /\ lost_packets \in Nat
      BY ControllerAssumption, BweAssumption DEF TypeOK, TransportLossReport
    <2>2. lost \in Nat /\ expected \in Nat \ {0}
      BY <2>1
    <2> HIDE DEF lost, expected
    <2>3. (lost * 256) \div expected \in Nat
      BY <2>2
    <2> QED
      BY <2>3 DEF FractionLoss, Lower
  <1> HIDE DEF lost, expected, first
  <1> QED
    BY <1>1, <1>2, <1>3, <1>4 DEF first

\* Every step keeps the history's invariant.
LEMMA StepHistory == TypeOK /\ TypeOK' /\ HistoryInv /\ [Next]_vars => HistoryInv'
  <1> SUFFICES ASSUME TypeOK, TypeOK', HistoryInv, [Next]_vars PROVE HistoryInv'
    OBVIOUS
  <1> USE DEF configuredVars, accumulatorVars, lossVars
  <1>1. /\ now \in Nat /\ now <= now /\ current_target \in Nat /\ current_target < PlusInfinity
        /\ min_configured \in Nat /\ min_configured <= min_configured
        /\ current_target <= Higher(min_configured, current_target)
        /\ lowered \in {Never} \cup (0 .. now)
    BY BweTypes DEF HistoryInv, Higher
  <1>2. RecentlyUsed(used) \subseteq used
    BY DEF RecentlyUsed
  <1>3. CASE /\ UNCHANGED <<min_bitrate_history, first_report_time, current_target,
                            min_configured, used, lowered>>
             /\ now <= now'
    BY <1>1, <1>3, MemoryKept
  <1>4. CASE Tick
    BY <1>1, <1>3, <1>4 DEF Tick, bweVars, historyVars
  <1>5. ASSUME NEW report \in LossReports, OnTransportLossReport(report)
        PROVE  HistoryInv'
    <2> DEFINE first == IF IsInfinite(first_report_time) THEN now ELSE first_report_time
    <2>1. /\ first_report_time' = first /\ now' = now /\ lowered' = lowered
          /\ min_configured' = min_configured
          /\ used' \subseteq RecentlyUsed(used) \cup {[until |-> now, rate |-> current_target]}
          /\ \/ /\ UNCHANGED <<current_target, min_bitrate_history>>
                /\ used' = RecentlyUsed(used)
             \/ \E fraction \in 0 .. 255 : UpdateEstimate(now, fraction, first)
      BY <1>5, ReportEstimates
    <2>2. CASE UNCHANGED <<current_target, min_bitrate_history>> /\ used' = RecentlyUsed(used)
      <3>1. CASE IsInfinite(first_report_time)
        <4>1. min_bitrate_history' = <<>> /\ used' = {}
          BY <1>2, <2>2, <3>1 DEF HistoryInv, MemoryStarts
        <4>2. current_target' < PlusInfinity /\ lowered' \in {Never} \cup (0 .. now')
          BY <1>1, <2>1, <2>2
        <4> QED
          BY <4>1, <4>2, NothingRemembered
      <3>2. CASE ~IsInfinite(first_report_time)
        <4>1. UNCHANGED <<min_bitrate_history, first_report_time>>
          BY <2>1, <2>2, <3>2
        <4>2. /\ now <= now' /\ used' \subseteq used /\ current_target' < PlusInfinity
              /\ lowered' = lowered /\ min_configured <= min_configured'
              /\ current_target' <= Higher(min_configured', current_target)
          BY <1>1, <1>2, <2>1, <2>2
        <4> QED
          BY <4>1, <4>2, MemoryKept
      <3> QED
        BY <3>1, <3>2
    <2>3. ASSUME NEW fraction \in 0 .. 255, UpdateEstimate(now, fraction, first)
          PROVE  HistoryInv'
      <3>1. CASE FollowsReceiverLimit(now, fraction, first)
        <4>1. used' \subseteq used \cup {[until |-> now, rate |-> current_target]}
          BY <1>2, <2>1
        <4> HIDE DEF first
        <4>2. first = IF IsInfinite(first_report_time) THEN now ELSE first_report_time
          BY DEF first
        <4> QED
          BY <2>1, <2>3, <3>1, <4>1, <4>2, StartRemembered
      <3>2. CASE ~FollowsReceiverLimit(now, fraction, first)
        <4> HIDE DEF first
        <4>1. first = IF IsInfinite(first_report_time) THEN now ELSE first_report_time
          BY DEF first
        <4> QED
          BY <2>1, <2>3, <3>2, <4>1, EstimateRemembered
      <3> QED
        BY <3>1, <3>2
    <2> QED
      BY <2>1, <2>2, <2>3
  <1>6. ASSUME NEW rate \in RembRates, OnRemoteBitrateReport(rate)
        PROVE  HistoryInv'
    <2>1. /\ UNCHANGED <<min_bitrate_history, first_report_time, min_configured, lowered, now>>
          /\ current_target' = Capped(current_target)
          /\ used' = RecentlyUsed(used) \/ used' = {}
      BY <1>6 DEF OnRemoteBitrateReport, HandleMessage, UpdateReceiverEstimate, NoteTarget
    <2>2. /\ current_target' < PlusInfinity
          /\ current_target' <= Higher(min_configured, current_target)
      BY <1>1, <2>1, CappedWithin, BweTypes DEF Clamped, Higher, Lower
    <2>3. used' \subseteq used
      BY <1>2, <2>1
    <2> QED
      BY <1>1, <2>1, <2>2, <2>3, MemoryKept
  <1>7. ASSUME NEW rtt \in Rtts, OnRoundTripTimeUpdate(rtt)
        PROVE  HistoryInv'
    BY <1>1, <1>3, <1>7 DEF OnRoundTripTimeUpdate, HandleCall, UpdateRtt
  <1>8. ASSUME NEW new \in Constraints, OnTargetRateConstraints(new)
        PROVE  HistoryInv'
    <2>1. /\ ResetConstraints(new) /\ now' = now
          /\ used' = IF HasValue(new.start) THEN {} ELSE RecentlyUsed(used)
          /\ lowered' = IF HasValue(new.start) THEN Never
                        ELSE IF min_configured' < min_configured THEN now ELSE lowered
      BY <1>8 DEF OnTargetRateConstraints, HandleCall
    <2>2. first_report_time' = first_report_time
      BY <2>1 DEF ResetConstraints, SetBitrates
    <2>3. CASE HasValue(new.start)
      <3>1. /\ min_bitrate_history' = <<>>
            /\ current_target' \in Nat /\ current_target' <= max_configured'
            /\ max_configured' \in Nat /\ max_configured' < PlusInfinity
        BY <2>1, <2>3, ConstraintsTyped
      <3>2. current_target' < PlusInfinity
        BY <3>1, UnitsAssumption
      <3> QED
        BY <2>1, <2>3, <3>1, <3>2, NothingRemembered
    <2>4. CASE ~HasValue(new.start)
      <3>1. current_target' = current_target /\ min_bitrate_history' = min_bitrate_history
        BY <2>1, <2>4, ConstraintsTyped
      <3>2. used' \subseteq used /\ now <= now' /\ current_target' < PlusInfinity
        BY <1>1, <1>2, <2>1, <2>4, <3>1
      <3>3. min_configured' \in Nat
        BY DEF TypeOK
      <3>4. CASE min_configured' < min_configured
        <4>1. lowered' = now
          BY <2>1, <2>4, <3>4
        <4> QED
          BY <2>1, <2>2, <3>1, <3>2, <4>1, MemoryKept
      <3>5. CASE ~(min_configured' < min_configured)
        <4>1. lowered' = lowered /\ min_configured <= min_configured'
          BY <1>1, <2>1, <2>4, <3>3, <3>5
        <4>2. current_target' <= Higher(min_configured', current_target)
          BY <1>1, <3>1, <3>3 DEF Higher
        <4> QED
          BY <2>2, <3>1, <3>2, <4>1, <4>2, MemoryKept
      <3> QED
        BY <3>4, <3>5
    <2> QED
      BY <2>3, <2>4
  <1>9. CASE UNCHANGED vars
    BY <1>1, <1>3, <1>9 DEF vars, bweVars, historyVars
  <1> QED
    BY <1>4, <1>5, <1>6, <1>7, <1>8, <1>9 DEF Next

\* The history and the targets in use keep their relation at all times.
THEOREM HistoryCorrect == Spec => []HistoryInv
  BY ControllerTypeCorrect, InitHistory, StepHistory, PTL DEF Spec

-----------------------------------------------------------------------------

\* Once the start phase is over no REMB is followed, and what is not too old is not
\* from it.
LEMMA StartOver ==
  ASSUME TypeOK, Steady
  PROVE  /\ ~IsInfinite(first_report_time)
         /\ \A fraction : ~FollowsReceiverLimit(now, fraction, first_report_time)
         /\ \A t \in Int : now - t + HistoryPrecision <= IncreaseInterval => SinceStart(t)
  <1>1. /\ now \in Nat /\ StartPhase \in Nat /\ IncreaseInterval \in Nat /\ HistoryPrecision \in Nat
    BY BweTypes, BweAssumption
  <1>2. /\ IsFinite(first_report_time) /\ now - first_report_time >= StartPhase + IncreaseInterval
    BY DEF Steady
  <1>3. first_report_time \in 0 .. now
    BY <1>2, FirstReport
  <1>4. ~InStartPhase(now, first_report_time)
    BY <1>1, <1>2, <1>3 DEF InStartPhase
  <1>5. ASSUME NEW t \in Int, now - t + HistoryPrecision <= IncreaseInterval
        PROVE  SinceStart(t)
    <2>1. ~(t - first_report_time < StartPhase)
      BY <1>1, <1>2, <1>3, <1>5
    <2> QED
      BY <2>1 DEF SinceStart, InStartPhase
  <1> QED
    BY <1>2, <1>4, <1>5 DEF IsFinite, FollowsReceiverLimit

\* A raise does not lower a target within the limits, unless the minimum has been
\* lowered.
LEMMA RaiseRaises ==
  ASSUME TypeOK, HistoryInv, Steady, Since(now, lowered) > IncreaseInterval,
         current_target <= max_configured, Raise(UpdatedMinHistory(now)[1].rate)
  PROVE  current_target <= current_target'
  <1> DEFINE h == min_bitrate_history
             new == UpdatedMinHistory(now)
             raised == Increased(new[1].rate)
  <1>1. new[1].rate \in Nat /\ 0 \in 0 .. 255
    BY FrontLowest
  <1>2. raised \in Int
    BY <1>1, RatesStayRates
  <1>3. /\ current_target \in Nat /\ current_target < PlusInfinity /\ now \in Nat
        /\ min_configured \in Nat /\ max_configured \in Nat
        /\ IncreaseInterval \in Nat /\ HistoryPrecision \in Nat
    BY BweTypes, BweAssumption DEF HistoryInv
  <1>4. current_target <= Higher(min_configured, raised)
    <2>1. \/ new[1] = [time |-> now, rate |-> current_target]
          \/ \E i \in DOMAIN h : new[1] = h[i] /\ Fresh(h[i])
      BY HistoryUpdated DEF HistoryInv
    <2>2. CASE new[1] = [time |-> now, rate |-> current_target]
      <3>1. raised = Increased(current_target) /\ current_target <= current_target
        BY <1>3, <2>2
      <3>2. current_target <= Increased(current_target)
        BY <1>3, <3>1, IncreasedAbove
      <3>3. current_target <= raised
        BY <3>1, <3>2
      <3> HIDE DEF raised
      <3> QED
        BY <1>2, <1>3, <3>3 DEF Higher
    <2>3. ASSUME NEW i \in DOMAIN h, new[1] = h[i], Fresh(h[i])
          PROVE  current_target <= Higher(min_configured, raised)
      <3> DEFINE time == h[i].time
      <3>1. time \in Nat
        <4>1. h \in Seq(Entry)
          BY DEF TypeOK, Entry
        <4>2. h[i] \in Entry
          BY <4>1
        <4> QED
          BY <4>2 DEF Entry
      <3>2. now - time + HistoryPrecision <= IncreaseInterval
        BY <2>3 DEF Fresh
      <3> HIDE DEF time
      <3>3. SinceStart(time)
        BY <3>1, <3>2, StartOver
      <3>4. lowered < time
        <4>1. lowered = Never \/ lowered \in 0 .. now
          BY DEF HistoryInv
        <4>2. CASE lowered = Never
          BY <3>1, <4>2, UnitsAssumption DEF Never, MinusInfinity
        <4>3. CASE lowered \in 0 .. now
          <5>1. now < PlusInfinity
            BY ControllerAssumption, UnitsAssumption DEF TypeOK
          <5>2. Since(now, lowered) = now - lowered
            BY <1>3, <4>3, <5>1, UnitsAssumption DEF Since, Minus, MinusInfinity
          <5> QED
            BY <1>3, <3>1, <3>2, <4>3, <5>2
        <4> QED
          BY <4>1, <4>2, <4>3
      <3> QED
        BY <2>3, <3>3, <3>4 DEF HistoryInv, TargetBounded, time
    <2> QED
      BY <2>1, <2>2, <2>3
  <1>5. current_target' = Capped(raised)
    BY DEF Raise
  <1> HIDE DEF raised
  <1>6. Capped(raised) = Clamped(raised, min_configured, max_configured)
    BY <1>2, CappedWithin
  <1> QED
    BY <1>2, <1>3, <1>4, <1>5, <1>6 DEF Clamped, Higher, Lower

\* Once the start phase is over, and the memory of a higher minimum, a report lowers a
\* target within the limits only for heavy loss, by half at most, and not before
\* kBweDecreaseInterval and a round-trip time have passed
\* (send_side_bandwidth_estimation.cc:350-392, :413-431).
THEOREM DecreasesForLoss == Spec => SteadyDecrease
  <1> DEFINE Lowers(report) ==
                /\ OnTransportLossReport(report)
                /\ Steady
                /\ Since(now, lowered) > IncreaseInterval
                /\ current_target <= max_configured
                /\ current_target' < current_target
             ForLoss ==
                /\ HighLoss(last_fraction_loss')
                /\ current_target' >= current_target \div 2
                /\ Since(now, time_last_decrease) >= DecreaseInterval + last_round_trip_time
  <1>1. ASSUME TypeOK, HistoryInv, NEW report \in LossReports, Lowers(report)
        PROVE  ForLoss
    <2>1. /\ current_target \in Nat /\ min_configured \in Nat /\ max_configured \in Nat
          /\ current_target <= max_configured
      BY <1>1, BweTypes
    <2>2. ~(current_target' = current_target)
      BY <1>1, <2>1
    <2>3. PICK fraction \in 0 .. 255 : UpdateEstimate(now, fraction, first_report_time)
      <3>1. ~IsInfinite(first_report_time)
        BY <1>1, StartOver
      <3> QED
        BY <1>1, <2>2, <3>1, ReportEstimates
    <2>4. ~FollowsReceiverLimit(now, fraction, first_report_time)
      BY <1>1, StartOver
    <2>5. /\ last_fraction_loss' = fraction
          /\ \/ Raise(UpdatedMinHistory(now)[1].rate)
             \/ HighLoss(fraction) /\ MayDecrease(now) /\ Reduce(now, fraction)
             \/ Keep
      BY <2>3, <2>4 DEF UpdateEstimate
    <2>6. CASE Raise(UpdatedMinHistory(now)[1].rate)
      <3>1. current_target <= current_target'
        BY <1>1, <2>6, RaiseRaises
      <3>2. current_target' \in Nat
        BY <1>1, <2>3, EstimateTyped
      <3> QED
        BY <1>1, <2>1, <3>1, <3>2
    <2>7. CASE HighLoss(fraction) /\ MayDecrease(now) /\ Reduce(now, fraction)
      <3> DEFINE reduced == Decreased(current_target, fraction)
      <3>1. reduced \in Int /\ reduced <= current_target /\ current_target \div 2 <= reduced
        BY <2>1, RatesStayRates, DecreasedBelow
      <3>2. current_target' = Capped(reduced)
        BY <2>7 DEF Reduce
      <3> HIDE DEF reduced
      <3>3. Capped(reduced) = Clamped(reduced, min_configured, max_configured)
        BY <1>1, <3>1, CappedWithin
      <3>4. reduced <= current_target'
        BY <2>1, <3>1, <3>2, <3>3 DEF Clamped, Higher, Lower
      <3>5. current_target \div 2 \in Int /\ current_target' \in Nat
        BY <1>1, <2>1, <2>3, EstimateTyped
      <3>6. current_target' >= current_target \div 2
        BY <3>1, <3>4, <3>5
      <3> QED
        BY <2>5, <2>7, <3>6 DEF MayDecrease
    <2>8. CASE Keep
      <3>1. current_target' = Capped(current_target)
        BY <2>8 DEF Keep
      <3>2. Capped(current_target) = Clamped(current_target, min_configured, max_configured)
        BY <1>1, <2>1, CappedWithin
      <3>3. current_target' >= current_target
        BY <2>1, <3>1, <3>2 DEF Clamped, Higher, Lower
      <3>4. current_target' \in Nat
        BY <1>1, <2>3, EstimateTyped
      <3> QED
        BY <1>1, <2>1, <3>3, <3>4
    <2> QED
      BY <2>5, <2>6, <2>7, <2>8
  <1>2. TypeOK /\ HistoryInv /\ [Next]_vars =>
           [\A report \in LossReports : Lowers(report) => ForLoss]_vars
    BY <1>1
  <1> QED
    BY <1>2, ControllerTypeCorrect, HistoryCorrect, PTL DEF Spec, SteadyDecrease

\* The front of the updated history is not above the lowest recent target.
LEMMA FrontBelowUsed ==
  ASSUME TypeOK, HistoryInv, Steady
  PROVE  LowestUsed \in Nat /\ UpdatedMinHistory(now)[1].rate <= LowestUsed
  <1> DEFINE h == min_bitrate_history
             new == UpdatedMinHistory(now)
             rates == {current_target} \cup {u.rate : u \in RecentlyUsed(used)}
  <1>1. \A u \in RecentlyUsed(used) :
           /\ u \in used /\ now - u.until + HistoryPrecision <= IncreaseInterval
           /\ u.until \in 0 .. now /\ u.rate \in Nat
    BY DEF RecentlyUsed, HistoryInv, UsedRemembered
  <1>2. current_target \in Nat /\ now \in Nat /\ HistoryPrecision \in Nat /\ IncreaseInterval \in Nat
    BY BweTypes, BweAssumption
  <1>3. rates \in SUBSET Nat /\ rates # {}
    BY <1>1, <1>2
  <1>4. LowestUsed = Min(rates)
    BY DEF LowestUsed
  <1>5. /\ new[1].rate \in Nat /\ new[1].rate <= current_target
        /\ \A j \in DOMAIN new : new[j].rate \in Nat /\ new[1].rate <= new[j].rate
    BY FrontLowest
  <1>6. \A i \in DOMAIN h : Fresh(h[i]) =>
           \E j \in DOMAIN new : h[i].time <= new[j].time /\ new[j].rate <= h[i].rate
    BY HistoryUpdated DEF HistoryInv
  <1>7. \A rate \in rates : new[1].rate <= rate
    <2> SUFFICES ASSUME NEW u \in RecentlyUsed(used) PROVE new[1].rate <= u.rate
      BY <1>5
    <2>1. SinceStart(u.until)
      BY <1>1, StartOver
    <2>2. PICK i \in DOMAIN h : u.until <= h[i].time /\ h[i].rate <= u.rate
      BY <1>1, <2>1 DEF HistoryInv, UsedRemembered
    <2>3. h[i].time \in Nat /\ h[i].rate \in Nat
      <3>1. h \in Seq(Entry)
        BY DEF TypeOK, Entry
      <3>2. h[i] \in Entry
        BY <3>1
      <3> QED
        BY <3>2 DEF Entry
    <2> DEFINE time == h[i].time
    <2>4. Fresh(h[i])
      <3>1. time \in Nat /\ u.until <= time
        BY <2>2, <2>3
      <3> HIDE DEF time
      <3>2. now - time + HistoryPrecision <= IncreaseInterval
        BY <1>1, <1>2, <3>1
      <3> QED
        BY <3>2 DEF Fresh, time
    <2> HIDE DEF h, new
    <2>5. PICK j \in DOMAIN new : new[j].rate <= h[i].rate
      BY <1>6, <2>4
    <2> QED
      BY <1>1, <1>5, <2>2, <2>3, <2>5
  <1> HIDE DEF rates, new
  <1>8. PICK least \in rates : \A rate \in rates : least <= rate
    BY <1>3, LeastNatural
  <1>9. Min(rates) \in rates
    BY <1>8 DEF Min
  <1> QED
    BY <1>3, <1>4, <1>7, <1>9 DEF new

\* Once the start phase is over, a report raises the target at most to 8% and 1 kbps
\* above the lowest target in use in the last kBweIncreaseInterval
\* (send_side_bandwidth_estimation.cc:350-369).
THEOREM IncreasesFromLowest == Spec => SteadyIncrease
  <1> DEFINE Raises(report) ==
                OnTransportLossReport(report) /\ Steady /\ current_target' > current_target
  <1>1. ASSUME TypeOK, HistoryInv, NEW report \in LossReports, Raises(report)
        PROVE  current_target' <= Higher(min_configured, Increased(LowestUsed))
    <2> DEFINE front == UpdatedMinHistory(now)[1].rate
               bound == Increased(LowestUsed)
    <2>1. current_target \in Nat /\ min_configured \in Nat /\ ~(current_target' = current_target)
      BY <1>1, BweTypes
    <2>2. PICK fraction \in 0 .. 255 : UpdateEstimate(now, fraction, first_report_time)
      <3>1. ~IsInfinite(first_report_time)
        BY <1>1, StartOver
      <3> QED
        BY <1>1, <2>1, <3>1, ReportEstimates
    <2>3. ~FollowsReceiverLimit(now, fraction, first_report_time)
      BY <1>1, StartOver
    <2>4. /\ current_target' \in Nat /\ current_target' < PlusInfinity
          /\ \/ current_target' <= Higher(min_configured, Increased(front))
             \/ current_target' <= Higher(min_configured, current_target)
      BY <1>1, <2>2, <2>3, EstimateBounds
    <2>5. front \in Nat /\ LowestUsed \in Nat /\ front <= LowestUsed /\ 0 \in 0 .. 255
      BY <1>1, FrontBelowUsed, FrontLowest
    <2>6. Increased(front) \in Int /\ bound \in Int
      BY <2>5, RatesStayRates
    <2>7. current_target' <= Increased(front) => current_target' <= bound
      BY <2>4, <2>5, IncreasedAbove
    <2> HIDE DEF front, bound
    <2>8. current_target' <= Higher(min_configured, bound)
      BY <1>1, <2>1, <2>4, <2>6, <2>7 DEF Higher
    <2> QED
      BY <2>8 DEF bound
  <1>2. TypeOK /\ HistoryInv /\ [Next]_vars =>
           [\A report \in LossReports : Raises(report) =>
               current_target' <= Higher(min_configured, Increased(LowestUsed))]_vars
    BY <1>1
  <1> QED
    BY <1>2, ControllerTypeCorrect, HistoryCorrect, PTL DEF Spec, SteadyIncrease

=============================================================================
