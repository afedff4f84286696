----------------------------- MODULE SendSideBwe -----------------------------
(***************************************************************************)
(* The sender's loss-based bandwidth estimate, class                       *)
(* SendSideBandwidthEstimation of                                          *)
(* google_cc/send_side_bandwidth_estimation.cc.  Its methods are actions   *)
(* with the time of the call as a parameter; NetworkController calls them. *)
(*                                                                         *)
(* Rates are in bits per second, as in the code.  Times are integers in an *)
(* arbitrary unit.  The estimator is a private member of the controller,   *)
(* so what no method of the controller calls is left out: OnRouteChange    *)
(* and UpdateDelayBasedEstimate.  The delay-based limit therefore stays    *)
(* infinite, and the link capacity is the last rate given to start from.   *)
(* The UMA and event-log bookkeeping reads the estimate without changing   *)
(* it, and is left out too.                                                *)
(***************************************************************************)
EXTENDS Units, Sequences, FiniteSets

CONSTANTS
    InitialTarget,      \* INITIAL_PACING_RATE, 500 kbps
    DefaultMinBitrate,  \* congestion_controller::GetMinBitrate, 5 kbps
    DefaultMaxBitrate,  \* kDefaultMaxBitrate, 1 Gbps
    LimitNumPackets,    \* kLimitNumPackets, 20
    IncreaseInterval,   \* kBweIncreaseInterval, 1000 ms
    DecreaseInterval,   \* kBweDecreaseInterval, 300 ms
    StartPhase,         \* kStartPhase, 2000 ms
    HistoryPrecision    \* the 1 ms UpdateMinHistory adds

ASSUME BweAssumption ==
    /\ DefaultMinBitrate \in Nat /\ InitialTarget \in Nat /\ DefaultMaxBitrate \in Nat
    /\ DefaultMinBitrate <= InitialTarget /\ InitialTarget <= DefaultMaxBitrate
    /\ DefaultMaxBitrate < PlusInfinity
    /\ LimitNumPackets \in Nat \ {0}
    /\ IncreaseInterval \in Nat /\ DecreaseInterval \in Nat /\ StartPhase \in Nat
    /\ HistoryPrecision \in Nat

VARIABLES
    current_target,         \* current_target_
    min_configured,         \* min_bitrate_configured_
    max_configured,         \* max_bitrate_configured_
    receiver_limit,         \* receiver_limit_
    min_bitrate_history,    \* min_bitrate_history_, front first
    lost_packets,           \* lost_packets_since_last_loss_update_
    expected_packets,       \* expected_packets_since_last_loss_update_
    last_fraction_loss,     \* last_fraction_loss_, in 256ths
    has_decreased,          \* has_decreased_since_last_fraction_loss_
    time_last_decrease,     \* time_last_decrease_, or Never
    first_report_time,      \* first_report_time_, or Never
    last_round_trip_time,   \* last_round_trip_time_
    link_capacity           \* link_capacity_.capacity_estimate_bps_

configuredVars == <<min_configured, max_configured>>
accumulatorVars == <<lost_packets, expected_packets, first_report_time>>
lossVars == <<last_fraction_loss, has_decreased, time_last_decrease>>

bweVars == <<current_target, min_bitrate_history, receiver_limit, last_round_trip_time,
             link_capacity, configuredVars, accumulatorVars, lossVars>>

\* LinkCapacityTracker: nothing has been measured.
CapacityInit == link_capacity = 0

BweInit ==
    /\ current_target = InitialTarget
    /\ min_configured = DefaultMinBitrate
    /\ max_configured = DefaultMaxBitrate
    /\ receiver_limit = PlusInfinity
    /\ min_bitrate_history = <<>>
    /\ lost_packets = 0
    /\ expected_packets = 0
    /\ last_fraction_loss = 0
    /\ has_decreased = FALSE
    /\ time_last_decrease = Never
    /\ first_report_time = Never
    /\ last_round_trip_time = 0
    /\ CapacityInit

-----------------------------------------------------------------------------
(* Limits *)

\* GetUpperLimit; the delay-based limit is infinite.
GetUpperLimit == Lower(PlusInfinity, max_configured)

\* Mutant: the lower limit is not applied.
Capped_NoFloor(bitrate) == Lower(bitrate, GetUpperLimit)

\* The value UpdateTargetBitrate and ApplyTargetLimits give current_target_.
Capped(bitrate) == Clamped(bitrate, min_configured, GetUpperLimit)

\* target_rate.
TargetRate == Higher(min_configured, Lower(current_target, receiver_limit))

\* Mutant: a bandwidth of zero is taken for a limit.
UpdateReceiverEstimate_ZeroLimits(bandwidth) ==
    /\ receiver_limit' = bandwidth
    /\ current_target' = Capped(current_target)
    /\ UNCHANGED <<min_bitrate_history, last_round_trip_time, link_capacity,
                   configuredVars, accumulatorVars, lossVars>>

\* UpdateReceiverEstimate.
UpdateReceiverEstimate(bandwidth) ==
    /\ receiver_limit' = IF bandwidth = 0 THEN PlusInfinity ELSE bandwidth
    /\ current_target' = Capped(current_target)
    /\ UNCHANGED <<min_bitrate_history, last_round_trip_time, link_capacity,
                   configuredVars, accumulatorVars, lossVars>>

\* UpdateRtt.
UpdateRtt(rtt) ==
    /\ last_round_trip_time' = IF rtt > 0 THEN rtt ELSE last_round_trip_time
    /\ UNCHANGED <<current_target, min_bitrate_history, receiver_limit, link_capacity,
                   configuredVars, accumulatorVars, lossVars>>

\* SetMinMaxBitrate.
SetMinMaxBitrate(min, max) ==
    /\ min_configured' = Higher(min, DefaultMinBitrate)
    /\ max_configured' = IF max > 0 /\ IsFinite(max)
                         THEN Higher(min_configured', max)
                         ELSE DefaultMaxBitrate

\* LinkCapacityTracker::OnStartingRate: no measured capacity, which would have
\* the precedence, is ever recorded.
OnStartingRate(rate) == link_capacity' = rate

\* SetSendBitrate under the new limits.
SetSendBitrate(bitrate) ==
    /\ current_target' = Clamped(bitrate, min_configured', max_configured')
    /\ min_bitrate_history' = <<>>
    /\ OnStartingRate(bitrate)

\* SetBitrates: without a rate to start from the target stays as it is, even
\* when the new limits do not allow it.
SetBitrates(start, min, max) ==
    /\ SetMinMaxBitrate(min, max)
    /\ IF HasValue(start)
       THEN SetSendBitrate(start)
       ELSE UNCHANGED <<current_target, min_bitrate_history, link_capacity>>
    /\ UNCHANGED <<receiver_limit, last_round_trip_time, accumulatorVars, lossVars>>

\* The stable rate: LinkCapacityTracker::estimate, an integer as given.
GetEstimatedLinkCapacity == link_capacity

-----------------------------------------------------------------------------
(* The estimate *)

\* IsInStartPhase, once a report has set first_report_time_ to `first'.
InStartPhase(t, first) == t - first < StartPhase

\* last_fraction_loss_ for `lost' of `expected' packets.
FractionLoss(lost, expected) == Lower((lost * 256) \div expected, 255)

\* loss <= 0.02 and loss > 0.1, in 256ths.
LowLoss(fraction) == 100 * fraction <= 2 * 256
HighLoss(fraction) == 10 * fraction > 256

\* Entries UpdateMinHistory pops from the front, and from the back.
TooOld(t) ==
    {i \in DOMAIN min_bitrate_history :
        t - min_bitrate_history[i].time + HistoryPrecision > IncreaseInterval}
NotBelowTarget ==
    {i \in DOMAIN min_bitrate_history : min_bitrate_history[i].rate >= current_target}

\* Mutant: only the current target is remembered.
UpdatedMinHistory_Forgets(t) == <<[time |-> t, rate |-> current_target]>>

\* UpdateMinHistory.  Times and rates both increase from front to back, so
\* each loop pops as many entries as meet its condition.
UpdatedMinHistory(t) ==
    LET first == Cardinality(TooOld(t)) + 1
        last == Len(min_bitrate_history) - Cardinality(NotBelowTarget)
        kept == IF first <= last THEN SubSeq(min_bitrate_history, first, last) ELSE <<>>
    IN  Append(kept, [time |-> t, rate |-> current_target])

\* 8% above the lowest recent rate, and 1 kbps.
Increased(rate) == Plus(Scaled(rate, 108, 100), 1000)

\* newRate = rate * (1 - 0.5 * lossRate).
Decreased(rate, fraction) == Truncated(rate * (512 - fraction), 512)

\* In the start phase, without loss, the REMB is trusted.
StartPhaseTarget ==
    IF IsFinite(receiver_limit)
    THEN Higher(receiver_limit, current_target)
    ELSE current_target

FollowsReceiverLimit(t, fraction, first) ==
    /\ fraction = 0
    /\ InStartPhase(t, first)
    /\ StartPhaseTarget # current_target

\* Mutant: the round-trip time is not waited for.
MayDecrease_NoRtt(t) == Since(t, time_last_decrease) >= DecreaseInterval

\* The spacing of two decreases.
MayDecrease(t) == Since(t, time_last_decrease) >= DecreaseInterval + last_round_trip_time

\* The estimate is raised, lowered, or only kept within the limits.
Raise(rate) ==
    /\ current_target' = Capped(Increased(rate))
    /\ has_decreased' = FALSE
    /\ UNCHANGED time_last_decrease

Reduce(t, fraction) ==
    /\ current_target' = Capped(Decreased(current_target, fraction))
    /\ has_decreased' = TRUE
    /\ time_last_decrease' = t

Keep ==
    /\ current_target' = Capped(current_target)
    /\ has_decreased' = FALSE
    /\ UNCHANGED time_last_decrease

\* UpdateEstimate.  The loss report it looks at has just arrived, so its two
\* checks of last_loss_packet_report_ pass, and has_decreased_since_... has
\* just been reset.  The bitrate threshold is zero.
UpdateEstimate(t, fraction, first) ==
    /\ last_fraction_loss' = fraction
    /\ \/ /\ FollowsReceiverLimit(t, fraction, first)
          /\ min_bitrate_history' = <<[time |-> t, rate |-> current_target]>>
          /\ current_target' = Capped(StartPhaseTarget)
          /\ has_decreased' = FALSE
          /\ UNCHANGED time_last_decrease
       \/ /\ ~FollowsReceiverLimit(t, fraction, first)
          /\ min_bitrate_history' = UpdatedMinHistory(t)
          /\ \/ LowLoss(fraction) /\ Raise(UpdatedMinHistory(t)[1].rate)
             \/ HighLoss(fraction) /\ MayDecrease(t) /\ Reduce(t, fraction)
             \/ ~LowLoss(fraction) /\ ~(HighLoss(fraction) /\ MayDecrease(t)) /\ Keep

\* Mutant: the accumulated losses are not reset with the expected packets.
UpdatePacketsLost_KeepsLost(t, report) ==
    LET first == IF IsInfinite(first_report_time) THEN t ELSE first_report_time
        lost == lost_packets + report.lost
        expected == expected_packets + report.lost + report.received
    IN  /\ first_report_time' = first
        /\ UNCHANGED <<receiver_limit, last_round_trip_time, link_capacity, configuredVars>>
        /\ \/ /\ expected < LimitNumPackets
              /\ lost_packets' = lost
              /\ expected_packets' = expected
              /\ UNCHANGED <<current_target, min_bitrate_history, lossVars>>
           \/ /\ expected >= LimitNumPackets
              /\ lost_packets' = lost
              /\ expected_packets' = 0
              /\ UpdateEstimate(t, FractionLoss(lost, expected), first)

\* UpdatePacketsLost: reports are accumulated until they cover LimitNumPackets
\* packets.  A report counts at least one packet
\* (receiver_loss_collection.cc:122), so the check of number_of_packets passes.
UpdatePacketsLost(t, report) ==
    LET first == IF IsInfinite(first_report_time) THEN t ELSE first_report_time
        lost == lost_packets + report.lost
        expected == expected_packets + report.lost + report.received
    IN  /\ first_report_time' = first
        /\ UNCHANGED <<receiver_limit, last_round_trip_time, link_capacity, configuredVars>>
        /\ \/ /\ expected < LimitNumPackets
              /\ lost_packets' = lost
              /\ expected_packets' = expected
              /\ UNCHANGED <<current_target, min_bitrate_history, lossVars>>
           \/ /\ expected >= LimitNumPackets
              /\ lost_packets' = 0
              /\ expected_packets' = 0
              /\ UpdateEstimate(t, FractionLoss(lost, expected), first)

=============================================================================
