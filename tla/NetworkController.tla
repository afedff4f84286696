-------------------------- MODULE NetworkController --------------------------
(***************************************************************************)
(* The sender's congestion controller, class GoogCcNetworkController of    *)
(* google_cc/goog_cc_network_control.cc: the handlers of its interface     *)
(* that concern a sender, over its loss-based estimator (SendSideBwe) and  *)
(* the rate control of its delay-based one (AimdRateControl).              *)
(*                                                                         *)
(* The programs of the repository call two of the handlers: a receiver     *)
(* report arrived, and a REMB arrived.  The others are the controller's    *)
(* public interface for whoever embeds it: new constraints, and a measured *)
(* round-trip time.  Handlers that change nothing are left out, as is the  *)
(* feedback on data packets, which only a receiver gets (DelayBasedBwe).   *)
(*                                                                         *)
(* Of its configuration the constructor reads the streams' and a starting  *)
(* rate.  The programs do not set that one: reading it leaves an arbitrary *)
(* value in the last published target.                                     *)
(***************************************************************************)
EXTENDS SendSideBwe, FiniteSetsExt

CONSTANTS
    MaxConfiguredBitrate, DefaultRtt, MinReduction, MaxReduction, ResponseTime,
    InitializationTime, Second, Growth,     \* of the delay-based rate control
    Config,             \* the NetworkControllerConfig given to the constructor
    UnsetRates,         \* what reading a starting rate that is not set may give
    LossReports,        \* [lost, received] of the receiver reports
    RembRates,          \* bandwidths of the REMB packets
    Rtts,               \* measured round-trip times
    Constraints,        \* [min, max, start] of new constraints, each of them optional
    MaxTime,            \* bound: last instant of the clock
    MaxMessages,        \* bound: messages handled at one instant
    MaxCalls            \* bound: new constraints and round-trip times

\* The messages, without their times.  A report counts a packet at least
\* (receiver_loss_collection.cc:122); a REMB's bandwidth and a measured time are
\* finite; each constraint is optional, NoRate (-1) being that it is absent.
TransportLossReport == [lost : Nat, received : Nat \ {0}]
RemoteBitrateReport == 0 .. PlusInfinity - 1
RoundTripTimeUpdate == 0 .. PlusInfinity - 1
TargetRateConstraints ==
    [ min : NoRate .. DefaultMaxBitrate,
      max : NoRate .. PlusInfinity,
      start : NoRate .. PlusInfinity ]

\* The configuration: the factor is in tenths, and everything is optional.
StreamsConfig ==
    [ pacing_factor : NoRate .. PlusInfinity,
      min_total_allocated_bitrate : NoRate .. PlusInfinity,
      max_padding_rate : NoRate .. PlusInfinity ]
NetworkControllerConfig ==
    [constraints : TargetRateConstraints, stream_based_config : StreamsConfig]

\* The configuration of both programs: limits, but no rate to start from.
ProgramConfig ==
    [ constraints |-> [min |-> 5000, max |-> DefaultMaxBitrate, start |-> NoRate],
      stream_based_config |->
        [ pacing_factor |-> NoRate,
          min_total_allocated_bitrate |-> NoRate,
          max_padding_rate |-> NoRate ] ]

\* What the controller returns: the rates with the estimate they are based on,
\* the pacer's windows, and the time expected between two overuses.  An unset
\* rate may be any number.
TargetTransferRate ==
    [target : Int, stable : Int, fraction_loss : 0 .. 255, round_trip_time : Nat]
PacerConfig == [data_window : Int, pad_window : Int]
NetworkControlUpdate == [rates : TargetTransferRate, pacer : PacerConfig, bwe_period : Nat]
NoUpdate == [updated |-> FALSE]

ASSUME ControllerAssumption ==
    /\ MaxConfiguredBitrate \in Nat /\ DefaultMinBitrate <= MaxConfiguredBitrate
    /\ DefaultRtt \in Nat /\ Second \in Nat
    /\ Config \in NetworkControllerConfig
    /\ UnsetRates \subseteq Int /\ UnsetRates # {}
    /\ LossReports \subseteq TransportLossReport
    /\ RembRates \subseteq RemoteBitrateReport
    /\ Rtts \subseteq RoundTripTimeUpdate
    /\ Constraints \subseteq TargetRateConstraints
    /\ MaxTime \in Nat /\ MaxTime < PlusInfinity
    /\ MaxMessages \in Nat /\ MaxCalls \in Nat

VARIABLES
    now,                    \* the sender's clock
    messages,               \* messages handled at this instant
    calls,                  \* constraints and round-trip times so far
    delay_based,            \* rate_control_ of delay_based_bwe_
    last_published,         \* last_loss_based_target_rate_ and its companions
    announced,              \* history: the last update the caller got
    used,                   \* history: recent targets, and until when each was used
    reported,               \* history: packets reported since the last estimate
    unapplied,              \* history: new limits the target has not been held to yet
    lowered                 \* history: when the minimum was last lowered, or Never

controllerVars == <<delay_based, last_published, announced>>
historyVars == <<used, reported, unapplied, lowered>>
vars == <<now, messages, calls, bweVars, controllerVars, historyVars>>

Aimd == INSTANCE AimdRateControl WITH MinBitrate <- DefaultMinBitrate

\* *config.constraints.starting_rate.
StartingRates ==
    IF HasValue(Config.constraints.start) THEN {Config.constraints.start} ELSE UnsetRates

Init ==
    /\ BweInit
    /\ now = 0
    /\ messages = 0
    /\ calls = 0
    /\ delay_based = Aimd!SetMinBitrate(Aimd!InitialAimd, DefaultMinBitrate)
    /\ \E rate \in StartingRates :
          last_published = [ target |-> rate, stable |-> rate,
                             fraction_loss |-> 0, round_trip_time |-> PlusInfinity ]
    /\ announced = NoUpdate
    /\ used = {}
    /\ reported = [lost |-> 0, received |-> 0]
    /\ unapplied = FALSE
    /\ lowered = Never

-----------------------------------------------------------------------------
(* Publishing *)

\* What MaybeTriggerOnNetworkChanged compares with what it published last.  The
\* pushback target is the loss-based one.
Current ==
    [ target |-> TargetRate,
      stable |-> Lower(GetEstimatedLinkCapacity, TargetRate),
      fraction_loss |-> last_fraction_loss,
      round_trip_time |-> last_round_trip_time ]

\* GetPacingRates: unless configured otherwise the pacing rate is 2.5 times the
\* target, and there is no padding.  The windows are what the pacer may and must
\* send in its second.
PacingRate(published) ==
    LET config == Config.stream_based_config
    IN  Scaled(Higher(ValueOr(config.min_total_allocated_bitrate, 0), published.target),
               ValueOr(config.pacing_factor, 25), 10)
PaddingRate(published) ==
    Lower(ValueOr(Config.stream_based_config.max_padding_rate, 0), published.target)

GetPacingRates(published) ==
    [ data_window |-> Transferred(PacingRate(published), 1, 1),
      pad_window |-> Transferred(PaddingRate(published), 1, 1) ]

\* DelayBasedBwe::GetExpectedBwePeriod; a sender's rate control never reduces.
GetExpectedBwePeriod == Aimd!GetExpectedBandwidthPeriod(delay_based, NoRate)

\* GetNetworkState, a query: what was published last, and the stable rate as it
\* is now and not limited to the target.
GetNetworkState ==
    [ rates |-> [last_published EXCEPT !.stable = GetEstimatedLinkCapacity],
      pacer |-> GetPacingRates(last_published),
      bwe_period |-> GetExpectedBwePeriod ]

\* Mutant: the stable rate is not compared.
Changed_IgnoresStable ==
    \/ Current'.target # last_published.target
    \/ Current'.fraction_loss # last_published.fraction_loss
    \/ Current'.round_trip_time # last_published.round_trip_time

Changed == Current' # last_published

\* MaybeTriggerOnNetworkChanged: an update is returned when anything changed;
\* the period is not compared.
Publish ==
    IF Changed
    THEN /\ last_published' = Current'
         /\ announced' = [ rates |-> Current',
                           pacer |-> GetPacingRates(last_published'),
                           bwe_period |-> GetExpectedBwePeriod' ]
    ELSE UNCHANGED <<last_published, announced>>

-----------------------------------------------------------------------------
(* The handlers *)

\* Targets in use less than IncreaseInterval ago, as of this instant.
RecentlyUsed(targets) ==
    {u \in targets : now - u.until + HistoryPrecision <= IncreaseInterval}

\* Sender::ReceivePacket takes one message.
HandleMessage ==
    /\ messages < MaxMessages
    /\ messages' = messages + 1
    /\ UNCHANGED <<now, calls>>

\* A report replaced the target; anyone else who moves it ends its history.
NoteTarget(by_report) ==
    used' = IF current_target' = current_target THEN RecentlyUsed(used)
            ELSE IF by_report
                 THEN RecentlyUsed(used) \cup {[until |-> now, rate |-> current_target]}
                 ELSE {}

OnTransportLossReport(report) ==
    /\ HandleMessage
    /\ UpdatePacketsLost(now, report)
    /\ NoteTarget(TRUE)
    /\ reported' = IF expected_packets' = 0
                   THEN [lost |-> 0, received |-> 0]
                   ELSE [lost |-> reported.lost + report.lost,
                         received |-> reported.received + report.received]
    /\ unapplied' = (unapplied /\ expected_packets' # 0)
    /\ UNCHANGED <<controllerVars, lowered>>

OnRemoteBitrateReport(rate) ==
    /\ HandleMessage
    /\ UpdateReceiverEstimate(rate)
    /\ NoteTarget(FALSE)
    /\ unapplied' = FALSE
    /\ UNCHANGED <<controllerVars, reported, lowered>>

HandleCall ==
    /\ calls < MaxCalls
    /\ calls' = calls + 1
    /\ UNCHANGED <<now, messages, reported>>

\* The delay-based estimator takes any value, the loss-based one a positive one.
\* A smoothed value would be ignored.
OnRoundTripTimeUpdate(rtt) ==
    /\ HandleCall
    /\ delay_based' = Aimd!SetRtt(delay_based, rtt)
    /\ UpdateRtt(rtt)
    /\ UNCHANGED <<last_published, announced, used, unapplied, lowered>>

\* Mutant: the minimum is not raised to the default.
ClampConstraints_NoFloor(min, max, start) ==
    [ min |-> min,
      max |-> Higher(min, max),
      start |-> IF HasValue(start) THEN Higher(min, start) ELSE NoRate ]

\* ClampConstraints.
ClampConstraints(min, max, start) ==
    LET low == Higher(min, DefaultMinBitrate)
    IN  [ min |-> low,
          max |-> Higher(low, max),
          start |-> IF HasValue(start) THEN Higher(low, start) ELSE NoRate ]

\* ResetConstraints gives the clamped constraints to both estimators.
ResetConstraints(new) ==
    LET c == ClampConstraints(ValueOr(new.min, 0), ValueOr(new.max, PlusInfinity), new.start)
        started == IF HasValue(c.start)
                   THEN Aimd!SetStartBitrate(delay_based, c.start) ELSE delay_based
    IN  /\ SetBitrates(c.start, c.min, c.max)
        /\ delay_based' = Aimd!SetMinBitrate(started, c.min)

OnTargetRateConstraints(new) ==
    /\ HandleCall
    /\ ResetConstraints(new)
    /\ Publish
    /\ used' = IF HasValue(new.start) THEN {} ELSE RecentlyUsed(used)
    /\ unapplied' = ~HasValue(new.start)
    /\ lowered' = IF HasValue(new.start) THEN Never
                  ELSE IF min_configured' < min_configured THEN now ELSE lowered

Tick ==
    /\ now < MaxTime
    /\ now' = now + 1
    /\ messages' = 0
    /\ UNCHANGED <<calls, bweVars, controllerVars, historyVars>>

Next ==
    \/ Tick
    \/ \E report \in LossReports : OnTransportLossReport(report)
    \/ \E rate \in RembRates : OnRemoteBitrateReport(rate)
    \/ \E rtt \in Rtts : OnRoundTripTimeUpdate(rtt)
    \/ \E new \in Constraints : OnTargetRateConstraints(new)

Spec == Init /\ [][Next]_vars

-----------------------------------------------------------------------------
(* Properties *)

\* Every variable keeps its type.  The limits keep their order, and the
\* accumulators stay below an estimate's worth of packets.
TypeOK ==
    /\ now \in 0 .. MaxTime /\ messages \in Nat /\ calls \in Nat
    /\ min_configured \in Nat /\ max_configured \in Nat
    /\ DefaultMinBitrate <= min_configured /\ min_configured <= max_configured
    /\ max_configured < PlusInfinity
    /\ current_target \in Nat
    /\ receiver_limit \in (RembRates \ {0}) \cup {PlusInfinity}
    /\ min_bitrate_history \in Seq([time : Nat, rate : Nat])
    /\ expected_packets \in 0 .. (LimitNumPackets - 1)
    /\ lost_packets \in 0 .. expected_packets
    /\ last_fraction_loss \in 0 .. 255
    /\ has_decreased \in BOOLEAN
    /\ time_last_decrease \in {Never} \cup (0 .. now)
    /\ first_report_time \in {Never} \cup (0 .. now)
    /\ last_round_trip_time \in RoundTripTimeUpdate
    /\ link_capacity \in Nat
    /\ delay_based \in Aimd!RateControl
    /\ last_published \in TargetTransferRate
    /\ announced \in {NoUpdate} \cup NetworkControlUpdate

\* A report that reaches UpdateEstimate.
Estimates(report) ==
    expected_packets + report.lost + report.received >= LimitNumPackets

\* The start phase, and the memory of it in the history, are over.
Steady == IsFinite(first_report_time)
          /\ now - first_report_time >= StartPhase + IncreaseInterval

\* The lowest target used within the last IncreaseInterval.
LowestUsed == Min({current_target} \cup {u.rate : u \in RecentlyUsed(used)})

\* The share of lost packets, in 256ths of all of them.
LossRate(lost, received) == Lower((256 * lost) \div (lost + received), 255)

\* The loss fraction of an estimate is that of all the packets reported since
\* the estimate before: accumulating small reports neither drops packets nor
\* counts them twice, whatever is called in between
\* (send_side_bandwidth_estimation.cc:256-277).
FractionCoversReports ==
    [][\A report \in LossReports :
          OnTransportLossReport(report) /\ Estimates(report) =>
             last_fraction_loss' =
                LossRate(reported.lost + report.lost, reported.received + report.received)]_vars

\* Once the start phase is over, a report lowers a target that is within the
\* limits only for heavy loss, never to less than half, and never twice within
\* kBweDecreaseInterval and a round-trip time.  For kBweIncreaseInterval after the
\* minimum was lowered without a rate to start from the code does not promise it:
\* the minimum may have lifted the target far above the lowest recent one, and
\* without loss the target is then lowered to 8% above that
\* (send_side_bandwidth_estimation.cc:350-392, :413-431).
SteadyDecrease ==
    [][\A report \in LossReports :
          /\ OnTransportLossReport(report)
          /\ Steady
          /\ Since(now, lowered) > IncreaseInterval
          /\ current_target <= max_configured
          /\ current_target' < current_target
          => /\ HighLoss(last_fraction_loss')
             /\ current_target' >= current_target \div 2
             /\ Since(now, time_last_decrease) >= DecreaseInterval + last_round_trip_time]_vars

\* Once the start phase is over, a report raises the target at most to 8% and
\* 1 kbps above the lowest target of the last kBweIncreaseInterval, new starts
\* and new limits apart (send_side_bandwidth_estimation.cc:350-369).
SteadyIncrease ==
    [][\A report \in LossReports :
          OnTransportLossReport(report) /\ Steady /\ current_target' > current_target =>
             current_target' <= Higher(min_configured, Increased(LowestUsed))]_vars

\* The target is within the configured limits, unless they were changed without
\* a rate to start from and no REMB and no estimate has come since
\* (send_side_bandwidth_estimation.cc:170-201, :455-469).
TargetWithinLimits ==
    ~unapplied => min_configured <= current_target /\ current_target <= max_configured

\* After new constraints the caller knows the controller's rates, with the
\* windows computed from them and the expected period, although an update is only
\* returned when something it compares has changed since the last one; and asking
\* for them gives the same target, windows and period, with a stable rate that is
\* the one announced once it is limited to the target
\* (goog_cc_network_control.cc:304-383).
CallerKnowsRates ==
    [][\A new \in Constraints : OnTargetRateConstraints(new) =>
          /\ announced' = [ rates |-> Current', pacer |-> GetPacingRates(Current'),
                            bwe_period |-> GetExpectedBwePeriod' ]
          /\ GetNetworkState'.pacer = announced'.pacer
          /\ GetNetworkState'.bwe_period = announced'.bwe_period
          /\ GetNetworkState'.rates.target = announced'.rates.target
          /\ Lower(GetNetworkState'.rates.stable, announced'.rates.target)
                = announced'.rates.stable]_vars

\* Both estimators work with the same minimum, and the delay-based one is not
\* below it (goog_cc_network_control.cc:161-190).
EstimatorsAgree ==
    /\ delay_based.min_configured = min_configured
    /\ min_configured <= delay_based.current_bitrate

\* The controller keeps what RateLimits promises the program.
Limits == INSTANCE RateLimits WITH
    target <- current_target, limit <- receiver_limit,
    min <- min_configured, max <- max_configured,
    Targets <- Nat, Bandwidths <- RembRates

LimitsSpec == Limits!Spec

=============================================================================
