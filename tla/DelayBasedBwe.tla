---------------------------- MODULE DelayBasedBwe ----------------------------
(***************************************************************************)
(* The receiver's delay-based bandwidth estimate as it reacts to one data  *)
(* packet after the other, and to what GoogCcNetworkController tells it of *)
(* new constraints and of the round-trip time: class DelayBasedBwe of      *)
(* google_cc/delay_based_bwe.cc over the rate control of AimdRateControl.  *)
(*                                                                         *)
(* Its inputs are the state of the over-use detector and the acknowledged  *)
(* bitrate.  The first is arbitrary, except that a detector that has just  *)
(* been created says normal.  The second is arbitrary too, except that     *)
(* once there is one there is one for ever: BitrateEstimator never drops   *)
(* its estimate (bitrate_estimator.cc:51-100).                             *)
(***************************************************************************)
EXTENDS AimdRateControl

CONSTANTS
    StreamTimeOut,      \* kStreamTimeOut, 2 s
    Throughputs,        \* acknowledged bitrates
    Deviations,         \* deviations of the link capacity estimate, in tenths
    StartBitrates,      \* starting rates of new constraints
    MinBitrates,        \* minimum rates of new constraints, as the controller clamps them
    Rtts,               \* round-trip times
    MaxCalls,           \* bound: new constraints and round-trip times
    MaxTime,            \* bound: last instant of the clock
    MaxPackets          \* bound: packets at one instant

ASSUME DelayAssumption ==
    /\ StreamTimeOut \in Nat
    /\ Throughputs \subseteq Nat \ {NoRate}
    /\ Deviations \subseteq 4 .. 25
    /\ MinBitrates \subseteq Nat /\ \A rate \in MinBitrates : MinBitrate <= rate
    /\ StartBitrates \subseteq Nat /\ Rtts \subseteq Nat
    /\ MaxCalls \in Nat
    /\ MaxTime \in Nat /\ MaxTime < PlusInfinity /\ MaxPackets \in Nat

\* Rates are far below the infinity: 2^63 bits per second.
ASSUME RatesAssumption ==
    \A rate \in Throughputs \cup StartBitrates \cup MinBitrates \cup {MaxConfiguredBitrate} :
        ThroughputLimit(rate) <= PlusInfinity

VARIABLES
    now,                \* the receiver's clock
    packets,            \* packets at this instant
    calls,              \* constraints and round-trip times so far
    rate_control,       \* rate_control_
    last_seen_packet,   \* last_seen_packet_
    acked_bitrate,      \* acknowledged_bitrate_estimator_->bitrate()
    usage,              \* the detector's state at the last packet
    result,             \* what the last packet returned: recent_result_
    unchanged_since,    \* history: when current_bitrate_ last changed
    over_since,         \* history: when measured overuse began that still lasts
    backed_off,         \* history: when a packet last left the estimate backed off
    moved               \* history: when a packet last moved the estimate

packetVars == <<last_seen_packet, acked_bitrate, usage, result>>
historyVars == <<unchanged_since, over_since, backed_off, moved>>
vars == <<now, packets, calls, rate_control, packetVars, historyVars>>

Bitrate == rate_control.current_bitrate

Usages == {"kBwNormal", "kBwOverusing", "kBwUnderusing"}

NotUpdated == [updated |-> FALSE]
UpdatedTo(bitrate) == [updated |-> TRUE, target_bitrate |-> bitrate]

Init ==
    /\ now = 0
    /\ packets = 0
    /\ calls = 0
    /\ rate_control = InitialAimd
    /\ last_seen_packet = Never
    /\ acked_bitrate = NoRate
    /\ usage = "kBwNormal"
    /\ result = NotUpdated
    /\ unchanged_since = 0
    /\ over_since = Never
    /\ backed_off = Never
    /\ moved = Never

\* IncomingPacketFeedback replaces the detectors when the stream has timed out.
TimedOut == IsInfinite(last_seen_packet) \/ Since(now, last_seen_packet) > StreamTimeOut

\* What State of the detector may say after the packet.
DetectorStates == IF TimedOut THEN {"kBwNormal"} ELSE Usages

\* What bitrate of the acknowledged bitrate estimator may return.
AcknowledgedBitrates ==
    Throughputs \cup (IF acked_bitrate = NoRate THEN {NoRate} ELSE {})

\* UpdateEstimate: the rate control's estimate is a result once it is valid.
UpdateEstimate(deviation) ==
    /\ rate_control' = Update(rate_control, RateControlInput(usage', acked_bitrate'), now, deviation)
    /\ result' = IF ValidEstimate(rate_control')
                 THEN UpdatedTo(LatestEstimate(rate_control')) ELSE NotUpdated

\* Overusing before there is an acknowledged bitrate: SetEstimate to half.
HalveEstimate ==
    /\ rate_control' = WithEstimate(rate_control, Divided(LatestEstimate(rate_control), 2), now)
    /\ result' = UpdatedTo(LatestEstimate(rate_control'))

\* Mutant: a packet that leaves the estimate alone counts as a change of it.
KeepEstimate_Counts ==
    /\ result' = NotUpdated
    /\ rate_control' = [rate_control EXCEPT !.time_last_change = now]

KeepEstimate ==
    /\ result' = NotUpdated
    /\ UNCHANGED rate_control

\* MaybeUpdateEstimate, outside an application-limited region.
MaybeUpdateEstimate(deviation) ==
    \/ /\ usage' # "kBwOverusing"
       /\ UpdateEstimate(deviation)
    \/ /\ usage' = "kBwOverusing"
       /\ acked_bitrate' # NoRate
       /\ IF TimeToReduceFurther(rate_control, now, acked_bitrate')
          THEN UpdateEstimate(deviation)
          ELSE KeepEstimate
    \/ /\ usage' = "kBwOverusing"
       /\ acked_bitrate' = NoRate
       /\ IF ValidEstimate(rate_control) /\ InitialTimeToReduceFurther(rate_control)
          THEN HalveEstimate
          ELSE KeepEstimate

NoteChange == unchanged_since' = IF Bitrate' # Bitrate THEN now ELSE unchanged_since

\* The packet found overuse, and there is a throughput to react to.
MeasuredOveruse == usage' = "kBwOverusing" /\ acked_bitrate' # NoRate

\* An estimate of 85% of the throughput or less, but for the configured minimum.
BackedOffEnough == Bitrate' <= ClampBitrate(rate_control, BackedOff(acked_bitrate'))

\* What the histories keep of a packet.
NotePacket ==
    /\ over_since' = CASE MeasuredOveruse /\ over_since = Never -> now
                       [] MeasuredOveruse /\ over_since # Never -> over_since
                       [] ~MeasuredOveruse -> Never
    /\ backed_off' = IF MeasuredOveruse /\ BackedOffEnough THEN now ELSE backed_off
    /\ moved' = IF rate_control.initialized /\ Bitrate' # Bitrate THEN now ELSE moved

\* IncomingPacketFeedbackVector for the one packet of a message
\* (receiver.cc:84): the detector looks at it, then the estimate is updated.
IncomingPacket ==
    /\ packets < MaxPackets
    /\ packets' = packets + 1
    /\ usage' \in DetectorStates
    /\ acked_bitrate' \in AcknowledgedBitrates
    /\ last_seen_packet' = now
    /\ \E deviation \in Deviations : MaybeUpdateEstimate(deviation)
    /\ NoteChange
    /\ NotePacket
    /\ UNCHANGED <<now, calls>>

\* The delay-based part of GoogCcNetworkController::ResetConstraints:
\* SetStartBitrate, if there is a rate to start from, which the controller has
\* raised to the minimum, then SetMinBitrate.
OnConstraints(rate, min) ==
    /\ calls < MaxCalls
    /\ calls' = calls + 1
    /\ LET started == IF HasValue(rate)
                      THEN SetStartBitrate(rate_control, Higher(rate, min))
                      ELSE rate_control
       IN  rate_control' = SetMinBitrate(started, min)
    /\ NoteChange
    /\ UNCHANGED <<now, packets, packetVars, over_since, backed_off, moved>>

\* OnRttUpdate.
OnRttUpdate(rtt) ==
    /\ calls < MaxCalls
    /\ calls' = calls + 1
    /\ rate_control' = SetRtt(rate_control, rtt)
    /\ UNCHANGED <<now, packets, packetVars, historyVars>>

Tick ==
    /\ now < MaxTime
    /\ now' = now + 1
    /\ packets' = 0
    /\ UNCHANGED <<calls, rate_control, packetVars, historyVars>>

Next ==
    \/ Tick
    \/ IncomingPacket
    \/ \E rate \in StartBitrates \cup {NoRate}, min \in MinBitrates : OnConstraints(rate, min)
    \/ \E rtt \in Rtts : OnRttUpdate(rtt)

Spec == Init /\ [][Next]_vars

-----------------------------------------------------------------------------
(* Properties *)

\* Every variable keeps its type; the bitrate is at least the configured
\* minimum, and the state kRcDecrease is left within the call that enters it.
TypeOK ==
    /\ now \in 0 .. MaxTime /\ packets \in 0 .. MaxPackets /\ calls \in 0 .. MaxCalls
    /\ rate_control \in RateControl
    /\ rate_control.min_configured <= Bitrate
    /\ rate_control.state # "kRcDecrease"
    /\ {rate_control.time_last_change, rate_control.time_last_decrease,
        rate_control.time_first_throughput, last_seen_packet,
        over_since, backed_off, moved} \subseteq {Never} \cup (0 .. now)
    /\ rate_control.link_capacity \in LinkCapacityEstimator
    /\ acked_bitrate \in Throughputs \cup {NoRate}
    /\ usage \in Usages
    /\ unchanged_since \in 0 .. now

\* Once there is an estimate, overuse never raises it, and of the packets only
\* those that find overuse lower it (aimd_rate_control.cc:247-286).
OveruseNeverRaises ==
    [][IncomingPacket /\ rate_control.initialized =>
          /\ usage' = "kBwOverusing" => Bitrate' <= Bitrate
          /\ Bitrate' < Bitrate => usage' = "kBwOverusing"]_vars

\* Where there is a throughput, a packet lowers the estimate only if no packet has
\* moved it, up or down, for a round-trip time, within the bounds on that, unless
\* the throughput is below half of the estimate (aimd_rate_control.cc:82-96).
ReductionsSpaced ==
    [][IncomingPacket /\ rate_control.initialized /\ acked_bitrate' # NoRate
       /\ Bitrate' < Bitrate
       => \/ Since(now, moved) >= Clamped(rate_control.rtt, MinReduction, MaxReduction)
          \/ 2 * acked_bitrate' < Bitrate]_vars

\* While overuse lasts it is reacted to once per round-trip time, within the
\* bounds on that, whatever postponed the first reaction: when it has lasted that
\* long, and that long has passed since the estimate was last backed off, the
\* packet backs it off, below 85% of the throughput or to the configured minimum
\* (delay_based_bwe.cc:198-201, aimd_rate_control.cc:82-96, :247-286).
SustainedOveruseReduces ==
    [][/\ IncomingPacket
       /\ MeasuredOveruse
       /\ Since(now, Higher(over_since', backed_off))
             >= Clamped(rate_control.rtt, MinReduction, MaxReduction)
       => BackedOffEnough]_vars

\* After overuse the estimate stays where it is until the detector says normal
\* again, and then does not jump: the time spent in hold does not count as time
\* to grow (aimd_rate_control.cc:321-341).
HoldUntilNormal ==
    [][IncomingPacket /\ rate_control.initialized /\ rate_control.state = "kRcHold" =>
          /\ Bitrate' > Bitrate => usage' = "kBwNormal"
          /\ Bitrate' <= Bitrate + 1]_vars

\* A packet never lets the estimate grow above one and a half times the latest
\* throughput plus 10 kbps (aimd_rate_control.cc:204-208).
GrowthFollowsThroughput ==
    [][IncomingPacket /\ rate_control.initialized /\ Bitrate' > Bitrate =>
          Bitrate' <= ThroughputLimit(rate_control'.latest_throughput)]_vars

\* The documented condition to reduce (aimd_rate_control.h:43-46): it is met
\* when the bitrate has not changed for more than an RTT.
ReducesWhenUnchanged ==
    [][/\ IncomingPacket
       /\ rate_control.initialized
       /\ usage' = "kBwOverusing"
       /\ now - unchanged_since > ReductionInterval(rate_control)
       => TimeToReduceFurther(rate_control, now, acked_bitrate')]_vars

=============================================================================
