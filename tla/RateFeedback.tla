---------------------------- MODULE RateFeedback ----------------------------
(***************************************************************************)
(* The two programs around the rate: the sender's loop, which paces data   *)
(* packets and takes the feedback in (sender.cc, sender_test.cc:44-51),    *)
(* the receiver's handling of a data packet, which sends REMB and RR       *)
(* packets (receiver.cc), and the datagram path between them.              *)
(*                                                                         *)
(* The estimators are abstracted to what this layer sees of them: the      *)
(* delay-based estimate of the receiver is any member of Estimates, and    *)
(* the sender's controller does what RateLimits allows, with Targets for   *)
(* the loss-based target (NetworkController is shown to do no more).  The  *)
(* numbers of a receiver report are left out.  The pacing timer is reduced *)
(* to whether it has expired (Pacing has the clock).                       *)
(***************************************************************************)
EXTENDS Units, WireFormat, SequencesExt

CONSTANTS
    Estimates,          \* target bitrates of the receiver's DelayBasedBwe
    Targets,            \* values of the sender's current_target_
    InitialRate,        \* INITIAL_PACING_RATE
    MinPacingRate,      \* MIN_PACING_RATE
    MinBitrate,         \* min_bitrate_configured_
    MaxBitrate,         \* max_bitrate_configured_
    CallsMayFail,       \* bind and sendto may return an error
    MaxData,            \* bound: data packets in flight
    MaxFeedback         \* bound: feedback packets in flight

ASSUME RateAssumption ==
    /\ MinBitrate \in Nat /\ MaxBitrate \in Nat /\ MaxBitrate < PlusInfinity
    /\ Targets \subseteq MinBitrate .. MaxBitrate
    /\ Estimates \subseteq Nat \ {0}
    /\ \A rate \in Estimates : MinBitrate <= rate /\ rate < PlusInfinity
    /\ InitialRate \in Targets
    /\ MinPacingRate \in Nat \ {0} /\ MinPacingRate <= InitialRate
    /\ CallsMayFail \in BOOLEAN
    /\ MaxData \in Nat \ {0} /\ MaxFeedback \in Nat

VARIABLES
    pc,                 \* the call the sender's loop makes next
    timer_expired,      \* clock_->Now() > next_send_timestamp
    pacing_rate,        \* send_control_.pacing_rate
    receiver_limit,     \* receiver_limit_
    current_target,     \* current_target_
    sender,             \* the sender's program "runs", has "ended", or is "paused"
    data,               \* data packets in flight
    feedback,           \* REMB and RR packets in flight, in sending order
    newest_safe,        \* history: the newest REMB was neither lost nor overtaken
    last_remb_rate,     \* last_remb_rate_
    receiver,           \* the receiver's program, likewise
    estimate            \* history: the receiver's last estimate, 0 before one

controllerVars == <<receiver_limit, current_target>>
receiverVars == <<last_remb_rate, receiver, estimate>>
feedbackVars == <<feedback, newest_safe>>
vars == <<pc, timer_expired, pacing_rate, sender, controllerVars,
          data, feedbackVars, receiverVars>>

\* The controller: its target within fixed limits, and the receiver's limit.
Controller == INSTANCE RateLimits WITH
    target <- current_target, limit <- receiver_limit,
    min <- MinBitrate, max <- MaxBitrate, Bandwidths <- Estimates

\* The feedback packets on the wire.
Remb(rate) == SerializeREMB([NewREMB EXCEPT !.bandwidth = rate])
RR == SerializeRR(MakeRR(0, 0, 0, 0))
FeedbackPacket == {Remb(rate) : rate \in Estimates} \cup {RR}

\* The limit the sender should hold for an estimate: none for an estimate that
\* does not fit its field, and none before the first.
Understood(rate) == IF 0 < rate /\ rate < NumberLimit THEN rate ELSE PlusInfinity

\* A program has bound its socket, or it is paused, where pause_at_func leaves
\* it for good.
Started == IF CallsMayFail THEN {"runs", "paused"} ELSE {"runs"}

SenderInit ==
    /\ pc = "SendPacket"
    /\ timer_expired = TRUE
    /\ pacing_rate = InitialRate
    /\ receiver_limit = PlusInfinity
    /\ current_target = InitialRate
    /\ sender \in Started

ReceiverInit ==
    /\ last_remb_rate = 0
    /\ receiver \in Started
    /\ estimate = 0

Init ==
    /\ SenderInit
    /\ ReceiverInit
    /\ data = 0
    /\ feedback = <<>>
    /\ newest_safe = TRUE

\* pause_at_func never returns to the program that calls it.
PauseAtFunc(program) == program' = "paused"

-----------------------------------------------------------------------------
(* The sender's loop *)

\* Time passes next_send_timestamp.
TimerExpires ==
    /\ ~timer_expired
    /\ timer_expired' = TRUE
    /\ UNCHANGED <<pc, pacing_rate, sender, controllerVars, data, feedbackVars,
                   receiverVars>>

\* Sender::SendPacket: when the timer has expired, SetNextSendTime, which
\* needs a positive rate, then MakePacketAndSendFromBuf, which pauses the
\* program when sendto fails.  A full path drops the packet.
SendPacket ==
    /\ pc = "SendPacket" /\ sender = "runs"
    /\ pc' = "ReceivePacket"
    /\ \/ /\ ~timer_expired
          /\ UNCHANGED <<timer_expired, data, sender>>
       \/ /\ timer_expired
          /\ timer_expired' = FALSE
          /\ \/ /\ pacing_rate > 0
                /\ data' = Lower(data + 1, MaxData)
                /\ UNCHANGED sender
             \/ /\ CallsMayFail \/ pacing_rate = 0
                /\ PauseAtFunc(sender)
                /\ UNCHANGED data
    /\ UNCHANGED <<pacing_rate, controllerVars, feedbackVars, receiverVars>>

\* Mutant: the rate in force before the packet was handled.
PacingRate_Stale == Higher(MinPacingRate, Controller!Rate)

\* The rate Sender::OnPacketReceived sets after it has handled a packet.
PacingRate == Higher(MinPacingRate, Controller!Rate')

\* The state the sender logs after each packet.  The numbers of the last report
\* are left out.
DebugState ==
    [ pacing_rate : Nat,
      receiver_limit : {Understood(rate) : rate \in Estimates} \cup {PlusInfinity} ]

ExportDebugState ==
    [pacing_rate |-> pacing_rate, receiver_limit |-> Controller!GetReceiverLimit]

\* OnREMBPacketReceived and OnRRPacketReceived, by the type of the datagram.
Handle(datagram) ==
    \/ /\ GetType(datagram) = "REMB"
       /\ Controller!Remb(UnSerializeREMB(datagram, NewREMB).bandwidth)
    \/ /\ GetType(datagram) = "RR"
       /\ Controller!Report

\* The newest REMB in flight is at index i.
IsNewest(i) ==
    /\ GetType(feedback[i]) = "REMB"
    /\ \A j \in DOMAIN feedback : j > i => GetType(feedback[j]) = "RR"

\* A REMB sent before the packet at index i is still in flight.
Overtakes(i) == \E j \in DOMAIN feedback : j < i /\ GetType(feedback[j]) = "REMB"

\* Sender::ReceivePacket takes the packet at index i.
ReceiveFeedback(i) ==
    /\ pc = "ReceivePacket" /\ sender = "runs"
    /\ newest_safe' = (newest_safe /\ ~(IsNewest(i) /\ Overtakes(i)))
    /\ pc' = "SendPacket"
    /\ Handle(feedback[i])
    /\ pacing_rate' = PacingRate
    /\ feedback' = RemoveAt(feedback, i)
    /\ UNCHANGED <<timer_expired, sender, data, receiverVars>>

\* Sender::ReceivePacket when no packet has arrived yet.
ReceiveNothing ==
    /\ pc = "ReceivePacket" /\ sender = "runs"
    /\ pc' = "SendPacket"
    /\ UNCHANGED <<timer_expired, pacing_rate, sender, controllerVars, data,
                   feedbackVars, receiverVars>>

\* main's time is over before the next round of its loop.
SenderEnds ==
    /\ pc = "SendPacket" /\ sender = "runs"
    /\ sender' = "ended"
    /\ UNCHANGED <<pc, timer_expired, pacing_rate, controllerVars, data, feedbackVars,
                   receiverVars>>

-----------------------------------------------------------------------------
(* The receiver *)

\* Mutant: the rate sent is recorded before it is compared.
RembDue_RecordedFirst(rate) == last_remb_rate = 0

\* OnDelayBaseBweUpdated sends the first estimate, then each one that differs
\* from the one sent before.
RembDue(rate) == last_remb_rate = 0 \/ last_remb_rate # rate

\* Mutant: the REMB carries the rate recorded before this update.
Replies_OldRate(updated, reports) ==
    (IF updated /\ RembDue(estimate') THEN <<Remb(last_remb_rate)>> ELSE <<>>)
    \o (IF reports THEN <<RR>> ELSE <<>>)

\* The packets a data packet makes the receiver send: the delay-based estimator
\* may return an updated estimate, the loss collection a report.
Replies(updated, reports) ==
    (IF updated /\ RembDue(estimate') THEN <<Remb(estimate')>> ELSE <<>>)
    \o (IF reports THEN <<RR>> ELSE <<>>)

\* SetPacketToBuf and SendPacketFromBuf, for one packet after the other.
SendPackets(packets) ==
    /\ feedback' = feedback \o packets
    /\ newest_safe' = (newest_safe \/ \E i \in DOMAIN packets : GetType(packets[i]) = "REMB")

\* Receiver::ReceivePacket takes a data packet (OnDataPacketReceived).  An
\* update that does not change the estimate is possible, and usual.
OnDataPacketReceived ==
    /\ data > 0 /\ receiver = "runs"
    /\ Len(feedback) + 2 <= MaxFeedback
    /\ data' = data - 1
    /\ \E updated, reports \in BOOLEAN :
          /\ estimate' \in IF updated THEN Estimates ELSE {estimate}
          /\ LET replies == Replies(updated, reports)
             IN  \/ /\ SendPackets(replies)
                    /\ last_remb_rate' = IF updated THEN estimate' ELSE last_remb_rate
                    /\ UNCHANGED receiver
                 \/ \* sendto fails on the reply after the first n
                    \E n \in 0 .. Len(replies) - 1 :
                       /\ CallsMayFail
                       /\ PauseAtFunc(receiver)
                       /\ SendPackets(SubSeq(replies, 1, n))
                       /\ last_remb_rate' = IF updated /\ (last_remb_rate = 0 \/ n > 0)
                                            THEN estimate' ELSE last_remb_rate
    /\ UNCHANGED <<pc, timer_expired, pacing_rate, sender, controllerVars>>

\* main's time is over before the next packet.
ReceiverEnds ==
    /\ receiver = "runs"
    /\ receiver' = "ended"
    /\ UNCHANGED <<pc, timer_expired, pacing_rate, sender, controllerVars, data,
                   feedbackVars, last_remb_rate, estimate>>

-----------------------------------------------------------------------------
(* The path *)

LoseData ==
    /\ data > 0
    /\ data' = data - 1
    /\ UNCHANGED <<pc, timer_expired, pacing_rate, sender, controllerVars,
                   feedbackVars, receiverVars>>

LoseFeedback(i) ==
    /\ newest_safe' = (newest_safe /\ ~IsNewest(i))
    /\ feedback' = RemoveAt(feedback, i)
    /\ UNCHANGED <<pc, timer_expired, pacing_rate, sender, controllerVars,
                   data, receiverVars>>

Next ==
    \/ TimerExpires
    \/ SendPacket
    \/ ReceiveNothing
    \/ SenderEnds
    \/ ReceiverEnds
    \/ OnDataPacketReceived
    \/ LoseData
    \/ \E i \in DOMAIN feedback : ReceiveFeedback(i) \/ LoseFeedback(i)

\* The sender's loop calls SendPacket and ReceivePacket in turn, without waiting
\* in either, as long as the program runs (sender_test.cc:44-51), and a packet
\* that stays in flight is the oldest one in the end and arrives.  Nothing is
\* assumed of the pacing timer: the clock may start again before it expires.
Fairness ==
    /\ WF_vars(SendPacket)
    /\ WF_vars(ReceiveNothing)
    /\ SF_vars(feedback # <<>> /\ ReceiveFeedback(1))

Spec == Init /\ [][Next]_vars /\ Fairness

-----------------------------------------------------------------------------
(* Properties *)

\* Every variable keeps its type.
TypeOK ==
    /\ pc \in {"SendPacket", "ReceivePacket"}
    /\ timer_expired \in BOOLEAN
    /\ ExportDebugState \in DebugState
    /\ current_target \in Targets
    /\ sender \in {"runs", "paused", "ended"}
    /\ data \in Nat
    /\ feedback \in Seq(FeedbackPacket)
    /\ newest_safe \in BOOLEAN
    /\ last_remb_rate \in Estimates \cup {0}
    /\ receiver \in {"runs", "paused", "ended"}
    /\ estimate \in Estimates \cup {0}

\* Whatever the path does to the feedback, the sender never paces faster than
\* the last receiver limit it got allows, MIN_PACING_RATE excepted, and never
\* slower than MIN_PACING_RATE (sender.cc:101-121).
PacingWithinLimit ==
    /\ MinPacingRate <= ExportDebugState.pacing_rate
    /\ ExportDebugState.pacing_rate <= Higher(MinPacingRate, ExportDebugState.receiver_limit)

\* Unless the newest REMB was lost or has overtaken an older one, the sender's
\* limit is the receiver's last estimate as soon as no REMB is in flight,
\* whatever became of the REMBs before: an estimate that is not sent is one that
\* the newest REMB has carried already (receiver.cc:105-121), and one too wide for
\* its field is read as no limit, never as a smaller rate (utils.cc:12-19).
LimitFollowsEstimate ==
    /\ newest_safe
    /\ receiver # "paused"
    /\ \A i \in DOMAIN feedback : GetType(feedback[i]) = "RR"
    => receiver_limit = Understood(estimate)

\* Once the receiver's estimate stays the same, the sender's limit becomes that
\* estimate, and stays so, if the newest REMB is neither lost nor overtakes
\* another: what happened to the earlier ones is made good
\* (receiver.cc:105-121, sender.cc:136-144).
LimitConverges ==
    [](sender = "runs" /\ receiver # "paused") /\ <>[]newest_safe =>
        \A rate \in Estimates :
            <>[](estimate = rate) => <>[](receiver_limit = Understood(rate))

=============================================================================
