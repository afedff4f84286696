--------------------------- MODULE LossCollection ---------------------------
(***************************************************************************)
(* The receiver's loss accounting, class ReceiverLossCollection of         *)
(* google_cc/receiver_loss_collection.cc.                                  *)
(*                                                                         *)
(* Data packets are collected in an "in effect" vector for                 *)
(* receive_duration_; the vector then becomes the "wait" vector, which     *)
(* stays open for wait_duration so that late packets can still be marked   *)
(* as received, and is then counted into one loss report.  The two C++     *)
(* vectors and the two pointers to them are the variables `in_effect' and  *)
(* `wait'.                                                                 *)
(*                                                                         *)
(* The module is the component alone: its environment (the clock, the      *)
(* sender's numbering, the network) is the module LossPath.  One call of   *)
(* OnTransportPacketsFeedback carries one packet (receiver.cc:84), so its  *)
(* loop is one step.  Times are integers in an arbitrary unit.             *)
(***************************************************************************)
EXTENDS Integers, Sequences, FiniteSets

CONSTANTS
    ReceiveDuration,    \* receive_duration_, 200 ms
    WaitMargin,         \* the 10 ms GetWaitDuration keeps below it
    MinWaitDuration     \* the 100 ms floor of GetWaitDuration

ASSUME DurationAssumption ==
    /\ ReceiveDuration \in Nat \ {0}
    /\ WaitMargin \in 0 .. ReceiveDuration
    /\ MinWaitDuration \in 0 .. ReceiveDuration

VARIABLES
    in_effect,      \* *in_effect_vector_
    wait,           \* *wait_vector_
    smooth_rtt,     \* smooth_rtt_
    status,         \* "running", or what ended the process
    result          \* the LossReportUpdate the last call returned

collectionVars == <<in_effect, wait, smooth_rtt, status, result>>

-----------------------------------------------------------------------------
(* Feedback on packets, as far as the accounting reads it *)

SentPacket == [seq : Nat \ {0}, send_time : Int]
PacketResult == [sent_packet : SentPacket, receive_time : Nat]
TransportPacketsFeedback == [packet_feedbacks : Seq(PacketResult)]

-----------------------------------------------------------------------------
(* Receive vectors *)

\* A vector after ReceiveVector::ReceiveVector or ReceiveVector::Reset.  The
\* member `state' is written but never read, so it is left out.
EmptyVector ==
    [ received |-> <<>>,
      first_received_time |-> 0,
      largest_received_time |-> 0,
      wait_duration |-> 0,
      first_packet_number |-> 0,
      largest_packet_number |-> 0 ]

NoReport == [updated |-> FALSE]

\* The indices of v.received that hold true.
ReceivedIndices(v) == {i \in DOMAIN v.received : v.received[i]}

\* received_vector[offset] = true, where offset is an unsigned number: an
\* offset beyond the vector is undefined behaviour.
InRange(v, offset) == offset + 1 \in DOMAIN v.received

\* The vector after that write; outside the range the memory written is not
\* part of the vector.
Marked(v, offset) ==
    IF InRange(v, offset) THEN [v EXCEPT !.received[offset + 1] = TRUE] ELSE v

\* Mutant: the next packet expected is skipped.
Continuing_SkipsOne(v, e) ==
    [v EXCEPT !.first_packet_number = e.largest_packet_number + 2]

\* What becomes of the reported wait vector v when the in-effect vector e
\* ends: it will collect the packets above e.
Continuing(v, e) ==
    [v EXCEPT !.first_packet_number = e.largest_packet_number + 1]

\* The first packet of a vector.
Opened(v, seq, t) ==
    [v EXCEPT !.received = <<TRUE>>,
              !.first_received_time = t,
              !.largest_received_time = t,
              !.first_packet_number = seq,
              !.largest_packet_number = seq]

\* Mutant: the gap is filled with true.
Extended_GapReceived(v, seq, t) ==
    [v EXCEPT !.received = [ i \in 1 .. Len(@) + (seq - v.largest_packet_number) |->
                                i <= Len(@) => @[i] ],
              !.largest_received_time = t,
              !.largest_packet_number = seq]

\* Mutant: the gap is not filled.
Extended_NoGap(v, seq, t) ==
    [v EXCEPT !.received = Append(@, TRUE),
              !.largest_received_time = t,
              !.largest_packet_number = seq]

\* A packet above the largest number so far: the gap is filled with false.
Extended(v, seq, t) ==
    [v EXCEPT !.received = [ i \in 1 .. Len(@) + (seq - v.largest_packet_number) |->
                                IF i <= Len(@)
                                THEN @[i]
                                ELSE i = Len(@) + (seq - v.largest_packet_number) ],
              !.largest_received_time = t,
              !.largest_packet_number = seq]

-----------------------------------------------------------------------------
(* Timing *)

\* n / 8 to the nearest integer, halves away from zero (std::round).
EighthOf(n) == IF n >= 0 THEN (n + 4) \div 8 ELSE -((4 - n) \div 8)

\* UpdateRtt, with kAlpha = 1/8.
UpdatedRtt(srtt, sample) ==
    IF srtt = 0 THEN sample ELSE EighthOf(7 * srtt) + EighthOf(sample)

MIN(x, y) == IF x < y THEN x ELSE y
MAX(x, y) == IF x > y THEN x ELSE y

\* Mutant: the floor is missing.
GetWaitDuration_NoFloor(srtt) == MIN(srtt, ReceiveDuration - WaitMargin)

\* Mutant: the ceiling is missing.
GetWaitDuration_NoCeiling(srtt) == MAX(srtt, MinWaitDuration)

\* GetWaitDuration: smooth_rtt_ clamped from above, then from below.
GetWaitDuration(srtt) ==
    MAX(MIN(srtt, ReceiveDuration - WaitMargin), MinWaitDuration)

-----------------------------------------------------------------------------
(* MaybeGenerateReport and OnNewReportGenerated *)

\* Mutant: waits for another receive_duration_ instead of wait_duration.
ReportDue_FullDuration(v, t) ==
    t > v.first_received_time + ReceiveDuration + ReceiveDuration

ReportDue(v, t) == t > v.first_received_time + ReceiveDuration + v.wait_duration

GeneratesReport(v, t) == ReportDue(v, t) /\ ReceivedIndices(v) # {}

\* What MaybeGenerateReport returns, and what it leaves of the wait vector.
ReportOf(v, t) ==
    IF GeneratesReport(v, t)
    THEN [ updated |-> TRUE,
           start_time |-> v.first_received_time,
           end_time |-> t,
           packets_received_delta |-> Cardinality(ReceivedIndices(v)),
           packets_lost_delta |-> Cardinality(DOMAIN v.received \ ReceivedIndices(v)) ]
    ELSE NoReport

\* Mutant: the reported vector is not reset.
AfterReport_NotReset(v, t) == v

AfterReport(v, t) == IF GeneratesReport(v, t) THEN EmptyVector ELSE v

\* The assertion of OnNewReportGenerated, evaluated only when a report is made.
ReportAssertion(v, t) ==
    GeneratesReport(v, t) =>
        in_effect.largest_received_time < in_effect.first_received_time + ReceiveDuration

-----------------------------------------------------------------------------
(* The handler *)

\* A failed assertion aborts the process (the build leaves NDEBUG unset).
Stop(where) ==
    /\ status' = where
    /\ result' = NoReport
    /\ UNCHANGED <<in_effect, wait, smooth_rtt>>

\* SwapValue, on the two pointers: the vector that was in effect will wait, and
\* the one that waited comes into effect.
SwapValue(vectors) == [wait |-> vectors.in_effect, in_effect |-> vectors.wait]

\* OnReceiveDurationEnd, once the wait vector is known to be free.
OnReceiveDurationEnd(vectors, srtt) ==
    LET swapped == SwapValue(vectors)
    IN  /\ wait' = [swapped.wait EXCEPT !.wait_duration = GetWaitDuration(srtt)]
        /\ in_effect' = Continuing(swapped.in_effect, swapped.wait)
        /\ smooth_rtt' = 0
        /\ UNCHANGED status

\* The end of UpdateEffectVector: UpdateRtt, then OnReceiveDurationEnd when
\* the in-effect vector e has lasted receive_duration_.  w is the wait vector
\* at this point.
FinishEffectVector(e, w, packet, t) ==
    LET srtt == UpdatedRtt(smooth_rtt, t - packet.send_time)
    IN  IF t <= e.first_received_time + ReceiveDuration
        THEN /\ in_effect' = e
             /\ wait' = w
             /\ smooth_rtt' = srtt
             /\ result' = ReportOf(wait, t)
             /\ UNCHANGED status
        ELSE IF w.received # <<>>
        THEN Stop("OnReceiveDurationEnd")
        ELSE /\ OnReceiveDurationEnd([wait |-> w, in_effect |-> e], srtt)
             /\ result' = ReportOf(wait, t)

\* A packet numbered below the in-effect vector: UpdateWaitVector, then
\* MaybeGenerateReport.
OnLatePacket(packet, t) ==
    LET offset == packet.seq - wait.first_packet_number
        w == Marked(wait, offset)
    IN  /\ packet.seq < in_effect.first_packet_number
        /\ \/ /\ packet.seq >= wait.largest_packet_number
              /\ Stop("UpdateWaitVector")
           \/ /\ packet.seq < wait.largest_packet_number
              /\ ~InRange(wait, offset)
              /\ Stop("out_of_range")
           \/ /\ packet.seq < wait.largest_packet_number
              /\ IF ReportAssertion(w, t)
                 THEN /\ wait' = AfterReport(w, t)
                      /\ result' = ReportOf(w, t)
                      /\ UNCHANGED <<in_effect, smooth_rtt, status>>
                 ELSE Stop("OnNewReportGenerated")

\* Any other packet: MaybeGenerateReport, then UpdateEffectVector.  A number
\* not above the largest of the in-effect vector is marked in the wait vector
\* (receiver_loss_collection.cc:102), at the in-effect vector's offset.
OnTimelyPacket(packet, t) ==
    LET w == AfterReport(wait, t)
        offset == packet.seq - in_effect.first_packet_number
    IN  /\ packet.seq >= in_effect.first_packet_number
        /\ IF ~ReportAssertion(wait, t)
           THEN Stop("OnNewReportGenerated")
           ELSE \/ /\ packet.seq > in_effect.largest_packet_number
                   /\ FinishEffectVector(
                        IF in_effect.received = <<>>
                        THEN Opened(in_effect, packet.seq, t)
                        ELSE Extended(in_effect, packet.seq, t),
                        w, packet, t)
                \/ /\ packet.seq <= in_effect.largest_packet_number
                   /\ ~InRange(w, offset)
                   /\ Stop("out_of_range")
                \/ /\ packet.seq <= in_effect.largest_packet_number
                   /\ FinishEffectVector(in_effect, Marked(w, offset), packet, t)

OnTransportPacketFeedback(packet, t) ==
    /\ status = "running"
    /\ OnLatePacket(packet, t) \/ OnTimelyPacket(packet, t)

\* OnTransportPacketsFeedback: the loop over the message's one packet.  The
\* report returned is that of the last packet that made one, or of the last.
OnTransportPacketsFeedback(msg) ==
    \A i \in DOMAIN msg.packet_feedbacks :
        OnTransportPacketFeedback(msg.packet_feedbacks[i].sent_packet,
                                  msg.packet_feedbacks[i].receive_time)

CollectionInit ==
    /\ in_effect = EmptyVector
    /\ wait = EmptyVector
    /\ smooth_rtt = 0
    /\ status = "running"
    /\ result = NoReport

=============================================================================
