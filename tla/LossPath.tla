------------------------------ MODULE LossPath ------------------------------
(***************************************************************************)
(* The receiver's loss accounting together with what feeds it: the         *)
(* sender's packet numbering, a datagram path that can lose packets, and,  *)
(* unless InOrder, reorder and duplicate them, and the two clocks.         *)
(***************************************************************************)
EXTENDS LossCollection

CONSTANTS
    InOrder,            \* the path neither reorders nor duplicates
    ClockOffset,        \* sender clock minus receiver clock
    StartTime,          \* the receiver's clock at the start
    MaxTime,            \* bound: last instant of the clock
    MaxPacketNumber,    \* bound: last packet number sent
    MaxInFlight         \* bound: packets in flight at a time

ASSUME PathAssumption ==
    /\ InOrder \in BOOLEAN
    /\ ClockOffset \in Int
    /\ StartTime \in Nat
    /\ MaxTime \in Nat
    /\ MaxPacketNumber \in Nat
    /\ MaxInFlight \in Nat

VARIABLES
    now,                    \* the receiver's clock
    recent_packet_number,   \* recent_packet_number_ of the sender's packet maker
    net,                    \* packets in flight
    delivered,              \* history: packet numbers handed to the receiver
    windows                 \* history: the reports made, with what they cover

vars == <<collectionVars, now, recent_packet_number, net, delivered, windows>>

\* A data packet, as far as the loss accounting reads it.
Packet == [seq : Nat \ {0}, send_time : Int]

Init ==
    /\ CollectionInit
    /\ now = StartTime
    /\ recent_packet_number = 0
    /\ net = {}
    /\ delivered = {}
    /\ windows = <<>>

Tick ==
    /\ now < MaxTime
    /\ now' = now + 1
    /\ UNCHANGED <<collectionVars, recent_packet_number, net, delivered, windows>>

\* GCCDataPacketMaker::MakePacket: the number after the last one.  The time is
\* put in by its caller.
MakePacket(send_time) == [seq |-> recent_packet_number + 1, send_time |-> send_time]

\* Sender::MakePacketAndSendFromBuf: numbers are consecutive from 1, the send
\* time is read from the sender's clock.
SendPacket ==
    /\ recent_packet_number < MaxPacketNumber
    /\ Cardinality(net) < MaxInFlight
    /\ recent_packet_number' = recent_packet_number + 1
    /\ net' = net \cup {MakePacket(now + ClockOffset)}
    /\ UNCHANGED <<collectionVars, now, delivered, windows>>

\* The network drops a packet.
Lose(packet) ==
    /\ net' = net \ {packet}
    /\ UNCHANGED <<collectionVars, now, recent_packet_number, delivered, windows>>

\* The message Receiver::OnDataPacketReceived makes of a packet.
Feedback(packet) ==
    [packet_feedbacks |-> <<[sent_packet |-> packet, receive_time |-> now]>>]

\* Receiver::ReceivePacket hands a packet to the loss collection.  A path that
\* duplicates may deliver the packet again.
Deliver(packet) ==
    /\ InOrder => \A other \in net : packet.seq <= other.seq
    /\ OnTransportPacketsFeedback(Feedback(packet))
    /\ \/ net' = net \ {packet}
       \/ ~InOrder /\ net' = net
    /\ delivered' = delivered \cup {packet.seq}
    /\ windows' =
         IF result'.updated
         THEN Append(windows, [ first |-> wait.first_packet_number,
                                last |-> wait.largest_packet_number,
                                received |-> result'.packets_received_delta,
                                lost |-> result'.packets_lost_delta ])
         ELSE windows
    /\ UNCHANGED <<now, recent_packet_number>>

Next ==
    \/ Tick
    \/ SendPacket
    \/ \E packet \in net : Lose(packet) \/ Deliver(packet)

Spec == Init /\ [][Next]_vars

-----------------------------------------------------------------------------
(* Properties *)

ReceiveVectorType ==
    [ received : Seq(BOOLEAN),
      first_received_time : Nat,
      largest_received_time : Nat,
      wait_duration : Nat,
      first_packet_number : Nat,
      largest_packet_number : Nat ]

StatusType ==
    {"running", "UpdateWaitVector", "OnReceiveDurationEnd",
     "OnNewReportGenerated", "out_of_range"}

\* Every variable keeps its type.
TypeOK ==
    /\ in_effect \in ReceiveVectorType
    /\ wait \in ReceiveVectorType
    /\ smooth_rtt \in Int
    /\ status \in StatusType
    /\ now \in Nat
    /\ recent_packet_number \in Nat
    /\ net \in SUBSET Packet
    /\ delivered \in SUBSET Nat

\* However the path loses, reorders or duplicates packets, the two assertions
\* about the windows' timing (receiver_loss_collection.cc:141 and :151) hold:
\* the wait vector has always been reported by the time the in-effect vector
\* ends, and the in-effect vector is still young when it is.
TimerAssertionsHold ==
    status \notin {"OnReceiveDurationEnd", "OnNewReportGenerated"}

\* On a path that only loses packets no assertion fails and no vector is
\* written out of range: the receiver keeps running.
ReceiverSurvives == InOrder => status = "running"

\* What the vectors still hold agrees with what has arrived: on a path that
\* only loses packets, every delivered packet is in a reported window or is
\* marked in exactly one of the two vectors, and nothing else is marked there
\* (receiver_loss_collection.cc:74-108, :139-153).
VectorsTrackDeliveries ==
    LET marked(v) == {v.first_packet_number + i - 1 : i \in ReceivedIndices(v)}
        reported == UNION {windows[i].first .. windows[i].last : i \in DOMAIN windows}
    IN  InOrder =>
          /\ marked(in_effect) \cap marked(wait) = {}
          /\ marked(in_effect) \cup marked(wait) = delivered \ reported

\* A window is never reported late: a packet that arrives once the wait
\* vector's time is over makes its report, in the same call
\* (receiver_loss_collection.cc:113).
ReportedWhenDue ==
    [][\A packet \in net :
          /\ Deliver(packet)
          /\ status' = "running"
          /\ wait.received # <<>>
          /\ now > wait.first_received_time + ReceiveDuration + wait.wait_duration
          => result'.updated]_vars

\* The inductive invariant behind TimerAssertionsHold.  An empty vector is a
\* reset one; a vector that is not empty begins with a packet received; the
\* in-effect vector spans at most ReceiveDuration; and a wait vector is older
\* than that, was opened more than ReceiveDuration before the in-effect one,
\* and has not been due at any arrival since (receiver_loss_collection.cc:82-153).
TimerInv ==
    /\ wait.received = <<>> => wait = EmptyVector
    /\ in_effect.received = <<>> =>
          /\ in_effect.first_received_time = 0
          /\ in_effect.largest_received_time = 0
          /\ in_effect.wait_duration = 0
          /\ in_effect.largest_packet_number = 0
    /\ wait.received # <<>> => wait.received[1]
    /\ in_effect.received # <<>> =>
          /\ in_effect.received[1]
          /\ in_effect.first_received_time <= in_effect.largest_received_time
          /\ in_effect.largest_received_time <= in_effect.first_received_time + ReceiveDuration
          /\ in_effect.largest_received_time <= now
    /\ wait.received # <<>> =>
          /\ wait.wait_duration <= ReceiveDuration
          /\ wait.first_received_time + ReceiveDuration < now
          /\ in_effect.received # <<>> =>
                /\ wait.first_received_time + ReceiveDuration < in_effect.first_received_time
                /\ in_effect.largest_received_time
                      <= wait.first_received_time + ReceiveDuration + wait.wait_duration

\* On a path that only loses packets, everything in flight is numbered above
\* everything the vectors have seen, and below the next number to be sent.
OrderInv ==
    InOrder =>
      /\ in_effect.largest_packet_number <= recent_packet_number
      /\ in_effect.first_packet_number <= recent_packet_number + 1
      /\ \A p \in net :
            /\ in_effect.largest_packet_number < p.seq
            /\ in_effect.first_packet_number <= p.seq
            /\ p.seq <= recent_packet_number
            /\ \A q \in net : p.seq = q.seq => p = q

\* UpdateWaitVector's assertion (receiver_loss_collection.cc:75): a packet
\* below the in-effect vector is below the largest number of the wait vector.
WaitVectorAssertion == status # "UpdateWaitVector"

\* The abstract specification of the accounting: its history is this module's.
Accounting == INSTANCE LossAccounting WITH delivered <- delivered, windows <- windows

\* Packet n is one of those a receive vector spans.
Spans(v, n) ==
    /\ v.received # <<>>
    /\ v.first_packet_number <= n
    /\ n <= v.largest_packet_number

\* A receive vector spans packets above those reported, begins and ends with a
\* delivered one and records exactly which packets of its span are in D.
Records(v, D, reported) ==
    v.received # <<>> =>
      /\ Len(v.received) = v.largest_packet_number - v.first_packet_number + 1
      /\ v.first_packet_number \in D
      /\ v.largest_packet_number \in D
      /\ reported < v.first_packet_number
      /\ \A i \in DOMAIN v.received :
            v.received[i] <=> v.first_packet_number + i - 1 \in D

\* The in-effect vector e and, below it, the wait vector w record the packets
\* of D that are not reported yet.
Tracked(e, w, D, reported) ==
    /\ Records(e, D, reported)
    /\ Records(w, D, reported)
    /\ e.received # <<>> /\ w.received # <<>> =>
          w.largest_packet_number < e.first_packet_number
    /\ \A n \in D : n <= reported \/ Spans(w, n) \/ Spans(e, n)

WindowType == [first : Nat, last : Nat, received : Nat, lost : Nat]

\* The inductive invariant behind VectorsTrackDeliveries and AccountingSpec: on
\* a path that only loses packets the reports cover the delivered packets up
\* to the last one reported, the vectors record the others, and everything in
\* flight is numbered above all of them.
TrackInv ==
    InOrder =>
      /\ windows \in Seq(WindowType)
      /\ Accounting!Reported \in delivered \cup {0}
      /\ \A i \in DOMAIN windows : windows[i].last <= Accounting!Reported
      /\ \A n \in delivered :
            n <= Accounting!Reported =>
              \E i \in DOMAIN windows : n \in windows[i].first .. windows[i].last
      /\ Tracked(in_effect, wait, delivered, Accounting!Reported)
      /\ \A n \in delivered :
            /\ 0 < n
            /\ n <= recent_packet_number
            /\ \A p \in net : n < p.seq

\* Loss reports are exact, cover disjoint windows in order and skip no packet
\* that was delivered (OnTransportPacketFeedback as a whole, in order).
AccountingSpec == Accounting!Spec

=============================================================================
