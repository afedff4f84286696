-------------------------- MODULE InterArrivalDelta --------------------------
(***************************************************************************)
(* The grouping of data packets into bursts, class InterArrivalDelta of    *)
(* google_cc/inter_arrival_delta.cc, and the packets the receiver gives    *)
(* it: DelayBasedBwe::IncomingPacketFeedback calls ComputeDeltas once per  *)
(* data packet, with the sender's time of sending, and two readings of the *)
(* receiver's clock: the "system time", then the arrival (receiver.cc:78,  *)
(* :83).  The process may be held up between the two, so a call is two     *)
(* steps.                                                                  *)
(*                                                                         *)
(* The two hosts' clocks run with time, and each of them starts again when *)
(* its period is over (time/time.cc:712-736): a time that the code has is  *)
(* what a clock Reads at an instant.  Packets and groups keep the instants *)
(* as well, for the properties: instants never go back.                    *)
(*                                                                         *)
(* Sizes count packets: all data packets have the same size (packet.h:29). *)
(***************************************************************************)
EXTENDS Integers, SequencesExt

CONSTANTS
    GroupLength,        \* kSendTimeGroupLength, 5 ms
    BurstDelta,         \* kBurstDeltaThreshold, 5 ms
    MaxBurst,           \* kMaxBurstDuration, 100 ms
    OffsetThreshold,    \* kArrivalTimeOffsetThreshold, 3 s
    ReorderedReset,     \* kReorderedResetThreshold, 3
    StreamTimeOut,      \* kStreamTimeOut, 2 s
    Period,             \* the number of the clocks' readings, 10^11
    Start,              \* the first instant
    Offsets,            \* how far the sender's clock may be ahead
    MaxTime,            \* bound: last instant
    MaxInFlight,        \* bound: packets in flight
    MaxSent             \* bound: packets sent

ASSUME GroupAssumption ==
    /\ GroupLength \in Nat /\ BurstDelta \in Nat /\ MaxBurst \in Nat
    /\ OffsetThreshold \in Nat \ {0} /\ ReorderedReset \in Nat \ {0}
    /\ StreamTimeOut \in Nat
    /\ Period \in Nat \ {0} /\ Start \in Nat /\ Offsets \subseteq Nat
    /\ MaxTime \in Nat /\ Start <= MaxTime /\ MaxInFlight \in Nat /\ MaxSent \in Nat

VARIABLES
    now,                \* time; both hosts' clocks run with it
    offset,             \* how far the sender's clock is ahead
    sent,               \* packets sent
    net,                \* packets in flight
    receiving,          \* the packet whose system time has been read, or None
    current,            \* current_timestamp_group_
    prev,               \* prev_timestamp_group_
    reordered,          \* num_consecutive_reordered_packets_
    last_seen_packet,   \* last_seen_packet_ of DelayBasedBwe
    deltas,             \* what the last call computed
    ordered,            \* history: no packet has overtaken another
    members,            \* history: the packets of `current', in the order of the calls
    prev_members        \* history: the packets of `prev'

groupVars == <<current, prev, reordered>>
historyVars == <<members, prev_members>>
vars == <<now, offset, sent, net, receiving, ordered, groupVars, last_seen_packet, deltas, historyVars>>

\* What a clock reads at an instant: TimeTicks::Now takes the seconds modulo the
\* period and never returns 0.
Reads(instant) == (instant % Period) + 1

\* The receiver's clock, and the sender's, which is ahead of it.
SystemTime(instant) == Reads(instant)
SendTime(packet) == Reads(packet.sent_at + offset)

\* Timestamp::MinusInfinity, before every reading.
Never == -1

EmptyGroup ==
    [ size |-> 0, first_send_time |-> Never, send_time |-> Never,
      first_arrival |-> Never, complete_time |-> Never, last_system_time |-> Never ]

None == [seq |-> 0]

NoDeltas == [computed |-> FALSE]

Higher(a, b) == IF a > b THEN a ELSE b

-----------------------------------------------------------------------------
(* ComputeDeltas *)

IsFirstPacket(group) == group.complete_time = Never

\* Mutant: packets sent at the same time are judged as the others are.
BelongsToBurst_NoZero(group, arrival, send) ==
    /\ arrival - group.complete_time < send - group.send_time
    /\ arrival - group.complete_time <= BurstDelta
    /\ arrival - group.first_arrival < MaxBurst

\* The packet was sent with the group's last one, or has caught up with it.
BelongsToBurst(group, arrival, send) ==
    LET arrival_delta == arrival - group.complete_time
        send_delta == send - group.send_time
    IN  \/ send_delta = 0
        \/ /\ arrival_delta < send_delta
           /\ arrival_delta <= BurstDelta
           /\ arrival - group.first_arrival < MaxBurst

NewTimestampGroup(group, arrival, send) ==
    /\ ~IsFirstPacket(group)
    /\ ~BelongsToBurst(group, arrival, send)
    /\ send - group.first_send_time > GroupLength

\* The end of ComputeDeltas: the packet is added to the group.
Accumulated(group, arrival, system) ==
    [group EXCEPT !.size = @ + 1,
                  !.complete_time = arrival,
                  !.last_system_time = system]

\* A group that starts with this packet.
Started(arrival, send) ==
    [EmptyGroup EXCEPT !.first_send_time = send,
                       !.send_time = send,
                       !.first_arrival = arrival]

\* Mutant: the group keeps the send time of its first packet.
Continued_KeepsSendTime(group, send) == group

\* A group that goes on with this packet.
Continued(group, send) == [group EXCEPT !.send_time = Higher(@, send)]

\* The deltas between two groups, and the system time between them.
DeltasBetween(earlier, later) ==
    [ computed |-> TRUE,
      send |-> later.send_time - earlier.send_time,
      arrival |-> later.complete_time - earlier.complete_time,
      size |-> later.size - earlier.size ]

\* Mutant: the system time is not taken into account.
ClockJumped_NoSystem(earlier, later) ==
    later.complete_time - earlier.complete_time >= OffsetThreshold

\* The receiver's clock has jumped with respect to the system time, which is
\* also what holding up the process between the two readings looks like.
ClockJumped(earlier, later) ==
    (later.complete_time - earlier.complete_time)
        - (later.last_system_time - earlier.last_system_time) >= OffsetThreshold

\* Mutant: the order of sending is looked at.
Backwards_Sent(earlier, later) == DeltasBetween(earlier, later).send < 0

\* The later group seems to have arrived before the earlier one.
Backwards(earlier, later) == DeltasBetween(earlier, later).arrival < 0

\* Reset, as the last thing a call does.
Reset ==
    /\ current' = EmptyGroup
    /\ prev' = EmptyGroup
    /\ reordered' = 0
    /\ deltas' = NoDeltas
    /\ members' = <<>>
    /\ prev_members' = <<>>

\* The packet as a member of a group: when it was sent, and when the clock was
\* read for its system time and for its arrival.
Member(packet) ==
    [sent_at |-> packet.sent_at, taken_at |-> packet.taken_at, arrived_at |-> now]

\* The packet starts a group; the one before is complete.
StartGroup(packet, arrival, system) ==
    /\ current' = Accumulated(Started(arrival, SendTime(packet)), arrival, system)
    /\ prev' = current
    /\ members' = <<Member(packet)>>
    /\ prev_members' = members

\* The packet starts the first group.
StartStream(packet, arrival, system) ==
    /\ current' = Accumulated(Started(arrival, SendTime(packet)), arrival, system)
    /\ prev' = EmptyGroup
    /\ reordered' = 0
    /\ deltas' = NoDeltas
    /\ members' = <<Member(packet)>>
    /\ prev_members' = <<>>

\* ComputeDeltas.  Without a current group there is no previous one either.
ComputeDeltas(packet, arrival, system) ==
    \/ /\ IsFirstPacket(current)
       /\ StartStream(packet, arrival, system)
    \/ \* sent before the group began
       /\ ~IsFirstPacket(current)
       /\ SendTime(packet) < current.first_send_time
       /\ deltas' = NoDeltas
       /\ UNCHANGED <<groupVars, historyVars>>
    \/ \* one more packet of the group
       /\ ~IsFirstPacket(current)
       /\ SendTime(packet) >= current.first_send_time
       /\ ~NewTimestampGroup(current, arrival, SendTime(packet))
       /\ current' = Accumulated(Continued(current, SendTime(packet)), arrival, system)
       /\ deltas' = NoDeltas
       /\ members' = Append(members, Member(packet))
       /\ UNCHANGED <<prev, reordered, prev_members>>
    \/ \* the first group is complete
       /\ SendTime(packet) >= current.first_send_time
       /\ NewTimestampGroup(current, arrival, SendTime(packet))
       /\ IsFirstPacket(prev)
       /\ StartGroup(packet, arrival, system)
       /\ deltas' = NoDeltas
       /\ UNCHANGED reordered
    \/ \* a later group is complete
       /\ SendTime(packet) >= current.first_send_time
       /\ NewTimestampGroup(current, arrival, SendTime(packet))
       /\ ~IsFirstPacket(prev)
       /\ IF ClockJumped(prev, current) THEN Reset
          ELSE IF Backwards(prev, current)
          THEN IF reordered + 1 >= ReorderedReset THEN Reset
               ELSE /\ reordered' = reordered + 1
                    /\ deltas' = NoDeltas
                    /\ UNCHANGED <<current, prev, historyVars>>
          ELSE /\ StartGroup(packet, arrival, system)
               /\ deltas' = DeltasBetween(prev, current)
               /\ reordered' = 0

-----------------------------------------------------------------------------
(* The packets of a message *)

\* Timestamp::PlusInfinity, the arrival of a packet that is lost.
PlusInfinity == Period + 1

\* PacketResult::ReceiveTimeOrder: by arrival, sending time and number.
ReceiveTimeOrder(lhs, rhs) ==
    LET l == lhs.sent_packet
        r == rhs.sent_packet
    IN  \/ lhs.receive_time < rhs.receive_time
        \/ /\ lhs.receive_time = rhs.receive_time
           /\ \/ SendTime(l) < SendTime(r)
              \/ SendTime(l) = SendTime(r) /\ l.seq < r.seq

ReceivedWithSendInfo(feedbacks) == {fb \in feedbacks : fb.receive_time # PlusInfinity}

\* The order in which the packets of a message are taken.
SortedByReceiveTime(feedbacks) ==
    LET received == ReceivedWithSendInfo(feedbacks)
    IN  CHOOSE order \in [1 .. Cardinality(received) -> received] :
            \A i, j \in DOMAIN order : i < j => ReceiveTimeOrder(order[i], order[j])

\* The program gives every message one packet, the one it has just received.
PacketFeedbacks == {[sent_packet |-> receiving, receive_time |-> SystemTime(now)]}

-----------------------------------------------------------------------------
(* The path and the clock *)

Init ==
    /\ now = Start
    /\ offset \in Offsets
    /\ sent = 0
    /\ net = {}
    /\ receiving = None
    /\ ordered = TRUE
    /\ current = EmptyGroup
    /\ prev = EmptyGroup
    /\ reordered = 0
    /\ last_seen_packet = Never
    /\ deltas = NoDeltas
    /\ members = <<>>
    /\ prev_members = <<>>

Tick ==
    /\ now < MaxTime
    /\ now' = now + 1
    /\ UNCHANGED <<offset, sent, net, receiving, ordered, groupVars, last_seen_packet, deltas, historyVars>>

\* Several packets may carry the same time: they are told apart by number.
SendPacket ==
    /\ sent < MaxSent /\ Cardinality(net) < MaxInFlight
    /\ sent' = sent + 1
    /\ net' = net \cup {[seq |-> sent + 1, sent_at |-> now]}
    /\ UNCHANGED <<now, offset, receiving, ordered, groupVars, last_seen_packet, deltas, historyVars>>

Lose(packet) ==
    /\ net' = net \ {packet}
    /\ UNCHANGED <<now, offset, sent, receiving, ordered, groupVars, last_seen_packet, deltas, historyVars>>

\* The receiver takes a packet and reads its clock for the first time.
ReceivePacket(packet) ==
    /\ receiving = None
    /\ ordered' = (ordered /\ \A other \in net : packet.seq <= other.seq)
    /\ net' = net \ {packet}
    /\ receiving' = [seq |-> packet.seq, sent_at |-> packet.sent_at, taken_at |-> now]
    /\ UNCHANGED <<now, offset, sent, groupVars, last_seen_packet, deltas, historyVars>>

\* A stream that has timed out starts with new groups.
TimedOut ==
    \/ last_seen_packet = Never
    \/ SystemTime(receiving.taken_at) - last_seen_packet > StreamTimeOut

\* It reads it again; then IncomingPacketFeedback.
IncomingPacketFeedback ==
    /\ receiving # None
    /\ last_seen_packet' = SystemTime(receiving.taken_at)
    /\ LET first == SortedByReceiveTime(PacketFeedbacks)[1]
           system == SystemTime(receiving.taken_at)
       IN  IF TimedOut
           THEN StartStream(first.sent_packet, first.receive_time, system)
           ELSE ComputeDeltas(first.sent_packet, first.receive_time, system)
    /\ receiving' = None
    /\ UNCHANGED <<now, offset, sent, net, ordered>>

Next ==
    \/ Tick
    \/ SendPacket
    \/ IncomingPacketFeedback
    \/ \E packet \in net : Lose(packet) \/ ReceivePacket(packet)

Spec == Init /\ [][Next]_vars

-----------------------------------------------------------------------------
(* Properties *)

GroupType ==
    [ size : Nat, first_send_time : Nat, send_time : Nat, first_arrival : Nat,
      complete_time : Nat, last_system_time : Nat ]

\* Every variable keeps its type.  A previous group comes with a current one.
TypeOK ==
    /\ now \in Start .. MaxTime /\ offset \in Offsets /\ sent \in Nat
    /\ net \subseteq [seq : Nat, sent_at : Nat]
    /\ receiving = None \/ receiving \in [seq : Nat, sent_at : Nat, taken_at : 0 .. now]
    /\ ordered \in BOOLEAN
    /\ {current, prev} \subseteq GroupType \cup {EmptyGroup}
    /\ current = EmptyGroup => prev = EmptyGroup
    /\ reordered \in Nat
    /\ last_seen_packet \in Nat \cup {Never}

\* The receiver's clock does not start again from one instant to the other.
SameRun(from, to) == from \div Period = to \div Period

\* The latest sending time and the arrival of the last of some packets.
LastSent(ms) == Max({SendTime(ms[i]) : i \in DOMAIN ms})
LastArrived(ms) == SystemTime(Last(ms).arrived_at)

\* The deltas a call computes are those between the two last complete groups:
\* of their latest sending times, of their last arrivals and of their sizes,
\* whatever the path and the clocks did to their packets
\* (inter_arrival_delta.cc:46-90).
DeltasCompareGroups ==
    [][receiving # None /\ receiving' = None /\ deltas'.computed =>
          /\ deltas'.send = LastSent(members) - LastSent(prev_members)
          /\ deltas'.arrival = LastArrived(members) - LastArrived(prev_members)
          /\ deltas'.size = Len(members) - Len(prev_members)]_vars

\* No delta spans a restart of the receiver's clock: groups between which it
\* started again count as reordered until they are forgotten, and the arrival
\* delta that the trend line is given is the time that really passed, unless that
\* is a whole period (inter_arrival_delta.cc:63-73).
RestartNotMeasured ==
    [][receiving # None /\ receiving' = None /\ deltas'.computed =>
          LET passed == Last(members).arrived_at - Last(prev_members).arrived_at
          IN  deltas'.arrival = passed \/ passed >= Period]_vars

\* As long as no packet overtakes another, the send delta is positive, although
\* the sender's clock may start again within a group or between two: packets sent
\* after it are not taken for later ones, unless a whole period has passed since
\* the first group began (inter_arrival_delta.cc:44-50).
ForwardDeltas ==
    [][/\ ordered /\ receiving # None /\ receiving' = None /\ deltas'.computed
       /\ Last(members).sent_at - prev_members[1].sent_at < Period
       => deltas'.send > 0]_vars

\* The groups are forgotten only when the process was held up for at least
\* kArrivalTimeOffsetThreshold between the two readings of the clock for the
\* last packet of the group, when the stream has timed out, or when the
\* receiver's clock has started again since the last packet of the group before
\* (inter_arrival_delta.cc:53-72, delay_based_bwe.cc:117-130).
ForgetsOnlyAfterHoldUp ==
    [][prev # EmptyGroup /\ prev' = EmptyGroup =>
          \/ Last(members).arrived_at - Last(members).taken_at >= OffsetThreshold
          \/ TimedOut
          \/ ~SameRun(Last(prev_members).taken_at, Last(members).arrived_at)]_vars

=============================================================================
