----------------------- MODULE InterArrivalDelta_proofs -----------------------
(***************************************************************************)
(* Proofs about InterArrivalDelta, for all its thresholds, any path and    *)
(* clocks that start again at any time: deltas compare groups, arrival     *)
(* deltas never span a restart of the receiver's clock, send deltas are    *)
(* positive as long as the path keeps the order, and groups are forgotten  *)
(* only after a hold-up, a timeout or a restart.                           *)
(***************************************************************************)
EXTENDS InterArrivalDelta, FiniteSetTheorems, SequenceTheorems, TLAPS

-----------------------------------------------------------------------------
(* Readings of a clock that starts again after each period *)

\* What a reading is: the time since the clock started last, counted from one.
LEMMA ReadingOf ==
  ASSUME NEW t \in Nat
  PROVE  /\ t \div Period \in Nat /\ Reads(t) \in 1 .. Period
         /\ t = (Period * (t \div Period)) + Reads(t) - 1
  <1> DEFINE rest == t % Period
             runs == t \div Period
             started == Period * runs
  <1>1. /\ rest \in 0 .. (Period - 1) /\ runs \in Nat /\ t = started + rest
    BY GroupAssumption
  <1>2. started \in Int /\ Reads(t) = rest + 1
    BY <1>1, GroupAssumption DEF Reads
  <1> HIDE DEF rest, runs, started
  <1>3. Reads(t) \in 1 .. Period /\ t = started + Reads(t) - 1
    BY <1>1, <1>2, GroupAssumption
  <1> QED
    BY <1>1, <1>3 DEF runs, started

\* A reading is a natural number.
LEMMA ReadingType == \A t \in Nat : Reads(t) \in Nat
  <1> SUFFICES ASSUME NEW t \in Nat PROVE Reads(t) \in Nat
    OBVIOUS
  <1>1. Reads(t) \in 1 .. Period
    BY ReadingOf
  <1> HIDE DEF Reads
  <1> QED
    BY <1>1, GroupAssumption

\* Multiples of the period.
LEMMA Multiples ==
  ASSUME NEW P \in Nat \ {0}, NEW q \in Int, NEW r \in Int
  PROVE  /\ P * (r - q) = (P * r) - (P * q) /\ P * r \in Int /\ P * q \in Int
         /\ P * (r - q) < P => r - q <= 0
         /\ -P < P * (r - q) => 0 <= r - q
  OBVIOUS

\* A clock starts again no less often by a later instant.
LEMMA LaterRun ==
  ASSUME NEW a \in Nat, NEW b \in Nat, a <= b
  PROVE  a \div Period <= b \div Period
  <1> DEFINE q == a \div Period
             r == b \div Period
             x == Period * q
             y == Period * r
             d == Period * (r - q)
             ra == Reads(a)
             rb == Reads(b)
  <1>1. /\ q \in Nat /\ r \in Nat /\ ra \in 1 .. Period /\ rb \in 1 .. Period
        /\ a = x + ra - 1 /\ b = y + rb - 1
    BY ReadingOf
  <1>2. d = y - x /\ x \in Int /\ y \in Int /\ (-Period < d => 0 <= r - q)
    BY <1>1, Multiples, GroupAssumption
  <1> HIDE DEF q, r, x, y, d, ra, rb
  <1>3. -Period < d
    BY <1>1, <1>2, GroupAssumption
  <1>4. q <= r
    BY <1>1, <1>2, <1>3
  <1> QED
    BY <1>4 DEF q, r

\* Two readings of which the later one is not smaller are as far apart as the
\* instants are, unless a whole period has passed.
LEMMA ForwardReadings ==
  ASSUME NEW a \in Nat, NEW b \in Nat, a <= b, b - a < Period, Reads(a) <= Reads(b)
  PROVE  Reads(b) - Reads(a) = b - a
  <1> DEFINE q == a \div Period
             r == b \div Period
             x == Period * q
             y == Period * r
             d == Period * (r - q)
             ra == Reads(a)
             rb == Reads(b)
  <1>1. /\ q \in Nat /\ r \in Nat /\ ra \in 1 .. Period /\ rb \in 1 .. Period
        /\ a = x + ra - 1 /\ b = y + rb - 1
    BY ReadingOf
  <1>2. /\ d = y - x /\ x \in Int /\ y \in Int
        /\ (d < Period => r - q <= 0) /\ (-Period < d => 0 <= r - q)
    BY <1>1, Multiples, GroupAssumption
  <1>3. ra <= rb /\ a <= b /\ b - a < Period
    OBVIOUS
  <1>4. r - q = 0 => d = 0
    BY GroupAssumption
  <1> HIDE DEF q, r, x, y, d, ra, rb
  <1>5. -Period < d /\ d < Period
    BY <1>1, <1>2, <1>3, GroupAssumption
  <1>6. d = 0
    BY <1>1, <1>2, <1>4, <1>5
  <1>7. rb - ra = b - a
    BY <1>1, <1>2, <1>6
  <1> QED
    BY <1>7 DEF ra, rb

\* Between two instants of one run of the clock readings are exact.
LEMMA SameRunExact ==
  ASSUME NEW a \in Nat, NEW b \in Nat, NEW c \in Nat, a <= b, b <= c, SameRun(a, c)
  PROVE  /\ Reads(b) - Reads(a) = b - a
         /\ Reads(c) - Reads(b) = c - b
  <1> DEFINE q == a \div Period
             x == Period * q
  <1>1. q <= b \div Period /\ b \div Period <= c \div Period /\ q = c \div Period
    BY LaterRun DEF SameRun
  <1>2. /\ q \in Nat /\ b \div Period \in Nat /\ c \div Period \in Nat
        /\ Reads(a) \in 1 .. Period /\ Reads(b) \in 1 .. Period /\ Reads(c) \in 1 .. Period
        /\ a = x + Reads(a) - 1
        /\ b = (Period * (b \div Period)) + Reads(b) - 1
        /\ c = (Period * (c \div Period)) + Reads(c) - 1
    BY ReadingOf
  <1>3. b \div Period = q /\ c \div Period = q
    <2> DEFINE r == b \div Period
               s == c \div Period
    <2>1. q \in Nat /\ r \in Nat /\ s \in Nat /\ q <= r /\ r <= s /\ q = s
      BY <1>1, <1>2
    <2> HIDE DEF q, r, s
    <2>2. r = q /\ s = q
      BY <2>1
    <2> QED
      BY <2>2 DEF r, s
  <1>4. b = x + Reads(b) - 1 /\ c = x + Reads(c) - 1 /\ x \in Int
    BY <1>2, <1>3, GroupAssumption
  <1> DEFINE ra == Reads(a)
             rb == Reads(b)
             rc == Reads(c)
  <1>5. /\ ra \in Int /\ rb \in Int /\ rc \in Int /\ x \in Int
        /\ a = x + ra - 1 /\ b = x + rb - 1 /\ c = x + rc - 1
    BY <1>2, <1>4
  <1> HIDE DEF x, ra, rb, rc
  <1>6. rb - ra = b - a /\ rc - rb = c - b
    BY <1>5
  <1> QED
    BY <1>6 DEF ra, rb, rc

-----------------------------------------------------------------------------
(* What a call does to the groups *)

\* A group, whether it has begun or not, and a group with a packet in it.
Shape ==
    [ size : Nat, first_send_time : Int, send_time : Int, first_arrival : Int,
      complete_time : Int, last_system_time : Int ]

Groups == GroupType

Taken == [seq : Nat, sent_at : Nat, taken_at : Nat]
Grouped == [sent_at : Nat, taken_at : Nat, arrived_at : Nat]

\* The types, as an inductive invariant.
GroupsTyped ==
    /\ now \in Start .. MaxTime /\ offset \in Offsets /\ sent \in Nat
    /\ \A p \in net : p \in [seq : Nat, sent_at : Nat]
    /\ receiving = None \/ (receiving \in Taken /\ receiving.taken_at <= now)
    /\ current = EmptyGroup \/ current \in Groups
    /\ prev = EmptyGroup \/ (prev \in Groups /\ current \in Groups)
    /\ reordered \in Nat

\* A packet that is the first of a group, and one that goes on with it.
LEMMA GroupSteps ==
  ASSUME NEW arrival \in Nat, NEW send \in Nat, NEW system \in Nat
  PROVE  /\ Accumulated(Started(arrival, send), arrival, system) \in Groups
         /\ Accumulated(Started(arrival, send), arrival, system).complete_time = arrival
         /\ Accumulated(Started(arrival, send), arrival, system).last_system_time = system
         /\ Accumulated(Started(arrival, send), arrival, system).first_send_time = send
         /\ Accumulated(Started(arrival, send), arrival, system).send_time = send
         /\ Accumulated(Started(arrival, send), arrival, system).size = 1
         /\ \A g \in Groups :
               /\ Accumulated(Continued(g, send), arrival, system) \in Groups
               /\ Accumulated(Continued(g, send), arrival, system).complete_time = arrival
               /\ Accumulated(Continued(g, send), arrival, system).last_system_time = system
               /\ Accumulated(Continued(g, send), arrival, system).first_send_time
                     = g.first_send_time
               /\ Accumulated(Continued(g, send), arrival, system).send_time
                     = Higher(g.send_time, send)
               /\ Accumulated(Continued(g, send), arrival, system).size = g.size + 1
  <1>1. ASSUME NEW g \in Shape
        PROVE  LET h == Accumulated(g, arrival, system)
               IN  /\ h \in Shape
                   /\ h.complete_time = arrival /\ h.last_system_time = system
                   /\ h.first_send_time = g.first_send_time
                   /\ h.send_time = g.send_time /\ h.first_arrival = g.first_arrival
                   /\ h.size = g.size + 1
    <2> DEFINE h == Accumulated(g, arrival, system)
    <2>1. h \in Shape
      <3>1. [g EXCEPT !.size = @ + 1] \in Shape
        BY DEF Shape
      <3>2. \A k \in Shape : [k EXCEPT !.complete_time = arrival] \in Shape
        BY DEF Shape
      <3>3. \A k \in Shape : [k EXCEPT !.last_system_time = system] \in Shape
        BY DEF Shape
      <3>4. h = [[[g EXCEPT !.size = @ + 1] EXCEPT !.complete_time = arrival]
                    EXCEPT !.last_system_time = system]
        BY Zenon DEF Accumulated
      <3> QED
        BY <3>1, <3>2, <3>3, <3>4
    <2>2. h.complete_time = arrival
      BY DEF Accumulated, Shape
    <2>3. h.last_system_time = system
      BY DEF Accumulated, Shape
    <2>4. h.first_send_time = g.first_send_time
      BY DEF Accumulated, Shape
    <2>5. h.send_time = g.send_time
      BY DEF Accumulated, Shape
    <2>6. h.first_arrival = g.first_arrival
      BY DEF Accumulated, Shape
    <2>7. h.size = g.size + 1
      BY DEF Accumulated, Shape
    <2> QED
      BY <2>1, <2>2, <2>3, <2>4, <2>5, <2>6, <2>7
  <1>2. /\ Started(arrival, send) \in Shape
        /\ Started(arrival, send).first_send_time = send
        /\ Started(arrival, send).send_time = send
        /\ Started(arrival, send).first_arrival = arrival
        /\ Started(arrival, send).size = 0
    <2>1. EmptyGroup \in Shape
      BY DEF EmptyGroup, Shape, Never
    <2>2. Started(arrival, send) \in Shape
      <3>1. \A k \in Shape : [k EXCEPT !.first_send_time = send] \in Shape
        BY DEF Shape
      <3>2. \A k \in Shape : [k EXCEPT !.send_time = send] \in Shape
        BY DEF Shape
      <3>3. \A k \in Shape : [k EXCEPT !.first_arrival = arrival] \in Shape
        BY DEF Shape
      <3>4. Started(arrival, send)
              = [[[EmptyGroup EXCEPT !.first_send_time = send] EXCEPT !.send_time = send]
                    EXCEPT !.first_arrival = arrival]
        BY Zenon DEF Started
      <3> QED
        BY <2>1, <3>1, <3>2, <3>3, <3>4
    <2>3. Started(arrival, send).first_send_time = send
      BY <2>1 DEF Started, Shape
    <2>4. Started(arrival, send).send_time = send
      BY <2>1 DEF Started, Shape
    <2>5. Started(arrival, send).first_arrival = arrival
      BY <2>1 DEF Started, Shape
    <2>6. Started(arrival, send).size = 0
      BY DEF Started, EmptyGroup
    <2> QED
      BY <2>2, <2>3, <2>4, <2>5, <2>6
  <1>3. ASSUME NEW h \in Shape, h.first_send_time \in Nat, h.send_time \in Nat,
               h.first_arrival \in Nat, h.complete_time = arrival, h.last_system_time = system
        PROVE  h \in Groups
    <2>1. h = [ size |-> h.size, first_send_time |-> h.first_send_time,
                send_time |-> h.send_time, first_arrival |-> h.first_arrival,
                complete_time |-> h.complete_time, last_system_time |-> h.last_system_time ]
      BY DEF Shape
    <2>2. h.size \in Nat
      BY DEF Shape
    <2> QED
      BY <1>3, <2>1, <2>2 DEF Groups, GroupType
  <1>4. ASSUME NEW g \in Groups
        PROVE  LET h == Accumulated(Continued(g, send), arrival, system)
               IN  /\ h \in Groups /\ h.complete_time = arrival /\ h.last_system_time = system
                   /\ h.first_send_time = g.first_send_time
                   /\ h.send_time = Higher(g.send_time, send) /\ h.size = g.size + 1
    <2>1. Higher(g.send_time, send) \in Nat
      BY DEF Higher, Groups, GroupType
    <2>2. /\ g \in Shape /\ g.first_send_time \in Nat /\ g.first_arrival \in Nat
      BY DEF Groups, GroupType, Shape
    <2>3. /\ Continued(g, send) \in Shape
          /\ Continued(g, send).send_time = Higher(g.send_time, send)
          /\ Continued(g, send).first_send_time = g.first_send_time
          /\ Continued(g, send).first_arrival = g.first_arrival
          /\ Continued(g, send).size = g.size
      BY <2>1, <2>2 DEF Continued, Shape
    <2> QED
      BY <1>1, <1>3, <2>1, <2>2, <2>3
  <1> QED
    BY <1>1, <1>2, <1>3, <1>4

\* A group that began has a complete time, and only the empty one has none.
LEMMA FirstIsEmpty ==
  /\ IsFirstPacket(EmptyGroup)
  /\ \A g \in Groups : ~IsFirstPacket(g) /\ g # EmptyGroup
  BY DEF IsFirstPacket, EmptyGroup, Groups, GroupType, Never

\* A message of one packet is taken as that packet.
LEMMA OneFeedback ==
  ASSUME IncomingPacketFeedback, now \in Nat
  PROVE  IF TimedOut
         THEN StartStream(receiving, SystemTime(now), SystemTime(receiving.taken_at))
         ELSE ComputeDeltas(receiving, SystemTime(now), SystemTime(receiving.taken_at))
  <1> DEFINE fb == [sent_packet |-> receiving, receive_time |-> SystemTime(now)]
             Ordered(order) == \A i, j \in DOMAIN order :
                                  i < j => ReceiveTimeOrder(order[i], order[j])
  <1>1. ReceivedWithSendInfo({fb}) = {fb}
    <2>1. SystemTime(now) \in 1 .. Period
      BY ReadingOf DEF SystemTime
    <2>2. SystemTime(now) # Period + 1
      BY <2>1, GroupAssumption
    <2> QED
      BY <2>2 DEF ReceivedWithSendInfo, PlusInfinity
  <1> HIDE DEF fb
  <1>2. Cardinality({fb}) = 1
    BY FS_Singleton
  <1>3. SortedByReceiveTime({fb}) = CHOOSE order \in [1 .. 1 -> {fb}] : Ordered(order)
    BY <1>1, <1>2 DEF SortedByReceiveTime
  <1>4. \E order \in [1 .. 1 -> {fb}] : Ordered(order)
    <2>1. [i \in 1 .. 1 |-> fb] \in [1 .. 1 -> {fb}]
      OBVIOUS
    <2>2. Ordered([i \in 1 .. 1 |-> fb])
      OBVIOUS
    <2> QED
      BY <2>1, <2>2
  <1> HIDE DEF Ordered
  <1>5. SortedByReceiveTime({fb}) \in [1 .. 1 -> {fb}]
    BY <1>3, <1>4
  <1>6. SortedByReceiveTime({fb})[1] = fb
    BY <1>5
  <1>7. fb.sent_packet = receiving /\ fb.receive_time = SystemTime(now) /\ PacketFeedbacks = {fb}
    BY DEF fb, PacketFeedbacks
  <1> QED
    BY <1>6, <1>7 DEF IncomingPacketFeedback

\* The packet of the call as the first of a group, and as one more of it.
NewGroup == Accumulated(Started(SystemTime(now), SendTime(receiving)),
                        SystemTime(now), SystemTime(receiving.taken_at))
GrownGroup == Accumulated(Continued(current, SendTime(receiving)),
                          SystemTime(now), SystemTime(receiving.taken_at))

\* The ways a call may end.
Begins ==
    /\ current' = NewGroup /\ members' = <<Member(receiving)>>
    /\ prev' = EmptyGroup /\ prev_members' = <<>>
    /\ reordered' = 0 /\ deltas' = NoDeltas
Ignores ==
    /\ UNCHANGED <<current, prev, members, prev_members>>
    /\ reordered' \in {reordered, reordered + 1} /\ deltas' = NoDeltas
GoesOn ==
    /\ current \in Groups /\ current.first_send_time <= SendTime(receiving)
    /\ current' = GrownGroup /\ members' = Append(members, Member(receiving))
    /\ UNCHANGED <<prev, prev_members, reordered>> /\ deltas' = NoDeltas
Follows ==
    /\ current \in Groups /\ current.first_send_time <= SendTime(receiving)
    /\ SendTime(receiving) # current.send_time
    /\ current' = NewGroup /\ members' = <<Member(receiving)>>
    /\ prev' = current /\ prev_members' = members
    /\ reordered' \in {reordered, 0}
    /\ \/ deltas' = NoDeltas
       \/ /\ prev \in Groups /\ ~Backwards(prev, current)
          /\ deltas' = DeltasBetween(prev, current)
Forgets ==
    /\ Reset /\ ~TimedOut /\ prev \in Groups
    /\ ClockJumped(prev, current) \/ Backwards(prev, current)

\* Each call ends in one of these ways.
LEMMA CallOutcomes ==
  ASSUME GroupsTyped, IncomingPacketFeedback
  PROVE  /\ receiving \in Taken /\ receiving.taken_at <= now
         /\ Begins \/ Ignores \/ GoesOn \/ Follows \/ Forgets
  <1> DEFINE arrival == SystemTime(now)
             system == SystemTime(receiving.taken_at)
             send == SendTime(receiving)
  <1>1. receiving \in Taken /\ receiving.taken_at <= now
    BY DEF IncomingPacketFeedback, GroupsTyped
  <1>2. now \in Nat /\ receiving.sent_at + offset \in Nat
    BY <1>1, GroupAssumption DEF GroupsTyped, Taken
  <1>3. send \in Nat
    BY <1>2, ReadingType, Zenon DEF SendTime
  <1>4. IF TimedOut THEN StartStream(receiving, arrival, system)
        ELSE ComputeDeltas(receiving, arrival, system)
    BY <1>2, OneFeedback
  <1>5. StartStream(receiving, arrival, system) => Begins
    BY DEF StartStream, Begins, NewGroup
  <1>6. /\ ~IsFirstPacket(current) => current \in Groups
        /\ ~IsFirstPacket(prev) => prev \in Groups
    BY FirstIsEmpty DEF GroupsTyped
  <1>7. NewTimestampGroup(current, arrival, send) => current \in Groups /\ send # current.send_time
    <2>1. NewTimestampGroup(current, arrival, send) => current \in Groups /\ ~(send - current.send_time = 0)
      BY <1>6 DEF NewTimestampGroup, BelongsToBurst
    <2> QED
      BY <1>3, <2>1 DEF Groups, GroupType
  <1>8. ASSUME ~TimedOut, ComputeDeltas(receiving, arrival, system)
        PROVE  Begins \/ Ignores \/ GoesOn \/ Follows \/ Forgets
    <2>0. send >= current.first_send_time <=> current.first_send_time <= send
      OBVIOUS
    <2>1. CASE StartStream(receiving, arrival, system)
      BY <1>5, <2>1
    <2>2. CASE deltas' = NoDeltas /\ UNCHANGED <<groupVars, historyVars>>
      BY <2>2 DEF groupVars, historyVars, Ignores
    <2>3. CASE /\ ~IsFirstPacket(current) /\ send >= current.first_send_time
               /\ current' = Accumulated(Continued(current, send), arrival, system)
               /\ deltas' = NoDeltas /\ members' = Append(members, Member(receiving))
               /\ UNCHANGED <<prev, reordered, prev_members>>
      BY <1>6, <2>3 DEF GoesOn, GrownGroup
    <2>4. CASE /\ send >= current.first_send_time
               /\ NewTimestampGroup(current, arrival, send)
               /\ StartGroup(receiving, arrival, system)
               /\ deltas' = NoDeltas /\ UNCHANGED reordered
      BY <1>7, <2>4 DEF StartGroup, Follows, NewGroup
    <2>5. CASE /\ send >= current.first_send_time
               /\ NewTimestampGroup(current, arrival, send)
               /\ ~IsFirstPacket(prev)
               /\ IF ClockJumped(prev, current) THEN Reset
                  ELSE IF Backwards(prev, current)
                  THEN IF reordered + 1 >= ReorderedReset THEN Reset
                       ELSE /\ reordered' = reordered + 1
                            /\ deltas' = NoDeltas
                            /\ UNCHANGED <<current, prev, historyVars>>
                  ELSE /\ StartGroup(receiving, arrival, system)
                       /\ deltas' = DeltasBetween(prev, current)
                       /\ reordered' = 0
      <3>1. CASE Reset /\ (ClockJumped(prev, current) \/ Backwards(prev, current))
        BY <1>6, <1>8, <2>5, <3>1 DEF Forgets
      <3>2. CASE /\ reordered' = reordered + 1 /\ deltas' = NoDeltas
                 /\ UNCHANGED <<current, prev, historyVars>>
        BY <3>2 DEF historyVars, Ignores
      <3>3. CASE /\ ~Backwards(prev, current)
                 /\ StartGroup(receiving, arrival, system)
                 /\ deltas' = DeltasBetween(prev, current)
                 /\ reordered' = 0
        BY <1>6, <1>7, <2>5, <3>3 DEF StartGroup, Follows, NewGroup
      <3> QED
        BY <2>5, <3>1, <3>2, <3>3
    <2> QED
      BY <1>8, <2>1, <2>2, <2>3, <2>4, <2>5 DEF ComputeDeltas
  <1> QED
    BY <1>1, <1>4, <1>5, <1>8

\* What the packet of the call makes of a group.
LEMMA GroupsOfCall ==
  ASSUME GroupsTyped, receiving \in Taken
  PROVE  /\ SystemTime(now) \in Nat /\ SystemTime(receiving.taken_at) \in Nat
         /\ SendTime(receiving) \in Nat
         /\ NewGroup \in Groups
         /\ NewGroup.complete_time = SystemTime(now)
         /\ NewGroup.last_system_time = SystemTime(receiving.taken_at)
         /\ NewGroup.first_send_time = SendTime(receiving)
         /\ NewGroup.send_time = SendTime(receiving)
         /\ NewGroup.size = 1
         /\ current \in Groups =>
               /\ GrownGroup \in Groups
               /\ GrownGroup.complete_time = SystemTime(now)
               /\ GrownGroup.last_system_time = SystemTime(receiving.taken_at)
               /\ GrownGroup.first_send_time = current.first_send_time
               /\ GrownGroup.send_time = Higher(current.send_time, SendTime(receiving))
               /\ GrownGroup.size = current.size + 1
  <1>1. now \in Nat /\ receiving.taken_at \in Nat /\ receiving.sent_at + offset \in Nat
    BY GroupAssumption DEF GroupsTyped, Taken
  <1>2. \A t \in Nat : Reads(t) \in Nat
    BY ReadingType
  <1>3. /\ SystemTime(now) \in Nat /\ SystemTime(receiving.taken_at) \in Nat
        /\ SendTime(receiving) \in Nat
    BY <1>1, <1>2, Zenon DEF SystemTime, SendTime
  <1> DEFINE arrival == SystemTime(now)
             system == SystemTime(receiving.taken_at)
             send == SendTime(receiving)
             started == Accumulated(Started(arrival, send), arrival, system)
             grown == Accumulated(Continued(current, send), arrival, system)
  <1>4. NewGroup = started /\ GrownGroup = grown
    BY DEF NewGroup, GrownGroup
  <1>5. arrival \in Nat /\ system \in Nat /\ send \in Nat
    BY <1>3
  <1> HIDE DEF arrival, system, send
  <1>6. /\ started \in Groups /\ started.complete_time = arrival
        /\ started.last_system_time = system /\ started.first_send_time = send
        /\ started.send_time = send /\ started.size = 1
    BY <1>5, GroupSteps
  <1>7. current \in Groups =>
           /\ grown \in Groups /\ grown.complete_time = arrival
           /\ grown.last_system_time = system
           /\ grown.first_send_time = current.first_send_time
           /\ grown.send_time = Higher(current.send_time, send)
           /\ grown.size = current.size + 1
    BY <1>5, GroupSteps
  <1> HIDE DEF started, grown
  <1> QED
    BY <1>4, <1>5, <1>6, <1>7 DEF arrival, system, send

\* The constructor leaves no groups.
LEMMA InitTyped == Init => GroupsTyped
  BY GroupAssumption DEF Init, GroupsTyped

\* Every step keeps the types.
LEMMA StepTyped == GroupsTyped /\ [Next]_vars => GroupsTyped'
  <1> SUFFICES ASSUME GroupsTyped, [Next]_vars PROVE GroupsTyped'
    OBVIOUS
  <1>1. CASE Tick
    <2>1. /\ now' \in Start .. MaxTime /\ now' = now + 1
          /\ UNCHANGED <<offset, sent, net, receiving, current, prev, reordered>>
      BY <1>1, GroupAssumption DEF Tick, groupVars, GroupsTyped
    <2>2. receiving \in Taken /\ receiving.taken_at <= now => receiving.taken_at <= now'
      BY <2>1, GroupAssumption DEF GroupsTyped, Taken
    <2> QED
      BY <2>1, <2>2 DEF GroupsTyped
  <1>2. CASE SendPacket
    <2>1. [seq |-> sent + 1, sent_at |-> now] \in [seq : Nat, sent_at : Nat]
          /\ sent + 1 \in Nat
      BY GroupAssumption DEF GroupsTyped
    <2> QED
      BY <1>2, <2>1 DEF SendPacket, groupVars, GroupsTyped
  <1>3. ASSUME NEW packet \in net, Lose(packet) PROVE GroupsTyped'
    BY <1>3 DEF Lose, groupVars, GroupsTyped
  <1>4. ASSUME NEW packet \in net, ReceivePacket(packet) PROVE GroupsTyped'
    <2>1. receiving' \in Taken /\ receiving'.taken_at <= now'
      BY <1>4, GroupAssumption DEF ReceivePacket, GroupsTyped, Taken
    <2> QED
      BY <1>4, <2>1 DEF ReceivePacket, groupVars, GroupsTyped
  <1>5. CASE IncomingPacketFeedback
    <2>1. /\ receiving' = None /\ UNCHANGED <<now, offset, sent, net>>
      BY <1>5 DEF IncomingPacketFeedback
    <2>2. /\ receiving \in Taken
          /\ Begins \/ Ignores \/ GoesOn \/ Follows \/ Forgets
      BY <1>5, CallOutcomes
    <2>3. NewGroup \in Groups /\ (current \in Groups => GrownGroup \in Groups)
      BY <2>2, GroupsOfCall
    <2>4. /\ current' = EmptyGroup \/ current' \in Groups
          /\ prev' = EmptyGroup \/ (prev' \in Groups /\ current' \in Groups)
      BY <2>2, <2>3 DEF GroupsTyped, Begins, Ignores, GoesOn, Follows, Forgets, Reset
    <2>5. reordered' \in Nat
      BY <2>2 DEF GroupsTyped, Begins, Ignores, GoesOn, Follows, Forgets, Reset
    <2> QED
      BY <2>1, <2>4, <2>5 DEF GroupsTyped
  <1>6. CASE UNCHANGED vars
    BY <1>6 DEF vars, groupVars, GroupsTyped
  <1> QED
    BY <1>1, <1>2, <1>3, <1>4, <1>5, <1>6 DEF Next

\* The types hold in every reachable state.
LEMMA TypesInvariant == Spec => []GroupsTyped
  BY InitTyped, StepTyped, PTL DEF Spec

\* The variables keep their types on any path, with any thresholds and clocks
\* (inter_arrival_delta.h:55-72).
THEOREM GroupTypeCorrect == Spec => []TypeOK
  <1> DEFINE Rest == ordered \in BOOLEAN /\ last_seen_packet \in Nat \cup {Never}
  <1>1. Init => Rest
    BY DEF Init
  <1>2. ASSUME GroupsTyped, Rest, [Next]_vars PROVE Rest'
    <2>1. ordered' \in BOOLEAN
      BY <1>2, Zenon DEF Next, Tick, SendPacket, Lose, ReceivePacket,
           IncomingPacketFeedback, vars
    <2>2. \/ last_seen_packet' = last_seen_packet
          \/ IncomingPacketFeedback /\ last_seen_packet' = SystemTime(receiving.taken_at)
      <3>1. CASE IncomingPacketFeedback
        BY <3>1 DEF IncomingPacketFeedback
      <3>2. CASE ~IncomingPacketFeedback
        BY <1>2, <3>2, Zenon DEF Next, Tick, SendPacket, Lose, ReceivePacket, vars
      <3> QED
        BY <3>1, <3>2
    <2>3. IncomingPacketFeedback => SystemTime(receiving.taken_at) \in Nat
      BY <1>2, CallOutcomes, GroupsOfCall
    <2> QED
      BY <1>2, <2>1, <2>2, <2>3
  <1>3. ASSUME GroupsTyped, Rest PROVE TypeOK
    <2>1. net \subseteq [seq : Nat, sent_at : Nat]
      BY <1>3 DEF GroupsTyped
    <2>2. receiving = None \/ receiving \in [seq : Nat, sent_at : Nat, taken_at : 0 .. now]
      BY <1>3, GroupAssumption DEF GroupsTyped, Taken
    <2>3. {current, prev} \subseteq GroupType \cup {EmptyGroup}
      BY <1>3 DEF GroupsTyped, Groups
    <2>4. current = EmptyGroup => prev = EmptyGroup
      BY <1>3, FirstIsEmpty DEF GroupsTyped
    <2> QED
      BY <1>3, <2>1, <2>2, <2>3, <2>4 DEF GroupsTyped, TypeOK
  <1> HIDE DEF Rest
  <1> QED
    BY <1>1, <1>2, <1>3, TypesInvariant, PTL DEF Spec

-----------------------------------------------------------------------------
(* The groups and the packets in them *)

\* The packets ms are those of group g, sent while the sender's clock was ahead by
\* off: it counts them, was begun by the first of them, has the latest of their
\* sending times, and the times of the last of them.
Describes(off, g, ms) ==
    /\ ms \in Seq(Grouped) /\ ms # <<>>
    /\ g.size = Len(ms)
    /\ g.first_send_time = Reads(ms[1].sent_at + off)
    /\ \A i \in 1 .. Len(ms) : /\ g.first_send_time <= Reads(ms[i].sent_at + off)
                               /\ Reads(ms[i].sent_at + off) <= g.send_time
    /\ \E i \in 1 .. Len(ms) : g.send_time = Reads(ms[i].sent_at + off)
    /\ g.complete_time = Reads(Last(ms).arrived_at)
    /\ g.last_system_time = Reads(Last(ms).taken_at)

\* The inductive invariant: the groups describe the packets they were given, and
\* the instants follow each other, whatever the clocks read at them.
GroupsDescribed ==
    /\ current # EmptyGroup =>
          /\ Describes(offset, current, members)
          /\ Last(members).taken_at <= Last(members).arrived_at
          /\ Last(members).arrived_at <= now
          /\ receiving # None => Last(members).arrived_at <= receiving.taken_at
    /\ prev # EmptyGroup =>
          /\ Describes(offset, prev, prev_members)
          /\ Last(prev_members).taken_at <= Last(prev_members).arrived_at
          /\ Last(prev_members).arrived_at <= Last(members).taken_at

\* The last packet of a group, and its first.
LEMMA EndsOf ==
  ASSUME NEW ms \in Seq(Grouped), ms # <<>>
  PROVE  /\ Len(ms) \in Nat \ {0} /\ 1 \in 1 .. Len(ms) /\ Len(ms) \in 1 .. Len(ms)
         /\ Last(ms) = ms[Len(ms)] /\ Last(ms) \in Grouped /\ ms[1] \in Grouped
         /\ \A i \in 1 .. Len(ms) : ms[i] \in Grouped
  <1>1. Len(ms) \in Nat \ {0} /\ \A i \in 1 .. Len(ms) : ms[i] \in Grouped
    BY EmptySeq
  <1> QED
    BY <1>1 DEF Last

\* A packet after the others of a group.
LEMMA OneMore ==
  ASSUME NEW ms \in Seq(Grouped), NEW m \in Grouped
  PROVE  /\ Append(ms, m) \in Seq(Grouped) /\ Append(ms, m) # <<>>
         /\ Len(Append(ms, m)) = Len(ms) + 1 /\ Len(ms) \in Nat
         /\ Append(ms, m)[Len(ms) + 1] = m /\ Last(Append(ms, m)) = m
         /\ \A i \in 1 .. Len(ms) : Append(ms, m)[i] = ms[i]
  <1>1. /\ Append(ms, m) \in Seq(Grouped) /\ Len(Append(ms, m)) = Len(ms) + 1
        /\ Append(ms, m)[Len(ms) + 1] = m /\ Len(ms) \in Nat
        /\ \A i \in 1 .. Len(ms) : Append(ms, m)[i] = ms[i]
    BY AppendProperties
  <1>2. Append(ms, m) # <<>>
    BY <1>1
  <1> QED
    BY <1>1, <1>2 DEF Last

\* A group of one packet.
LEMMA OnlyOne ==
  ASSUME NEW m \in Grouped
  PROVE  /\ <<m>> \in Seq(Grouped) /\ <<m>> # <<>> /\ Len(<<m>>) = 1
         /\ <<m>>[1] = m /\ Last(<<m>>) = m
  BY DEF Last

\* The packet of the call as a member.
LEMMA MemberOfCall ==
  ASSUME GroupsTyped, receiving \in Taken
  PROVE  /\ Member(receiving) \in Grouped
         /\ Member(receiving).sent_at = receiving.sent_at
         /\ Member(receiving).taken_at = receiving.taken_at
         /\ Member(receiving).arrived_at = now
  BY GroupAssumption DEF GroupsTyped, Taken, Grouped, Member

\* A call leaves groups that describe their packets.
LEMMA CallDescribed ==
  ASSUME GroupsTyped, GroupsDescribed, IncomingPacketFeedback
  PROVE  /\ current' # EmptyGroup =>
               /\ Describes(offset, current', members')
               /\ Last(members').taken_at <= Last(members').arrived_at
               /\ Last(members').arrived_at <= now
         /\ prev' # EmptyGroup =>
               /\ Describes(offset, prev', prev_members')
               /\ Last(prev_members').taken_at <= Last(prev_members').arrived_at
               /\ Last(prev_members').arrived_at <= Last(members').taken_at
  <1> DEFINE new == Member(receiving)
             send == SendTime(receiving)
  <1>0. now \in Nat /\ offset \in Nat
    BY GroupAssumption DEF GroupsTyped
  <1>1. /\ receiving \in Taken /\ receiving.taken_at <= now /\ receiving # None
        /\ now <= now
    BY <1>0, CallOutcomes DEF IncomingPacketFeedback
  <1>2. /\ new \in Grouped /\ new.sent_at = receiving.sent_at
        /\ new.taken_at = receiving.taken_at /\ new.arrived_at = now
        /\ send = Reads(new.sent_at + offset)
    BY <1>1, MemberOfCall DEF SendTime
  <1>3. /\ send \in Nat /\ NewGroup.size = 1
        /\ NewGroup.first_send_time = send /\ NewGroup.send_time = send
        /\ NewGroup.complete_time = Reads(now)
        /\ NewGroup.last_system_time = Reads(receiving.taken_at)
    BY <1>1, GroupsOfCall DEF SystemTime
  <1> HIDE DEF new, send
  <1>4. /\ Describes(offset, NewGroup, <<new>>) /\ Last(<<new>>) = new
    <2>1. /\ <<new>> \in Seq(Grouped) /\ <<new>> # <<>> /\ Len(<<new>>) = 1
          /\ <<new>>[1] = new /\ Last(<<new>>) = new
      BY <1>2, OnlyOne
    <2>2. 1 \in 1 .. 1 /\ \A i \in 1 .. 1 : i = 1
      OBVIOUS
    <2> QED
      BY <1>2, <1>3, <2>1, <2>2 DEF Describes
  <1>5. CASE Begins
    BY <1>1, <1>2, <1>4, <1>5 DEF Begins, new
  <1>6. CASE Ignores
    BY <1>6 DEF Ignores, GroupsDescribed
  <1>7. CASE GoesOn
    <2> DEFINE more == Append(members, new)
    <2>1. current \in Groups /\ current # EmptyGroup /\ current.first_send_time <= send
      BY <1>7, FirstIsEmpty DEF GoesOn, send
    <2>2. /\ GrownGroup.size = current.size + 1
          /\ GrownGroup.first_send_time = current.first_send_time
          /\ GrownGroup.send_time = Higher(current.send_time, send)
          /\ GrownGroup.complete_time = Reads(now)
          /\ GrownGroup.last_system_time = Reads(receiving.taken_at)
      BY <1>1, <2>1, GroupsOfCall DEF SystemTime, send
    <2>3. /\ Describes(offset, current, members)
          /\ Last(members).arrived_at <= receiving.taken_at
          /\ Last(members).taken_at <= Last(members).arrived_at
      BY <1>1, <2>1 DEF GroupsDescribed
    <2>4. members \in Seq(Grouped) /\ members # <<>>
      BY <2>3 DEF Describes
    <2>5. /\ more \in Seq(Grouped) /\ more # <<>>
          /\ Len(more) = Len(members) + 1 /\ Len(members) \in Nat \ {0}
          /\ more[Len(members) + 1] = new /\ Last(more) = new
          /\ \A i \in 1 .. Len(members) : more[i] = members[i]
      BY <1>2, <2>4, OneMore, EndsOf
    <2> HIDE DEF more
    <2>6. /\ current.send_time \in Nat /\ send \in Nat
          /\ current.send_time <= GrownGroup.send_time /\ send <= GrownGroup.send_time
          /\ GrownGroup.send_time \in {current.send_time, send}
      BY <1>3, <2>1, <2>2 DEF Higher, Groups, GroupType
    <2>7. \A i \in 1 .. Len(members) :
             /\ Reads(members[i].sent_at + offset) \in Nat
             /\ current.first_send_time <= Reads(members[i].sent_at + offset)
             /\ Reads(members[i].sent_at + offset) <= current.send_time
      <3>1. \A i \in 1 .. Len(members) : members[i].sent_at + offset \in Nat
        <4>1. \A i \in 1 .. Len(members) : members[i] \in Grouped
          BY <2>4, EndsOf
        <4> QED
          BY <1>0, <4>1 DEF Grouped
      <3> QED
        BY <2>3, <3>1, ReadingType DEF Describes
    <2>8. \A i \in 1 .. Len(more) :
             /\ GrownGroup.first_send_time <= Reads(more[i].sent_at + offset)
             /\ Reads(more[i].sent_at + offset) <= GrownGroup.send_time
      <3> SUFFICES ASSUME NEW i \in 1 .. Len(more)
                   PROVE  /\ GrownGroup.first_send_time <= Reads(more[i].sent_at + offset)
                          /\ Reads(more[i].sent_at + offset) <= GrownGroup.send_time
        OBVIOUS
      <3>1. CASE i = Len(members) + 1
        BY <1>2, <2>1, <2>2, <2>5, <2>6, <3>1
      <3>2. CASE i # Len(members) + 1
        <4>1. i \in 1 .. Len(members)
          BY <2>5, <3>2
        <4>2. more[i] = members[i]
          BY <2>5, <4>1
        <4>3. /\ Reads(members[i].sent_at + offset) \in Nat
              /\ current.first_send_time <= Reads(members[i].sent_at + offset)
              /\ Reads(members[i].sent_at + offset) <= current.send_time
          BY <2>7, <4>1
        <4>4. current.send_time <= GrownGroup.send_time /\ GrownGroup.send_time \in Nat
          BY <2>6
        <4> QED
          BY <2>2, <2>6, <4>2, <4>3, <4>4
      <3> QED
        BY <3>1, <3>2
    <2>9. \E i \in 1 .. Len(more) : GrownGroup.send_time = Reads(more[i].sent_at + offset)
      <3>1. CASE GrownGroup.send_time = send
        <4>1. Len(members) + 1 \in 1 .. Len(more)
          BY <2>5
        <4> QED
          BY <1>2, <2>5, <3>1, <4>1
      <3>2. CASE GrownGroup.send_time = current.send_time
        <4>1. PICK i \in 1 .. Len(members) :
                      current.send_time = Reads(members[i].sent_at + offset)
          BY <2>3 DEF Describes
        <4>2. i \in 1 .. Len(more) /\ more[i] = members[i]
          BY <2>5
        <4> QED
          BY <3>2, <4>1, <4>2
      <3> QED
        BY <2>6, <3>1, <3>2
    <2>10. /\ GrownGroup.size = Len(more)
           /\ GrownGroup.first_send_time = Reads(more[1].sent_at + offset)
      <3>1. 1 \in 1 .. Len(members) /\ current.size = Len(members)
            /\ current.first_send_time = Reads(members[1].sent_at + offset)
        BY <2>3, <2>5 DEF Describes
      <3> QED
        BY <2>2, <2>5, <3>1
    <2>11. Describes(offset, GrownGroup, more)
      BY <1>2, <2>2, <2>5, <2>8, <2>9, <2>10 DEF Describes
    <2>12. current' = GrownGroup /\ members' = more /\ UNCHANGED <<prev, prev_members>>
      BY <1>7 DEF GoesOn, more, new
    <2>13. prev # EmptyGroup =>
              /\ Describes(offset, prev, prev_members)
              /\ Last(prev_members).taken_at <= Last(prev_members).arrived_at
              /\ Last(prev_members).arrived_at <= new.taken_at
      <3>1. ASSUME prev # EmptyGroup
            PROVE  /\ Describes(offset, prev, prev_members)
                   /\ Last(prev_members).taken_at <= Last(prev_members).arrived_at
                   /\ Last(prev_members).arrived_at <= Last(members).taken_at
        BY <3>1 DEF GroupsDescribed
      <3>2. ASSUME prev # EmptyGroup PROVE Last(prev_members).arrived_at <= new.taken_at
        <4>1. Last(members) \in Grouped /\ Last(prev_members) \in Grouped
          BY <2>4, <3>1, <3>2, EndsOf DEF Describes
        <4> QED
          BY <1>1, <1>2, <2>3, <3>1, <3>2, <4>1 DEF Grouped, Taken
      <3> QED
        BY <3>1, <3>2
    <2> QED
      BY <1>1, <1>2, <2>5, <2>11, <2>12, <2>13
  <1>8. CASE Follows
    <2>1. /\ current \in Groups /\ current # EmptyGroup
          /\ current' = NewGroup /\ members' = <<new>> /\ prev' = current
          /\ prev_members' = members
      BY <1>8, FirstIsEmpty DEF Follows, new
    <2>2. /\ Describes(offset, current, members)
          /\ Last(members).taken_at <= Last(members).arrived_at
          /\ Last(members).arrived_at <= receiving.taken_at
      BY <1>1, <2>1 DEF GroupsDescribed
    <2> QED
      BY <1>1, <1>2, <1>4, <2>1, <2>2
  <1>9. CASE Forgets
    BY <1>9 DEF Forgets, Reset
  <1> QED
    BY <1>5, <1>6, <1>7, <1>8, <1>9, CallOutcomes

\* Nothing is grouped at first.
LEMMA InitDescribed == Init => GroupsDescribed
  BY DEF Init, GroupsDescribed

\* Every step keeps the description.
LEMMA StepDescribed == GroupsTyped /\ GroupsDescribed /\ [Next]_vars => GroupsDescribed'
  <1> SUFFICES ASSUME GroupsTyped, GroupsDescribed, [Next]_vars PROVE GroupsDescribed'
    OBVIOUS
  <1>0. current # EmptyGroup =>
           Last(members).arrived_at \in Nat /\ Last(members).arrived_at <= now
    BY EndsOf DEF GroupsDescribed, Describes, Grouped
  <1>1. CASE Tick
    <2>1. /\ now \in Nat /\ now' = now + 1
          /\ UNCHANGED <<offset, receiving, current, prev, members, prev_members>>
      BY <1>1, GroupAssumption DEF Tick, groupVars, historyVars, GroupsTyped
    <2>2. current # EmptyGroup => Last(members).arrived_at <= now'
      BY <1>0, <2>1
    <2> QED
      BY <2>1, <2>2 DEF GroupsDescribed
  <1>2. CASE SendPacket
    BY <1>2 DEF SendPacket, groupVars, historyVars, GroupsDescribed
  <1>3. ASSUME NEW packet \in net, Lose(packet) PROVE GroupsDescribed'
    BY <1>3 DEF Lose, groupVars, historyVars, GroupsDescribed
  <1>4. ASSUME NEW packet \in net, ReceivePacket(packet) PROVE GroupsDescribed'
    <2>1. /\ receiving'.taken_at = now
          /\ UNCHANGED <<now, offset, current, prev, members, prev_members>>
      BY <1>4 DEF ReceivePacket, groupVars, historyVars
    <2> QED
      BY <1>0, <2>1 DEF GroupsDescribed
  <1>5. CASE IncomingPacketFeedback
    <2>1. receiving' = None /\ UNCHANGED <<now, offset>>
      BY <1>5 DEF IncomingPacketFeedback
    <2> QED
      BY <1>5, <2>1, CallDescribed DEF GroupsDescribed
  <1>6. CASE UNCHANGED vars
    BY <1>6 DEF vars, groupVars, historyVars, GroupsDescribed
  <1> QED
    BY <1>1, <1>2, <1>3, <1>4, <1>5, <1>6 DEF Next

\* In every reachable state the groups describe the packets they were given.
THEOREM GroupInvariant == Spec => [](GroupsTyped /\ GroupsDescribed)
  BY InitTyped, StepTyped, InitDescribed, StepDescribed, PTL DEF Spec

-----------------------------------------------------------------------------
(* Deltas that are computed, and groups that are forgotten *)

\* A call that computes deltas has two groups, which describe their packets.
LEMMA ComputingCall ==
  ASSUME GroupsTyped, GroupsDescribed, Next,
         receiving # None, receiving' = None, deltas'.computed
  PROVE  /\ deltas' = DeltasBetween(prev, current) /\ ~Backwards(prev, current)
         /\ prev \in Groups /\ current \in Groups
         /\ prev # EmptyGroup /\ current # EmptyGroup
         /\ Describes(offset, prev, prev_members) /\ Describes(offset, current, members)
         /\ Last(prev_members).arrived_at \in Nat /\ Last(members).arrived_at \in Nat
         /\ Last(prev_members).arrived_at <= Last(members).arrived_at
         /\ prev.complete_time = Reads(Last(prev_members).arrived_at)
         /\ current.complete_time = Reads(Last(members).arrived_at)
  <1>1. IncomingPacketFeedback
    BY DEF Next, Tick, SendPacket, Lose, ReceivePacket
  <1>2. NoDeltas.computed = FALSE
    BY DEF NoDeltas
  <1>3. Follows /\ deltas' = DeltasBetween(prev, current) /\ ~Backwards(prev, current)
        /\ prev \in Groups
    BY <1>1, <1>2, CallOutcomes DEF Begins, Ignores, GoesOn, Follows, Forgets, Reset
  <1>4. /\ prev \in Groups /\ current \in Groups
        /\ prev # EmptyGroup /\ current # EmptyGroup
    BY <1>3, FirstIsEmpty DEF GroupsTyped
  <1>5. /\ Describes(offset, prev, prev_members) /\ Describes(offset, current, members)
        /\ Last(prev_members).arrived_at <= Last(members).taken_at
        /\ Last(members).taken_at <= Last(members).arrived_at
    BY <1>4 DEF GroupsDescribed
  <1>6. Last(prev_members) \in Grouped /\ Last(members) \in Grouped
    BY <1>5, EndsOf DEF Describes
  <1>7. /\ Last(prev_members).arrived_at \in Nat /\ Last(members).arrived_at \in Nat
        /\ Last(prev_members).arrived_at <= Last(members).arrived_at
    BY <1>5, <1>6 DEF Grouped
  <1>8. /\ prev.complete_time = Reads(Last(prev_members).arrived_at)
        /\ current.complete_time = Reads(Last(members).arrived_at)
    BY <1>5 DEF Describes
  <1> QED
    BY <1>3, <1>4, <1>5, <1>7, <1>8

\* Max is the upper bound that is reached.
LEMMA MaxIsReached ==
    ASSUME NEW S, NEW x \in S, x \in Nat, \A y \in S : y \in Nat /\ y <= x
    PROVE  Max(S) = x
  <1>1. \A y \in S : x >= y
    OBVIOUS
  <1>2. \A y \in S : (\A z \in S : y >= z) => y = x
    OBVIOUS
  <1> QED
    BY <1>1, <1>2 DEF Max

\* A group has the latest sending time of its packets.
LEMMA DescribedSent ==
    ASSUME GroupsTyped, NEW g \in Groups, NEW ms, Describes(offset, g, ms)
    PROVE  LastSent(ms) = g.send_time
  <1> DEFINE S == {SendTime(ms[i]) : i \in DOMAIN ms}
  <1>1. ms \in Seq(Grouped) /\ DOMAIN ms = 1 .. Len(ms)
    BY DEF Describes
  <1>2. \A i \in 1 .. Len(ms) : Reads(ms[i].sent_at + offset) \in Nat
    <2>1. \A i \in 1 .. Len(ms) : ms[i] \in Grouped
      BY <1>1, EndsOf DEF Describes
    <2>2. \A i \in 1 .. Len(ms) : ms[i].sent_at + offset \in Nat
      BY <2>1, GroupAssumption DEF GroupsTyped, Grouped
    <2> QED
      BY <2>2, ReadingType
  <1>3. g.send_time \in S /\ \A y \in S : y \in Nat /\ y <= g.send_time
    BY <1>1, <1>2 DEF Describes, SendTime
  <1>4. g.send_time \in Nat
    BY DEF Groups, GroupType
  <1> HIDE DEF S
  <1>5. Max(S) = g.send_time
    BY <1>3, <1>4, MaxIsReached
  <1> QED
    BY <1>5 DEF S, LastSent

\* The deltas a call computes are those between the two last complete groups,
\* of their latest sending times, last arrivals and sizes, whatever the path and
\* the clocks do and for all thresholds (inter_arrival_delta.cc:46-90).
THEOREM DeltasOfGroups == Spec => DeltasCompareGroups
  <1>1. ASSUME GroupsTyped /\ GroupsDescribed, [Next]_vars
        PROVE  [receiving # None /\ receiving' = None /\ deltas'.computed =>
                  /\ deltas'.send = LastSent(members) - LastSent(prev_members)
                  /\ deltas'.arrival = LastArrived(members) - LastArrived(prev_members)
                  /\ deltas'.size = Len(members) - Len(prev_members)]_vars
    <2> SUFFICES ASSUME Next, receiving # None, receiving' = None, deltas'.computed
                 PROVE  /\ deltas'.send = LastSent(members) - LastSent(prev_members)
                        /\ deltas'.arrival = LastArrived(members) - LastArrived(prev_members)
                        /\ deltas'.size = Len(members) - Len(prev_members)
      BY <1>1
    <2>1. /\ deltas' = DeltasBetween(prev, current)
          /\ prev \in Groups /\ current \in Groups
          /\ Describes(offset, prev, prev_members) /\ Describes(offset, current, members)
          /\ prev.complete_time = Reads(Last(prev_members).arrived_at)
          /\ current.complete_time = Reads(Last(members).arrived_at)
      BY <1>1, ComputingCall
    <2>2. LastSent(members) = current.send_time /\ LastSent(prev_members) = prev.send_time
      BY <1>1, <2>1, DescribedSent
    <2>3. current.size = Len(members) /\ prev.size = Len(prev_members)
      BY <2>1 DEF Describes
    <2> QED
      BY <2>1, <2>2, <2>3 DEF DeltasBetween, LastArrived, SystemTime
  <1> QED
    BY <1>1, GroupInvariant, PTL DEF Spec, DeltasCompareGroups

\* No arrival delta spans a restart of the receiver's clock, however often it
\* starts again and for all thresholds: it is the time that passed, unless that is
\* a whole period (inter_arrival_delta.cc:63-73).
THEOREM RestartsNotMeasured == Spec => RestartNotMeasured
  <1> DEFINE Passed == Last(members).arrived_at - Last(prev_members).arrived_at
             Measured == receiving # None /\ receiving' = None /\ deltas'.computed =>
                            deltas'.arrival = Passed \/ Passed >= Period
  <1>1. ASSUME GroupsTyped /\ GroupsDescribed, [Next]_vars
        PROVE  [Measured]_vars
    <2> SUFFICES ASSUME Next, receiving # None, receiving' = None, deltas'.computed,
                        ~(Passed >= Period)
                 PROVE  deltas'.arrival = Passed
      BY <1>1
    <2> DEFINE a == Last(prev_members).arrived_at
               b == Last(members).arrived_at
    <2>1. /\ deltas' = DeltasBetween(prev, current) /\ ~Backwards(prev, current)
          /\ a \in Nat /\ b \in Nat /\ a <= b
          /\ prev.complete_time = Reads(a) /\ current.complete_time = Reads(b)
      BY <1>1, ComputingCall
    <2>2. deltas'.arrival = Reads(b) - Reads(a) /\ ~(Reads(b) - Reads(a) < 0)
      BY <2>1 DEF DeltasBetween, Backwards
    <2>3. Passed = b - a
      OBVIOUS
    <2> HIDE DEF a, b
    <2>4. Reads(a) \in Nat /\ Reads(b) \in Nat
      BY <2>1, ReadingType
    <2>5. b - a < Period /\ Reads(a) <= Reads(b)
      BY <2>1, <2>2, <2>3, <2>4, GroupAssumption
    <2>6. Reads(b) - Reads(a) = b - a
      BY <2>1, <2>5, ForwardReadings
    <2> QED
      BY <2>2, <2>3, <2>6
  <1>2. RestartNotMeasured <=> [][Measured]_vars
    BY DEF RestartNotMeasured
  <1> HIDE DEF Measured
  <1> QED
    BY <1>1, <1>2, GroupInvariant, PTL DEF Spec

\* The groups are forgotten only when the process was held up between the two
\* readings of the clock, when the stream has timed out, or when the receiver's
\* clock has started again (inter_arrival_delta.cc:53-72,
\* delay_based_bwe.cc:117-130).
THEOREM ForgetsAfterHoldUp == Spec => ForgetsOnlyAfterHoldUp
  <1>1. ASSUME GroupsTyped /\ GroupsDescribed, [Next]_vars
        PROVE  [prev # EmptyGroup /\ prev' = EmptyGroup =>
                  \/ Last(members).arrived_at - Last(members).taken_at >= OffsetThreshold
                  \/ TimedOut
                  \/ ~SameRun(Last(prev_members).taken_at, Last(members).arrived_at)]_vars
    <2> DEFINE s == Last(prev_members).taken_at
               a == Last(prev_members).arrived_at
               t == Last(members).taken_at
               b == Last(members).arrived_at
    <2> SUFFICES ASSUME Next, prev # EmptyGroup, prev' = EmptyGroup, ~TimedOut, SameRun(s, b)
                 PROVE  b - t >= OffsetThreshold
      BY <1>1
    <2>1. IncomingPacketFeedback
      BY DEF Next, Tick, SendPacket, Lose, ReceivePacket, groupVars
    <2>2. Forgets
      <3>1. ~Ignores /\ ~GoesOn
        BY DEF Ignores, GoesOn
      <3>2. ~Follows
        BY FirstIsEmpty DEF Follows
      <3>3. ~Begins
        <4>1. SUFFICES ASSUME Begins PROVE FALSE
          OBVIOUS
        <4>2. ComputeDeltas(receiving, SystemTime(now), SystemTime(receiving.taken_at))
          BY <1>1, <2>1, OneFeedback, GroupAssumption DEF GroupsTyped
        <4>3. members' # <<>> /\ ~IsFirstPacket(current) /\ ~IsFirstPacket(prev)
          BY <1>1, <4>1, FirstIsEmpty DEF Begins, GroupsTyped
        <4>4. NoDeltas.computed = FALSE
          BY DEF NoDeltas
        <4> QED
          BY <4>2, <4>3, FirstIsEmpty
             DEF ComputeDeltas, Reset, StartGroup, groupVars
      <3> QED
        BY <1>1, <2>1, <3>1, <3>2, <3>3, CallOutcomes
    <2>3. /\ prev \in Groups /\ current \in Groups /\ current # EmptyGroup
          /\ ClockJumped(prev, current) \/ Backwards(prev, current)
      BY <1>1, <2>2, FirstIsEmpty DEF Forgets, GroupsTyped
    <2>4. /\ Describes(offset, prev, prev_members) /\ Describes(offset, current, members)
          /\ s <= a /\ a <= t /\ t <= b
      BY <1>1, <2>3 DEF GroupsDescribed
    <2>5. /\ prev.complete_time = Reads(a) /\ prev.last_system_time = Reads(s)
          /\ current.complete_time = Reads(b) /\ current.last_system_time = Reads(t)
      BY <2>4 DEF Describes
    <2>6. s \in Nat /\ a \in Nat /\ t \in Nat /\ b \in Nat
      <3>1. Last(prev_members) \in Grouped /\ Last(members) \in Grouped
        BY <2>4, EndsOf DEF Describes
      <3> QED
        BY <3>1 DEF Grouped
    <2>7. \/ (Reads(b) - Reads(a)) - (Reads(t) - Reads(s)) >= OffsetThreshold
          \/ Reads(b) - Reads(a) < 0
      BY <2>3, <2>5 DEF ClockJumped, Backwards, DeltasBetween
    <2> HIDE DEF s, a, t, b
    <2>8. s <= t /\ a <= b /\ s <= b
      BY <2>4, <2>6
    <2>9. Reads(a) - Reads(s) = a - s /\ Reads(b) - Reads(a) = b - a
      BY <2>4, <2>6, <2>8, SameRunExact
    <2>10. Reads(t) - Reads(s) = t - s
      BY <2>4, <2>6, <2>8, SameRunExact
    <2> QED
      BY <2>4, <2>6, <2>7, <2>9, <2>10, GroupAssumption
  <1> QED
    BY <1>1, GroupInvariant, PTL DEF Spec, ForgetsOnlyAfterHoldUp

-----------------------------------------------------------------------------
(* Send deltas on a path that keeps the order *)

\* Packets in flight were sent in the order of their numbers; as long as none has
\* overtaken another, everything still to come was sent after what is grouped,
\* and a group's latest sending time after that of the group before, unless they
\* are a whole period apart.
SentInOrder ==
    /\ \A p \in net : p.seq <= sent /\ p.sent_at <= now
    /\ \A p, q \in net : p.seq <= q.seq => p.sent_at <= q.sent_at
    /\ receiving # None => receiving.sent_at <= now
    /\ current # EmptyGroup => Last(members).sent_at <= now
    /\ ordered =>
          /\ receiving # None => \A p \in net : receiving.sent_at <= p.sent_at
          /\ current # EmptyGroup => \A p \in net : Last(members).sent_at <= p.sent_at
          /\ current # EmptyGroup /\ receiving # None =>
                Last(members).sent_at <= receiving.sent_at
          /\ current # EmptyGroup =>
                \A i \in 1 .. Len(members) :
                    /\ members[1].sent_at <= members[i].sent_at
                    /\ members[i].sent_at <= Last(members).sent_at
          /\ prev # EmptyGroup /\ Last(members).sent_at - prev_members[1].sent_at < Period =>
                prev.send_time < current.send_time

\* Nothing is sent or grouped at first.
LEMMA InitSent == Init => SentInOrder
  BY DEF Init, SentInOrder

\* What a call does to the sending times of the groups.
LEMMA CallSent ==
  ASSUME GroupsTyped, GroupsDescribed, SentInOrder, IncomingPacketFeedback
  PROVE  /\ current' # EmptyGroup =>
               Last(members').sent_at \in {Last(members).sent_at, receiving.sent_at}
         /\ current' # EmptyGroup /\ Last(members').sent_at # receiving.sent_at =>
               current # EmptyGroup
         /\ ordered /\ current' # EmptyGroup =>
               \A i \in 1 .. Len(members') :
                   /\ members'[1].sent_at <= members'[i].sent_at
                   /\ members'[i].sent_at <= Last(members').sent_at
         /\ ordered /\ prev' # EmptyGroup
               /\ Last(members').sent_at - prev_members'[1].sent_at < Period =>
               prev'.send_time < current'.send_time
  <1> DEFINE new == Member(receiving)
             send == SendTime(receiving)
  <1>0. now \in Nat /\ offset \in Nat
    BY GroupAssumption DEF GroupsTyped
  <1>1. receiving \in Taken /\ receiving # None
    BY CallOutcomes DEF IncomingPacketFeedback
  <1>2. /\ new \in Grouped /\ new.sent_at = receiving.sent_at /\ receiving.sent_at \in Nat
        /\ send = Reads(new.sent_at + offset) /\ send \in Nat
    BY <1>1, MemberOfCall, GroupsOfCall DEF SendTime, Taken
  <1>3. NewGroup.send_time = send
    BY <1>1, GroupsOfCall
  <1>4. /\ Last(<<new>>) = new /\ <<new>>[1] = new
        /\ \A i \in 1 .. Len(<<new>>) : <<new>>[i] = new
    <2> HIDE DEF new
    <2>1. Last(<<new>>) = new /\ <<new>>[1] = new /\ Len(<<new>>) = 1
      BY <1>2, OnlyOne
    <2>2. \A i \in 1 .. 1 : i = 1
      OBVIOUS
    <2> QED
      BY <2>1, <2>2
  <1> HIDE DEF new, send
  <1>5. CASE Begins
    <2>1. members' = <<new>> /\ prev' = EmptyGroup
      BY <1>5 DEF Begins, new
    <2> QED
      BY <1>2, <1>4, <2>1
  <1>6. CASE Ignores
    BY <1>6 DEF Ignores, SentInOrder
  <1>7. CASE GoesOn
    <2> DEFINE more == Append(members, new)
    <2>1. /\ current \in Groups /\ current # EmptyGroup
          /\ current' = GrownGroup /\ members' = more
          /\ UNCHANGED <<prev, prev_members>>
      BY <1>7, FirstIsEmpty DEF GoesOn, new
    <2>2. GrownGroup.send_time = Higher(current.send_time, send)
      BY <1>1, <2>1, GroupsOfCall DEF send
    <2>3. members \in Seq(Grouped) /\ members # <<>>
      BY <2>1 DEF GroupsDescribed, Describes
    <2>4. /\ Len(more) = Len(members) + 1 /\ Len(members) \in Nat \ {0}
          /\ more[Len(members) + 1] = new /\ Last(more) = new
          /\ \A i \in 1 .. Len(members) : more[i] = members[i] /\ members[i] \in Grouped
          /\ Last(members) = members[Len(members)]
      BY <1>2, <2>3, OneMore, EndsOf
    <2> HIDE DEF more
    <2>5. ASSUME ordered
          PROVE  \A i \in 1 .. Len(more) :
                    more[1].sent_at <= more[i].sent_at /\ more[i].sent_at <= new.sent_at
      <3>1. \A i \in 1 .. Len(members) :
               /\ members[i].sent_at \in Nat
               /\ members[1].sent_at <= members[i].sent_at
               /\ members[i].sent_at <= Last(members).sent_at
        BY <2>1, <2>4, <2>5 DEF SentInOrder, Grouped
      <3>2. Last(members).sent_at <= new.sent_at
        BY <1>1, <1>2, <2>1, <2>5 DEF SentInOrder
      <3>3. 1 \in 1 .. Len(members) /\ Len(members) \in 1 .. Len(members)
        BY <2>4
      <3>4. /\ members[1].sent_at \in Nat /\ Last(members).sent_at \in Nat
            /\ new.sent_at \in Nat /\ more[1] = members[1]
        BY <1>2, <2>4, <3>1, <3>3
      <3>5. ASSUME NEW i \in 1 .. Len(members)
            PROVE  more[1].sent_at <= more[i].sent_at /\ more[i].sent_at <= new.sent_at
        BY <2>4, <3>1, <3>2, <3>4
      <3>6. more[1].sent_at <= new.sent_at /\ new.sent_at <= new.sent_at
        BY <3>3, <3>4, <3>5
      <3> QED
        BY <2>4, <3>5, <3>6
    <2>6. ASSUME ordered, prev # EmptyGroup, new.sent_at - prev_members[1].sent_at < Period
          PROVE  prev.send_time < GrownGroup.send_time
      <3>1. Last(members).sent_at <= new.sent_at
        BY <1>1, <1>2, <2>1, <2>6 DEF SentInOrder
      <3>2. prev_members[1].sent_at \in Nat /\ Last(members).sent_at \in Nat
        <4>1. prev_members[1] \in Grouped /\ Last(members) \in Grouped
          BY <2>3, <2>6, EndsOf DEF GroupsDescribed, Describes
        <4> QED
          BY <4>1 DEF Grouped
      <3>3. Last(members).sent_at - prev_members[1].sent_at < Period
        BY <1>2, <2>6, <3>1, <3>2, GroupAssumption
      <3>4. prev.send_time < current.send_time
        BY <2>6, <3>3 DEF SentInOrder
      <3>5. prev.send_time \in Nat /\ current.send_time \in Nat
        BY <2>1, <2>6 DEF GroupsTyped, Groups, GroupType
      <3> QED
        BY <1>2, <2>2, <3>4, <3>5 DEF Higher
    <2> QED
      BY <1>2, <2>1, <2>4, <2>5, <2>6
  <1>8. CASE Follows
    <2>1. /\ current \in Groups /\ current # EmptyGroup
          /\ current.first_send_time <= send /\ send # current.send_time
          /\ current' = NewGroup /\ members' = <<new>> /\ prev' = current
          /\ prev_members' = members
      BY <1>8, FirstIsEmpty DEF Follows, new, send
    <2>2. ASSUME ordered, new.sent_at - members[1].sent_at < Period
          PROVE  current.send_time < send
      <3> DEFINE first == members[1].sent_at
      <3>1. Describes(offset, current, members)
        BY <2>1 DEF GroupsDescribed
      <3>2. PICK k \in 1 .. Len(members) :
                    current.send_time = Reads(members[k].sent_at + offset)
        BY <3>1 DEF Describes
      <3> DEFINE latest == members[k].sent_at
      <3>3. first \in Nat /\ latest \in Nat
        <4>1. members[1] \in Grouped /\ members[k] \in Grouped
          BY <3>1, EndsOf DEF Describes
        <4> QED
          BY <4>1 DEF Grouped
      <3>4. first <= latest /\ latest <= new.sent_at
        <4>1. first <= latest /\ latest <= Last(members).sent_at
          BY <2>1, <2>2 DEF SentInOrder
        <4>2. Last(members).sent_at <= new.sent_at
          BY <1>1, <1>2, <2>1, <2>2 DEF SentInOrder
        <4>3. Last(members).sent_at \in Nat
          <5>1. Last(members) \in Grouped
            BY <3>1, EndsOf DEF Describes
          <5> QED
            BY <5>1 DEF Grouped
        <4> QED
          BY <1>2, <3>3, <4>1, <4>2, <4>3
      <3>5. /\ current.first_send_time = Reads(first + offset)
            /\ current.first_send_time <= current.send_time
        BY <3>1, <3>2 DEF Describes
      <3>6. current.send_time = Reads(latest + offset) /\ send = Reads(new.sent_at + offset)
        BY <1>2, <3>2
      <3>7. new.sent_at - first < Period /\ new.sent_at \in Nat
        BY <1>2, <2>2
      <3> HIDE DEF first, latest
      <3> DEFINE x == first + offset
                 y == latest + offset
                 z == new.sent_at + offset
      <3>8. /\ x \in Nat /\ y \in Nat /\ z \in Nat /\ x <= y /\ y <= z /\ x <= z
            /\ z - x < Period /\ y - x < Period
        BY <1>0, <3>3, <3>4, <3>7, GroupAssumption
      <3>9. Reads(x) <= Reads(y) /\ Reads(x) <= Reads(z) /\ Reads(y) # Reads(z)
        BY <2>1, <3>5, <3>6
      <3> HIDE DEF x, y, z
      <3>10. Reads(y) - Reads(x) = y - x /\ Reads(z) - Reads(x) = z - x
        BY <3>8, <3>9, ForwardReadings
      <3>11. Reads(x) \in Nat /\ Reads(y) \in Nat /\ Reads(z) \in Nat
        BY <3>8, ReadingType
      <3>12. Reads(y) < Reads(z)
        BY <3>8, <3>9, <3>10, <3>11
      <3> QED
        BY <3>6, <3>12 DEF y, z
    <2>3. new.sent_at <= new.sent_at
      BY <1>2
    <2> QED
      BY <1>2, <1>3, <1>4, <2>1, <2>2, <2>3
  <1>9. CASE Forgets
    BY <1>9 DEF Forgets, Reset
  <1> QED
    BY <1>5, <1>6, <1>7, <1>8, <1>9, CallOutcomes

\* Every step keeps the order of sending.
LEMMA StepSent ==
  GroupsTyped /\ GroupsDescribed /\ SentInOrder /\ [Next]_vars => SentInOrder'
  <1> SUFFICES ASSUME GroupsTyped, GroupsDescribed, SentInOrder, [Next]_vars
               PROVE  SentInOrder'
    OBVIOUS
  <1>0. /\ now \in Nat /\ sent \in Nat
        /\ \A p \in net : p.seq \in Nat /\ p.sent_at \in Nat
        /\ receiving # None => receiving.sent_at \in Nat
        /\ current # EmptyGroup => Last(members).sent_at \in Nat
    <2>1. current # EmptyGroup => Last(members) \in Grouped
      BY EndsOf DEF GroupsDescribed, Describes
    <2> QED
      BY <2>1, GroupAssumption DEF GroupsTyped, Taken, Grouped
  <1>1. CASE Tick
    <2>1. /\ now' = now + 1
          /\ UNCHANGED <<sent, net, receiving, ordered, current, prev, members, prev_members>>
      BY <1>1 DEF Tick, groupVars, historyVars
    <2>2. /\ \A p \in net : p.sent_at <= now'
          /\ receiving # None => receiving.sent_at <= now'
          /\ current # EmptyGroup => Last(members).sent_at <= now'
      BY <1>0, <2>1 DEF SentInOrder
    <2> QED
      BY <2>1, <2>2 DEF SentInOrder
  <1>2. CASE SendPacket
    <2> DEFINE packet == [seq |-> sent + 1, sent_at |-> now]
    <2>1. /\ net' = net \cup {packet} /\ sent' = sent + 1
          /\ packet.seq = sent + 1 /\ packet.sent_at = now
          /\ UNCHANGED <<now, receiving, ordered, current, prev, members, prev_members>>
      BY <1>2 DEF SendPacket, groupVars, historyVars
    <2> HIDE DEF packet
    <2>2. \A p \in net : p.seq <= sent /\ p.seq < sent + 1 /\ p.sent_at <= now
      BY <1>0 DEF SentInOrder
    <2>3. /\ \A p \in net' : p.seq <= sent' /\ p.sent_at <= now'
          /\ \A p, q \in net' : p.seq <= q.seq => p.sent_at <= q.sent_at
      BY <1>0, <2>1, <2>2 DEF SentInOrder
    <2>4. ordered =>
             /\ receiving # None => \A p \in net' : receiving.sent_at <= p.sent_at
             /\ current # EmptyGroup => \A p \in net' : Last(members).sent_at <= p.sent_at
      BY <2>1 DEF SentInOrder
    <2> QED
      BY <2>1, <2>3, <2>4 DEF SentInOrder
  <1>3. ASSUME NEW packet \in net, Lose(packet) PROVE SentInOrder'
    BY <1>3 DEF Lose, groupVars, historyVars, SentInOrder
  <1>4. ASSUME NEW packet \in net, ReceivePacket(packet) PROVE SentInOrder'
    <2>1. /\ net' = net \ {packet} /\ receiving'.sent_at = packet.sent_at
          /\ ordered' = (ordered /\ \A other \in net : packet.seq <= other.seq)
          /\ UNCHANGED <<now, sent, current, prev, members, prev_members>>
      BY <1>4 DEF ReceivePacket, groupVars, historyVars
    <2>2. packet.sent_at <= now
      BY DEF SentInOrder
    <2>3. ordered' => ordered /\ \A p \in net : packet.sent_at <= p.sent_at
      BY <2>1 DEF SentInOrder
    <2> QED
      BY <2>1, <2>2, <2>3 DEF SentInOrder
  <1>5. CASE IncomingPacketFeedback
    <2>1. /\ receiving # None /\ receiving' = None
          /\ UNCHANGED <<now, sent, net, ordered>>
      BY <1>5 DEF IncomingPacketFeedback
    <2>2. ASSUME current' # EmptyGroup
          PROVE  /\ Last(members').sent_at <= now
                 /\ ordered => \A p \in net : Last(members').sent_at <= p.sent_at
      <3>1. /\ receiving.sent_at <= now
            /\ ordered => \A p \in net : receiving.sent_at <= p.sent_at
        BY <2>1 DEF SentInOrder
      <3>2. current # EmptyGroup =>
              /\ Last(members).sent_at <= now
              /\ ordered => \A p \in net : Last(members).sent_at <= p.sent_at
        BY DEF SentInOrder
      <3>3. /\ Last(members').sent_at \in {Last(members).sent_at, receiving.sent_at}
            /\ Last(members').sent_at # receiving.sent_at => current # EmptyGroup
        BY <1>5, <2>2, CallSent
      <3> QED
        BY <3>1, <3>2, <3>3
    <2>3. /\ ordered /\ current' # EmptyGroup =>
               \A i \in 1 .. Len(members') :
                   /\ members'[1].sent_at <= members'[i].sent_at
                   /\ members'[i].sent_at <= Last(members').sent_at
          /\ ordered /\ prev' # EmptyGroup
               /\ Last(members').sent_at - prev_members'[1].sent_at < Period =>
               prev'.send_time < current'.send_time
      BY <1>5, CallSent
    <2> QED
      BY <2>1, <2>2, <2>3 DEF SentInOrder
  <1>6. CASE UNCHANGED vars
    BY <1>6 DEF vars, groupVars, historyVars, SentInOrder
  <1> QED
    BY <1>1, <1>2, <1>3, <1>4, <1>5, <1>6 DEF Next

\* As long as no packet overtakes another, send deltas are positive, although the
\* sender's clock may start again, for all thresholds
\* (inter_arrival_delta.cc:44-50).
THEOREM DeltasForward == Spec => ForwardDeltas
  <1>1. ASSUME GroupsTyped /\ GroupsDescribed, SentInOrder, [Next]_vars
        PROVE  [/\ ordered /\ receiving # None /\ receiving' = None /\ deltas'.computed
                /\ Last(members).sent_at - prev_members[1].sent_at < Period
                => deltas'.send > 0]_vars
    <2> SUFFICES ASSUME Next, ordered, receiving # None, receiving' = None, deltas'.computed,
                        Last(members).sent_at - prev_members[1].sent_at < Period
                 PROVE  deltas'.send > 0
      BY <1>1
    <2>1. /\ deltas' = DeltasBetween(prev, current)
          /\ prev \in Groups /\ current \in Groups /\ prev # EmptyGroup
      BY <1>1, ComputingCall
    <2>2. prev.send_time < current.send_time
      BY <1>1, <2>1 DEF SentInOrder
    <2>3. prev.send_time \in Nat /\ current.send_time \in Nat
      BY <2>1 DEF Groups, GroupType
    <2>4. deltas'.send = current.send_time - prev.send_time
      BY <2>1 DEF DeltasBetween
    <2> QED
      BY <2>2, <2>3, <2>4
  <1>2. GroupsTyped /\ GroupsDescribed /\ SentInOrder /\ [Next]_vars => SentInOrder'
    BY StepSent
  <1> QED
    BY <1>1, <1>2, GroupInvariant, InitSent, PTL DEF Spec, ForwardDeltas

=============================================================================
