--------------------------- MODULE LossPath_proofs ---------------------------
(***************************************************************************)
(* Proofs about the receiver's loss accounting on a path (LossPath), for   *)
(* every value of the constants.                                           *)
(***************************************************************************)
EXTENDS LossPath, TLAPS, FiniteSetTheorems, SequenceTheorems

-----------------------------------------------------------------------------
(* Receive vectors *)

\* Clamping the smoothed delay always gives a duration no longer than the
\* receive duration, as the comment at receiver_loss_collection.cc:135 demands.
LEMMA WaitDurationBounded ==
    ASSUME NEW srtt \in Int
    PROVE  /\ GetWaitDuration(srtt) \in Nat
           /\ GetWaitDuration(srtt) <= ReceiveDuration
BY DurationAssumption DEF GetWaitDuration, MIN, MAX

\* Smoothing keeps the delay an integer.
LEMMA RttType ==
    ASSUME NEW srtt \in Int, NEW sample \in Int
    PROVE  UpdatedRtt(srtt, sample) \in Int
BY DEF UpdatedRtt, EighthOf

\* Marking a packet keeps a vector's type, its times and its first packet.
LEMMA MarkedVector ==
    ASSUME NEW v \in ReceiveVectorType, NEW offset \in Int
    PROVE  /\ Marked(v, offset) \in ReceiveVectorType
           /\ Marked(v, offset).first_received_time = v.first_received_time
           /\ Marked(v, offset).largest_received_time = v.largest_received_time
           /\ Marked(v, offset).wait_duration = v.wait_duration
           /\ v.received = <<>> => Marked(v, offset) = v
           /\ v.received # <<>> /\ v.received[1] =>
                 Marked(v, offset).received # <<>> /\ Marked(v, offset).received[1]
<1>1. CASE ~InRange(v, offset)
  BY <1>1 DEF Marked
<1>2. CASE InRange(v, offset)
  <2>1. offset + 1 \in 1 .. Len(v.received)
    BY <1>2 DEF InRange, ReceiveVectorType
  <2>2. Marked(v, offset) = [v EXCEPT !.received[offset + 1] = TRUE]
    BY <1>2 DEF Marked
  <2> DEFINE r == [v.received EXCEPT ![offset + 1] = TRUE]
  <2>3. /\ r \in Seq(BOOLEAN)
        /\ r # <<>>
        /\ v.received[1] => r[1]
    BY <2>1 DEF ReceiveVectorType
  <2>4. Marked(v, offset) = [v EXCEPT !.received = r]
    BY <2>2 DEF ReceiveVectorType
  <2>5. v.received # <<>>
    BY <2>1
  <2> HIDE DEF r
  <2>6. QED
    BY <2>3, <2>4, <2>5 DEF ReceiveVectorType
<1>3. QED
  BY <1>1, <1>2

\* A vector extended by a packet above its largest number.
LEMMA ExtendedVector ==
    ASSUME NEW v \in ReceiveVectorType, NEW seq \in Nat, NEW t \in Nat,
           v.received # <<>>, v.received[1],
           seq > v.largest_packet_number,
           NEW e, e = Extended(v, seq, t)
    PROVE  /\ e \in ReceiveVectorType
           /\ e.received # <<>>
           /\ e.received[1]
           /\ e.first_received_time = v.first_received_time
           /\ e.largest_received_time = t
           /\ e.wait_duration = v.wait_duration
           /\ e.largest_packet_number = seq
           /\ e.first_packet_number = v.first_packet_number
<1> DEFINE n == Len(v.received) + (seq - v.largest_packet_number)
           r == [ i \in 1 .. n |-> IF i <= Len(v.received)
                                   THEN v.received[i] ELSE i = n ]
<1>1. n \in Nat /\ n >= 1 /\ Len(v.received) >= 1
  BY DEF ReceiveVectorType
<1>2. \A i \in 1 .. n : (IF i <= Len(v.received)
                         THEN v.received[i] ELSE i = n) \in BOOLEAN
  <2>1. ASSUME NEW i \in 1 .. n, i <= Len(v.received)
        PROVE  v.received[i] \in BOOLEAN
    BY <1>1, <2>1 DEF ReceiveVectorType
  <2>2. ASSUME NEW i \in 1 .. n
        PROVE  (i = n) \in BOOLEAN
    OBVIOUS
  <2>3. QED
    BY <2>1, <2>2, Zenon
<1>3. r \in [1 .. n -> BOOLEAN]
  BY <1>2
<1>4. r \in Seq(BOOLEAN) /\ r # <<>> /\ r[1]
  <2>1. r \in Seq(BOOLEAN) /\ Len(r) = n
    BY <1>1, <1>3
  <2>2. 1 \in 1 .. n /\ 1 <= Len(v.received)
    BY <1>1
  <2>3. r[1] = v.received[1]
    BY <2>2, Zenon
  <2>4. QED
    BY <1>1, <2>1, <2>3
<1>5. e =
        [v EXCEPT !.received = r, !.largest_received_time = t,
                  !.largest_packet_number = seq]
  BY DEF Extended, ReceiveVectorType
<1> HIDE DEF n, r
<1>6. e \in ReceiveVectorType
  BY <1>4, <1>5 DEF ReceiveVectorType
<1>7. QED
  BY <1>4, <1>5, <1>6 DEF ReceiveVectorType

\* A vector that begins with a packet received makes a report when it is due.
LEMMA DueVectorIsReported ==
    ASSUME NEW v \in ReceiveVectorType, NEW t \in Nat,
           v.received # <<>>, v.received[1], ReportDue(v, t)
    PROVE  GeneratesReport(v, t)
BY DEF GeneratesReport, ReceivedIndices, ReceiveVectorType

-----------------------------------------------------------------------------
(* One call of the collection *)

CollectionType ==
    /\ in_effect \in ReceiveVectorType
    /\ wait \in ReceiveVectorType
    /\ smooth_rtt \in Int
    /\ status \in StatusType

\* A reset vector is a vector.
LEMMA EmptyVectorType ==
    /\ EmptyVector \in ReceiveVectorType
    /\ EmptyVector.received = <<>>
    /\ EmptyVector.first_received_time = 0
    /\ EmptyVector.largest_received_time = 0
    /\ EmptyVector.wait_duration = 0
    /\ EmptyVector.first_packet_number = 0
    /\ EmptyVector.largest_packet_number = 0
<1>1. <<>> \in Seq(BOOLEAN)
  OBVIOUS
<1>2. QED
  BY <1>1 DEF EmptyVector, ReceiveVectorType

\* An empty vector makes no report.
LEMMA EmptyVectorIsSilent ==
    ASSUME NEW v \in ReceiveVectorType, NEW t \in Nat, v.received = <<>>
    PROVE  ~GeneratesReport(v, t)
BY DEF GeneratesReport, ReceivedIndices

\* The assertion of OnNewReportGenerated holds for the wait vector, before or
\* after a late packet is marked in it.
LEMMA ReportAssertionHolds ==
    ASSUME CollectionType, TimerInv, NEW v \in ReceiveVectorType, NEW t \in Nat,
           v.first_received_time = wait.first_received_time,
           v.wait_duration = wait.wait_duration,
           wait.received = <<>> => v = wait
    PROVE  ReportAssertion(v, t)
<1> SUFFICES ASSUME GeneratesReport(v, t)
             PROVE  in_effect.largest_received_time
                      < in_effect.first_received_time + ReceiveDuration
  BY DEF ReportAssertion
<1>1. wait.received # <<>>
  BY EmptyVectorIsSilent
<1>2. CASE in_effect.received = <<>>
  BY <1>2, DurationAssumption DEF TimerInv
<1>3. CASE in_effect.received # <<>>
  <2>1. /\ in_effect.largest_received_time \in Nat
        /\ in_effect.first_received_time \in Nat
        /\ wait.first_received_time \in Nat
        /\ wait.wait_duration \in Nat
        /\ ReceiveDuration \in Nat
    BY DurationAssumption DEF CollectionType, ReceiveVectorType
  <2>2. /\ wait.wait_duration <= ReceiveDuration
        /\ wait.first_received_time + ReceiveDuration < in_effect.first_received_time
        /\ in_effect.largest_received_time
              <= wait.first_received_time + ReceiveDuration + wait.wait_duration
    BY <1>1, <1>3 DEF TimerInv
  <2>3. QED
    BY <2>1, <2>2
<1>4. QED
  BY <1>2, <1>3

\* The wait vector that a call leaves behind MaybeGenerateReport: reset, or
\* not yet due.
LEMMA AfterReportVector ==
    ASSUME NEW v \in ReceiveVectorType, NEW t \in Nat,
           v.received = <<>> => v = EmptyVector,
           v.received # <<>> => v.received[1]
    PROVE  /\ AfterReport(v, t) \in ReceiveVectorType
           /\ \/ AfterReport(v, t) = EmptyVector
              \/ /\ AfterReport(v, t) = v
                 /\ v.received # <<>>
                 /\ t <= v.first_received_time + ReceiveDuration + v.wait_duration
<1>1. CASE GeneratesReport(v, t)
  BY <1>1, EmptyVectorType DEF AfterReport
<1>2. CASE ~GeneratesReport(v, t) /\ v.received = <<>>
  BY <1>2 DEF AfterReport
<1>3. CASE ~GeneratesReport(v, t) /\ v.received # <<>>
  <2>1. ~ReportDue(v, t)
    BY <1>3, DueVectorIsReported
  <2>2. t <= v.first_received_time + ReceiveDuration + v.wait_duration
    BY <2>1, DurationAssumption DEF ReportDue, ReceiveVectorType
  <2>3. QED
    BY <1>3, <2>2 DEF AfterReport
<1>4. QED
  BY <1>1, <1>2, <1>3

\* The end of UpdateEffectVector, for an in-effect vector e with a packet and
\* a wait vector w that is empty or not yet due: no assertion fails and the
\* timing invariant is kept.
LEMMA FinishKeepsTimerInv ==
    ASSUME CollectionType, NEW packet \in Packet, now \in Nat,
           NEW e \in ReceiveVectorType, NEW w \in ReceiveVectorType,
           e.received # <<>>, e.received[1],
           e.first_received_time <= e.largest_received_time,
           e.largest_received_time <= now,
           w.received = <<>> => w = EmptyVector,
           w.received # <<>> =>
             /\ w.received[1]
             /\ w.wait_duration <= ReceiveDuration
             /\ w.first_received_time + ReceiveDuration < now
             /\ w.first_received_time + ReceiveDuration < e.first_received_time
             /\ now <= w.first_received_time + ReceiveDuration + w.wait_duration,
           FinishEffectVector(e, w, packet, now), now' = now
    PROVE  CollectionType' /\ TimerInv' /\ status' = status
<1> DEFINE srtt == UpdatedRtt(smooth_rtt, now - packet.send_time)
<1>1. srtt \in Int
  BY RttType DEF CollectionType, Packet
<1>2. CASE now <= e.first_received_time + ReceiveDuration
  <2>1. /\ in_effect' = e /\ wait' = w
        /\ smooth_rtt' = srtt /\ status' = status
    BY <1>2 DEF FinishEffectVector
  <2>2. CollectionType'
    BY <2>1, <1>1 DEF CollectionType
  <2>3. /\ e.first_received_time \in Nat /\ e.largest_received_time \in Nat
        /\ w.first_received_time \in Nat /\ w.wait_duration \in Nat
        /\ ReceiveDuration \in Nat
    BY DurationAssumption DEF ReceiveVectorType
  <2>4. /\ e.largest_received_time <= e.first_received_time + ReceiveDuration
        /\ w.received # <<>> =>
             e.largest_received_time
               <= w.first_received_time + ReceiveDuration + w.wait_duration
    BY <2>3, <1>2
  <2>5. TimerInv'
    BY <2>1, <2>4 DEF TimerInv
  <2>6. QED
    BY <2>1, <2>2, <2>5
<1>3. CASE now > e.first_received_time + ReceiveDuration
  <2>1. w.received = <<>>
    BY <1>3, DurationAssumption DEF ReceiveVectorType
  <2>2. ~(now <= e.first_received_time + ReceiveDuration)
    BY <1>3, DurationAssumption DEF ReceiveVectorType
  <2>3. /\ wait' = [e EXCEPT !.wait_duration = GetWaitDuration(srtt)]
        /\ in_effect' = Continuing(w, e)
        /\ smooth_rtt' = 0
        /\ status' = status
    BY <2>1, <2>2 DEF FinishEffectVector, OnReceiveDurationEnd, SwapValue
  <2> DEFINE d == GetWaitDuration(srtt)
  <2>4. d \in Nat /\ d <= ReceiveDuration
    BY <1>1, WaitDurationBounded
  <2> HIDE DEF srtt, d
  <2>5. /\ wait' \in ReceiveVectorType
        /\ wait'.received = e.received
        /\ wait'.first_received_time = e.first_received_time
        /\ wait'.wait_duration = d
    BY <2>3, <2>4 DEF ReceiveVectorType, d
  <2>6. /\ in_effect' \in ReceiveVectorType
        /\ in_effect'.received = <<>>
        /\ in_effect'.first_received_time = 0
        /\ in_effect'.largest_received_time = 0
        /\ in_effect'.wait_duration = 0
        /\ in_effect'.largest_packet_number = 0
    <3>1. w = EmptyVector
      BY <2>1
    <3>2. in_effect' = [EmptyVector EXCEPT !.first_packet_number = e.largest_packet_number + 1]
      BY <2>3, <3>1 DEF Continuing
    <3>3. e.largest_packet_number + 1 \in Nat
      BY DEF ReceiveVectorType
    <3>4. QED
      BY <3>2, <3>3, EmptyVectorType DEF ReceiveVectorType
  <2>7. CollectionType'
    BY <2>3, <2>5, <2>6 DEF CollectionType
  <2>8. TimerInv'
    BY <2>4, <2>5, <2>6, <1>3 DEF TimerInv
  <2>9. QED
    BY <2>3, <2>7, <2>8
<1>4. QED
  BY <1>2, <1>3, DurationAssumption DEF ReceiveVectorType

\* A process that stops keeps its vectors.
LEMMA StopKeepsTimerInv ==
    ASSUME CollectionType, TimerInv, now' = now, NEW where \in StatusType, Stop(where)
    PROVE  CollectionType' /\ TimerInv'
BY DEF Stop, CollectionType, TimerInv

\* A late packet: UpdateWaitVector may fail, the timing assertions do not.
LEMMA LateKeepsTimerInv ==
    ASSUME CollectionType, TimerInv, now \in Nat, now' = now,
           NEW packet \in Packet, OnLatePacket(packet, now)
    PROVE  /\ CollectionType' /\ TimerInv'
           /\ status' \in {status, "UpdateWaitVector", "out_of_range"}
<1> DEFINE offset == packet.seq - wait.first_packet_number
           w == Marked(wait, offset)
<1>1. offset \in Int /\ wait \in ReceiveVectorType
  BY DEF Packet, CollectionType, ReceiveVectorType
<1>2. /\ w \in ReceiveVectorType
      /\ w.first_received_time = wait.first_received_time
      /\ w.wait_duration = wait.wait_duration
      /\ wait.received = <<>> => w = wait
      /\ wait.received # <<>> => w.received # <<>> /\ w.received[1]
  BY <1>1, MarkedVector DEF TimerInv
<1>3. \/ Stop("UpdateWaitVector")
      \/ Stop("out_of_range")
      \/ IF ReportAssertion(w, now)
         THEN /\ wait' = AfterReport(w, now)
              /\ result' = ReportOf(w, now)
              /\ UNCHANGED <<in_effect, smooth_rtt, status>>
         ELSE Stop("OnNewReportGenerated")
  BY DEF OnLatePacket
<1>4. ASSUME NEW where \in {"UpdateWaitVector", "out_of_range"}, Stop(where)
      PROVE  /\ CollectionType' /\ TimerInv'
             /\ status' \in {status, "UpdateWaitVector", "out_of_range"}
  <2>1. where \in StatusType
    BY <1>4 DEF StatusType
  <2>2. status' = where
    BY <1>4 DEF Stop
  <2>3. QED
    BY <1>4, <2>1, <2>2, StopKeepsTimerInv
<1>5. CASE IF ReportAssertion(w, now)
           THEN /\ wait' = AfterReport(w, now)
                /\ result' = ReportOf(w, now)
                /\ UNCHANGED <<in_effect, smooth_rtt, status>>
           ELSE Stop("OnNewReportGenerated")
  <2> HIDE DEF offset, w
  <2>1. ReportAssertion(w, now)
    BY <1>2, ReportAssertionHolds
  <2>2. wait' = AfterReport(w, now) /\ UNCHANGED <<in_effect, smooth_rtt, status>>
    BY <1>5, <2>1
  <2>3. /\ wait' \in ReceiveVectorType
        /\ wait' = EmptyVector \/ (wait' = w /\ w.received # <<>>)
    <3>1. w.received = <<>> => w = EmptyVector
      BY <1>2 DEF TimerInv
    <3>2. w.received # <<>> => w.received[1]
      BY <1>2
    <3>3. QED
      BY <1>2, <2>2, <3>1, <3>2, AfterReportVector
  <2>4. CollectionType'
    BY <2>2, <2>3 DEF CollectionType
  <2>5. TimerInv'
    <3>1. CASE wait' = EmptyVector
      BY <2>2, <3>1, EmptyVectorType DEF TimerInv
    <3>2. CASE wait' = w /\ w.received # <<>>
      <4>1. wait.received # <<>> /\ w.received[1]
        BY <1>2, <3>2
      <4>2. QED
        BY <1>2, <2>2, <3>2, <4>1 DEF TimerInv
    <3>3. QED
      BY <2>3, <3>1, <3>2
  <2>6. status' = status
    BY <2>2
  <2>7. QED
    BY <2>4, <2>5, <2>6
<1>6. QED
  BY <1>3, <1>4, <1>5

\* The in-effect vector after a packet above its largest number.
LEMMA OpenOrExtend ==
    ASSUME CollectionType, TimerInv, now \in Nat, NEW seq \in Nat,
           seq > in_effect.largest_packet_number,
           NEW e,
           e = IF in_effect.received = <<>>
               THEN Opened(in_effect, seq, now)
               ELSE Extended(in_effect, seq, now)
    PROVE  /\ e \in ReceiveVectorType
           /\ e.received # <<>> /\ e.received[1]
           /\ e.largest_received_time = now
           /\ \/ in_effect.received = <<>> /\ e.first_received_time = now
              \/ /\ in_effect.received # <<>>
                 /\ e.first_received_time = in_effect.first_received_time
           /\ e.largest_packet_number = seq
           /\ e.first_packet_number \in {seq, in_effect.first_packet_number}
<1>1. in_effect \in ReceiveVectorType
  BY DEF CollectionType
<1>2. CASE in_effect.received = <<>>
  <2>1. e = Opened(in_effect, seq, now)
    BY <1>2
  <2> DEFINE r == <<TRUE>>
  <2>2. r \in Seq(BOOLEAN) /\ r # <<>> /\ r[1]
    OBVIOUS
  <2>3. e = [in_effect EXCEPT !.received = r, !.first_received_time = now,
                              !.largest_received_time = now,
                              !.first_packet_number = seq,
                              !.largest_packet_number = seq]
    BY <2>1 DEF Opened
  <2> HIDE DEF r
  <2>4. /\ e \in ReceiveVectorType
        /\ e.received = r
        /\ e.first_received_time = now
        /\ e.largest_received_time = now
        /\ e.largest_packet_number = seq
        /\ e.first_packet_number = seq
    BY <1>1, <2>3, <2>2 DEF ReceiveVectorType
  <2>5. QED
    BY <1>2, <2>2, <2>4
<1>3. CASE in_effect.received # <<>>
  <2>1. e = Extended(in_effect, seq, now)
    BY <1>3
  <2>2. in_effect.received[1]
    BY <1>3 DEF TimerInv
  <2>3. QED
    BY <1>1, <1>3, <2>1, <2>2, ExtendedVector
<1>4. QED
  BY <1>2, <1>3

\* Any other packet.
LEMMA TimelyKeepsTimerInv ==
    ASSUME CollectionType, TimerInv, now \in Nat, now' = now,
           NEW packet \in Packet, OnTimelyPacket(packet, now)
    PROVE  /\ CollectionType' /\ TimerInv'
           /\ \/ status' = status
              \/ /\ packet.seq <= in_effect.largest_packet_number
                 /\ status' = "out_of_range"
<1> DEFINE w == AfterReport(wait, now)
           offset == packet.seq - in_effect.first_packet_number
           opened == IF in_effect.received = <<>>
                     THEN Opened(in_effect, packet.seq, now)
                     ELSE Extended(in_effect, packet.seq, now)
<1>1. /\ packet.seq \in Nat /\ packet.seq >= 1 /\ offset \in Int
      /\ in_effect \in ReceiveVectorType /\ wait \in ReceiveVectorType
  BY DEF Packet, CollectionType, ReceiveVectorType
<1>2. ReportAssertion(wait, now)
  BY <1>1, ReportAssertionHolds
<1>3. /\ w \in ReceiveVectorType
      /\ \/ w = EmptyVector
         \/ /\ w = wait
            /\ wait.received # <<>>
            /\ now <= wait.first_received_time + ReceiveDuration + wait.wait_duration
  BY <1>1, AfterReportVector DEF TimerInv
<1>4. \/ /\ packet.seq > in_effect.largest_packet_number
         /\ FinishEffectVector(opened, w, packet, now)
      \/ /\ packet.seq <= in_effect.largest_packet_number
         /\ Stop("out_of_range")
      \/ /\ packet.seq <= in_effect.largest_packet_number
         /\ FinishEffectVector(in_effect, Marked(w, offset), packet, now)
  BY <1>2 DEF OnTimelyPacket
<1> HIDE DEF w, offset, opened
<1>5. CASE packet.seq > in_effect.largest_packet_number
  <2>1. FinishEffectVector(opened, w, packet, now)
    BY <1>1, <1>4, <1>5 DEF ReceiveVectorType
  <2>2. /\ opened \in ReceiveVectorType
        /\ opened.received # <<>> /\ opened.received[1]
        /\ opened.largest_received_time = now
        /\ \/ in_effect.received = <<>> /\ opened.first_received_time = now
           \/ /\ in_effect.received # <<>>
              /\ opened.first_received_time = in_effect.first_received_time
    BY <1>1, <1>5, OpenOrExtend DEF opened
  <2>3. opened.first_received_time <= opened.largest_received_time
    <3>1. in_effect.received # <<>> => in_effect.first_received_time <= now
      <4>1. /\ in_effect.first_received_time \in Nat
            /\ in_effect.largest_received_time \in Nat
        BY <1>1 DEF ReceiveVectorType
      <4>2. QED
        BY <4>1 DEF TimerInv
    <3>2. QED
      BY <2>2, <3>1
  <2>4. w.received = <<>> => w = EmptyVector
    BY <1>3
  <2>5. w.received # <<>> =>
          /\ w.received[1]
          /\ w.wait_duration <= ReceiveDuration
          /\ w.first_received_time + ReceiveDuration < now
          /\ w.first_received_time + ReceiveDuration < opened.first_received_time
          /\ now <= w.first_received_time + ReceiveDuration + w.wait_duration
    BY <1>3, <2>2, EmptyVectorType DEF TimerInv
  <2>6. opened.largest_received_time <= now
    BY <2>2
  <2>7. QED
    BY <1>3, <2>1, <2>2, <2>3, <2>4, <2>5, <2>6, FinishKeepsTimerInv
<1>6. CASE packet.seq <= in_effect.largest_packet_number
  <2>1. in_effect.received # <<>>
    BY <1>1, <1>6 DEF TimerInv
  <2>2. CASE Stop("out_of_range")
    BY <1>6, <2>2, StopKeepsTimerInv DEF StatusType, Stop
  <2>3. CASE FinishEffectVector(in_effect, Marked(w, offset), packet, now)
    <3> DEFINE m == Marked(w, offset)
    <3>1. /\ m \in ReceiveVectorType
          /\ m.first_received_time = w.first_received_time
          /\ m.wait_duration = w.wait_duration
          /\ w.received = <<>> => m = w
          /\ w.received # <<>> /\ w.received[1] => m.received # <<>> /\ m.received[1]
      BY <1>1, <1>3, MarkedVector
    <3> HIDE DEF m
    <3>2. m.received = <<>> => m = EmptyVector
      <4>1. CASE w = EmptyVector
        BY <3>1, <4>1, EmptyVectorType
      <4>2. CASE w = wait /\ wait.received # <<>>
        <5>1. w.received[1]
          BY <4>2 DEF TimerInv
        <5>2. QED
          BY <3>1, <4>2, <5>1
      <4>3. QED
        BY <1>3, <4>1, <4>2
    <3>3. m.received # <<>> => w = wait /\ wait.received # <<>>
                               /\ now <= wait.first_received_time + ReceiveDuration
                                            + wait.wait_duration
      BY <1>3, <3>1, EmptyVectorType
    <3>4. m.received # <<>> =>
            /\ m.received[1]
            /\ m.wait_duration <= ReceiveDuration
            /\ m.first_received_time + ReceiveDuration < now
            /\ m.first_received_time + ReceiveDuration < in_effect.first_received_time
            /\ now <= m.first_received_time + ReceiveDuration + m.wait_duration
      BY <2>1, <3>1, <3>3 DEF TimerInv
    <3>5. /\ in_effect.received[1]
          /\ in_effect.first_received_time <= in_effect.largest_received_time
          /\ in_effect.largest_received_time <= now
      BY <2>1 DEF TimerInv
    <3>6. FinishEffectVector(in_effect, m, packet, now)
      BY <2>3 DEF m
    <3>7. QED
      BY <1>1, <2>1, <3>1, <3>2, <3>4, <3>5, <3>6, FinishKeepsTimerInv
  <2>4. ~(packet.seq > in_effect.largest_packet_number)
    BY <1>1, <1>6 DEF ReceiveVectorType
  <2>5. QED
    BY <1>4, <2>2, <2>3, <2>4
<1>7. QED
  BY <1>1, <1>5, <1>6 DEF ReceiveVectorType

-----------------------------------------------------------------------------
(* Theorems *)

\* Every call keeps the types and the timing invariant, and fails neither
\* timing assertion.
LEMMA CallKeepsTimerInv ==
    ASSUME TypeOK, TimerInv, now' = now, NEW packet \in Packet,
           OnTransportPacketFeedback(packet, now)
    PROVE  /\ CollectionType' /\ TimerInv'
           /\ status' \in {"running", "UpdateWaitVector", "out_of_range"}
<1>1. CollectionType /\ now \in Nat /\ status = "running"
  BY DEF TypeOK, CollectionType, OnTransportPacketFeedback
<1>2. CASE OnLatePacket(packet, now)
  BY <1>1, <1>2, LateKeepsTimerInv
<1>3. CASE OnTimelyPacket(packet, now)
  BY <1>1, <1>3, TimelyKeepsTimerInv
<1>4. QED
  BY <1>2, <1>3 DEF OnTransportPacketFeedback

\* What the receiver hands to the loss collection is a message of one result,
\* received now; handling it is handling that packet.
LEMMA OneResult ==
    ASSUME NEW packet \in Packet, now \in Nat
    PROVE  /\ Feedback(packet) \in TransportPacketsFeedback
           /\ OnTransportPacketsFeedback(Feedback(packet))
                 => OnTransportPacketFeedback(packet, now)
<1> DEFINE r == [sent_packet |-> packet, receive_time |-> now]
<1>1. r \in PacketResult
  BY DEF Packet, SentPacket, PacketResult
<1>2. Feedback(packet) = [packet_feedbacks |-> <<r>>]
  BY DEF Feedback
<1>3. <<r>> \in Seq(PacketResult) /\ 1 \in DOMAIN <<r>> /\ <<r>>[1] = r
  BY <1>1
<1>4. Feedback(packet) \in TransportPacketsFeedback
  BY <1>2, <1>3 DEF TransportPacketsFeedback
<1>5. Feedback(packet).packet_feedbacks[1] = r /\ 1 \in DOMAIN Feedback(packet).packet_feedbacks
  BY <1>2, <1>3
<1>6. r.sent_packet = packet /\ r.receive_time = now
  OBVIOUS
<1>7. ASSUME OnTransportPacketsFeedback(Feedback(packet))
      PROVE  OnTransportPacketFeedback(packet, now)
  <2>1. OnTransportPacketFeedback(r.sent_packet, r.receive_time)
    BY <1>5, <1>7, Zenon DEF OnTransportPacketsFeedback
  <2>2. QED
    BY <2>1, <1>6, Zenon
<1>8. QED
  BY <1>4, <1>7

\* The collection starts with two reset vectors, no delay and no timer.
LEMMA InitTyped == Init => TypeOK /\ TimerInv /\ TimerAssertionsHold
<1> SUFFICES ASSUME Init PROVE TypeOK /\ TimerInv /\ TimerAssertionsHold
  OBVIOUS
<1>1. TypeOK
  BY EmptyVectorType, PathAssumption DEF Init, CollectionInit, TypeOK, StatusType
<1>2. TimerInv
  BY EmptyVectorType DEF Init, CollectionInit, TimerInv
<1>3. QED
  BY <1>1, <1>2 DEF Init, CollectionInit, TimerAssertionsHold

\* Every step of the path and of the collection keeps the types and the timing
\* invariant, action by action.
LEMMA StepTyped ==
    TypeOK /\ TimerInv /\ TimerAssertionsHold /\ [Next]_vars
      => TypeOK' /\ TimerInv' /\ TimerAssertionsHold'
<1> SUFFICES ASSUME TypeOK, TimerInv, TimerAssertionsHold, [Next]_vars
             PROVE  TypeOK' /\ TimerInv' /\ TimerAssertionsHold'
  OBVIOUS
<1>1. CASE Tick
  <2>1. now \in Nat /\ now' = now + 1 /\ UNCHANGED <<in_effect, wait, smooth_rtt, status>>
    BY <1>1 DEF Tick, collectionVars, TypeOK
  <2>2. TypeOK'
    BY <1>1, <2>1 DEF Tick, TypeOK
  <2>3. /\ in_effect.largest_received_time \in Nat
        /\ wait.first_received_time \in Nat /\ ReceiveDuration \in Nat
    BY DurationAssumption DEF TypeOK, ReceiveVectorType
  <2>4. TimerInv'
    <3>1. \A x \in Int : (x <= now => x <= now') /\ (x < now => x < now')
      BY <2>1
    <3>2. QED
      BY <2>1, <2>3, <3>1 DEF TimerInv
  <2>5. QED
    BY <2>1, <2>2, <2>4 DEF TimerAssertionsHold
<1>2. CASE SendPacket
  <2>1. UNCHANGED <<in_effect, wait, smooth_rtt, status, now, delivered>>
    BY <1>2 DEF SendPacket, MakePacket, collectionVars
  <2>2. [seq |-> recent_packet_number + 1, send_time |-> now + ClockOffset] \in Packet
    BY PathAssumption DEF Packet, TypeOK
  <2>3. TypeOK'
    BY <1>2, <2>1, <2>2 DEF SendPacket, MakePacket, TypeOK
  <2>4. QED
    BY <2>1, <2>3 DEF TimerInv, TimerAssertionsHold
<1>3. ASSUME NEW packet \in net, Lose(packet)
      PROVE  TypeOK' /\ TimerInv' /\ TimerAssertionsHold'
  <2>1. UNCHANGED <<in_effect, wait, smooth_rtt, status, now, delivered,
                    recent_packet_number>>
        /\ net' = net \ {packet}
    BY <1>3 DEF Lose, collectionVars
  <2>2. QED
    BY <2>1 DEF TypeOK, TimerInv, TimerAssertionsHold
<1>4. ASSUME NEW packet \in net, Deliver(packet)
      PROVE  TypeOK' /\ TimerInv' /\ TimerAssertionsHold'
  <2>1. packet \in Packet /\ packet.seq \in Nat
    BY DEF TypeOK, Packet
  <2>2. /\ OnTransportPacketFeedback(packet, now)
        /\ net' \in SUBSET net
        /\ delivered' = delivered \cup {packet.seq}
        /\ now' = now /\ recent_packet_number' = recent_packet_number
    BY <1>4, <2>1, OneResult DEF Deliver, TypeOK
  <2>3. /\ CollectionType' /\ TimerInv'
        /\ status' \in {"running", "UpdateWaitVector", "out_of_range"}
    BY <2>1, <2>2, CallKeepsTimerInv
  <2>4. TypeOK'
    BY <2>1, <2>2, <2>3 DEF TypeOK, CollectionType
  <2>5. QED
    BY <2>3, <2>4 DEF TimerAssertionsHold
<1>5. CASE UNCHANGED vars
  BY <1>5 DEF vars, collectionVars, TypeOK, TimerInv, TimerAssertionsHold
<1>6. QED
  BY <1>1, <1>2, <1>3, <1>4, <1>5 DEF Next

\* Every variable of the loss accounting and its path keeps its type.
THEOREM TypeCorrect == Spec => []TypeOK
<1>1. QED
  BY InitTyped, StepTyped, PTL DEF Spec

\* Whatever the path loses, reorders or duplicates, the vectors' timing is
\* that of TimerInv (receiver_loss_collection.cc:82-153).
THEOREM TimerInvariant == Spec => []TimerInv
<1>1. QED
  BY InitTyped, StepTyped, PTL DEF Spec

\* Whatever the path loses, reorders or duplicates, the assertions of
\* OnReceiveDurationEnd and OnNewReportGenerated never fail
\* (receiver_loss_collection.cc:141, :147, :151).
THEOREM TimerAssertions == Spec => []TimerAssertionsHold
<1>1. QED
  BY InitTyped, StepTyped, PTL DEF Spec

-----------------------------------------------------------------------------
(* Reports in time *)

\* A packet that arrives when the wait vector is due makes its report, unless
\* the process ends on it.
LEMMA DueCallReports ==
    ASSUME TypeOK, TimerInv, NEW packet \in Packet,
           OnTransportPacketFeedback(packet, now), status' = "running",
           wait.received # <<>>, ReportDue(wait, now)
    PROVE  result'.updated
<1>1. /\ wait \in ReceiveVectorType /\ now \in Nat /\ wait.received[1]
      /\ packet.seq \in Nat /\ CollectionType
  BY DEF TypeOK, TimerInv, Packet, CollectionType
<1>2. ASSUME NEW v, GeneratesReport(v, now), result' = ReportOf(v, now)
      PROVE  result'.updated
  BY <1>2 DEF ReportOf
<1>3. GeneratesReport(wait, now)
  BY <1>1, DueVectorIsReported
<1>4. ASSUME NEW where \in StatusType \ {"running"} PROVE ~Stop(where)
  BY DEF Stop
<1>5. CASE OnLatePacket(packet, now)
  <2> DEFINE offset == packet.seq - wait.first_packet_number
             w == Marked(wait, offset)
  <2>1. /\ w \in ReceiveVectorType
        /\ w.first_received_time = wait.first_received_time
        /\ w.wait_duration = wait.wait_duration
        /\ w.received # <<>> /\ w.received[1]
    <3>1. offset \in Int
      BY <1>1 DEF ReceiveVectorType
    <3>2. QED
      BY <1>1, <3>1, MarkedVector
  <2>2. result' = ReportOf(w, now)
    BY <1>5, <1>4 DEF OnLatePacket, StatusType
  <2> HIDE DEF w, offset
  <2>3. GeneratesReport(w, now)
    BY <1>1, <2>1, DueVectorIsReported DEF ReportDue
  <2>4. QED
    BY <1>2, <2>2, <2>3
<1>6. CASE OnTimelyPacket(packet, now)
  <2>1. \E e, w : FinishEffectVector(e, w, packet, now)
    BY <1>6, <1>4 DEF OnTimelyPacket, StatusType
  <2>2. result' = ReportOf(wait, now)
    BY <1>4, <2>1 DEF FinishEffectVector, StatusType
  <2>3. QED
    BY <1>2, <1>3, <2>2
<1>7. QED
  BY <1>5, <1>6 DEF OnTransportPacketFeedback

\* A window is never reported late: a packet that arrives once the wait
\* vector's time is over makes its report, in the same call
\* (receiver_loss_collection.cc:113).
THEOREM ReportsWhenDue == Spec => ReportedWhenDue
<1> DEFINE DueStep ==
      \A packet \in net :
          /\ Deliver(packet)
          /\ status' = "running"
          /\ wait.received # <<>>
          /\ now > wait.first_received_time + ReceiveDuration + wait.wait_duration
          => result'.updated
<1>1. TypeOK /\ TimerInv => DueStep
  <2> SUFFICES ASSUME TypeOK, TimerInv,
                      NEW packet \in net, Deliver(packet), status' = "running",
                      wait.received # <<>>,
                      now > wait.first_received_time + ReceiveDuration + wait.wait_duration
               PROVE  result'.updated
    BY Zenon
  <2>1. packet \in Packet /\ now \in Nat
    BY DEF TypeOK
  <2>2. OnTransportPacketFeedback(packet, now)
    BY <2>1, OneResult DEF Deliver
  <2>3. ReportDue(wait, now)
    BY DEF ReportDue
  <2>4. QED
    BY <2>1, <2>2, <2>3, DueCallReports
<1> HIDE DEF DueStep
<1>2. Spec => [][DueStep]_vars
  BY <1>1, InitTyped, StepTyped, PTL DEF Spec
<1>3. QED
  BY <1>2 DEF ReportedWhenDue, DueStep

-----------------------------------------------------------------------------
(* A path that only loses packets *)

\* What a call does for a packet above everything the vectors have seen: it
\* reports the wait vector if that is due, adds the packet to the in-effect
\* vector, and may let that vector wait.
LEMMA InOrderCall ==
    ASSUME TypeOK, TimerInv, NEW packet \in Packet,
           packet.seq > in_effect.largest_packet_number,
           packet.seq >= in_effect.first_packet_number,
           OnTransportPacketFeedback(packet, now), now' = now,
           NEW w, w = AfterReport(wait, now),
           NEW opened,
           opened = IF in_effect.received = <<>>
                    THEN Opened(in_effect, packet.seq, now)
                    ELSE Extended(in_effect, packet.seq, now)
    PROVE  /\ status' = "running"
           /\ result' = ReportOf(wait, now)
           /\ \/ /\ in_effect' = opened
                 /\ wait' = w
              \/ /\ w.received = <<>>
                 /\ in_effect' = Continuing(w, opened)
                 /\ \E d : wait' = [opened EXCEPT !.wait_duration = d]
<1>1. /\ packet.seq \in Nat /\ now \in Nat /\ CollectionType
      /\ in_effect \in ReceiveVectorType /\ wait \in ReceiveVectorType
      /\ status = "running"
  BY DEF Packet, TypeOK, CollectionType, OnTransportPacketFeedback
<1>2. /\ in_effect.first_packet_number \in Nat
      /\ in_effect.largest_packet_number \in Nat
  BY <1>1 DEF ReceiveVectorType
<1>3. OnTimelyPacket(packet, now)
  BY <1>1, <1>2 DEF OnTransportPacketFeedback, OnLatePacket
<1>4. ~(packet.seq <= in_effect.largest_packet_number)
  BY <1>1, <1>2
<1>5. status' = "running"
  BY <1>1, <1>3, <1>4, TimelyKeepsTimerInv
<1>6. FinishEffectVector(opened, w, packet, now)
  <2>1. ReportAssertion(wait, now)
    BY <1>1, ReportAssertionHolds
  <2>2. QED
    BY <1>3, <1>4, <2>1 DEF OnTimelyPacket
<1>7. QED
  BY <1>5, <1>6 DEF FinishEffectVector, OnReceiveDurationEnd, SwapValue, Stop

\* A call for a packet above everything the vectors have seen fails no
\* assertion, and leaves nothing in the vectors above that packet.
LEMMA CallInOrder ==
    ASSUME TypeOK, TimerInv, NEW packet \in Packet,
           packet.seq > in_effect.largest_packet_number,
           packet.seq >= in_effect.first_packet_number,
           OnTransportPacketFeedback(packet, now), now' = now
    PROVE  /\ status' = "running"
           /\ in_effect'.largest_packet_number <= packet.seq
           /\ in_effect'.first_packet_number <= packet.seq + 1
<1> DEFINE w == AfterReport(wait, now)
           opened == IF in_effect.received = <<>>
                     THEN Opened(in_effect, packet.seq, now)
                     ELSE Extended(in_effect, packet.seq, now)
<1>1. /\ packet.seq \in Nat /\ now \in Nat /\ CollectionType
      /\ in_effect \in ReceiveVectorType /\ wait \in ReceiveVectorType
  BY DEF Packet, TypeOK, CollectionType
<1>2. /\ in_effect.first_packet_number \in Nat
      /\ in_effect.largest_packet_number \in Nat
  BY <1>1 DEF ReceiveVectorType
<1>3. /\ status' = "running"
      /\ \/ in_effect' = opened
         \/ /\ w.received = <<>>
            /\ in_effect' = Continuing(w, opened)
  BY InOrderCall
<1>4. /\ opened \in ReceiveVectorType
      /\ opened.largest_packet_number = packet.seq
      /\ opened.first_packet_number \in {packet.seq, in_effect.first_packet_number}
  BY <1>1, OpenOrExtend
<1>5. w.received = <<>> => w = EmptyVector
  BY <1>1, AfterReportVector DEF TimerInv
<1> HIDE DEF w, opened
<1>6. CASE in_effect' = opened
  BY <1>1, <1>2, <1>3, <1>4, <1>6
<1>7. CASE w.received = <<>> /\ in_effect' = Continuing(w, opened)
  <2>1. in_effect' = [EmptyVector EXCEPT !.first_packet_number = packet.seq + 1]
    BY <1>4, <1>5, <1>7 DEF Continuing
  <2>2. /\ in_effect'.largest_packet_number = 0
        /\ in_effect'.first_packet_number = packet.seq + 1
    BY <2>1 DEF EmptyVector
  <2>3. QED
    BY <1>1, <1>3, <2>2
<1>8. QED
  BY <1>3, <1>6, <1>7

\* Nothing is in flight at the start.
LEMMA InitOrdered == Init => OrderInv /\ ReceiverSurvives
BY EmptyVectorType DEF Init, CollectionInit, OrderInv, ReceiverSurvives

\* On an ordered path every step keeps the order, and every call survives.
LEMMA StepOrdered ==
    TypeOK /\ TimerInv /\ OrderInv /\ ReceiverSurvives /\ [Next]_vars
      => OrderInv' /\ ReceiverSurvives'
<1> SUFFICES ASSUME TypeOK, TimerInv, OrderInv, ReceiverSurvives, [Next]_vars, InOrder
             PROVE  OrderInv' /\ ReceiverSurvives'
  BY DEF OrderInv, ReceiverSurvives
<1>1. /\ in_effect.first_packet_number \in Nat
      /\ in_effect.largest_packet_number \in Nat
      /\ recent_packet_number \in Nat
      /\ \A p \in net : p \in Packet /\ p.seq \in Nat
  BY DEF TypeOK, ReceiveVectorType, Packet
<1>2. CASE Tick
  BY <1>2 DEF Tick, collectionVars, OrderInv, ReceiverSurvives
<1>3. CASE SendPacket
  <2> DEFINE p0 == [seq |-> recent_packet_number + 1, send_time |-> now + ClockOffset]
  <2>1. /\ UNCHANGED <<in_effect, status>>
        /\ recent_packet_number' = recent_packet_number + 1
        /\ net' = net \cup {p0}
        /\ p0.seq = recent_packet_number + 1
    BY <1>3 DEF SendPacket, MakePacket, collectionVars
  <2> HIDE DEF p0
  <2>2. QED
    BY <1>1, <2>1 DEF OrderInv, ReceiverSurvives
<1>4. ASSUME NEW packet \in net, Lose(packet)
      PROVE  OrderInv' /\ ReceiverSurvives'
  BY <1>4 DEF Lose, collectionVars, OrderInv, ReceiverSurvives
<1>5. ASSUME NEW packet \in net, Deliver(packet)
      PROVE  OrderInv' /\ ReceiverSurvives'
  <2>1. /\ OnTransportPacketFeedback(packet, now)
        /\ now' = now
        /\ net' = net \ {packet}
        /\ recent_packet_number' = recent_packet_number
        /\ \A other \in net : packet.seq <= other.seq
    BY <1>1, <1>5, OneResult DEF Deliver, TypeOK
  <2>2. /\ packet \in Packet /\ packet.seq \in Nat
        /\ packet.seq > in_effect.largest_packet_number
        /\ packet.seq >= in_effect.first_packet_number
        /\ packet.seq <= recent_packet_number
    BY <1>1 DEF OrderInv
  <2>3. /\ status' = "running"
        /\ in_effect'.largest_packet_number <= packet.seq
        /\ in_effect'.first_packet_number <= packet.seq + 1
    BY <2>1, <2>2, CallInOrder
  <2>4. /\ in_effect'.largest_packet_number \in Nat
        /\ in_effect'.first_packet_number \in Nat
    BY <2>1, <2>2, CallKeepsTimerInv DEF CollectionType, ReceiveVectorType
  <2>5. \A q \in net \ {packet} : q.seq \in Nat /\ packet.seq < q.seq
    BY <1>1, <2>1, <2>2 DEF OrderInv
  <2>6. OrderInv'
    BY <1>1, <2>1, <2>2, <2>3, <2>4, <2>5 DEF OrderInv
  <2>7. QED
    BY <2>3, <2>6 DEF ReceiverSurvives
<1>6. CASE UNCHANGED vars
  BY <1>6 DEF vars, collectionVars, OrderInv, ReceiverSurvives
<1>7. QED
  BY <1>2, <1>3, <1>4, <1>5, <1>6 DEF Next

\* On a path that only loses packets, no assertion of the loss accounting
\* fails, whatever is lost and however long packets take
\* (receiver_loss_collection.cc:75, :83, :141, :147, :151).
THEOREM SurvivesLoss == Spec => []ReceiverSurvives
<1>1. QED
  BY InitTyped, StepTyped, InitOrdered, StepOrdered, PTL DEF Spec

-----------------------------------------------------------------------------
(* What is recorded and what is reported *)

\* Moving a finite set of integers along the number line keeps its size.
LEMMA ShiftedCount ==
    ASSUME NEW S \in SUBSET Int, IsFiniteSet(S), NEW k \in Int, NEW T,
           \A n : n \in T <=> \E i \in S : n = k + i
    PROVE  /\ IsFiniteSet(T)
           /\ Cardinality(T) = Cardinality(S)
<1> DEFINE f == [i \in S |-> k + i]
<1>1. f \in [S -> T]
  OBVIOUS
<1>2. \A i, j \in S : f[i] = f[j] => i = j
  OBVIOUS
<1>3. \A n \in T : \E i \in S : f[i] = n
  OBVIOUS
<1>4. ExistsBijection(S, T)
  <2> HIDE DEF f
  <2>1. f \in Bijection(S, T)
    BY <1>1, <1>2, <1>3 DEF Bijection, Injection, IsInjective, Surjection
  <2>2. QED
    BY <2>1 DEF ExistsBijection
<1>5. QED
  BY <1>4, FS_Bijection

\* A vector that records exactly what was delivered of its span counts it
\* exactly.
LEMMA RecordedCount ==
    ASSUME NEW v \in ReceiveVectorType, NEW D \in SUBSET Nat, NEW R,
           v.received # <<>>, Records(v, D, R),
           NEW span, span = v.first_packet_number .. v.largest_packet_number
    PROVE  /\ Cardinality(ReceivedIndices(v)) \in Nat
           /\ Cardinality(DOMAIN v.received \ ReceivedIndices(v)) \in Nat
           /\ Cardinality(ReceivedIndices(v)) = Cardinality(D \cap span)
           /\ Cardinality(DOMAIN v.received \ ReceivedIndices(v)) = Cardinality(span \ D)
<1> DEFINE first == v.first_packet_number
           n == Len(v.received)
           I == ReceivedIndices(v)
           J == DOMAIN v.received \ ReceivedIndices(v)
           k == first - 1
<1>1. /\ first \in Nat /\ v.largest_packet_number \in Nat /\ n \in Nat
      /\ v.largest_packet_number = first + n - 1
      /\ DOMAIN v.received = 1 .. n
      /\ \A i \in 1 .. n : v.received[i] <=> first + i - 1 \in D
  BY DEF ReceiveVectorType, Records
<1>2. \A m \in span : m \in Int /\ m - k \in 1 .. n /\ m = k + (m - k)
  BY <1>1
<1>3. \A i \in 1 .. n : k + i \in span /\ k + i = first + i - 1
  BY <1>1
<1>4. I \in SUBSET (1 .. n) /\ J \in SUBSET (1 .. n)
  BY <1>1 DEF ReceivedIndices
<1>5. /\ \A i \in 1 .. n : i \in I <=> k + i \in D
      /\ \A i \in 1 .. n : i \in J <=> k + i \notin D
  BY <1>1, <1>3 DEF ReceivedIndices
<1>6. IsFiniteSet(1 .. n) /\ 1 .. n \in SUBSET Int /\ k \in Int
  <2>1. 1 \in Int /\ n \in Int /\ k \in Int
    BY <1>1
  <2> HIDE DEF n, k
  <2>2. QED
    BY <2>1, FS_Interval
<1>7. IsFiniteSet(I) /\ IsFiniteSet(J)
  BY <1>4, <1>6, FS_Subset
<1> HIDE DEF I, J, k, n
<1>8. Cardinality(D \cap span) = Cardinality(I)
  <2>1. \A m : m \in D \cap span <=> \E i \in I : m = k + i
    BY <1>2, <1>3, <1>4, <1>5
  <2>2. QED
    BY <2>1, <1>4, <1>6, <1>7, ShiftedCount
<1>9. Cardinality(span \ D) = Cardinality(J)
  <2>1. \A m : m \in span \ D <=> \E i \in J : m = k + i
    BY <1>2, <1>3, <1>4, <1>5
  <2>2. QED
    BY <2>1, <1>4, <1>6, <1>7, ShiftedCount
<1>10. QED
  BY <1>7, <1>8, <1>9, FS_CardinalityType DEF I, J

\* Once the wait vector is reported, the in-effect vector alone records the
\* packets not reported.
LEMMA TrackedAfterReport ==
    ASSUME NEW e \in ReceiveVectorType, NEW w \in ReceiveVectorType,
           NEW D \in SUBSET Nat, NEW R \in Nat,
           Tracked(e, w, D, R), w.received # <<>>
    PROVE  /\ R < w.first_packet_number
           /\ w.first_packet_number \in D
           /\ w.largest_packet_number \in D
           /\ w.first_packet_number <= w.largest_packet_number
           /\ \A n \in D : R < n /\ n <= w.largest_packet_number
                              => w.first_packet_number <= n
           /\ Tracked(e, EmptyVector, D, w.largest_packet_number)
<1>1. /\ w.first_packet_number \in Nat /\ w.largest_packet_number \in Nat
      /\ e.first_packet_number \in Nat /\ e.largest_packet_number \in Nat
      /\ Len(w.received) \in Nat /\ Len(w.received) >= 1
      /\ \A n \in D : n \in Nat
  BY DEF ReceiveVectorType
<1>2. /\ R < w.first_packet_number
      /\ w.first_packet_number \in D
      /\ w.largest_packet_number \in D
      /\ w.first_packet_number <= w.largest_packet_number
  BY <1>1 DEF Tracked, Records
<1>3. e.received # <<>> => w.largest_packet_number < e.first_packet_number
  BY DEF Tracked
<1>4. \A n \in D : n <= R \/ Spans(w, n) \/ Spans(e, n)
  BY DEF Tracked
<1>5. \A n \in D : R < n /\ n <= w.largest_packet_number
                              => w.first_packet_number <= n
  BY <1>1, <1>3, <1>4 DEF Spans
<1>6. Tracked(e, EmptyVector, D, w.largest_packet_number)
  <2>1. Records(e, D, w.largest_packet_number)
    BY <1>3 DEF Tracked, Records
  <2>2. EmptyVector.received = <<>>
    BY EmptyVectorType
  <2>3. \A n \in D : n <= w.largest_packet_number \/ Spans(e, n)
    BY <1>1, <1>2, <1>4 DEF Spans
  <2>4. QED
    BY <2>1, <2>2, <2>3 DEF Tracked, Records
<1>7. QED
  BY <1>2, <1>5, <1>6

\* The gap up to a packet that extends a vector is recorded as not received.
LEMMA ExtendedRecords ==
    ASSUME NEW v \in ReceiveVectorType, NEW D \in SUBSET Nat, NEW R,
           NEW seq \in Nat, NEW t \in Nat,
           v.received # <<>>, Records(v, D, R),
           seq > v.largest_packet_number,
           \A n \in D : n <= v.largest_packet_number,
           NEW e, e = Extended(v, seq, t)
    PROVE  Records(e, D \cup {seq}, R)
<1> DEFINE n == Len(v.received) + (seq - v.largest_packet_number)
           r == [ i \in 1 .. n |-> IF i <= Len(v.received)
                                   THEN v.received[i] ELSE i = n ]
<1>1. /\ Len(v.received) \in Nat
      /\ v.first_packet_number \in Nat /\ v.largest_packet_number \in Nat
      /\ Len(v.received) = v.largest_packet_number - v.first_packet_number + 1
  BY DEF ReceiveVectorType, Records
<1>2. DOMAIN v.received = 1 .. Len(v.received)
  BY DEF ReceiveVectorType
<1>3. /\ v.first_packet_number \in D
      /\ R < v.first_packet_number
      /\ \A i \in 1 .. Len(v.received) :
            v.received[i] <=> v.first_packet_number + i - 1 \in D
  BY <1>2 DEF Records
<1>4. n \in Nat /\ n = seq - v.first_packet_number + 1
  BY <1>1
<1>5. /\ e.received = r
      /\ e.first_packet_number = v.first_packet_number
      /\ e.largest_packet_number = seq
  BY DEF Extended, ReceiveVectorType
<1>6. Len(r) = n /\ DOMAIN r = 1 .. n
  BY <1>4
<1>7. ASSUME NEW i \in 1 .. n
      PROVE  r[i] <=> v.first_packet_number + i - 1 \in D \cup {seq}
  <2>1. CASE i <= Len(v.received)
    <3>1. r[i] = v.received[i] /\ i \in 1 .. Len(v.received)
      BY <1>1, <1>2, <1>4, <2>1
    <3>2. v.first_packet_number + i - 1 # seq
      BY <1>1, <2>1
    <3> HIDE DEF r
    <3>3. QED
      BY <1>3, <3>1, <3>2, Zenon
  <2>2. CASE ~(i <= Len(v.received))
    <3>1. r[i] = (i = n)
      BY <2>2
    <3>2. v.first_packet_number + i - 1 > v.largest_packet_number
      BY <1>1, <2>2
    <3>3. v.first_packet_number + i - 1 \notin D
      BY <1>1, <3>2
    <3> HIDE DEF r, n
    <3>4. i = n <=> v.first_packet_number + i - 1 = seq
      BY <1>1, <1>4
    <3>5. QED
      BY <3>1, <3>3, <3>4, Zenon
  <2>3. QED
    BY <2>1, <2>2
<1> HIDE DEF r, n
<1>8. QED
  BY <1>1, <1>2, <1>3, <1>4, <1>5, <1>6, <1>7 DEF Records

\* A packet above all that were delivered is recorded in the in-effect vector,
\* whether it opens or extends it.
LEMMA TrackedWithPacket ==
    ASSUME NEW e \in ReceiveVectorType, NEW w \in ReceiveVectorType,
           NEW D \in SUBSET Nat, NEW R \in Nat,
           Tracked(e, w, D, R),
           NEW seq \in Nat, NEW t \in Nat,
           R < seq, \A n \in D : n < seq,
           NEW opened,
           opened = IF e.received = <<>> THEN Opened(e, seq, t) ELSE Extended(e, seq, t)
    PROVE  Tracked(opened, w, D \cup {seq}, R)
<1>1. /\ w.first_packet_number \in Nat /\ w.largest_packet_number \in Nat
      /\ e.first_packet_number \in Nat /\ e.largest_packet_number \in Nat
      /\ \A n \in D : n \in Nat
  BY DEF ReceiveVectorType
<1>2. Records(w, D \cup {seq}, R)
  <2> SUFFICES ASSUME w.received # <<>> PROVE Records(w, D \cup {seq}, R)
    BY DEF Records
  <2>1. /\ Len(w.received) = w.largest_packet_number - w.first_packet_number + 1
        /\ w.first_packet_number \in D
        /\ w.largest_packet_number \in D
        /\ R < w.first_packet_number
    BY DEF Tracked, Records
  <2>2. \A i \in DOMAIN w.received :
          w.received[i] <=> w.first_packet_number + i - 1 \in D
    BY DEF Tracked, Records
  <2>3. \A i \in DOMAIN w.received : w.first_packet_number + i - 1 < seq
    <3>1. DOMAIN w.received = 1 .. Len(w.received) /\ Len(w.received) \in Nat
      BY DEF ReceiveVectorType
    <3>2. w.largest_packet_number < seq
      BY <2>1
    <3>3. QED
      BY <1>1, <2>1, <3>1, <3>2
  <2>4. \A i \in DOMAIN w.received : w.first_packet_number + i - 1 # seq
    <3>1. DOMAIN w.received = 1 .. Len(w.received) /\ Len(w.received) \in Nat
      BY DEF ReceiveVectorType
    <3>2. QED
      BY <1>1, <2>3, <3>1
  <2>5. QED
    BY <2>1, <2>2, <2>4 DEF Records
<1>3. CASE e.received = <<>>
  <2>1. opened = Opened(e, seq, t)
    BY <1>3
  <2>2. /\ opened.received = <<TRUE>>
        /\ opened.first_packet_number = seq
        /\ opened.largest_packet_number = seq
    BY <2>1 DEF Opened, ReceiveVectorType
  <2>3. /\ Len(<<TRUE>>) = 1 /\ DOMAIN <<TRUE>> = {1} /\ <<TRUE>>[1] = TRUE
        /\ <<TRUE>> # <<>>
    OBVIOUS
  <2>4. seq - seq + 1 = 1 /\ seq + 1 - 1 = seq
    OBVIOUS
  <2>5. Records(opened, D \cup {seq}, R)
    BY <2>2, <2>3, <2>4 DEF Records
  <2>6. w.received # <<>> => w.largest_packet_number < seq
    BY DEF Tracked, Records
  <2>7. \A n \in D : n <= R \/ Spans(w, n)
    BY <1>3 DEF Tracked, Spans
  <2>8. Spans(opened, seq)
    <3>1. opened.received # <<>>
      BY <2>2, <2>3
    <3>2. seq <= seq
      OBVIOUS
    <3>3. QED
      BY <2>2, <3>1, <3>2, Zenon DEF Spans
  <2>9. QED
    BY <1>2, <2>2, <2>5, <2>6, <2>7, <2>8 DEF Tracked
<1>4. CASE e.received # <<>>
  <2>1. opened = Extended(e, seq, t)
    BY <1>4
  <2>2. /\ e.first_packet_number \in D
        /\ e.largest_packet_number \in D
        /\ R < e.first_packet_number
        /\ e.first_packet_number <= e.largest_packet_number
        /\ w.received # <<>> => w.largest_packet_number < e.first_packet_number
    <3>1. Len(e.received) \in Nat /\ Len(e.received) >= 1
      BY <1>4 DEF ReceiveVectorType
    <3>2. Len(e.received) = e.largest_packet_number - e.first_packet_number + 1
      BY <1>4 DEF Tracked, Records
    <3>3. e.first_packet_number <= e.largest_packet_number
      BY <1>1, <3>1, <3>2
    <3>4. QED
      BY <1>4, <3>3 DEF Tracked, Records
  <2>3. \A n \in D : n <= R \/ Spans(w, n) \/ Spans(e, n)
    BY DEF Tracked
  <2>4. \A n \in D : n <= e.largest_packet_number
    BY <1>1, <2>2, <2>3 DEF Spans
  <2>5. e.largest_packet_number < seq
    BY <2>2
  <2>6. Records(e, D, R)
    BY DEF Tracked
  <2>7. Records(opened, D \cup {seq}, R)
    BY <1>1, <1>4, <2>1, <2>4, <2>5, <2>6, ExtendedRecords
  <2>8. /\ opened.first_packet_number = e.first_packet_number
        /\ opened.largest_packet_number = seq
        /\ opened.received # <<>>
    <3>1. opened.received = [ i \in 1 .. Len(e.received) + (seq - e.largest_packet_number) |->
                                IF i <= Len(e.received) THEN e.received[i]
                                ELSE i = Len(e.received) + (seq - e.largest_packet_number) ]
      BY <2>1 DEF Extended, ReceiveVectorType
    <3>2. 1 \in 1 .. Len(e.received) + (seq - e.largest_packet_number)
      <4>1. Len(e.received) \in Nat
        BY DEF ReceiveVectorType
      <4>2. QED
        BY <1>1, <2>5, <4>1
    <3>3. 1 \in DOMAIN opened.received
      BY <3>1, <3>2
    <3>4. opened.received # <<>>
      BY <3>3
    <3>5. QED
      BY <2>1, <3>4 DEF Extended, ReceiveVectorType
  <2>9. /\ \A n \in D : Spans(e, n) => Spans(opened, n)
        /\ Spans(opened, seq)
    BY <1>1, <2>2, <2>5, <2>8 DEF Spans
  <2>10. QED
    BY <1>2, <2>2, <2>3, <2>7, <2>8, <2>9 DEF Tracked
<1>5. QED
  BY <1>3, <1>4

\* What is recorded does not depend on which of the two vectors holds it.
LEMMA TrackedSwapped ==
    ASSUME NEW e, NEW w, NEW D, NEW R, Tracked(e, w, D, R), w.received = <<>>,
           NEW e2, e2.received = <<>>,
           NEW w2, w2.received = e.received,
           w2.first_packet_number = e.first_packet_number,
           w2.largest_packet_number = e.largest_packet_number
    PROVE  Tracked(e2, w2, D, R)
BY DEF Tracked, Records, Spans

\* Appending a window.
LEMMA AppendedWindow ==
    ASSUME windows \in Seq(WindowType), NEW new \in WindowType,
           windows' = Append(windows, new)
    PROVE  /\ windows' \in Seq(WindowType)
           /\ Accounting!Reported' = new.last
           /\ \A i \in DOMAIN windows : i \in DOMAIN windows' /\ windows'[i] = windows[i]
           /\ \E i \in DOMAIN windows' : windows'[i] = new
           /\ \A i \in DOMAIN windows' : i \in DOMAIN windows \/ windows'[i] = new
<1> DEFINE n == Len(windows) + 1
<1>1. /\ windows' \in Seq(WindowType)
      /\ n \in Nat /\ n \in DOMAIN windows' /\ Len(windows') = n
      /\ DOMAIN windows = 1 .. Len(windows) /\ DOMAIN windows' = 1 .. n
      /\ windows'[n] = new
      /\ \A i \in 1 .. Len(windows) : windows'[i] = windows[i]
  OBVIOUS
<1>2. windows' # <<>>
  BY <1>1
<1>3. Accounting!Reported' = new.last
  BY <1>1, <1>2 DEF Accounting!Reported
<1>4. \A i \in 1 .. n : i \in 1 .. Len(windows) \/ i = n
  BY <1>1
<1>5. 1 .. Len(windows) \subseteq 1 .. n
  BY <1>1
<1> HIDE DEF n
<1>6. QED
  BY <1>1, <1>3, <1>4, <1>5

\* The abstract specification counts as its implementation does.
LEMMA SameCount == \A S : Accounting!Cardinality(S) = Cardinality(S)
BY DEF Accounting!Cardinality, Cardinality

\* One delivery on an ordered path: it either makes no report or the next one.
LEMMA DeliveryTracks ==
    ASSUME InOrder, TypeOK, TimerInv, OrderInv, TrackInv,
           NEW packet \in net, Deliver(packet)
    PROVE  /\ TrackInv'
           /\ Accounting!Next
<1> DEFINE R == Accounting!Reported
           w == AfterReport(wait, now)
           opened == IF in_effect.received = <<>>
                     THEN Opened(in_effect, packet.seq, now)
                     ELSE Extended(in_effect, packet.seq, now)
           D == delivered \cup {packet.seq}
           new == [ first |-> wait.first_packet_number,
                    last |-> wait.largest_packet_number,
                    received |-> Cardinality(ReceivedIndices(wait)),
                    lost |-> Cardinality(DOMAIN wait.received \ ReceivedIndices(wait)) ]
           span == wait.first_packet_number .. wait.largest_packet_number
<1>1. /\ packet \in Packet /\ packet.seq \in Nat /\ packet.seq > 0 /\ now \in Nat
      /\ in_effect \in ReceiveVectorType /\ wait \in ReceiveVectorType
      /\ delivered \in SUBSET Nat
      /\ \A p \in net : p.seq \in Nat
      /\ recent_packet_number \in Nat
  BY DEF TypeOK, Packet
<1>2. /\ OnTransportPacketFeedback(packet, now)
      /\ now' = now
      /\ net' = net \ {packet}
      /\ recent_packet_number' = recent_packet_number
      /\ delivered' = D
      /\ \A other \in net : packet.seq <= other.seq
      /\ windows' = IF result'.updated
                    THEN Append(windows, [ first |-> wait.first_packet_number,
                                           last |-> wait.largest_packet_number,
                                           received |-> result'.packets_received_delta,
                                           lost |-> result'.packets_lost_delta ])
                    ELSE windows
  BY <1>1, OneResult DEF Deliver
<1>3. /\ packet.seq > in_effect.largest_packet_number
      /\ packet.seq >= in_effect.first_packet_number
      /\ packet.seq <= recent_packet_number
      /\ \A other \in net : packet.seq = other.seq => packet = other
  BY DEF OrderInv
<1>4. /\ windows \in Seq(WindowType)
      /\ R \in delivered \cup {0}
      /\ \A i \in DOMAIN windows : windows[i].last <= R
      /\ \A n \in delivered :
            n <= R => \E i \in DOMAIN windows : n \in windows[i].first .. windows[i].last
      /\ Tracked(in_effect, wait, delivered, R)
      /\ \A n \in delivered : 0 < n /\ n <= recent_packet_number /\ n < packet.seq
      /\ \A n \in delivered : \A p \in net : n < p.seq
  BY DEF TrackInv
<1>5. R \in Nat /\ R < packet.seq
  BY <1>1, <1>4
<1> HIDE DEF R
<1>6. /\ result' = ReportOf(wait, now)
      /\ \/ /\ in_effect' = opened
            /\ wait' = w
         \/ /\ w.received = <<>>
            /\ in_effect' = Continuing(w, opened)
            /\ \E d : wait' = [opened EXCEPT !.wait_duration = d]
  BY <1>1, <1>2, <1>3, InOrderCall
<1>7. opened \in ReceiveVectorType
  BY <1>1, <1>3, OpenOrExtend DEF TypeOK, CollectionType
<1>8. \* what is recorded once the packet is, whatever was reported
      ASSUME NEW R2 \in Nat, R2 < packet.seq, Tracked(in_effect, w, delivered, R2)
      PROVE  Tracked(in_effect', wait', D, R2)
  <2>1. w \in ReceiveVectorType
    BY <1>1, AfterReportVector DEF TimerInv
  <2>2. Tracked(opened, w, D, R2)
    BY <1>1, <1>4, <1>8, <2>1, TrackedWithPacket
  <2> HIDE DEF opened, w, D
  <2>3. CASE in_effect' = opened /\ wait' = w
    BY <2>2, <2>3
  <2>4. CASE /\ w.received = <<>>
             /\ in_effect' = Continuing(w, opened)
             /\ \E d : wait' = [opened EXCEPT !.wait_duration = d]
    <3>1. in_effect'.received = <<>>
      BY <2>1, <2>4 DEF Continuing, ReceiveVectorType
    <3>2. /\ wait'.received = opened.received
          /\ wait'.first_packet_number = opened.first_packet_number
          /\ wait'.largest_packet_number = opened.largest_packet_number
      BY <1>7, <2>4 DEF ReceiveVectorType
    <3>3. QED
      BY <2>2, <2>4, <3>1, <3>2, TrackedSwapped
  <2>5. QED
    BY <1>6, <2>3, <2>4 DEF opened, w
<1>9. \A n \in D :
        /\ 0 < n
        /\ n <= recent_packet_number'
        /\ \A p \in net' : n < p.seq
  <2>1. \A p \in net' : p \in net /\ packet.seq < p.seq
    BY <1>1, <1>2, <1>3
  <2>2. QED
    BY <1>1, <1>2, <1>3, <1>4, <2>1
<1>10. /\ \A m \in delivered : m < packet.seq
       /\ packet.seq \in D
       /\ Accounting!Deliver
  BY <1>2, <1>4 DEF Accounting!Deliver
<1>11. CASE ~GeneratesReport(wait, now)
  <2>1. w = wait /\ windows' = windows
    BY <1>2, <1>6, <1>11 DEF AfterReport, ReportOf, NoReport
  <2>2. Accounting!Reported' = R
    BY <2>1 DEF Accounting!Reported, R
  <2>3. Tracked(in_effect', wait', D, R)
    BY <1>4, <1>5, <1>8, <2>1
  <2>4. TrackInv'
    <3>1. \A n \in D : n <= R =>
             \E i \in DOMAIN windows : n \in windows[i].first .. windows[i].last
      BY <1>1, <1>4, <1>5
    <3>2. R \in D \cup {0}
      BY <1>4
    <3> HIDE DEF D
    <3>3. QED
      BY <1>2, <1>4, <1>9, <2>1, <2>2, <2>3, <3>1, <3>2 DEF TrackInv
  <2>5. QED
    BY <1>10, <2>1, <2>4 DEF Accounting!Next
<1>12. CASE GeneratesReport(wait, now)
  <2>1. wait.received # <<>>
    BY <1>1, <1>12, EmptyVectorIsSilent
  <2>2. w = EmptyVector
    BY <1>12 DEF AfterReport
  <2>3. windows' = Append(windows, new)
    BY <1>2, <1>6, <1>12 DEF ReportOf
  <2>4. /\ R < wait.first_packet_number
        /\ wait.first_packet_number \in delivered
        /\ wait.largest_packet_number \in delivered
        /\ wait.first_packet_number <= wait.largest_packet_number
        /\ \A n \in delivered : R < n /\ n <= wait.largest_packet_number
                                   => wait.first_packet_number <= n
        /\ Tracked(in_effect, EmptyVector, delivered, wait.largest_packet_number)
    BY <1>1, <1>4, <1>5, <2>1, TrackedAfterReport
  <2>5. /\ Cardinality(ReceivedIndices(wait)) \in Nat
        /\ Cardinality(DOMAIN wait.received \ ReceivedIndices(wait)) \in Nat
        /\ Cardinality(ReceivedIndices(wait)) = Cardinality(delivered \cap span)
        /\ Cardinality(DOMAIN wait.received \ ReceivedIndices(wait))
              = Cardinality(span \ delivered)
    <3>1. Records(wait, delivered, R)
      BY <1>4 DEF Tracked
    <3>2. QED
      BY <1>1, <2>1, <3>1, RecordedCount
  <2>6. new \in WindowType
    BY <1>1, <2>4, <2>5 DEF WindowType
  <2>7. new = Accounting!Window(wait.first_packet_number, wait.largest_packet_number)
    BY <2>5, SameCount, Zenon DEF Accounting!Window
  <2>8. Accounting!Report
    BY <2>3, <2>4, <2>7 DEF Accounting!Report, R
  <2>9. /\ new.first = wait.first_packet_number
        /\ new.last = wait.largest_packet_number
    OBVIOUS
  <2> HIDE DEF new
  <2>10. /\ windows' \in Seq(WindowType)
         /\ Accounting!Reported' = wait.largest_packet_number
         /\ \A i \in DOMAIN windows : i \in DOMAIN windows' /\ windows'[i] = windows[i]
         /\ \E i \in DOMAIN windows' : windows'[i] = new
         /\ \A i \in DOMAIN windows' : i \in DOMAIN windows \/ windows'[i] = new
    BY <1>4, <2>3, <2>6, <2>9, AppendedWindow
  <2>11. Tracked(in_effect', wait', D, wait.largest_packet_number)
    <3>1. wait.largest_packet_number \in Nat /\ wait.largest_packet_number < packet.seq
      BY <1>1, <1>4, <2>4
    <3>2. QED
      BY <1>8, <2>2, <2>4, <3>1
  <2>12. \A i \in DOMAIN windows' : windows'[i].last <= wait.largest_packet_number
    <3>1. \A i \in DOMAIN windows : windows[i].last \in Nat
      <4>1. \A i \in DOMAIN windows : windows[i] \in WindowType
        BY <1>4
      <4>2. QED
        BY <4>1 DEF WindowType
    <3>2. wait.first_packet_number \in Nat /\ wait.largest_packet_number \in Nat
      BY <1>1 DEF ReceiveVectorType
    <3>3. \A i \in DOMAIN windows : windows[i].last <= wait.largest_packet_number
      BY <1>4, <1>5, <2>4, <3>1, <3>2
    <3>4. new.last <= wait.largest_packet_number
      BY <2>9, <3>2
    <3>5. QED
      BY <2>10, <3>3, <3>4
  <2>13. \A n \in D : n <= wait.largest_packet_number =>
            \E i \in DOMAIN windows' : n \in windows'[i].first .. windows'[i].last
    <3> SUFFICES ASSUME NEW n \in D, n <= wait.largest_packet_number
                 PROVE  \E i \in DOMAIN windows' :
                           n \in windows'[i].first .. windows'[i].last
      OBVIOUS
    <3>1. n \in delivered /\ n \in Nat
      <4>1. wait.largest_packet_number < packet.seq /\ wait.largest_packet_number \in Nat
        BY <1>1, <1>4, <2>4
      <4>2. n # packet.seq
        BY <1>1, <4>1
      <4>3. QED
        BY <1>1, <4>2
    <3>2. CASE n <= R
      BY <1>4, <2>10, <3>1, <3>2
    <3>3. CASE R < n
      <4>1. n \in new.first .. new.last
        BY <1>1, <2>4, <2>9, <3>1, <3>3
      <4>2. QED
        BY <2>10, <4>1
    <3>4. QED
      BY <1>5, <3>1, <3>2, <3>3
  <2>14. TrackInv'
    <3>1. wait.largest_packet_number \in D \cup {0}
      BY <2>4
    <3> HIDE DEF D
    <3>2. QED
      BY <1>2, <1>9, <2>10, <2>11, <2>12, <2>13, <3>1 DEF TrackInv
  <2>15. QED
    BY <1>10, <2>8, <2>14 DEF Accounting!Next
<1>13. QED
  BY <1>11, <1>12

\* Nothing is delivered, recorded or reported at the start.
LEMMA InitTracked == Init => TrackInv /\ Accounting!Init
<1> SUFFICES ASSUME Init PROVE TrackInv /\ Accounting!Init
  OBVIOUS
<1>1. /\ windows = <<>> /\ delivered = {}
      /\ in_effect = EmptyVector /\ wait = EmptyVector
  BY DEF Init, CollectionInit
<1>2. windows \in Seq(WindowType) /\ DOMAIN windows = {}
  BY <1>1
<1>3. Accounting!Reported = 0
  BY <1>1 DEF Accounting!Reported
<1>4. Tracked(in_effect, wait, delivered, 0)
  BY <1>1, EmptyVectorType DEF Tracked, Records
<1>5. QED
  BY <1>1, <1>2, <1>3, <1>4 DEF TrackInv, Accounting!Init

\* Every step on an ordered path keeps the tracking, and is a step of the
\* abstract accounting or leaves it alone.
LEMMA StepTracked ==
    TypeOK /\ TimerInv /\ OrderInv /\ TrackInv /\ [Next]_vars
      => /\ TrackInv'
         /\ InOrder => [Accounting!Next]_(Accounting!accountingVars)
<1> SUFFICES ASSUME InOrder, TypeOK, TimerInv, OrderInv, TrackInv, [Next]_vars
             PROVE  TrackInv' /\ [Accounting!Next]_(Accounting!accountingVars)
  BY DEF TrackInv
<1>1. ASSUME UNCHANGED <<in_effect, wait, delivered, windows>>,
             recent_packet_number' \in Nat,
             recent_packet_number' >= recent_packet_number,
             \A p \in net' : p \in net \/ (p.seq \in Nat /\ p.seq > recent_packet_number)
      PROVE  TrackInv' /\ [Accounting!Next]_(Accounting!accountingVars)
  <2>1. Accounting!Reported' = Accounting!Reported
    BY <1>1 DEF Accounting!Reported
  <2>2. Tracked(in_effect', wait', delivered', Accounting!Reported')
    BY <1>1, <2>1 DEF TrackInv
  <2>3. \A n \in delivered : /\ 0 < n
                             /\ n <= recent_packet_number'
                             /\ \A p \in net' : n < p.seq
    <3> SUFFICES ASSUME NEW n \in delivered
                 PROVE  /\ 0 < n
                        /\ n <= recent_packet_number'
                        /\ \A p \in net' : n < p.seq
      OBVIOUS
    <3>1. n \in Nat /\ 0 < n /\ n <= recent_packet_number
          /\ recent_packet_number \in Nat
      BY DEF TypeOK, TrackInv
    <3>2. n <= recent_packet_number'
      BY <1>1, <3>1
    <3>3. ASSUME NEW p \in net' PROVE n < p.seq
      <4>1. CASE p \in net
        BY <4>1 DEF TrackInv
      <4>2. CASE p.seq \in Nat /\ p.seq > recent_packet_number
        BY <3>1, <4>2
      <4>3. QED
        BY <1>1, <4>1, <4>2
    <3>4. QED
      BY <3>1, <3>2, <3>3
  <2>4. TrackInv'
    BY <1>1, <2>1, <2>2, <2>3 DEF TrackInv
  <2>5. QED
    BY <1>1, <2>4 DEF Accounting!accountingVars
<1>2. recent_packet_number \in Nat
  BY DEF TypeOK
<1>3. CASE Tick
  BY <1>1, <1>2, <1>3 DEF Tick, collectionVars
<1>4. CASE SendPacket
  <2>1. MakePacket(now + ClockOffset).seq = recent_packet_number + 1
    BY DEF MakePacket
  <2>2. /\ UNCHANGED <<in_effect, wait, delivered, windows>>
        /\ recent_packet_number' = recent_packet_number + 1
        /\ net' = net \cup {MakePacket(now + ClockOffset)}
    BY <1>4 DEF SendPacket, collectionVars
  <2>3. \A p \in net' : p \in net \/ (p.seq \in Nat /\ p.seq > recent_packet_number)
    BY <1>2, <2>1, <2>2
  <2>4. QED
    BY <1>1, <1>2, <2>2, <2>3
<1>5. ASSUME NEW packet \in net, Lose(packet)
      PROVE  TrackInv' /\ [Accounting!Next]_(Accounting!accountingVars)
  <2>1. /\ UNCHANGED <<in_effect, wait, delivered, windows, recent_packet_number>>
        /\ net' = net \ {packet}
    BY <1>5 DEF Lose, collectionVars
  <2>2. QED
    BY <1>1, <1>2, <2>1
<1>6. ASSUME NEW packet \in net, Deliver(packet)
      PROVE  TrackInv' /\ [Accounting!Next]_(Accounting!accountingVars)
  BY <1>6, DeliveryTracks
<1>7. CASE UNCHANGED vars
  BY <1>1, <1>2, <1>7 DEF vars, collectionVars
<1>8. QED
  BY <1>3, <1>4, <1>5, <1>6, <1>7 DEF Next

\* What a vector marks as received are the delivered packets of its span.
LEMMA MarkedAreDelivered ==
    ASSUME NEW v \in ReceiveVectorType, NEW D \in SUBSET Nat, NEW R,
           Records(v, D, R), NEW n,
           NEW marked,
           marked = {v.first_packet_number + i - 1 : i \in ReceivedIndices(v)}
    PROVE  n \in marked <=> n \in D /\ Spans(v, n)
<1>1. /\ v.first_packet_number \in Nat /\ v.largest_packet_number \in Nat
      /\ Len(v.received) \in Nat
      /\ DOMAIN v.received = 1 .. Len(v.received)
      /\ v.received = <<>> <=> Len(v.received) = 0
  BY DEF ReceiveVectorType
<1>2. CASE v.received = <<>>
  <2>1. ReceivedIndices(v) = {}
    BY <1>2 DEF ReceivedIndices
  <2>2. QED
    BY <1>2, <2>1 DEF Spans
<1>3. CASE v.received # <<>>
  <2>1. Len(v.received) = v.largest_packet_number - v.first_packet_number + 1
    BY <1>3 DEF Records
  <2>2. \A i \in 1 .. Len(v.received) :
          v.received[i] <=> v.first_packet_number + i - 1 \in D
    BY <1>1, <1>3 DEF Records
  <2>3. ASSUME n \in marked PROVE n \in D /\ Spans(v, n)
    <3>1. PICK i \in ReceivedIndices(v) : n = v.first_packet_number + i - 1
      BY <2>3
    <3>2. i \in 1 .. Len(v.received) /\ v.received[i]
      BY <1>1, <3>1 DEF ReceivedIndices
    <3>3. n \in D
      BY <2>2, <3>1, <3>2
    <3>4. v.first_packet_number <= n /\ n <= v.largest_packet_number
      BY <1>1, <2>1, <3>1, <3>2
    <3>5. QED
      BY <1>3, <3>3, <3>4 DEF Spans
  <2>4. ASSUME n \in D, Spans(v, n) PROVE n \in marked
    <3> DEFINE i == n - v.first_packet_number + 1
    <3>1. /\ i \in 1 .. Len(v.received)
          /\ n = v.first_packet_number + i - 1
      BY <1>1, <2>1, <2>4 DEF Spans
    <3> HIDE DEF i
    <3>2. v.received[i]
      BY <2>2, <2>4, <3>1
    <3>3. i \in ReceivedIndices(v)
      BY <1>1, <3>1, <3>2 DEF ReceivedIndices
    <3>4. QED
      BY <3>1, <3>3
  <2>5. QED
    BY <2>3, <2>4
<1>4. QED
  BY <1>2, <1>3

\* What is tracked is what VectorsTrackDeliveries says of the vectors.
LEMMA TrackingSuffices == TypeOK /\ TrackInv => VectorsTrackDeliveries
<1> DEFINE m(v) == {v.first_packet_number + i - 1 : i \in ReceivedIndices(v)}
           reported == UNION {windows[i].first .. windows[i].last : i \in DOMAIN windows}
           R == Accounting!Reported
<1> SUFFICES ASSUME TypeOK, TrackInv, InOrder
             PROVE  /\ m(in_effect) \cap m(wait) = {}
                    /\ m(in_effect) \cup m(wait) = delivered \ reported
  BY DEF VectorsTrackDeliveries
<1>1. /\ in_effect \in ReceiveVectorType /\ wait \in ReceiveVectorType
      /\ delivered \in SUBSET Nat
      /\ Tracked(in_effect, wait, delivered, R)
      /\ windows \in Seq(WindowType)
      /\ R \in Nat
  BY DEF TypeOK, TrackInv
<1>2. \A n : n \in m(in_effect) <=> n \in delivered /\ Spans(in_effect, n)
  BY <1>1, MarkedAreDelivered DEF Tracked
<1>3. \A n : n \in m(wait) <=> n \in delivered /\ Spans(wait, n)
  BY <1>1, MarkedAreDelivered DEF Tracked
<1>4. \A n \in delivered : n \in reported <=> n <= R
  <2> SUFFICES ASSUME NEW n \in delivered PROVE n \in reported <=> n <= R
    OBVIOUS
  <2>1. ASSUME n <= R PROVE n \in reported
    BY <2>1 DEF TrackInv
  <2>2. ASSUME n \in reported PROVE n <= R
    <3>1. PICK i \in DOMAIN windows : n \in windows[i].first .. windows[i].last
      BY <2>2
    <3>2. windows[i] \in WindowType
      BY <1>1, <3>1
    <3>3. windows[i].last \in Nat /\ n \in Nat /\ n <= windows[i].last
      BY <1>1, <3>1, <3>2 DEF WindowType
    <3>4. windows[i].last <= R
      BY <3>1 DEF TrackInv
    <3>5. QED
      BY <1>1, <3>3, <3>4
  <2>3. QED
    BY <2>1, <2>2
<1> HIDE DEF m, reported, R
<1>5. /\ wait.first_packet_number \in Nat /\ wait.largest_packet_number \in Nat
      /\ in_effect.first_packet_number \in Nat /\ in_effect.largest_packet_number \in Nat
      /\ \A n \in delivered : n \in Nat
  BY <1>1 DEF ReceiveVectorType
<1>6. \A n \in delivered : ~(Spans(wait, n) /\ Spans(in_effect, n))
  BY <1>1, <1>5 DEF Tracked, Spans
<1>7. \A n \in delivered : Spans(wait, n) \/ Spans(in_effect, n) <=> ~(n <= R)
  <2>1. \A n \in delivered : n <= R \/ Spans(wait, n) \/ Spans(in_effect, n)
    BY <1>1 DEF Tracked
  <2>2. /\ wait.received # <<>> => R < wait.first_packet_number
        /\ in_effect.received # <<>> => R < in_effect.first_packet_number
    BY <1>1 DEF Tracked, Records
  <2>3. QED
    BY <1>1, <1>5, <2>1, <2>2 DEF Spans
<1>8. QED
  BY <1>2, <1>3, <1>4, <1>6, <1>7

\* On a path that only loses packets, the vectors mark exactly the delivered
\* packets that no report covers yet, each in one of the two
\* (receiver_loss_collection.cc:74-108, :139-153).
THEOREM DeliveriesTracked == Spec => []VectorsTrackDeliveries
<1>1. QED
  BY InitTyped, StepTyped, InitOrdered, StepOrdered, InitTracked, StepTracked,
     TrackingSuffices, PTL DEF Spec

\* On a path that only loses packets the receiver keeps what LossAccounting
\* promises: each report covers the next window of the delivered packets, skips
\* none of them and counts its packets exactly
\* (receiver_loss_collection.cc:139-153).
THEOREM ImplementsAccounting == InOrder /\ Spec => AccountingSpec
<1> SUFFICES ASSUME InOrder PROVE Spec => AccountingSpec
  OBVIOUS
<1>1. TypeOK /\ TimerInv /\ OrderInv /\ TrackInv /\ [Next]_vars
        => [Accounting!Next]_(Accounting!accountingVars)
  BY StepTracked
<1>2. QED
  BY <1>1, InitTyped, StepTyped, InitOrdered, StepOrdered, InitTracked, StepTracked,
     PTL DEF Spec, AccountingSpec, Accounting!Spec

-----------------------------------------------------------------------------
(* What the sender may add up *)

\* Reported windows do not overlap, and each accounts for all of its numbers.
WindowsApart ==
    InOrder =>
      /\ \A i \in DOMAIN windows :
            /\ windows[i].first <= windows[i].last
            /\ windows[i].received + windows[i].lost = windows[i].last - windows[i].first + 1
      /\ \A i, j \in DOMAIN windows : i < j => windows[i].last < windows[j].first

\* Of a span of numbers as many were delivered or lost as there are numbers.
LEMMA SpanCounts ==
    ASSUME NEW first \in Nat, NEW last \in Nat, first <= last, NEW D
    PROVE  Cardinality(D \cap (first .. last)) + Cardinality((first .. last) \ D)
              = last - first + 1
<1> DEFINE span == first .. last
<1>1. IsFiniteSet(span) /\ Cardinality(span) = last - first + 1
  BY FS_Interval
<1> HIDE DEF span
<1>2. Cardinality(span \ D) = Cardinality(span) - Cardinality(span \cap D)
  BY <1>1, FS_Difference
<1>3. D \cap span = span \cap D
  OBVIOUS
<1>4. Cardinality(span \cap D) \in Nat
  BY <1>1, FS_Intersection, FS_CardinalityType
<1>5. Cardinality(D \cap span) + Cardinality(span \ D) = last - first + 1
  BY <1>1, <1>2, <1>3, <1>4
<1>6. QED
  BY <1>5 DEF span

\* The next window begins after every window before it ends.
LEMMA NextWindowApart ==
    ASSUME InOrder, TypeOK, TrackInv, WindowsApart,
           NEW first \in delivered, NEW last \in delivered, first <= last,
           Accounting!Reported < first,
           windows' = Append(windows, Accounting!Window(first, last))
    PROVE  WindowsApart'
<1> DEFINE w == Accounting!Window(first, last)
           n == Len(windows)
<1>1. first \in Nat /\ last \in Nat /\ windows \in Seq(WindowType)
  BY DEF TypeOK, TrackInv
<1>2. /\ w.first = first /\ w.last = last
      /\ w.received = Cardinality(delivered \cap (first .. last))
      /\ w.lost = Cardinality((first .. last) \ delivered)
  BY SameCount DEF Accounting!Window
<1>3. w.received + w.lost = w.last - w.first + 1
  <2>1. Cardinality(delivered \cap (first .. last)) + Cardinality((first .. last) \ delivered)
           = last - first + 1
    BY <1>1, SpanCounts
  <2> HIDE DEF w
  <2>2. QED
    BY <1>2, <2>1
<1>4. w \in WindowType
  <2>1. /\ IsFiniteSet(delivered \cap (first .. last))
        /\ IsFiniteSet((first .. last) \ delivered)
    <3> DEFINE span == first .. last
    <3>1. IsFiniteSet(span)
      BY <1>1, FS_Interval
    <3> HIDE DEF span
    <3>2. IsFiniteSet(delivered \cap span) /\ IsFiniteSet(span \ delivered)
      BY <3>1, FS_Intersection, FS_Difference
    <3>3. QED
      BY <3>2 DEF span
  <2>2. w.received \in Nat /\ w.lost \in Nat
    BY <1>2, <2>1, FS_CardinalityType
  <2>3. w = [first |-> w.first, last |-> w.last, received |-> w.received, lost |-> w.lost]
    BY DEF Accounting!Window
  <2>4. QED
    BY <1>1, <1>2, <2>2, <2>3 DEF WindowType
<1>5. /\ n \in Nat /\ DOMAIN windows = 1 .. n
      /\ \A i \in 1 .. n : windows[i] \in WindowType
  BY <1>1, LenProperties, ElementOfSeq
<1> HIDE DEF w, n
<1>6. /\ DOMAIN windows' = 1 .. (n + 1) /\ windows'[n + 1] = w
      /\ \A i \in 1 .. n : windows'[i] = windows[i]
  <2>1. windows' = Append(windows, w)
    BY DEF w
  <2>2. /\ Append(windows, w) \in Seq(WindowType) /\ Len(Append(windows, w)) = n + 1
        /\ \A i \in 1 .. n : Append(windows, w)[i] = windows[i]
        /\ Append(windows, w)[n + 1] = w
    BY <1>1, <1>4, AppendProperties DEF n
  <2>3. QED
    BY <2>1, <2>2, LenProperties
<1>7. \A i \in 1 .. n : windows[i].last \in Nat /\ windows[i].last < first
  <2> TAKE i \in 1 .. n
  <2>1. windows[i].last \in Nat /\ windows[i].last <= Accounting!Reported
    BY <1>5 DEF TrackInv, WindowType
  <2>2. Accounting!Reported \in Nat
    <3>1. \A m \in delivered : m \in Nat
      BY DEF TypeOK
    <3>2. Accounting!Reported \in delivered \cup {0}
      BY DEF TrackInv
    <3>3. QED
      BY <3>1, <3>2
  <2>3. QED
    BY <1>1, <2>1, <2>2
<1>8. \A i \in 1 .. (n + 1) :
         /\ windows'[i].first <= windows'[i].last
         /\ windows'[i].received + windows'[i].lost = windows'[i].last - windows'[i].first + 1
  <2> TAKE i \in 1 .. (n + 1)
  <2>1. CASE i = n + 1
    BY <1>2, <1>3, <1>6, <2>1
  <2>2. CASE i # n + 1
    <3>1. i \in 1 .. n
      BY <1>5, <2>2
    <3>2. QED
      BY <1>5, <1>6, <3>1 DEF WindowsApart
  <2>3. QED
    BY <2>1, <2>2
<1>9. \A i, j \in 1 .. (n + 1) : i < j => windows'[i].last < windows'[j].first
  <2> SUFFICES ASSUME NEW i \in 1 .. (n + 1), NEW j \in 1 .. (n + 1), i < j
               PROVE  windows'[i].last < windows'[j].first
    OBVIOUS
  <2>1. i \in 1 .. n
    BY <1>5
  <2>2. CASE j = n + 1
    BY <1>2, <1>6, <1>7, <2>1, <2>2
  <2>3. CASE j # n + 1
    <3>1. j \in 1 .. n
      BY <1>5, <2>3
    <3>2. QED
      BY <1>5, <1>6, <2>1, <3>1 DEF WindowsApart
  <2>4. QED
    BY <2>2, <2>3
<1>10. QED
  BY <1>6, <1>8, <1>9 DEF WindowsApart

\* Nothing has been reported at the start.
LEMMA InitApart == Init => WindowsApart
BY DEF Init, WindowsApart

\* A step of LossAccounting reports the next window or none.
LEMMA StepApart ==
    InOrder /\ TypeOK /\ TrackInv /\ WindowsApart
    /\ [Accounting!Next]_(Accounting!accountingVars) => WindowsApart'
<1> SUFFICES ASSUME InOrder, TypeOK, TrackInv, WindowsApart,
                    Accounting!Next \/ UNCHANGED Accounting!accountingVars
             PROVE  WindowsApart'
  BY DEF Accounting!accountingVars
<1>1. CASE UNCHANGED windows
  BY <1>1 DEF WindowsApart
<1>2. CASE Accounting!Report
  <2>1. PICK first \in delivered, last \in delivered :
           /\ Accounting!Reported < first /\ first <= last
           /\ windows' = Append(windows, Accounting!Window(first, last))
    BY <1>2 DEF Accounting!Report
  <2>2. QED
    BY <2>1, NextWindowApart
<1>3. QED
  BY <1>1, <1>2 DEF Accounting!Next, Accounting!accountingVars

\* On a path that only loses packets the sender may add up the reports it gets: the
\* windows they are about come one after another, and of each window every number is
\* counted, as received or as lost (receiver_loss_collection.cc:112-153).  This
\* follows from what LossAccounting promises.
THEOREM ReportsAddUp == Spec => []WindowsApart
<1>1. CASE InOrder
  <2>1. TypeOK /\ TrackInv /\ WindowsApart
        /\ [Accounting!Next]_(Accounting!accountingVars) => WindowsApart'
    BY <1>1, StepApart
  <2>2. TypeOK /\ TimerInv /\ OrderInv /\ TrackInv /\ [Next]_vars
        => [Accounting!Next]_(Accounting!accountingVars)
    BY <1>1, StepTracked
  <2>3. QED
    BY <2>1, <2>2, InitTyped, StepTyped, InitOrdered, StepOrdered, InitTracked, StepTracked,
       InitApart, PTL DEF Spec
<1>2. CASE ~InOrder
  <2>1. WindowsApart
    BY <1>2 DEF WindowsApart
  <2>2. QED
    BY <2>1, PTL
<1>3. QED
  BY <1>1, <1>2

=============================================================================
