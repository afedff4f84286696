------------------------- MODULE RateFeedback_proofs -------------------------
(***************************************************************************)
(* Proofs about RateFeedback: its types, the limit on the pacing rate, and *)
(* the sender's limit following the receiver's estimate.                   *)
(***************************************************************************)
EXTENDS RateFeedback, SequenceTheorems, TLAPS

\* Taking an element out of a sequence keeps its type (RemoveAt).
LEMMA RemoveAtType ==
  ASSUME NEW S, NEW s \in Seq(S), NEW i \in DOMAIN s
  PROVE  RemoveAt(s, i) \in Seq(S)
  <1>1. i \in 1 .. Len(s) /\ Len(s) \in Nat /\ DOMAIN s = 1 .. Len(s)
    BY LenProperties
  <1>2. SubSeq(s, 1, i - 1) \in Seq(S)
    <2>1. \A j \in 1 .. i - 1 : s[j] \in S
      BY <1>1, ElementOfSeq
    <2> QED
      BY <1>1, <2>1
  <1>3. SubSeq(s, i + 1, Len(s)) \in Seq(S)
    <2>1. \A j \in i + 1 .. Len(s) : s[j] \in S
      BY <1>1, ElementOfSeq
    <2> QED
      BY <1>1, <2>1
  <1> QED
    BY <1>2, <1>3, ConcatProperties DEF RemoveAt

\* A REMB is read as the rate that was written, or as zero when it was too wide
\* for its field (packet.cc:44-50, packet_parser.cc:11-14, :42-49).
LEMMA RembRead ==
  ASSUME NEW rate
  PROVE  /\ GetType(Remb(rate)) = "REMB"
         /\ UnSerializeREMB(Remb(rate), NewREMB).bandwidth = Field(rate, NumberLimit)
  <1>1. Remb(rate)[1] = "10" /\ Remb(rate)[2] = Field(rate, NumberLimit)
    BY DEF Remb, SerializeREMB, TypeString, NewREMB
  <1>2. GetType(Remb(rate)) = "REMB"
    BY <1>1 DEF GetType, TypeOfString, TypeString, PACKET_TYPE
  <1> QED
    BY <1>1, <1>2 DEF UnSerializeREMB

\* A receiver report is read as one (packet.cc:33-42, packet_parser.cc:11-14).
LEMMA RRRead == GetType(RR) = "RR"
  <1>1. RR[1] = "01"
    BY DEF RR, MakeRR, SerializeRR, TypeString
  <1> QED
    BY <1>1 DEF GetType, TypeOfString, TypeString, PACKET_TYPE

\* A packet whose numbers fit their fields is read as it was written, and as the
\* packet it is (packet.cc:23-50, packet_parser.cc:11-49).
THEOREM ReadAsWritten ==
  /\ \A q : \A p \in DataPacket :
        p.sequence_number < NumberLimit /\ p.send_time < TimeLimit /\ p.size < NumberLimit
        => GetType(SerializeData(p)) = "DATA" /\ UnSerializeData(SerializeData(p), q) = p
  /\ \A q : \A p \in RRPacket :
        /\ p.start_time < TimeLimit /\ p.end_time < TimeLimit
        /\ p.packets_lost_delta < NumberLimit /\ p.packets_received_delta < NumberLimit
        => GetType(SerializeRR(p)) = "RR" /\ UnSerializeRR(SerializeRR(p), q) = p
  /\ \A q : \A p \in REMBPacket :
        p.bandwidth < NumberLimit
        => GetType(SerializeREMB(p)) = "REMB" /\ UnSerializeREMB(SerializeREMB(p), q) = p
  <1> USE DEF Field
  <1>1. \A string : /\ string = "00" => TypeOfString(string) = "DATA"
                    /\ string = "01" => TypeOfString(string) = "RR"
                    /\ string = "10" => TypeOfString(string) = "REMB"
    BY DEF TypeOfString, TypeString, PACKET_TYPE
  <1>2. ASSUME NEW q, NEW p \in DataPacket, p.sequence_number < NumberLimit,
               p.send_time < TimeLimit, p.size < NumberLimit
        PROVE  GetType(SerializeData(p)) = "DATA" /\ UnSerializeData(SerializeData(p), q) = p
    <2>1. SerializeData(p) = <<"00", p.sequence_number, p.send_time, p.size>>
      BY <1>2 DEF SerializeData, TypeString
    <2> QED
      BY <1>1, <1>2, <2>1 DEF GetType, UnSerializeData, DataPacket
  <1>3. ASSUME NEW q, NEW p \in RRPacket, p.start_time < TimeLimit, p.end_time < TimeLimit,
               p.packets_lost_delta < NumberLimit, p.packets_received_delta < NumberLimit
        PROVE  GetType(SerializeRR(p)) = "RR" /\ UnSerializeRR(SerializeRR(p), q) = p
    <2>1. SerializeRR(p) = << "01", p.start_time, p.end_time,
                              p.packets_lost_delta, p.packets_received_delta >>
      BY <1>3 DEF SerializeRR, TypeString
    <2> QED
      BY <1>1, <1>3, <2>1 DEF GetType, UnSerializeRR, RRPacket
  <1>4. ASSUME NEW q, NEW p \in REMBPacket, p.bandwidth < NumberLimit
        PROVE  GetType(SerializeREMB(p)) = "REMB" /\ UnSerializeREMB(SerializeREMB(p), q) = p
    <2>1. SerializeREMB(p) = <<"10", p.bandwidth>>
      BY <1>4 DEF SerializeREMB, TypeString
    <2> QED
      BY <1>1, <1>4, <2>1 DEF GetType, UnSerializeREMB, REMBPacket
  <1> QED
    BY <1>2, <1>3, <1>4

\* The limit a REMB sets (send_side_bandwidth_estimation.cc:221-227).
LEMMA RembUnderstood ==
  ASSUME NEW rate \in Estimates \cup {0}, Handle(Remb(rate))
  PROVE  /\ receiver_limit' = Understood(rate)
         /\ current_target' = Clamped(current_target, MinBitrate, MaxBitrate)
  <1>1. Controller!Remb(Field(rate, NumberLimit))
    BY RembRead DEF Handle
  <1> QED
    BY <1>1, RateAssumption, WireAssumption
       DEF Controller!Remb, Controller!Clamped, Controller!Lower, Controller!Higher,
           Clamped, Lower, Higher, Field, Understood

\* The initial state is well typed (the constructors of Sender and Receiver).
LEMMA InitTyped == Init => TypeOK
  <1> SUFFICES ASSUME Init PROVE TypeOK
    OBVIOUS
  <1>1. feedback \in Seq(FeedbackPacket)
    BY DEF Init, SenderInit, ReceiverInit
  <1>2. pacing_rate \in Nat /\ current_target \in Targets
    BY RateAssumption DEF Init, SenderInit, ReceiverInit
  <1> QED
    BY <1>1, <1>2
       DEF Init, SenderInit, ReceiverInit, Started, TypeOK, ExportDebugState, DebugState,
           Controller!GetReceiverLimit

\* What the receiver sends in reply to a data packet are feedback packets.
LEMMA RepliesType ==
  ASSUME NEW updated \in BOOLEAN, NEW reports \in BOOLEAN,
         updated => estimate' \in Estimates
  PROVE  Replies(updated, reports) \in Seq(FeedbackPacket)
  <1>1. RR \in FeedbackPacket
    BY DEF FeedbackPacket
  <1>2. updated => Remb(estimate') \in FeedbackPacket
    BY DEF FeedbackPacket
  <1>3. (IF updated /\ RembDue(estimate') THEN <<Remb(estimate')>> ELSE <<>>)
            \in Seq(FeedbackPacket)
    BY <1>2
  <1>4. (IF reports THEN <<RR>> ELSE <<>>) \in Seq(FeedbackPacket)
    BY <1>1
  <1> QED
    BY <1>3, <1>4, ConcatProperties DEF Replies

\* The limits the sender may hold are rates.
LEMMA LimitType ==
  ASSUME NEW limit \in {Understood(rate) : rate \in Estimates} \cup {PlusInfinity}
  PROVE  limit \in Nat
  BY RateAssumption, UnitsAssumption DEF Understood

\* Handling a feedback packet keeps the types of the controller.
LEMMA HandleType ==
  ASSUME TypeOK, NEW datagram \in FeedbackPacket, Handle(datagram)
  PROVE  /\ receiver_limit' \in {Understood(rate) : rate \in Estimates} \cup {PlusInfinity}
         /\ current_target' \in Targets
  <1>1. ASSUME NEW rate \in Estimates, datagram = Remb(rate)
        PROVE  /\ receiver_limit' \in {Understood(r) : r \in Estimates} \cup {PlusInfinity}
               /\ current_target' \in Targets
    <2>1. /\ receiver_limit' = Understood(rate)
          /\ current_target' = Clamped(current_target, MinBitrate, MaxBitrate)
      BY <1>1, RembUnderstood
    <2> QED
      BY <2>1, RateAssumption DEF TypeOK, Clamped, Higher, Lower
  <1>2. CASE datagram = RR
    BY <1>2, RRRead
       DEF Handle, Controller!Report, TypeOK, ExportDebugState, DebugState,
           Controller!GetReceiverLimit
  <1> QED
    BY <1>1, <1>2 DEF FeedbackPacket

\* Every step keeps the types, action by action.
LEMMA StepTyped == TypeOK /\ [Next]_vars => TypeOK'
  <1> SUFFICES ASSUME TypeOK, [Next]_vars PROVE TypeOK'
    OBVIOUS
  <1> USE DEF TypeOK, controllerVars, receiverVars, feedbackVars,
              ExportDebugState, DebugState, Controller!GetReceiverLimit
  <1>1. CASE TimerExpires
    BY <1>1 DEF TimerExpires
  <1>2. CASE SendPacket
    <2>1. data' \in Nat
      BY <1>2, RateAssumption DEF SendPacket, PauseAtFunc, Lower
    <2>2. pc' \in {"SendPacket", "ReceivePacket"}
      BY <1>2 DEF SendPacket, PauseAtFunc
    <2>3. timer_expired' \in BOOLEAN /\ sender' \in {"runs", "paused", "ended"}
      BY <1>2 DEF SendPacket, PauseAtFunc
    <2> QED
      BY <1>2, <2>1, <2>2, <2>3 DEF SendPacket, PauseAtFunc
  <1>3. CASE ReceiveNothing \/ SenderEnds \/ ReceiverEnds
    BY <1>3 DEF ReceiveNothing, SenderEnds, ReceiverEnds
  <1>4. CASE OnDataPacketReceived
    <2>1. PICK updated \in BOOLEAN, reports \in BOOLEAN :
            /\ estimate' \in IF updated THEN Estimates ELSE {estimate}
            /\ \/ /\ feedback' = feedback \o Replies(updated, reports)
                  /\ last_remb_rate' = IF updated THEN estimate' ELSE last_remb_rate
                  /\ UNCHANGED receiver
               \/ \E n \in 0 .. Len(Replies(updated, reports)) - 1 :
                     /\ receiver' = "paused"
                     /\ feedback' = feedback \o SubSeq(Replies(updated, reports), 1, n)
                     /\ last_remb_rate' = IF updated /\ (last_remb_rate = 0 \/ n > 0)
                                          THEN estimate' ELSE last_remb_rate
      BY <1>4 DEF OnDataPacketReceived, SendPackets, PauseAtFunc
    <2>2. Replies(updated, reports) \in Seq(FeedbackPacket)
      BY <2>1, RepliesType
    <2>3. data' \in Nat
      BY <1>4 DEF OnDataPacketReceived, SendPackets, PauseAtFunc
    <2>4. estimate' \in Estimates \cup {0} /\ (updated => estimate' \in Estimates)
      BY <2>1
    <2>5. CASE /\ feedback' = feedback \o Replies(updated, reports)
               /\ last_remb_rate' = IF updated THEN estimate' ELSE last_remb_rate
               /\ UNCHANGED receiver
      <3>1. feedback' \in Seq(FeedbackPacket)
        BY <2>2, <2>5, ConcatProperties
      <3> QED
        BY <1>4, <2>3, <2>4, <2>5, <3>1 DEF OnDataPacketReceived, SendPackets, PauseAtFunc
    <2>6. ASSUME NEW n \in 0 .. Len(Replies(updated, reports)) - 1,
                 receiver' = "paused",
                 feedback' = feedback \o SubSeq(Replies(updated, reports), 1, n),
                 last_remb_rate' = IF updated /\ (last_remb_rate = 0 \/ n > 0)
                                   THEN estimate' ELSE last_remb_rate
          PROVE  TypeOK'
      <3>1. SubSeq(Replies(updated, reports), 1, n) \in Seq(FeedbackPacket)
        <4> DEFINE r == Replies(updated, reports)
        <4>1. Len(r) \in Nat /\ n \in 0 .. Len(r) - 1
          BY <2>2, LenProperties
        <4>2. \A j \in 1 .. n : r[j] \in FeedbackPacket
          BY <2>2, <4>1, ElementOfSeq
        <4> HIDE DEF r
        <4>3. SubSeq(r, 1, n) \in Seq(FeedbackPacket)
          BY <4>1, <4>2
        <4> QED
          BY <4>3 DEF r
      <3>2. feedback' \in Seq(FeedbackPacket)
        BY <2>6, <3>1, ConcatProperties
      <3> QED
        BY <1>4, <2>3, <2>4, <2>6, <3>2 DEF OnDataPacketReceived, SendPackets, PauseAtFunc
    <2> QED
      BY <2>1, <2>5, <2>6
  <1>5. CASE LoseData
    BY <1>5 DEF LoseData
  <1>6. ASSUME NEW i \in DOMAIN feedback, ReceiveFeedback(i)
        PROVE  TypeOK'
    <2>1. feedback' \in Seq(FeedbackPacket)
      BY <1>6, RemoveAtType DEF ReceiveFeedback
    <2>2. feedback[i] \in FeedbackPacket
      BY <1>6, ElementOfSeq, LenProperties
    <2>3. receiver_limit' \in {Understood(rate) : rate \in Estimates} \cup {PlusInfinity}
          /\ current_target' \in Targets
      BY <1>6, <2>2, HandleType DEF ReceiveFeedback
    <2>4. pacing_rate' \in Nat
      <3>1. receiver_limit' \in Nat /\ current_target' \in Nat
        BY <2>3, LimitType, RateAssumption
      <3>2. pacing_rate' = PacingRate
        BY <1>6 DEF ReceiveFeedback
      <3> QED
        BY <3>1, <3>2, RateAssumption
           DEF PacingRate, Controller!Rate, Controller!Higher, Controller!Lower, Higher
    <2> QED
      BY <1>6, <2>1, <2>3, <2>4 DEF ReceiveFeedback
  <1>7. ASSUME NEW i \in DOMAIN feedback, LoseFeedback(i)
        PROVE  TypeOK'
    BY <1>7, RemoveAtType DEF LoseFeedback
  <1>8. CASE UNCHANGED vars
    BY <1>8 DEF vars
  <1> QED
    BY <1>1, <1>2, <1>3, <1>4, <1>5, <1>6, <1>7, <1>8 DEF Next

\* Every variable keeps its type, for every value of the constants.
THEOREM RateTypeCorrect == Spec => []TypeOK
  <1> QED
    BY InitTyped, StepTyped, PTL DEF Spec

-----------------------------------------------------------------------------

\* The inductive invariant: the pacing rate is the one that the controller's
\* present state gives (sender.cc:116-119).
PacingIsCurrent == pacing_rate = Higher(MinPacingRate, Controller!Rate)

\* The pacing rate starts as the initial target does (defs.h:28).
LEMMA InitPacing == Init => PacingIsCurrent
  BY RateAssumption, UnitsAssumption
     DEF Init, SenderInit, ReceiverInit, PacingIsCurrent, Controller!Rate, Controller!Higher, Controller!Lower, Higher

\* A packet that changes the controller's state sets the pacing rate, and
\* nothing else changes either.
LEMMA StepPacing == TypeOK /\ PacingIsCurrent /\ [Next]_vars => PacingIsCurrent'
  <1> SUFFICES ASSUME TypeOK, PacingIsCurrent, [Next]_vars PROVE PacingIsCurrent'
    OBVIOUS
  <1>1. ASSUME NEW i \in DOMAIN feedback, ReceiveFeedback(i)
        PROVE  PacingIsCurrent'
    BY <1>1 DEF ReceiveFeedback, PacingRate, PacingIsCurrent
  <1>2. CASE UNCHANGED <<pacing_rate, controllerVars>>
    BY <1>2 DEF PacingIsCurrent, controllerVars, Controller!Rate
  <1>3. CASE TimerExpires \/ SendPacket \/ ReceiveNothing \/ SenderEnds \/ ReceiverEnds
    BY <1>2, <1>3 DEF TimerExpires, SendPacket, PauseAtFunc, ReceiveNothing, SenderEnds, ReceiverEnds,
                      controllerVars
  <1>4. CASE OnDataPacketReceived \/ LoseData
    BY <1>2, <1>4 DEF OnDataPacketReceived, SendPackets, PauseAtFunc, LoseData, controllerVars
  <1>5. ASSUME NEW i \in DOMAIN feedback, LoseFeedback(i)
        PROVE  PacingIsCurrent'
    BY <1>2, <1>5 DEF LoseFeedback, controllerVars
  <1>6. CASE UNCHANGED vars
    BY <1>2, <1>6 DEF vars, controllerVars
  <1> QED
    BY <1>1, <1>3, <1>4, <1>5, <1>6 DEF Next

\* The sender never paces faster than the last receiver limit it got allows,
\* nor slower than MIN_PACING_RATE, whatever the path does and whatever the
\* rates are (sender.cc:101-121).
THEOREM PacingLimited == Spec => []PacingWithinLimit
  <1>1. ASSUME TypeOK, PacingIsCurrent PROVE PacingWithinLimit
    <2>1. /\ receiver_limit \in Nat /\ current_target \in Nat
          /\ MinBitrate \in Nat /\ MinPacingRate \in Nat
      BY <1>1, LimitType, RateAssumption
         DEF TypeOK, ExportDebugState, DebugState, Controller!GetReceiverLimit
    <2>2. MinBitrate <= receiver_limit
      <3>1. MinBitrate <= PlusInfinity
        BY RateAssumption, UnitsAssumption
      <3>2. \A rate \in Estimates : MinBitrate <= Understood(rate)
        BY <3>1, RateAssumption DEF Understood
      <3> QED
        BY <1>1, <3>1, <3>2
           DEF TypeOK, ExportDebugState, DebugState, Controller!GetReceiverLimit
    <2> QED
      BY <1>1, <2>1, <2>2
         DEF PacingIsCurrent, PacingWithinLimit, ExportDebugState,
             Controller!GetReceiverLimit, Controller!Rate, Controller!Higher,
             Controller!Lower, Higher
  <1> QED
    BY <1>1, RateTypeCorrect, InitPacing, StepPacing, PTL DEF Spec

-----------------------------------------------------------------------------

\* Nothing but receiver reports is in flight after the packet at index k.
OnlyReportsAfter(k) ==
    \A i \in DOMAIN feedback : i > k => feedback[i] = RR

\* The inductive invariant: what the receiver recorded is its last estimate; and
\* unless the newest REMB was lost or has overtaken another, the last REMB in
\* flight carries that estimate, and when there is none the sender has it already
\* (receiver.cc:105-121).
LastRembCurrent ==
    receiver # "paused" =>
        /\ last_remb_rate = estimate
        /\ newest_safe =>
              /\ OnlyReportsAfter(0) => receiver_limit = Understood(estimate)
              /\ \A i \in DOMAIN feedback :
                    feedback[i] # RR /\ OnlyReportsAfter(i) => feedback[i] = Remb(estimate)

\* At first there is neither an estimate nor a limit.
LEMMA InitCurrent == Init => LastRembCurrent
  BY DEF Init, SenderInit, ReceiverInit, LastRembCurrent, Understood

\* A feedback packet is a REMB or a receiver report.
LEMMA FeedbackKinds ==
  ASSUME NEW packet \in FeedbackPacket
  PROVE  /\ GetType(packet) = "REMB" <=> packet # RR
         /\ GetType(packet) = "RR" <=> packet = RR
  BY RembRead, RRRead DEF FeedbackPacket

\* The elements of a sequence one of which is taken out (RemoveAt).
LEMMA OneRemoved ==
  ASSUME NEW S, NEW s \in Seq(S), NEW i \in DOMAIN s
  PROVE  /\ Len(RemoveAt(s, i)) = Len(s) - 1
         /\ DOMAIN RemoveAt(s, i) = 1 .. Len(s) - 1
         /\ \A j \in 1 .. Len(s) - 1 : j < i => RemoveAt(s, i)[j] = s[j]
         /\ \A j \in 1 .. Len(s) - 1 : i <= j => RemoveAt(s, i)[j] = s[j + 1]
  <1>1. Len(s) \in Nat /\ DOMAIN s = 1 .. Len(s) /\ i \in 1 .. Len(s)
    BY LenProperties
  <1> DEFINE front == SubSeq(s, 1, i - 1)
             back == SubSeq(s, i + 1, Len(s))
  <1>2. front \in Seq(S)
    <2>1. \A j \in 1 .. i - 1 : s[j] \in S
      BY <1>1, ElementOfSeq
    <2> QED
      BY <1>1, <2>1
  <1>3. back \in Seq(S)
    <2>1. \A j \in i + 1 .. Len(s) : s[j] \in S
      BY <1>1, ElementOfSeq
    <2> QED
      BY <1>1, <2>1
  <1>4. Len(front) = i - 1 /\ \A j \in 1 .. i - 1 : front[j] = s[j]
    BY <1>1
  <1>5. Len(back) = Len(s) - i /\ \A j \in 1 .. Len(s) - i : back[j] = s[j + i]
    BY <1>1
  <1>6. RemoveAt(s, i) = front \o back
    BY DEF RemoveAt
  <1> HIDE DEF front, back
  <1>7. /\ Len(front \o back) = Len(front) + Len(back)
        /\ front \o back \in Seq(S)
        /\ \A j \in 1 .. Len(front) + Len(back) :
              (front \o back)[j] = IF j <= Len(front) THEN front[j]
                                                      ELSE back[j - Len(front)]
    BY <1>2, <1>3, ConcatProperties
  <1>8. Len(RemoveAt(s, i)) = Len(s) - 1
    BY <1>1, <1>4, <1>5, <1>6, <1>7
  <1>9. DOMAIN RemoveAt(s, i) = 1 .. Len(s) - 1
    BY <1>6, <1>7, <1>8, LenProperties
  <1>10. ASSUME NEW j \in 1 .. Len(s) - 1, j < i PROVE RemoveAt(s, i)[j] = s[j]
    <2>1. j \in 1 .. Len(front) + Len(back) /\ j <= Len(front) /\ j \in 1 .. i - 1
      BY <1>1, <1>4, <1>5, <1>10
    <2> QED
      BY <1>4, <1>6, <1>7, <2>1
  <1>11. ASSUME NEW j \in 1 .. Len(s) - 1, i <= j PROVE RemoveAt(s, i)[j] = s[j + 1]
    <2>1. /\ j \in 1 .. Len(front) + Len(back) /\ ~(j <= Len(front))
          /\ j - Len(front) \in 1 .. Len(s) - i /\ (j - Len(front)) + i = j + 1
      BY <1>1, <1>4, <1>5, <1>11
    <2> QED
      BY <1>5, <1>6, <1>7, <2>1
  <1> QED
    BY <1>8, <1>9, <1>10, <1>11

\* Taking a packet out leaves the others in order.  Unless it is the newest REMB
\* and an older one is still in flight, what is then the last REMB was the last
\* one before.
LEMMA LastRembStays ==
  ASSUME TypeOK, NEW i \in DOMAIN feedback, feedback' = RemoveAt(feedback, i),
         ~(IsNewest(i) /\ Overtakes(i)), UNCHANGED estimate,
         \A k \in DOMAIN feedback :
            feedback[k] # RR /\ OnlyReportsAfter(k) => feedback[k] = Remb(estimate)
  PROVE  /\ \A k \in DOMAIN feedback' :
               feedback'[k] # RR /\ OnlyReportsAfter(k)' => feedback'[k] = Remb(estimate')
         /\ OnlyReportsAfter(0)' =>
               \/ feedback[i] = RR /\ OnlyReportsAfter(0)
               \/ IsNewest(i) /\ feedback[i] = Remb(estimate)
  <1>1. /\ Len(feedback) \in Nat /\ DOMAIN feedback = 1 .. Len(feedback)
        /\ i \in 1 .. Len(feedback)
        /\ \A j \in DOMAIN feedback : feedback[j] \in FeedbackPacket
    BY LenProperties, ElementOfSeq DEF TypeOK
  <1>2. /\ DOMAIN feedback' = 1 .. Len(feedback) - 1
        /\ \A j \in 1 .. Len(feedback) - 1 : j < i => feedback'[j] = feedback[j]
        /\ \A j \in 1 .. Len(feedback) - 1 : i <= j => feedback'[j] = feedback[j + 1]
    BY OneRemoved DEF TypeOK
  <1>3. ASSUME NEW k \in 0 .. Len(feedback) - 1, OnlyReportsAfter(k)',
               NEW j \in DOMAIN feedback, j # i, j > IF k < i THEN k ELSE k + 1
        PROVE  feedback[j] = RR
    <2>1. CASE j < i
      <3>1. j \in 1 .. Len(feedback) - 1 /\ j > k /\ feedback'[j] = feedback[j]
        BY <1>1, <1>2, <1>3, <2>1
      <3> QED
        BY <1>2, <1>3, <3>1 DEF OnlyReportsAfter
    <2>2. CASE j > i
      <3>1. j - 1 \in 1 .. Len(feedback) - 1 /\ i <= j - 1 /\ j - 1 > k /\ (j - 1) + 1 = j
        BY <1>1, <1>3, <2>2
      <3>2. feedback'[j - 1] = feedback[j]
        BY <1>2, <3>1
      <3>3. feedback'[j - 1] = RR
        BY <1>2, <1>3, <3>1 DEF OnlyReportsAfter
      <3> QED
        BY <3>2, <3>3
    <2> QED
      BY <1>1, <1>3, <2>1, <2>2
  <1>4. ASSUME NEW k \in DOMAIN feedback', feedback'[k] # RR, OnlyReportsAfter(k)'
        PROVE  feedback'[k] = Remb(estimate')
    <2> DEFINE old == IF k < i THEN k ELSE k + 1
    <2>1. /\ k \in 0 .. Len(feedback) - 1 /\ old \in DOMAIN feedback /\ old # i
          /\ feedback'[k] = feedback[old]
      BY <1>1, <1>2
    <2>2. \A j \in DOMAIN feedback : j # i /\ j > old => feedback[j] = RR
      BY <1>3, <1>4, <2>1
    <2> HIDE DEF old
    <2>3. i > old => feedback[i] = RR
      <3> SUFFICES ASSUME i > old, feedback[i] # RR PROVE FALSE
        OBVIOUS
      <3>1. IsNewest(i)
        <4>1. \A j \in DOMAIN feedback : j > i => j # i /\ j > old
          BY <1>1, <2>1
        <4> QED
          BY <1>1, <2>2, <4>1, FeedbackKinds DEF IsNewest
      <3>2. Overtakes(i)
        BY <1>1, <1>4, <2>1, FeedbackKinds DEF Overtakes
      <3> QED
        BY <3>1, <3>2
    <2>4. OnlyReportsAfter(old)
      BY <2>2, <2>3 DEF OnlyReportsAfter
    <2> QED
      BY <1>4, <2>1, <2>4
  <1>5. ASSUME OnlyReportsAfter(0)'
        PROVE  \/ feedback[i] = RR /\ OnlyReportsAfter(0)
               \/ IsNewest(i) /\ feedback[i] = Remb(estimate)
    <2>1. \A j \in DOMAIN feedback : j # i => feedback[j] = RR
      <3>1. 0 \in 0 .. Len(feedback) - 1 /\ \A j \in DOMAIN feedback : j > 0
        BY <1>1
      <3> QED
        BY <1>1, <1>3, <1>5, <3>1
    <2>2. CASE feedback[i] = RR
      BY <2>1, <2>2 DEF OnlyReportsAfter
    <2>3. CASE feedback[i] # RR
      <3>1. OnlyReportsAfter(i)
        BY <1>1, <2>1 DEF OnlyReportsAfter
      <3>2. IsNewest(i)
        BY <1>1, <2>3, <3>1, FeedbackKinds DEF IsNewest, OnlyReportsAfter
      <3> QED
        BY <2>3, <3>1, <3>2
    <2> QED
      BY <2>2, <2>3
  <1> QED
    BY <1>4, <1>5

\* Handling the newest REMB gives the sender the estimate that it carries; a
\* packet that is not the newest REMB leaves that one in flight, or is a report
\* and changes nothing of the limit.
LEMMA StepReceiveCurrent ==
  ASSUME TypeOK, LastRembCurrent, NEW i \in DOMAIN feedback, ReceiveFeedback(i)
  PROVE  LastRembCurrent'
  <1>1. /\ feedback' = RemoveAt(feedback, i) /\ Handle(feedback[i])
        /\ newest_safe' = (newest_safe /\ ~(IsNewest(i) /\ Overtakes(i)))
        /\ last_remb_rate' = last_remb_rate /\ estimate' = estimate
        /\ receiver' = receiver
    BY DEF ReceiveFeedback, receiverVars
  <1> SUFFICES ASSUME receiver # "paused", newest_safe' PROVE
         /\ OnlyReportsAfter(0)' => receiver_limit' = Understood(estimate')
         /\ \A k \in DOMAIN feedback' :
               feedback'[k] # RR /\ OnlyReportsAfter(k)' => feedback'[k] = Remb(estimate')
    BY <1>1 DEF LastRembCurrent
  <1>2. newest_safe /\ ~(IsNewest(i) /\ Overtakes(i))
    BY <1>1
  <1>3. /\ \A k \in DOMAIN feedback' :
               feedback'[k] # RR /\ OnlyReportsAfter(k)' => feedback'[k] = Remb(estimate')
        /\ OnlyReportsAfter(0)' =>
               \/ feedback[i] = RR /\ OnlyReportsAfter(0)
               \/ IsNewest(i) /\ feedback[i] = Remb(estimate)
    BY <1>1, <1>2, LastRembStays DEF LastRembCurrent
  <1>4. ASSUME OnlyReportsAfter(0)' PROVE receiver_limit' = Understood(estimate')
    <2>1. CASE feedback[i] = RR /\ OnlyReportsAfter(0)
      <3>1. receiver_limit' = receiver_limit
        BY <1>1, <2>1, RRRead DEF Handle, Controller!Report
      <3> QED
        BY <1>1, <1>2, <2>1, <3>1 DEF LastRembCurrent
    <2>2. CASE feedback[i] = Remb(estimate)
      BY <1>1, <2>2, RembUnderstood DEF TypeOK
    <2> QED
      BY <1>3, <1>4, <2>1, <2>2
  <1> QED
    BY <1>3, <1>4

\* Losing a packet that is not the newest REMB changes neither what the newest one
\* carries nor, without one in flight, the limit.
LEMMA StepLoseCurrent ==
  ASSUME TypeOK, LastRembCurrent, NEW i \in DOMAIN feedback, LoseFeedback(i)
  PROVE  LastRembCurrent'
  <1>1. /\ feedback' = RemoveAt(feedback, i) /\ newest_safe' = (newest_safe /\ ~IsNewest(i))
        /\ last_remb_rate' = last_remb_rate /\ estimate' = estimate
        /\ receiver' = receiver /\ receiver_limit' = receiver_limit
    BY DEF LoseFeedback, receiverVars, controllerVars
  <1> SUFFICES ASSUME receiver # "paused", newest_safe' PROVE
         /\ OnlyReportsAfter(0)' => receiver_limit' = Understood(estimate')
         /\ \A k \in DOMAIN feedback' :
               feedback'[k] # RR /\ OnlyReportsAfter(k)' => feedback'[k] = Remb(estimate')
    BY <1>1 DEF LastRembCurrent
  <1>2. newest_safe /\ ~IsNewest(i)
    BY <1>1
  <1>3. /\ \A k \in DOMAIN feedback' :
               feedback'[k] # RR /\ OnlyReportsAfter(k)' => feedback'[k] = Remb(estimate')
        /\ OnlyReportsAfter(0)' => feedback[i] = RR /\ OnlyReportsAfter(0)
    BY <1>1, <1>2, LastRembStays DEF LastRembCurrent
  <1> QED
    BY <1>1, <1>2, <1>3 DEF LastRembCurrent

\* Joining sequences of at most one element each.
LEMMA JoinedReplies ==
  ASSUME NEW x, NEW y
  PROVE  /\ <<>> \o <<>> = <<>> /\ <<>> \o <<y>> = <<y>>
         /\ <<x>> \o <<>> = <<x>> /\ <<x>> \o <<y>> = <<x, y>>
  <1> DEFINE S == {x, y}
  <1>1. <<x>> \in Seq(S) /\ <<y>> \in Seq(S) /\ <<>> \in Seq(S) /\ <<x, y>> \in Seq(S)
    OBVIOUS
  <1>2. <<>> \o <<>> = <<>>
    BY <1>1, ConcatEmptySeq
  <1>3. <<>> \o <<y>> = <<y>> /\ <<x>> \o <<>> = <<x>>
    BY <1>1, ConcatEmptySeq
  <1>4. <<x>> \o <<y>> = <<x, y>>
    <2>1. Len(<<x>>) = 1 /\ Len(<<y>>) = 1 /\ <<x>>[1] = x /\ <<y>>[1] = y
      OBVIOUS
    <2>2. Len(<<x, y>>) = 2 /\ <<x, y>>[1] = x /\ <<x, y>>[2] = y
      OBVIOUS
    <2> DEFINE s == <<x>> \o <<y>>
    <2>3. s \in Seq(S) /\ Len(s) = 2 /\ s[1] = x /\ s[2] = y
      BY <1>1, <2>1, ConcatProperties
    <2> HIDE DEF s
    <2>4. s = <<x, y>>
      BY <1>1, <2>2, <2>3, SeqEqual
    <2> QED
      BY <2>4 DEF s
  <1> QED
    BY <1>2, <1>3, <1>4

\* A reply goes behind the feedback in flight, a REMB before a report; a REMB
\* carries the estimate whatever became of those before, and an estimate that is
\* not sent is the one recorded (receiver.cc:73-131).
LEMMA StepDataCurrent ==
  ASSUME TypeOK, LastRembCurrent, OnDataPacketReceived
  PROVE  LastRembCurrent'
  <1> SUFFICES ASSUME receiver' # "paused" PROVE
         /\ last_remb_rate' = estimate'
         /\ newest_safe' =>
               /\ OnlyReportsAfter(0)' => receiver_limit' = Understood(estimate')
               /\ \A k \in DOMAIN feedback' :
                     feedback'[k] # RR /\ OnlyReportsAfter(k)' => feedback'[k] = Remb(estimate')
    BY DEF LastRembCurrent
  <1>1. PICK updated \in BOOLEAN, reports \in BOOLEAN :
           /\ estimate' \in IF updated THEN Estimates ELSE {estimate}
           /\ SendPackets(Replies(updated, reports))
           /\ last_remb_rate' = IF updated THEN estimate' ELSE last_remb_rate
    BY DEF OnDataPacketReceived, PauseAtFunc
  <1>2. /\ receiver # "paused" /\ receiver_limit' = receiver_limit
        /\ last_remb_rate = estimate
        /\ newest_safe =>
              /\ OnlyReportsAfter(0) => receiver_limit = Understood(estimate)
              /\ \A k \in DOMAIN feedback :
                    feedback[k] # RR /\ OnlyReportsAfter(k) => feedback[k] = Remb(estimate)
    BY DEF OnDataPacketReceived, PauseAtFunc, controllerVars, LastRembCurrent
  <1>3. last_remb_rate' = estimate'
    BY <1>1, <1>2
  <1> DEFINE r == Replies(updated, reports)
             n == Len(feedback)
  <1>4. feedback \in Seq(FeedbackPacket) /\ r \in Seq(FeedbackPacket)
    BY <1>1, RepliesType DEF TypeOK
  <1>5. /\ n \in Nat /\ Len(r) \in Nat
        /\ DOMAIN feedback = 1 .. n /\ DOMAIN feedback' = 1 .. n + Len(r)
        /\ \A k \in 1 .. n : feedback'[k] = feedback[k]
        /\ \A k \in 1 .. Len(r) : feedback'[n + k] = r[k]
    <2>1. /\ Len(feedback') = n + Len(r)
          /\ \A k \in 1 .. n + Len(r) :
                feedback'[k] = IF k <= n THEN feedback[k] ELSE r[k - n]
          /\ feedback' \in Seq(FeedbackPacket)
      BY <1>1, <1>4, ConcatProperties DEF SendPackets
    <2>2. n \in Nat /\ Len(r) \in Nat /\ DOMAIN feedback = 1 .. n
          /\ DOMAIN feedback' = 1 .. Len(feedback')
      BY <1>4, <2>1, LenProperties
    <2> HIDE DEF r, n
    <2>3. \A k \in 1 .. n : feedback'[k] = feedback[k]
      BY <2>1, <2>2
    <2>4. ASSUME NEW k \in 1 .. Len(r) PROVE feedback'[n + k] = r[k]
      <3>1. n + k \in 1 .. n + Len(r) /\ ~(n + k <= n) /\ (n + k) - n = k
        BY <2>2
      <3> QED
        BY <2>1, <3>1
    <2> QED
      BY <2>1, <2>2, <2>3, <2>4
  <1>6. \A k \in 0 .. n : OnlyReportsAfter(k)' => OnlyReportsAfter(k)
    BY <1>5 DEF OnlyReportsAfter
  <1>7. CASE ~(updated /\ RembDue(estimate'))
    <2>1. estimate' = estimate
      BY <1>1, <1>2, <1>7 DEF RembDue
    <2>2. r = <<>> \/ r = <<RR>>
      BY <1>7, JoinedReplies DEF Replies
    <2>3. \A k \in 1 .. Len(r) : r[k] = RR
      BY <2>2
    <2>4. newest_safe' = newest_safe
      <3>1. \A k \in DOMAIN r : GetType(r[k]) # "REMB"
        BY <1>4, <2>3, LenProperties, RRRead
      <3> QED
        BY <1>1, <3>1 DEF SendPackets, TypeOK
    <2> SUFFICES ASSUME newest_safe PROVE
           /\ OnlyReportsAfter(0)' => receiver_limit' = Understood(estimate')
           /\ \A k \in DOMAIN feedback' :
                 feedback'[k] # RR /\ OnlyReportsAfter(k)' => feedback'[k] = Remb(estimate')
      BY <1>3, <2>4
    <2> HIDE DEF r
    <2>5. ASSUME NEW k \in DOMAIN feedback', feedback'[k] # RR, OnlyReportsAfter(k)'
          PROVE  feedback'[k] = Remb(estimate')
      <3>1. k \in 1 .. n
        <4>1. CASE k > n
          <5>1. k - n \in 1 .. Len(r) /\ n + (k - n) = k
            BY <1>5, <2>5, <4>1
          <5> QED
            BY <1>5, <2>3, <2>5, <5>1
        <4> QED
          BY <1>5, <2>5, <4>1
      <3> QED
        BY <1>2, <1>5, <1>6, <2>1, <2>5, <3>1
    <2>6. OnlyReportsAfter(0)' => receiver_limit' = Understood(estimate')
      BY <1>2, <1>5, <1>6, <2>1
    <2> QED
      BY <1>3, <2>5, <2>6
  <1>8. CASE updated /\ RembDue(estimate')
    <2>1. r = <<Remb(estimate')>> \/ r = <<Remb(estimate'), RR>>
      BY <1>8, JoinedReplies DEF Replies
    <2>2. Remb(estimate') # RR
      BY RembRead, RRRead
    <2>3. /\ 1 \in 1 .. Len(r) /\ r[1] = Remb(estimate')
          /\ \A k \in 1 .. Len(r) : k > 1 => r[k] = RR
      BY <2>1
    <2> HIDE DEF r
    <2>4. n + 1 \in DOMAIN feedback' /\ feedback'[n + 1] = Remb(estimate')
      BY <1>5, <2>3
    <2>5. ~OnlyReportsAfter(0)'
      BY <1>5, <2>2, <2>4 DEF OnlyReportsAfter
    <2>6. ASSUME NEW k \in DOMAIN feedback', feedback'[k] # RR, OnlyReportsAfter(k)'
          PROVE  feedback'[k] = Remb(estimate')
      <3>1. ~(k < n + 1)
        BY <1>5, <2>2, <2>4, <2>6 DEF OnlyReportsAfter
      <3>2. ~(k > n + 1)
        <4> SUFFICES ASSUME k > n + 1 PROVE FALSE
          OBVIOUS
        <4>1. k - n \in 1 .. Len(r) /\ k - n > 1 /\ n + (k - n) = k
          BY <1>5, <2>6
        <4> QED
          BY <1>5, <2>3, <2>6, <4>1
      <3>3. k = n + 1
        BY <1>5, <3>1, <3>2, <2>6
      <3> QED
        BY <2>4, <3>3
    <2> QED
      BY <1>3, <2>5, <2>6
  <1> QED
    BY <1>7, <1>8

\* Every step keeps the invariant, action by action.
LEMMA StepCurrent == TypeOK /\ LastRembCurrent /\ [Next]_vars => LastRembCurrent'
  <1> SUFFICES ASSUME TypeOK, LastRembCurrent, [Next]_vars PROVE LastRembCurrent'
    OBVIOUS
  <1>1. CASE UNCHANGED <<feedbackVars, receiverVars, controllerVars>>
    BY <1>1 DEF LastRembCurrent, OnlyReportsAfter, feedbackVars, receiverVars, controllerVars
  <1>2. CASE TimerExpires \/ SendPacket \/ ReceiveNothing \/ SenderEnds \/ LoseData
    BY <1>1, <1>2 DEF TimerExpires, SendPacket, PauseAtFunc, ReceiveNothing, SenderEnds, LoseData
  <1>7. CASE ReceiverEnds
    BY <1>7 DEF ReceiverEnds, LastRembCurrent, OnlyReportsAfter, feedbackVars, controllerVars
  <1>3. CASE OnDataPacketReceived
    BY <1>3, StepDataCurrent
  <1>4. ASSUME NEW i \in DOMAIN feedback, ReceiveFeedback(i)
        PROVE  LastRembCurrent'
    BY <1>4, StepReceiveCurrent
  <1>5. ASSUME NEW i \in DOMAIN feedback, LoseFeedback(i)
        PROVE  LastRembCurrent'
    BY <1>5, StepLoseCurrent
  <1>6. CASE UNCHANGED vars
    BY <1>1, <1>6 DEF vars
  <1> QED
    BY <1>2, <1>3, <1>4, <1>5, <1>6, <1>7 DEF Next

\* Unless the newest REMB was lost or has overtaken another, the sender's limit is
\* the receiver's last estimate as soon as no REMB is in flight, whatever became of
\* the earlier ones and for all estimates, those too wide for their field included
\* (receiver.cc:105-121).
THEOREM LimitFollows == Spec => []LimitFollowsEstimate
  <1>1. ASSUME TypeOK, LastRembCurrent PROVE LimitFollowsEstimate
    <2> SUFFICES ASSUME newest_safe, receiver # "paused",
                        \A i \in DOMAIN feedback : GetType(feedback[i]) = "RR"
                 PROVE  receiver_limit = Understood(estimate)
      BY DEF LimitFollowsEstimate
    <2>1. ASSUME NEW i \in DOMAIN feedback PROVE feedback[i] = RR
      <3>1. feedback[i] \in FeedbackPacket
        BY <1>1, ElementOfSeq, LenProperties DEF TypeOK
      <3> QED
        BY <3>1, RembRead DEF FeedbackPacket
    <2> QED
      BY <1>1, <2>1 DEF LastRembCurrent, OnlyReportsAfter
  <1> QED
    BY <1>1, RateTypeCorrect, InitCurrent, StepCurrent, PTL DEF Spec

=============================================================================
