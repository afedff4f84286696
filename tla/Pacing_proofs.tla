---------------------------- MODULE Pacing_proofs ----------------------------
(***************************************************************************)
(* Proofs about Pacing, for every period of the clock, every rate and      *)
(* every delay of the loop.                                                *)
(***************************************************************************)
EXTENDS Pacing, Integers, TLAPS

\* The types of the constants, and of the work of a packet and the time to run.
LEMMA ConstantTypes ==
  /\ PacketWork \in Nat /\ RunTime \in Nat /\ Period \in Nat \ {0}
  /\ Infinite \in Nat /\ Period <= Infinite
  /\ Period + PacketWork <= Infinite /\ Period + RunTime <= Infinite
  <1>1. PacketBits \in Nat /\ RunSeconds \in Nat /\ Second \in Nat
    BY PacingAssumption, ClockAssumption
  <1>2. PacketWork \in Nat
    BY <1>1 DEF PacketWork
  <1>3. RunTime \in Nat
    BY <1>1 DEF RunTime, FromSeconds, FromMicroseconds
  <1> QED
    BY <1>2, <1>3, PacingAssumption, ClockAssumption

\* A duration is the quotient truncated: one instant more covers the packet
\* (sender.cc:66-79).
LEMMA DurationTruncates ==
  ASSUME NEW rate \in Nat \ {0}
  PROVE  /\ Duration(rate) \in 0 .. PacketWork
         /\ \A n \in Nat : n > Duration(rate) => n * rate > PacketWork
  <1> DEFINE d == PacketWork \div rate
  <1>1. PacketWork \in Nat /\ rate \in Nat /\ rate > 0
    BY ConstantTypes
  <1>2. /\ d \in Int /\ PacketWork % rate \in 0 .. rate - 1
        /\ PacketWork = rate * d + (PacketWork % rate)
    <2>1. d \in Int
      BY <1>1
    <2>2. PacketWork % rate \in 0 .. rate - 1
      BY <1>1
    <2>3. PacketWork = rate * d + (PacketWork % rate)
      BY <1>1
    <2> QED
      BY <2>1, <2>2, <2>3
  <1>3. d >= 0
    BY <1>1
  <1>4. d <= PacketWork
    BY <1>1, <1>2, <1>3
  <1>5. ASSUME NEW n \in Nat, n > d PROVE n * rate > PacketWork
    <2> HIDE DEF d
    <2>1. n * rate >= (d + 1) * rate
      BY <1>1, <1>2, <1>5
    <2>2. (d + 1) * rate = rate * d + rate
      BY <1>1, <1>2
    <2> DEFINE product == n * rate
               least == rate * d
    <2>3. product \in Int /\ least \in Int /\ product >= least + rate
      BY <1>1, <1>2, <2>1, <2>2
    <2>4. PacketWork = least + (PacketWork % rate) /\ PacketWork % rate < rate
          /\ PacketWork % rate \in Int
      BY <1>1, <1>2
    <2> HIDE DEF product, least
    <2>5. product > PacketWork
      BY <1>1, <2>3, <2>4
    <2> QED
      BY <2>5 DEF product
  <1> QED
    BY <1>2, <1>3, <1>4, <1>5 DEF Duration, FromMicroseconds

\* The rates are positive.
LEMMA RateType ==
  ASSUME NEW rate \in Rates
  PROVE  rate \in Nat \ {0}
  BY PacingAssumption

\* The initial state is well typed.
LEMMA InitTyped == Init => TypeOK
  BY PacingAssumption, ConstantTypes
     DEF Init, TypeOK, ClockInit, TimeTicks, QuicTime, Zero

\* Every step keeps the types, action by action.
LEMMA StepTyped == TypeOK /\ [Next]_vars => TypeOK'
  <1> SUFFICES ASSUME TypeOK, [Next]_vars PROVE TypeOK'
    OBVIOUS
  <1> USE DEF TypeOK, TimeTicks, QuicTime, Zero
  <1>1. CASE Tick
    <2>1. now' \in 1 .. Period
      BY <1>1, ConstantTypes DEF Tick, ClockTick, NextReading
    <2>2. delay' \in 0 .. MaxDelay /\ spent' \in 0 .. PacketWork + 1
      BY <1>1, PacingAssumption, ConstantTypes DEF Tick
    <2> QED
      BY <1>1, <2>1, <2>2 DEF Tick
  <1>2. CASE Main
    BY <1>2 DEF Main
  <1>3. CASE IsTimeToSendNextPacket
    BY <1>3, PacingAssumption DEF IsTimeToSendNextPacket
  <1>4. CASE SetNextSendTime
    <2>1. Duration(pacing_rate) \in 0 .. PacketWork
      BY RateType, DurationTruncates
    <2>2. next_send_timestamp' = now + Duration(pacing_rate)
      BY <1>4 DEF SetNextSendTime, Moved
    <2>3. next_send_timestamp' \in 0 .. Infinite
      BY <2>1, <2>2, ConstantTypes
    <2>4. spent' \in 0 .. PacketWork + 1
      BY <1>4, ConstantTypes DEF SetNextSendTime
    <2> QED
      BY <1>4, <2>3, <2>4 DEF SetNextSendTime
  <1>5. CASE MakePacket
    BY <1>5 DEF MakePacket
  <1>6. CASE ReceivePacket
    BY <1>6 DEF ReceivePacket
  <1>7. CASE UNCHANGED vars
    BY <1>7 DEF vars
  <1> QED
    BY <1>1, <1>2, <1>3, <1>4, <1>5, <1>6, <1>7 DEF Next, Loop

\* Every variable keeps its type.
THEOREM PacingTypeCorrect == Spec => []TypeOK
  BY InitTyped, StepTyped, PTL DEF Spec

-----------------------------------------------------------------------------

\* The inductive invariant: since the next send time was set the clock has not
\* gained on the time that passed, and once the loop has seen that time pass,
\* more than the packet's duration has.
SpentCoversClock ==
    set_rate > 0 =>
        /\ spent > PacketWork
           \/ now + Duration(set_rate) <= next_send_timestamp + spent
        /\ pc = "SetNextSendTime" => spent > Duration(set_rate)

\* Nothing is set at first.
LEMMA InitSpent == Init => SpentCoversClock
  BY DEF Init, SpentCoversClock

\* Every step keeps it: only time passing moves the clock, by one or back.
LEMMA StepSpent == TypeOK /\ SpentCoversClock /\ [Next]_vars => SpentCoversClock'
  <1> SUFFICES ASSUME TypeOK, SpentCoversClock, [Next]_vars, set_rate' > 0
               PROVE  /\ spent' > PacketWork
                         \/ now' + Duration(set_rate') <= next_send_timestamp' + spent'
                      /\ pc' = "SetNextSendTime" => spent' > Duration(set_rate')
    BY DEF SpentCoversClock
  <1>1. /\ now \in Nat /\ next_send_timestamp \in Nat /\ spent \in Nat
        /\ set_rate \in Rates \cup {0} /\ PacketWork \in Nat /\ Period \in Nat \ {0}
        /\ now <= Period /\ now >= 1 /\ pacing_rate \in Rates
    BY ConstantTypes DEF TypeOK, TimeTicks, QuicTime
  <1>2. set_rate > 0 => Duration(set_rate) \in 0 .. PacketWork
    BY <1>1, RateType, DurationTruncates
  <1>3. CASE Tick
    <2>1. now' <= now + 1
      BY <1>1, <1>3 DEF Tick, ClockTick, NextReading
    <2>2. now' \in Nat
      BY <1>1, <1>3 DEF Tick, ClockTick, NextReading
    <2> QED
      BY <1>1, <1>2, <1>3, <2>1, <2>2 DEF Tick, SpentCoversClock
  <1>4. CASE IsTimeToSendNextPacket
    <2>1. ASSUME now > next_send_timestamp PROVE spent > Duration(set_rate)
      BY <1>1, <1>2, <1>4, <2>1 DEF IsTimeToSendNextPacket, SpentCoversClock
    <2> QED
      BY <1>4, <2>1 DEF IsTimeToSendNextPacket, TimeToSend, After, Before, SpentCoversClock
  <1>5. CASE SetNextSendTime
    <2>1. Duration(pacing_rate) \in Nat
      BY <1>1, RateType, DurationTruncates, ConstantTypes
    <2>2. now' + Duration(set_rate') <= next_send_timestamp' + spent'
      BY <1>1, <1>5, <2>1 DEF SetNextSendTime, Moved
    <2> QED
      BY <1>5, <2>2 DEF SetNextSendTime
  <1>6. CASE Main \/ MakePacket \/ ReceivePacket
    BY <1>6 DEF Main, MakePacket, ReceivePacket, SpentCoversClock
  <1>7. CASE UNCHANGED vars
    BY <1>7 DEF vars, SpentCoversClock
  <1> QED
    BY <1>3, <1>4, <1>5, <1>6, <1>7 DEF Next, Loop

\* Between two settings of the next send time more than the exact time of a
\* packet passes, at the rate in force at the first (sender.cc:66-89).
THEOREM PacedByRate == Spec => NeverFasterThanRate
  <1>1. ASSUME TypeOK, SpentCoversClock, [Next]_vars
        PROVE  [SetNextSendTime /\ set_rate > 0 => spent * set_rate > PacketWork]_vars
    <2> SUFFICES ASSUME SetNextSendTime, set_rate > 0
                 PROVE  spent * set_rate > PacketWork
      OBVIOUS
    <2>1. set_rate \in Nat \ {0} /\ spent \in Nat
      BY <1>1, RateType, ConstantTypes DEF TypeOK
    <2>2. spent > Duration(set_rate)
      BY <1>1 DEF SpentCoversClock, SetNextSendTime
    <2> QED
      BY <2>1, <2>2, DurationTruncates
  <1> QED
    BY <1>1, PacingTypeCorrect, InitSpent, StepSpent, PTL DEF Spec, NeverFasterThanRate

-----------------------------------------------------------------------------

\* A sender that is stranded stays so: no reading is above the period.
LEMMA StepStranded == TypeOK /\ Stranded /\ [Next]_vars => Stranded'
  <1> SUFFICES ASSUME TypeOK, Stranded, [Next]_vars PROVE Stranded'
    OBVIOUS
  <1> USE DEF Stranded, After, Before
  <1>1. CASE Tick
    BY <1>1 DEF Tick
  <1>2. CASE IsTimeToSendNextPacket
    <2>1. ~TimeToSend
      BY ConstantTypes DEF TypeOK, TimeToSend, TimeTicks, QuicTime
    <2> QED
      BY <1>2, <2>1 DEF IsTimeToSendNextPacket
  <1>3. CASE Main \/ SetNextSendTime \/ MakePacket \/ ReceivePacket
    BY <1>3 DEF Main, SetNextSendTime, MakePacket, ReceivePacket
  <1>4. CASE UNCHANGED vars
    BY <1>4 DEF vars
  <1> QED
    BY <1>1, <1>2, <1>3, <1>4 DEF Next, Loop

\* Once the next send time is not below the clock's last reading the sender
\* never sends again, for every period and every rate (time.cc:712-731).
THEOREM NeverSendsAgain == Spec => StrandedForEver
  <1>1. Stranded => pc # "MakePacket"
    BY DEF Stranded
  <1> QED
    BY <1>1, PacingTypeCorrect, StepStranded, PTL DEF Spec, StrandedForEver

-----------------------------------------------------------------------------

\* A program that has begun less than its running time before the clock's last
\* reading never ends: no reading is as late as its end, and after the clock
\* has started again it has all of its time before it (sender_test.cc:42-52,
\* time.cc:712-731).
THEOREM NeverEnds ==
  Spec => [](After(Moved(timestamp, RunTime), Period) => pc # "ended")
  <1> DEFINE Late == After(Moved(timestamp, RunTime), Period)
             Inv == Late => pc # "ended"
  <1>1. Init => Inv
    BY DEF Init
  <1>2. TypeOK /\ Inv /\ [Next]_vars => Inv'
    <2> SUFFICES ASSUME TypeOK, Inv, [Next]_vars, Late' PROVE pc' # "ended"
      OBVIOUS
    <2>1. Late /\ pc # "ended"
      BY DEF Next, Loop, Tick, Main, IsTimeToSendNextPacket, SetNextSendTime, MakePacket,
             ReceivePacket, vars
    <2>2. TimeLeft
      BY <2>1, ConstantTypes DEF TypeOK, TimeLeft, TimeTicks, Moved, After, Before
    <2> QED
      BY <2>1, <2>2 DEF Next, Loop, Tick, Main, IsTimeToSendNextPacket, SetNextSendTime,
             MakePacket, ReceivePacket, vars
  <1> QED
    BY <1>1, <1>2, PacingTypeCorrect, PTL DEF Spec

=============================================================================
