------------------------------- MODULE Pacing -------------------------------
(***************************************************************************)
(* The sender's program on its clock: main's loop, which runs for a set    *)
(* time (sender_test.cc:30-54), and the pacing of the packets in it        *)
(* (sender.cc:42-89), which RateFeedback reduces to a timer.  For a packet *)
(* the clock is read four times: to see whether the program's time is      *)
(* over, whether the packet's time has come, to set the time of the next   *)
(* one, and to stamp it.  Time passes, and the rate may change, between    *)
(* any two of them.  The countdown that main prints is left out.           *)
(***************************************************************************)
EXTENDS Clock

CONSTANTS
    PacketBits,         \* DEFAULT_PACKET_SIZE * 8
    Rates,              \* pacing rates, none below MIN_PACING_RATE
    InitialRate,        \* INITIAL_PACING_RATE
    RunSeconds,         \* the seconds main runs, 350
    MaxDelay            \* bound: instants between two runs of the loop

\* A packet times the units of a second; and how long main runs.
PacketWork == PacketBits * Second
RunTime == FromSeconds(RunSeconds)

ASSUME PacingAssumption ==
    /\ PacketBits \in Nat /\ RunSeconds \in Nat /\ MaxDelay \in Nat
    /\ Rates \subseteq Nat \ {0} /\ InitialRate \in Rates
    /\ Period + PacketWork <= Infinite /\ Period + RunTime <= Infinite

VARIABLES
    pc,                     \* the function the loop is about to run
    timestamp,              \* what the clock read when main's loop began
    pacing_rate,            \* send_control_.pacing_rate
    next_send_timestamp,    \* send_control_.next_send_timestamp
    send_time,              \* the stamp of the last packet, 0 before one
    delay,                  \* instants since the loop last asked for a packet
    spent,                  \* history: instants since next_send_timestamp was set, capped
    set_rate                \* history: the rate it was set for, 0 before

vars == <<now, pc, timestamp, pacing_rate, next_send_timestamp, send_time, delay, spent, set_rate>>

\* The constructors, and main up to its loop.
Init ==
    /\ ClockInit
    /\ timestamp = now
    /\ pc = "Main"
    /\ pacing_rate = InitialRate
    /\ next_send_timestamp = Zero
    /\ send_time = Zero
    /\ delay = 0
    /\ spent = 0
    /\ set_rate = 0

\* An instant passes.  The loop polls: it comes round within MaxDelay.
Tick ==
    /\ delay < MaxDelay
    /\ delay' = delay + 1
    /\ ClockTick
    /\ spent' = IF spent <= PacketWork THEN spent + 1 ELSE spent
    /\ UNCHANGED <<pc, timestamp, pacing_rate, next_send_timestamp, send_time, set_rate>>

\* Mutant: the loop runs for ever.
TimeLeft_Always == TRUE

\* The condition of main's loop.
TimeLeft == Before(now, Moved(timestamp, RunTime))

Main ==
    /\ pc = "Main"
    /\ pc' = IF TimeLeft THEN "IsTimeToSendNextPacket" ELSE "ended"
    /\ UNCHANGED <<now, timestamp, pacing_rate, next_send_timestamp, send_time, delay,
                   spent, set_rate>>

\* Mutant: the packet goes at the deadline, not after it.
TimeToSend_AtDeadline == ~Before(now, next_send_timestamp)

\* The condition of IsTimeToSendNextPacket.
TimeToSend == After(now, next_send_timestamp)

IsTimeToSendNextPacket ==
    /\ pc = "IsTimeToSendNextPacket"
    /\ pc' = IF TimeToSend THEN "SetNextSendTime" ELSE "ReceivePacket"
    /\ delay' = 0
    /\ UNCHANGED <<now, timestamp, pacing_rate, next_send_timestamp, send_time, spent, set_rate>>

\* The duration of a packet at a rate, truncated to microseconds.
Duration(rate) == FromMicroseconds(PacketWork \div rate)

\* SetNextSendTime reads the clock again.  The rate is positive.
SetNextSendTime ==
    /\ pc = "SetNextSendTime"
    /\ next_send_timestamp' = Moved(now, Duration(pacing_rate))
    /\ pc' = "MakePacket"
    /\ spent' = 0
    /\ set_rate' = pacing_rate
    /\ UNCHANGED <<now, timestamp, pacing_rate, send_time, delay>>

\* MakePacketAndSendFromBuf reads it once more.
MakePacket ==
    /\ pc = "MakePacket"
    /\ send_time' = now
    /\ pc' = "ReceivePacket"
    /\ UNCHANGED <<now, timestamp, pacing_rate, next_send_timestamp, delay, spent, set_rate>>

\* Mutant: recvfrom waits for a packet.
ReceivePacket_Waits == pc = "ReceivePacket" /\ FALSE

\* ReceivePacket may change the rate, but not the time already set.
ReceivePacket ==
    /\ pc = "ReceivePacket"
    /\ pacing_rate' \in Rates
    /\ pc' = "Main"
    /\ UNCHANGED <<now, timestamp, next_send_timestamp, send_time, delay, spent, set_rate>>

Loop == Main \/ IsTimeToSendNextPacket \/ SetNextSendTime \/ MakePacket \/ ReceivePacket

Next == Tick \/ Loop

\* Time passes, and the loop runs for as long as the program does.
Fairness == WF_vars(Tick) /\ WF_vars(Loop)

Spec == Init /\ [][Next]_vars /\ Fairness

-----------------------------------------------------------------------------
(* Properties *)

\* Every variable keeps its type.
TypeOK ==
    /\ now \in TimeTicks
    /\ timestamp \in TimeTicks
    /\ pc \in {"Main", "IsTimeToSendNextPacket", "SetNextSendTime", "MakePacket",
               "ReceivePacket", "ended"}
    /\ pacing_rate \in Rates
    /\ next_send_timestamp \in QuicTime
    /\ send_time \in TimeTicks \cup {Zero}
    /\ delay \in 0 .. MaxDelay
    /\ spent \in 0 .. PacketWork + 1
    /\ set_rate \in Rates \cup {0}

\* The strict comparison makes up for the truncated duration: between two
\* settings of the next send time more than the exact time of a packet passes,
\* at the rate in force at the first, whatever the rate has become since and
\* even when the clock starts again in between (sender.cc:66-89).
NeverFasterThanRate ==
    [][SetNextSendTime /\ set_rate > 0 => spent * set_rate > PacketWork]_vars

\* As long as the clock reads long enough past the next send time for the loop
\* to see it before it starts again, another packet is sent, unless the
\* program's time is over first (sender.cc:81-89, time.cc:712-731).
SendsAgain ==
    (next_send_timestamp + MaxDelay <= Period) ~> (pc \in {"MakePacket", "ended"})

\* As long as the clock reads long enough past the program's last instant for
\* main to see it before it starts again, the program ends
\* (sender_test.cc:42-52, time.cc:712-731).
ProgramEnds ==
    (timestamp + RunTime + 2 * MaxDelay <= Period) ~> (pc = "ended")

\* No reading of the clock is left that the loop would send at.
Stranded ==
    ~After(Period, next_send_timestamp) /\ pc \notin {"SetNextSendTime", "MakePacket"}

\* A sender whose next send time lies at or behind the clock's last reading
\* sends nothing more, for ever, although its loop runs and whatever its rate
\* becomes (sender.cc:81-89, time.cc:712-731).
StrandedForEver == [](Stranded => [](pc # "MakePacket"))

\* "QuicTime is monotonically increasing, even across system clock
\* adjustments" (quic_time.h:6).
ClockIncreases == [][now' >= now]_vars

=============================================================================
