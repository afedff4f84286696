-------------------------- MODULE RateWindow_proofs --------------------------
(***************************************************************************)
(* Proofs about RateWindow: a sample is never zero, and no time is used    *)
(* for two samples.                                                        *)
(***************************************************************************)
EXTENDS RateWindow, TLAPS

\* What is left of some time after whole windows are taken out.
LEMMA RemainderBounds ==
  ASSUME NEW t \in Nat, NEW w \in Nat \ {0}
  PROVE  t % w \in Nat /\ t % w < w /\ t % w <= t
  OBVIOUS

\* The window in force is never empty.
LEMMA LengthType ==
  ASSUME TypeOK
  PROVE  RateWindowLength \in Nat \ {0}
  BY WindowAssumption DEF TypeOK, RateWindowLength

\* The time accounted for at a call: no more than what has passed, and less than
\* a window before the first packet, after a stall and when the clock restarted.
LEMMA ElapsedBounds ==
  ASSUME TypeOK, SumFollowsPackets
  PROVE  /\ Elapsed \in Nat
         /\ Restarted \/ prev_time = Unset => Elapsed = 0
         /\ prev_time # Unset /\ ~Restarted => Elapsed <= current_window + (now - prev_time)
         /\ Stalled => Elapsed < RateWindowLength
  <1>1. RateWindowLength \in Nat \ {0}
    BY LengthType
  <1>2. CASE prev_time = Unset \/ Restarted
    BY <1>1, <1>2, WindowAssumption
       DEF TypeOK, SumFollowsPackets, Elapsed, Restarted, Stalled, Unset
  <1>3. CASE prev_time # Unset /\ ~Restarted /\ ~Stalled
    BY <1>3, WindowAssumption DEF TypeOK, Elapsed, Restarted, Unset
  <1>4. CASE prev_time # Unset /\ ~Restarted /\ Stalled
    <2> DEFINE t == current_window + now - prev_time
    <2>1. t \in Nat /\ t = current_window + (now - prev_time)
      BY <1>4, WindowAssumption DEF TypeOK, Restarted, Unset
    <2>2. Elapsed = t % RateWindowLength
      BY <1>4 DEF Elapsed
    <2> HIDE DEF t
    <2> QED
      BY <1>1, <1>4, <2>1, <2>2, RemainderBounds
  <1> QED
    BY <1>2, <1>3, <1>4

\* A call that takes no sample leaves less than a window of time.
LEMMA UpdateTyped ==
  ASSUME TypeOK, SumFollowsPackets, Update
  PROVE  TypeOK'
  <1>1. /\ RateWindowLength \in Nat \ {0} /\ RateWindowLength <= InitialWindow
        /\ InitialWindow \in Nat
    BY LengthType, WindowAssumption DEF RateWindowLength
  <1>2. now' \in 0 .. MaxTime /\ arrived' \in 0 .. MaxPackets
    BY WindowAssumption DEF Update, TypeOK
  <1>3. prev_time' \in {Unset} \cup 0 .. MaxTime /\ lasted' \in Nat
    BY WindowAssumption DEF Update, TypeOK, Restarted, Unset
  <1>4. sum' \in 0 .. arrived'
    BY WindowAssumption DEF Update, AfterSample, TypeOK
  <1>5. current_window' \in 0 .. InitialWindow
    <2>1. CASE Elapsed < RateWindowLength /\ current_window' = Elapsed
      BY <1>1, <2>1, ElapsedBounds
    <2>2. CASE Elapsed >= RateWindowLength /\ current_window' = Elapsed - RateWindowLength
      <3>1. prev_time # Unset /\ ~Restarted /\ ~Stalled
        BY <1>1, <2>2, ElapsedBounds
      <3>2. now - prev_time <= RateWindowLength /\ now - prev_time \in Nat
        BY <1>1, <3>1, WindowAssumption DEF Stalled, Restarted, TypeOK, Unset
      <3> QED
        BY <1>1, <2>2, <3>1, <3>2, ElapsedBounds, WindowAssumption DEF TypeOK
    <2> QED
      BY <2>1, <2>2 DEF Update, Remaining
  <1>6. /\ has_estimate' \in BOOLEAN /\ samples' \in Nat
        /\ has_estimate' <=> samples' > 0
    <2>1. CASE UNCHANGED <<has_estimate, samples>>
      BY <2>1 DEF TypeOK
    <2>2. CASE has_estimate' = TRUE /\ samples' = samples + 1
      BY <2>2 DEF TypeOK
    <2> QED
      BY <2>1, <2>2 DEF Update
  <1> QED
    BY <1>2, <1>3, <1>4, <1>5, <1>6 DEF TypeOK

\* A sample is taken only when nothing was dropped, so it counts a packet.
LEMMA UpdateCountsPackets ==
  ASSUME TypeOK, SumFollowsPackets, Update
  PROVE  SumFollowsPackets' /\ SampleNeverZero'
  <1>1. prev_time' # Unset /\ sum' > 0
    BY WindowAssumption DEF Update, AfterSample, TypeOK, Unset
  <1>2. CASE sample' = NoSample
    BY <1>1, <1>2 DEF SumFollowsPackets, SampleNeverZero, NoSample
  <1>3. CASE Elapsed >= RateWindowLength
    <2>1. prev_time # Unset /\ ~Restarted /\ ~Stalled
      BY <1>3, ElapsedBounds, LengthType
    <2>2. (IF Kept THEN sum ELSE 0) > 0
      BY <2>1 DEF Kept, SumFollowsPackets
    <2>3. sample' = NoSample \/ sample'.sum > 0
      BY <2>2 DEF Update
    <2> QED
      BY <1>1, <2>3 DEF SumFollowsPackets, SampleNeverZero, NoSample
  <1> QED
    BY <1>2, <1>3 DEF Update

\* The arguments of SamplesTakeTime from the first packet on.
TimeAccounted ==
    prev_time # Unset =>
        current_window + (IF samples = 0 THEN 0 ELSE InitialWindow + (samples - 1) * Window)
            <= lasted

\* A call accounts for no more time than has passed since the one before.
LEMMA UpdateAccounts ==
  ASSUME TypeOK, SumFollowsPackets, TimeAccounted, Update
  PROVE  TimeAccounted'
  <1> DEFINE used == IF samples = 0 THEN 0 ELSE InitialWindow + (samples - 1) * Window
  <1>1. /\ RateWindowLength \in Nat \ {0} /\ InitialWindow \in Nat /\ Window \in Nat
        /\ samples \in Nat
    BY LengthType, WindowAssumption DEF TypeOK
  <1>2. used \in Int
    <2>1. (samples - 1) * Window \in Int
      BY <1>1
    <2> QED
      BY <1>1, <2>1
  <1>3. Elapsed \in Nat /\ now \in Nat /\ prev_time' = now
    BY ElapsedBounds, WindowAssumption DEF Update, TypeOK
  <1>4. Elapsed + used <= lasted'
    <2>1. CASE prev_time = Unset
      <3>1. Elapsed = 0 /\ samples = 0 /\ lasted' = lasted
        BY <2>1, <1>1, ElapsedBounds DEF SumFollowsPackets, TypeOK, Update
      <3> QED
        BY <3>1 DEF TypeOK
    <2>2. CASE prev_time # Unset
      <3>1. current_window + used <= lasted /\ current_window \in Nat /\ lasted \in Nat
        BY <2>2, WindowAssumption DEF TimeAccounted, TypeOK
      <3> HIDE DEF used
      <3>2. CASE Restarted
        <4>1. Elapsed = 0 /\ lasted' = lasted
          BY <3>2, ElapsedBounds DEF Update
        <4> QED
          BY <3>1, <4>1, <1>2
      <3>3. CASE ~Restarted
        <4>1. lasted' = lasted + (now - prev_time) /\ now - prev_time \in Int
          BY <2>2, <3>3, WindowAssumption DEF Update, TypeOK, Unset
        <4> QED
          BY <2>2, <3>1, <3>3, <4>1, <1>2, <1>3, ElapsedBounds
      <3> QED
        BY <3>2, <3>3
    <2> QED
      BY <2>1, <2>2
  <1>5. CASE current_window' = Elapsed /\ samples' = samples
    BY <1>3, <1>4, <1>5 DEF TimeAccounted
  <1>6. CASE current_window' = Elapsed - RateWindowLength /\ samples' = samples + 1
    <2>1. InitialWindow + (samples' - 1) * Window = used + RateWindowLength
      <3>1. CASE samples = 0
        BY <1>1, <1>6, <3>1 DEF RateWindowLength, TypeOK
      <3>2. CASE samples # 0
        <4>1. RateWindowLength = Window
          BY <1>1, <3>2 DEF RateWindowLength, TypeOK
        <4>2. samples * Window = (samples - 1) * Window + Window
          BY <1>1
        <4>3. samples' - 1 = samples
          BY <1>1, <1>6
        <4>4. (samples - 1) * Window \in Int /\ samples * Window \in Int
          BY <1>1
        <4>5. used = InitialWindow + (samples - 1) * Window
          BY <3>2
        <4> QED
          BY <1>1, <4>1, <4>2, <4>3, <4>4, <4>5
      <3> QED
        BY <3>1, <3>2
    <2>2. samples' # 0
      BY <1>1, <1>6
    <2>3. lasted' \in Int
      BY UpdateTyped, WindowAssumption DEF TypeOK
    <2> HIDE DEF used
    <2>4. current_window' + (used + RateWindowLength) <= lasted'
      <3>1. /\ Elapsed \in Int /\ RateWindowLength \in Int /\ used \in Int
            /\ lasted' \in Int
        BY <1>1, <1>2, <1>3, <2>3
      <3>2. (Elapsed - RateWindowLength) + (used + RateWindowLength) = Elapsed + used
        BY <3>1
      <3> QED
        BY <1>3, <1>4, <1>6, <3>2
    <2> QED
      BY <2>1, <2>2, <2>4 DEF TimeAccounted
  <1> QED
    BY <1>5, <1>6 DEF Update, Remaining

\* The three invariants together.
WindowInv == TypeOK /\ SumFollowsPackets /\ SampleNeverZero /\ TimeAccounted

LEMMA WindowInvariant == Spec => []WindowInv
  <1>1. Init => WindowInv
    <2> SUFFICES ASSUME Init PROVE WindowInv
      OBVIOUS
    <2>1. TypeOK
      <3>1. now \in 0 .. MaxTime /\ arrived \in 0 .. MaxPackets /\ sum \in 0 .. arrived
        BY WindowAssumption DEF Init
      <3>2. current_window \in 0 .. InitialWindow /\ samples \in Nat /\ ~(samples > 0)
        BY WindowAssumption DEF Init
      <3> QED
        BY <3>1, <3>2 DEF Init, TypeOK
    <2>2. SumFollowsPackets /\ SampleNeverZero /\ TimeAccounted
      BY DEF Init, SumFollowsPackets, SampleNeverZero, TimeAccounted, NoSample, Unset
    <2> QED
      BY <2>1, <2>2 DEF WindowInv
  <1>2. WindowInv /\ [Next]_vars => WindowInv'
    <2> SUFFICES ASSUME WindowInv, [Next]_vars PROVE WindowInv'
      OBVIOUS
    <2> USE DEF WindowInv
    <2>1. CASE Update
      BY <2>1, UpdateTyped, UpdateCountsPackets, UpdateAccounts
    <2>2. CASE Tick
      BY <2>2, WindowAssumption
         DEF Tick, bitrateVars, historyVars, TypeOK, SumFollowsPackets, SampleNeverZero,
             TimeAccounted, Unset
    <2>3. CASE UNCHANGED vars
      BY <2>3
         DEF vars, bitrateVars, historyVars, TypeOK, SumFollowsPackets, SampleNeverZero,
             TimeAccounted
    <2> QED
      BY <2>1, <2>2, <2>3 DEF Next
  <1> QED
    BY <1>1, <1>2, PTL DEF Spec

\* The estimator keeps its types.
THEOREM WindowTypeCorrect == Spec => []TypeOK
  BY WindowInvariant, PTL DEF WindowInv

\* A sample is never zero, so that the estimate is always a number
\* (bitrate_estimator.cc:80-84, 112-127).
THEOREM SamplesNotZero == Spec => []SampleNeverZero
  BY WindowInvariant, PTL DEF WindowInv

\* No time is used for two samples (bitrate_estimator.cc:113-125).
THEOREM SamplesShareNoTime == Spec => []SamplesTakeTime
  <1>1. WindowInv => SamplesTakeTime
    <2> SUFFICES ASSUME WindowInv, samples > 0
                 PROVE  InitialWindow + (samples - 1) * Window + current_window <= lasted
      BY DEF SamplesTakeTime
    <2>1. prev_time # Unset /\ samples # 0
      BY DEF WindowInv, SumFollowsPackets, TypeOK
    <2>2. current_window + (InitialWindow + (samples - 1) * Window) <= lasted
      BY <2>1 DEF WindowInv, TimeAccounted
    <2>3. current_window \in Int /\ InitialWindow \in Int /\ (samples - 1) * Window \in Int
      BY WindowAssumption DEF WindowInv, TypeOK
    <2> QED
      BY <2>2, <2>3
  <1> QED
    BY <1>1, WindowInvariant, PTL

-----------------------------------------------------------------------------
(* A sample fits its window *)

\* The packets in the sum arrived within the time accounted for.  When more than
\* a window is left over, the sum has only just begun.
CountedFits ==
    \A p \in counted :
        /\ p.at \in Nat /\ p.at <= prev_time
        /\ prev_time - p.at <= current_window
        /\ current_window < RateWindowLength \/ p.at = prev_time

\* A call without a sample keeps the packets within the time, as Elapsed grows by
\* what the packets age.
LEMMA WithoutSample ==
  ASSUME TypeOK, SumFollowsPackets, CountedFits, Update, Elapsed < RateWindowLength
  PROVE  CountedFits'
  <1>1. /\ prev_time' = now /\ current_window' = Elapsed
        /\ RateWindowLength' = RateWindowLength
        /\ counted' = (IF Kept THEN counted ELSE {}) \cup {[seq |-> arrived + 1, at |-> now]}
    BY LengthType, ElapsedBounds DEF Update, RateWindowLength
  <1>2. now \in Nat /\ Elapsed \in Nat /\ current_window \in Nat
    BY ElapsedBounds, WindowAssumption DEF TypeOK
  <1> SUFFICES ASSUME NEW p \in counted'
               PROVE  /\ p.at \in Nat /\ p.at <= now
                      /\ now - p.at <= Elapsed
    BY <1>1 DEF CountedFits
  <1>3. CASE p = [seq |-> arrived + 1, at |-> now]
    BY <1>2, <1>3
  <1>4. CASE Kept /\ p \in counted
    <2>1. p.at \in Nat /\ p.at <= prev_time /\ prev_time - p.at <= current_window
      BY <1>4 DEF CountedFits
    <2>2. ~Restarted /\ ~Stalled
      BY <1>4 DEF Kept
    <2>3. CASE prev_time = Unset
      BY <2>1, <2>3 DEF Unset
    <2>4. CASE prev_time # Unset
      <3>1. prev_time \in Nat /\ prev_time <= now
        BY <1>2, <2>2, <2>4, WindowAssumption DEF TypeOK, Restarted, Unset
      <3>2. Elapsed = current_window + now - prev_time
        BY <2>2, <2>4 DEF Elapsed
      <3> QED
        BY <1>2, <2>1, <3>1, <3>2
    <2> QED
      BY <2>3, <2>4
  <1> QED
    BY <1>1, <1>3, <1>4

\* The packets of a sample arrived within less than its window.
LEMMA WithSample ==
  ASSUME TypeOK, SumFollowsPackets, CountedFits, Update, Elapsed >= RateWindowLength
  PROVE  SampleFitsWindow' /\ CountedFits'
  <1>1. RateWindowLength \in Nat \ {0} /\ Elapsed \in Nat /\ now \in Nat
    BY LengthType, ElapsedBounds, WindowAssumption DEF TypeOK
  <1>2. /\ counted' = {[seq |-> arrived + 1, at |-> now]} /\ prev_time' = now
        /\ current_window' = Elapsed - RateWindowLength
        /\ sample'.packets = (IF Kept THEN counted ELSE {})
        /\ sample'.window = RateWindowLength
    BY <1>1 DEF Update, AfterSample, Remaining
  <1>3. CountedFits'
    BY <1>1, <1>2 DEF CountedFits
  <1>4. ASSUME NEW p \in counted, NEW q \in counted
        PROVE  p.at - q.at < RateWindowLength
    <2>1. /\ p.at \in Nat /\ p.at <= prev_time
          /\ q.at \in Nat /\ q.at <= prev_time /\ prev_time - q.at <= current_window
          /\ current_window < RateWindowLength \/ q.at = prev_time
      BY DEF CountedFits
    <2>2. prev_time \in Int /\ current_window \in Nat
      BY WindowAssumption DEF TypeOK, Unset
    <2> QED
      BY <1>1, <2>1, <2>2
  <1>5. SampleFitsWindow'
    BY <1>2, <1>4 DEF SampleFitsWindow
  <1> QED
    BY <1>3, <1>5

\* No throughput is measured too high, stalls and restarts of the clock included
\* (bitrate_estimator.cc:107-127).
THEOREM SamplesFit == Spec => []SampleFitsWindow
  <1>1. Init => CountedFits /\ SampleFitsWindow
    BY DEF Init, CountedFits, SampleFitsWindow, NoSample
  <1>2. WindowInv /\ CountedFits /\ SampleFitsWindow /\ [Next]_vars
          => CountedFits' /\ SampleFitsWindow'
    <2> SUFFICES ASSUME WindowInv, CountedFits, SampleFitsWindow, [Next]_vars
                 PROVE  CountedFits' /\ SampleFitsWindow'
      OBVIOUS
    <2> USE DEF WindowInv
    <2>1. CASE Update
      <3>1. CASE Elapsed >= RateWindowLength
        BY <2>1, <3>1, WithSample
      <3>2. CASE Elapsed < RateWindowLength
        <4>1. sample' = NoSample
          BY <2>1, <3>2, LengthType, ElapsedBounds DEF Update
        <4> QED
          BY <2>1, <3>2, <4>1, WithoutSample DEF SampleFitsWindow, NoSample
      <3> QED
        BY <3>1, <3>2, LengthType, ElapsedBounds
    <2>2. CASE Tick \/ UNCHANGED vars
      BY <2>2
         DEF Tick, vars, bitrateVars, historyVars, CountedFits, SampleFitsWindow,
             RateWindowLength
    <2> QED
      BY <2>1, <2>2 DEF Next
  <1> QED
    BY <1>1, <1>2, WindowInvariant, PTL DEF Spec

=============================================================================
