------------------------ MODULE OveruseDetector_proofs ------------------------
(***************************************************************************)
(* Proofs about OveruseDetector: its types, with the clamp of the          *)
(* threshold, and when overuse is declared.                                *)
(***************************************************************************)
EXTENDS OveruseDetector, TLAPS

\* The trend that is compared with the threshold is a number.
LEMMA ModifiedTrendType ==
  ASSUME NEW deltas \in Nat, NEW trend \in Trends \cup {0}
  PROVE  ModifiedTrend(deltas, trend) \in Int
  <1>1. trend \in Int /\ Gain \in Int /\ Lower(deltas, MinNumDeltas) \in Int
    BY DetectorAssumption DEF Lower
  <1> DEFINE d == Lower(deltas, MinNumDeltas)
  <1>2. d * trend \in Int
    BY <1>1
  <1>3. (d * trend) * Gain \in Int
    <2> DEFINE p == d * trend
    <2>1. p \in Int
      BY <1>2
    <2> HIDE DEF p
    <2>2. p * Gain \in Int
      BY <2>1, <1>1
    <2> QED
      BY <2>2 DEF p
  <1> QED
    BY <1>3 DEF ModifiedTrend

\* Every step passes on a whole number of milliseconds.
LEMMA NextIsUpdate ==
  ASSUME Next
  PROVE  \E send_delta \in Int, wait \in Waits : UpdateTrendline(send_delta, wait)
  <1>1. PICK delta \in SendDeltas, wait \in Waits : Update(delta, wait)
    BY DEF Next
  <1>2. DeltaMs(delta) \in Int
    BY DetectorAssumption DEF DeltaMs, ToFraction, DivRoundToNearest, Quotient
  <1> QED
    BY <1>1, <1>2 DEF Update

\* UpdateThreshold leaves the threshold within its clamp.
LEMMA ThresholdClamped ==
  ASSUME NEW modified \in Int, NEW wait \in Waits,
         threshold \in MinThreshold .. MaxThreshold, first_adapted \in BOOLEAN,
         UpdateThreshold(modified, wait)
  PROVE  threshold' \in MinThreshold .. MaxThreshold /\ first_adapted' \in BOOLEAN
  <1> DEFINE k == IF Abs(modified) < threshold THEN KDown ELSE KUp
             dt == IF first_adapted THEN Lower(wait, MaxTimeDelta) ELSE 0
             distance == Abs(modified) - threshold
             step == k * distance * dt
             value == threshold + step \div 10000
  <1>1. k \in Int /\ dt \in Int /\ distance \in Int
    BY DetectorAssumption DEF Lower, Abs
  <1>2. step \in Int
    <2> HIDE DEF k, dt, distance
    <2>1. k * distance \in Int
      BY <1>1
    <2> DEFINE p == k * distance
    <2>2. p \in Int
      BY <2>1
    <2> HIDE DEF p
    <2>3. p * dt \in Int
      BY <2>2, <1>1
    <2> QED
      BY <2>3 DEF p
  <1>3. value \in Int
    <2> HIDE DEF step
    <2>1. step \div 10000 \in Int
      BY <1>2
    <2> QED
      BY <2>1, DetectorAssumption
  <1>4. SafeClamp(value, MinThreshold, MaxThreshold) \in MinThreshold .. MaxThreshold
    <2> HIDE DEF value
    <2> QED
      BY <1>3, DetectorAssumption DEF SafeClamp, Higher, Lower
  <1>5. threshold' = threshold \/ threshold' = SafeClamp(value, MinThreshold, MaxThreshold)
    BY DEF UpdateThreshold
  <1> QED
    BY <1>4, <1>5 DEF UpdateThreshold

\* What one call does to the trend and its history: nothing yet, a sample above
\* the threshold, or one that is not (Detect).
FirstPair ==
    /\ num_of_deltas' < 2
    /\ hypothesis' = "kBwNormal"
    /\ is_over' = FALSE /\ over_for' = 0 /\ forward' = TRUE
    /\ UNCHANGED <<prev_trend, time_over_using, overuse_counter, adaptVars>>

SampleAbove(trend, send_delta) ==
    /\ num_of_deltas' >= 2
    /\ Over(trend, send_delta)
    /\ is_over' = TRUE /\ over_for' = over_for + send_delta
    /\ forward' = (forward /\ send_delta >= 0)
    /\ prev_trend' = trend

SampleBelow(trend) ==
    /\ num_of_deltas' >= 2
    /\ NotOver(ModifiedTrend(num_of_deltas', trend))
    /\ is_over' = FALSE /\ over_for' = 0 /\ forward' = TRUE
    /\ prev_trend' = trend

UpdateCase(trend, send_delta, wait) ==
    /\ num_of_deltas' = Lower(num_of_deltas + 1, DeltaCounterMax)
    /\ \/ FirstPair
       \/ /\ SampleAbove(trend, send_delta)
          /\ UpdateThreshold(ModifiedTrend(num_of_deltas', trend), wait)
       \/ /\ SampleBelow(trend)
          /\ UpdateThreshold(ModifiedTrend(num_of_deltas', trend), wait)

\* Every call is one of the three cases.
LEMMA UpdateCases ==
  ASSUME TypeOK, NEW send_delta \in Int, NEW wait \in Waits,
         UpdateTrendline(send_delta, wait)
  PROVE  \E trend \in Trends \cup {0} : UpdateCase(trend, send_delta, wait)
  <1> DEFINE deltas == Lower(num_of_deltas + 1, DeltaCounterMax)
  <1>1. PICK trend \in FittedTrends :
          Detect(trend, send_delta, wait) /\ NoteSample(trend, send_delta)
    BY DEF UpdateTrendline
  <1>2. trend \in Trends \cup {0}
    BY <1>1 DEF TypeOK, FittedTrends
  <1>3. num_of_deltas' = deltas /\ deltas \in Nat
    BY DetectorAssumption DEF UpdateTrendline, TypeOK, Lower
  <1>4. ModifiedTrend(deltas, trend) \in Int /\ threshold \in Int
    BY <1>2, <1>3, ModifiedTrendType, DetectorAssumption DEF TypeOK
  <1> DEFINE modified == ModifiedTrend(deltas, trend)
  <1> HIDE DEF deltas, modified
  <1>5. ModifiedTrend(num_of_deltas', trend) = modified
    BY <1>3 DEF modified
  <1>6. CASE num_of_deltas' < 2
    <2>1. IsOver(trend) = FALSE
      BY <1>3, <1>6 DEF IsOver
    <2>2. /\ hypothesis' = "kBwNormal"
          /\ UNCHANGED <<prev_trend, time_over_using, overuse_counter, adaptVars>>
      BY <1>1, <1>3, <1>6 DEF Detect
    <2>3. is_over' = FALSE /\ over_for' = 0
      BY <1>1, <2>1 DEF NoteSample
    <2>4. forward' = TRUE
      BY <1>1, <2>1, Zenon DEF NoteSample
    <2>5. FirstPair
      BY <1>6, <2>2, <2>3, <2>4 DEF FirstPair
    <2> QED
      BY <1>2, <1>3, <2>5 DEF UpdateCase, deltas
  <1>7. CASE num_of_deltas' >= 2 /\ modified > threshold
    <2>1. IsOver(trend) = TRUE
      BY <1>5, <1>7 DEF IsOver
    <2>2. /\ Over(trend, send_delta) /\ prev_trend' = trend
          /\ UpdateThreshold(ModifiedTrend(num_of_deltas', trend), wait)
      BY <1>1, <1>3, <1>4, <1>5, <1>7 DEF Detect, modified
    <2>3. is_over' = TRUE /\ over_for' = over_for + send_delta
          /\ forward' = (forward /\ send_delta >= 0)
      BY <1>1, <2>1 DEF NoteSample
    <2> QED
      BY <1>2, <1>3, <1>7, <2>2, <2>3 DEF UpdateCase, SampleAbove, deltas
  <1>8. CASE num_of_deltas' >= 2 /\ ~(modified > threshold)
    <2>1. IsOver(trend) = FALSE
      BY <1>5, <1>8 DEF IsOver
    <2>2. /\ NotOver(ModifiedTrend(num_of_deltas', trend)) /\ prev_trend' = trend
          /\ UpdateThreshold(ModifiedTrend(num_of_deltas', trend), wait)
      BY <1>1, <1>3, <1>4, <1>5, <1>8 DEF Detect, modified
    <2>3. is_over' = FALSE /\ over_for' = 0
      BY <1>1, <2>1 DEF NoteSample
    <2>4. forward' = TRUE
      BY <1>1, <2>1, Zenon DEF NoteSample
    <2>5. SampleBelow(trend)
      BY <1>8, <2>2, <2>3, <2>4 DEF SampleBelow
    <2> QED
      BY <1>2, <1>3, <2>2, <2>5 DEF UpdateCase, deltas
  <1> QED
    BY <1>3, <1>6, <1>7, <1>8

\* A sample above the threshold keeps the type of what Detect assigns.
LEMMA OverTyped ==
  ASSUME TypeOK, NEW trend \in Trends \cup {0}, NEW send_delta \in Int,
         Over(trend, send_delta)
  PROVE  /\ time_over_using' \in Int
         /\ overuse_counter' \in Nat
         /\ hypothesis' \in {"kBwNormal", "kBwOverusing", "kBwUnderusing"}
  <1>1. TimerAfter(send_delta) \in Int
    BY DetectorAssumption DEF TypeOK, TimerAfter
  <1> QED
    BY <1>1 DEF TypeOK, Over

\* The constructor's state is well typed.
LEMMA InitTyped == Init => TypeOK
  <1> SUFFICES ASSUME Init PROVE TypeOK
    OBVIOUS
  <1>1. threshold \in MinThreshold .. MaxThreshold
    BY DetectorAssumption DEF Init
  <1>2. updates \in 0 .. MaxUpdates /\ num_of_deltas \in 0 .. DeltaCounterMax
    BY DetectorAssumption DEF Init
  <1>3. first_adapted \in BOOLEAN /\ prev_trend \in Trends \cup {0}
    BY DEF Init
  <1>4. is_over \in BOOLEAN /\ forward \in BOOLEAN
    BY DEF Init
  <1> QED
    BY <1>1, <1>2, <1>3, <1>4 DEF Init, TypeOK, Unset

\* One call keeps the types.
LEMMA UpdateTyped ==
  ASSUME TypeOK, NEW send_delta \in Int, NEW wait \in Waits,
         UpdateTrendline(send_delta, wait)
  PROVE  TypeOK'
  <1>1. PICK trend \in Trends \cup {0} : UpdateCase(trend, send_delta, wait)
    BY UpdateCases
  <1>2. updates' \in 0 .. MaxUpdates
    BY DetectorAssumption DEF UpdateTrendline, TypeOK
  <1>3. num_of_deltas' \in 0 .. DeltaCounterMax
    BY <1>1, DetectorAssumption DEF UpdateCase, TypeOK, Lower
  <1>4. ModifiedTrend(num_of_deltas', trend) \in Int
    BY <1>3, ModifiedTrendType
  <1>5. over_for' \in Int /\ prev_trend' \in Trends \cup {0}
    BY <1>1, DetectorAssumption
       DEF UpdateCase, FirstPair, SampleAbove, SampleBelow, TypeOK
  <1>6. threshold' \in MinThreshold .. MaxThreshold /\ first_adapted' \in BOOLEAN
    BY <1>1, <1>4, ThresholdClamped DEF UpdateCase, FirstPair, TypeOK, adaptVars
  <1>7. /\ time_over_using' \in Int
        /\ overuse_counter' \in Nat
        /\ hypothesis' \in {"kBwNormal", "kBwOverusing", "kBwUnderusing"}
    BY <1>1, OverTyped
       DEF UpdateCase, FirstPair, SampleAbove, SampleBelow, TypeOK, NotOver, Unset
  <1>8. is_over' \in BOOLEAN
    BY <1>1 DEF UpdateCase, FirstPair, SampleAbove, SampleBelow
  <1>9. forward' \in BOOLEAN
    BY <1>1 DEF UpdateCase, FirstPair, SampleAbove, SampleBelow
  <1> QED
    BY <1>2, <1>3, <1>5, <1>6, <1>7, <1>8, <1>9 DEF TypeOK

\* The detector keeps its types; the threshold is always within its clamp
\* (trendline_estimator.cc:265).
THEOREM DetectorTypeCorrect == Spec => []TypeOK
  <1>1. TypeOK /\ [Next]_vars => TypeOK'
    <2> SUFFICES ASSUME TypeOK, [Next]_vars PROVE TypeOK'
      OBVIOUS
    <2>1. CASE Next
      BY <2>1, NextIsUpdate, UpdateTyped
    <2>2. CASE UNCHANGED vars
      BY <2>2 DEF vars, detectVars, adaptVars, historyVars, TypeOK
    <2> QED
      BY <2>1, <2>2
  <1> QED
    BY InitTyped, <1>1, PTL DEF Spec

-----------------------------------------------------------------------------
(* When overuse is declared *)

\* Without a sample above the threshold the timer is unset.
LEMMA InitTimer == Init => TimerFollowsTrend
  BY DEF Init, TimerFollowsTrend

\* The timer after a sample above the threshold, from the invariant before it,
\* as long as sending times go forwards.
LEMMA TimerAfterBounds ==
  ASSUME TypeOK, TimerFollowsTrend, NEW send_delta \in Int,
         forward, send_delta >= 0
  PROVE  /\ TimerAfter(send_delta) \in Nat
         /\ over_for + send_delta >= 0
         /\ hypothesis # "kBwOverusing" =>
               /\ over_for + send_delta <= TimerAfter(send_delta)
               /\ TimerAfter(send_delta) <= 2 * (over_for + send_delta)
  <1>1. send_delta \in Nat
    BY DetectorAssumption
  <1>2. CASE is_over
    <2>1. /\ time_over_using \in Nat /\ over_for \in Nat
          /\ TimerAfter(send_delta) = time_over_using + 2 * send_delta
      BY <1>2 DEF TypeOK, TimerFollowsTrend, TimerAfter, Unset
    <2>2. hypothesis # "kBwOverusing" =>
             over_for <= time_over_using /\ time_over_using <= 2 * over_for
      BY <1>2 DEF TimerFollowsTrend
    <2> QED
      BY <1>1, <2>1, <2>2
  <1>3. CASE ~is_over
    <2>1. over_for = 0 /\ TimerAfter(send_delta) = send_delta
      BY <1>3 DEF TimerFollowsTrend, TimerAfter, Unset
    <2> QED
      BY <1>1, <2>1
  <1> QED
    BY <1>2, <1>3

\* One call keeps the timer with the trend: by the three cases of Detect.
LEMMA UpdateKeepsTimer ==
  ASSUME TypeOK, TimerFollowsTrend,
         NEW send_delta \in Int, NEW wait \in Waits,
         UpdateTrendline(send_delta, wait)
  PROVE  TimerFollowsTrend'
  <1>1. PICK trend \in Trends \cup {0} : UpdateCase(trend, send_delta, wait)
    BY UpdateCases
  <1>2. CASE FirstPair
    <2>1. num_of_deltas < 2
      BY <1>1, <1>2, DetectorAssumption DEF UpdateCase, FirstPair, Lower, TypeOK
    <2>2. ~is_over
      BY <2>1 DEF TimerFollowsTrend
    <2> QED
      BY <1>2, <2>2 DEF FirstPair, TimerFollowsTrend, Unset
  <1>3. CASE SampleAbove(trend, send_delta)
    <2>1. send_delta \in Int /\ num_of_deltas' >= 2
      BY <1>3, DetectorAssumption DEF SampleAbove
    <2>2. ~(num_of_deltas' < 2)
      BY <1>1, <2>1, DetectorAssumption DEF UpdateCase, TypeOK, Lower
    <2>3. forward' => forward /\ send_delta >= 0
      BY <1>3 DEF SampleAbove
    <2>4. CASE /\ time_over_using' = 0 /\ hypothesis' = "kBwOverusing"
      <3>1. forward' => over_for' >= 0 /\ time_over_using' >= 0
        BY <1>3, <2>3, <2>4, TimerAfterBounds DEF SampleAbove
      <3> QED
        BY <1>3, <2>2, <2>4, <3>1 DEF SampleAbove, TimerFollowsTrend
    <2>5. CASE /\ time_over_using' = TimerAfter(send_delta)
               /\ overuse_counter' = overuse_counter + 1
               /\ hypothesis' = hypothesis
      <3>1. forward' => over_for' >= 0 /\ time_over_using' >= 0
        BY <1>3, <2>3, <2>5, TimerAfterBounds DEF SampleAbove
      <3>2. forward' /\ hypothesis' # "kBwOverusing" =>
               over_for' <= time_over_using' /\ time_over_using' <= 2 * over_for'
        BY <1>3, <2>3, <2>5, TimerAfterBounds DEF SampleAbove
      <3>3. overuse_counter' >= 1
        BY <2>5 DEF TypeOK
      <3> QED
        BY <1>3, <2>2, <3>1, <3>2, <3>3 DEF SampleAbove, TimerFollowsTrend
    <2> QED
      BY <1>3, <2>4, <2>5 DEF SampleAbove, Over
  <1>4. CASE SampleBelow(trend)
    <2>1. hypothesis' # "kBwOverusing"
      BY <1>4 DEF SampleBelow, NotOver
    <2> QED
      BY <1>4, <2>1 DEF SampleBelow, NotOver, TimerFollowsTrend
  <1> QED
    BY <1>1, <1>2, <1>3, <1>4 DEF UpdateCase

\* The timer is unset while the trend is not above the threshold; while it is,
\* and sending times go forwards, it is the time above to within a half
\* (trendline_estimator.cc:218-245).
THEOREM TimerInvariant == Spec => [](TypeOK /\ TimerFollowsTrend)
  <1>1. Init => TypeOK /\ TimerFollowsTrend
    BY InitTyped, InitTimer
  <1>2. TypeOK /\ TimerFollowsTrend /\ [Next]_vars => TypeOK' /\ TimerFollowsTrend'
    <2> SUFFICES ASSUME TypeOK, TimerFollowsTrend, [Next]_vars
                 PROVE  TypeOK' /\ TimerFollowsTrend'
      OBVIOUS
    <2>1. CASE Next
      BY <2>1, NextIsUpdate, UpdateTyped, UpdateKeepsTimer
    <2>2. CASE UNCHANGED vars
      BY <2>2 DEF vars, detectVars, adaptVars, historyVars, TypeOK, TimerFollowsTrend
    <2> QED
      BY <2>1, <2>2
  <1> QED
    BY <1>1, <1>2, PTL DEF Spec

\* Overuse is declared only after the trend was above the threshold for two
\* samples, and did not just go down, and, unless sending times went
\* backwards, for more than overusing_time_threshold_
\* (trendline_estimator.cc:218-236).
THEOREM OveruseSustained == Spec => OveruseIsSustained
  <1>1. ASSUME TypeOK, TimerFollowsTrend, [Next]_vars, BecomesOverusing
        PROVE  /\ is_over /\ is_over'
               /\ forward' => over_for' > OveruseTime
               /\ prev_trend' >= prev_trend
    <2>1. PICK send_delta \in Int, wait \in Waits : UpdateTrendline(send_delta, wait)
      BY <1>1, NextIsUpdate DEF Next, vars, detectVars, BecomesOverusing
    <2>2. PICK trend \in Trends \cup {0} : SampleAbove(trend, send_delta)
      BY <1>1, <2>1, UpdateCases
         DEF UpdateCase, FirstPair, SampleBelow, NotOver, BecomesOverusing
    <2>3. Overused(trend, send_delta)
      BY <1>1, <2>2 DEF SampleAbove, Over, BecomesOverusing
    <2>4. is_over
      BY <1>1, <2>3 DEF Overused, TypeOK, TimerFollowsTrend
    <2>5. forward' => over_for' > OveruseTime
      <3> SUFFICES ASSUME forward' PROVE over_for' > OveruseTime
        OBVIOUS
      <3>1. forward /\ send_delta >= 0 /\ over_for' = over_for + send_delta
        BY <2>2 DEF SampleAbove
      <3>2. /\ TimerAfter(send_delta) \in Nat
            /\ TimerAfter(send_delta) <= 2 * (over_for + send_delta)
            /\ TimerAfter(send_delta) > 2 * OveruseTime
        BY <1>1, <2>3, <3>1, TimerAfterBounds DEF Overused, BecomesOverusing
      <3>3. send_delta \in Int /\ over_for \in Int /\ OveruseTime \in Int
        BY <1>1, DetectorAssumption DEF TypeOK
      <3> QED
        BY <3>1, <3>2, <3>3
    <2> QED
      BY <2>2, <2>3, <2>4, <2>5 DEF Overused, SampleAbove
  <1>2. TypeOK /\ TimerFollowsTrend /\ [Next]_vars =>
           [BecomesOverusing =>
               /\ is_over /\ is_over'
               /\ forward' => over_for' > OveruseTime
               /\ prev_trend' >= prev_trend]_vars
    BY <1>1
  <1> QED
    BY <1>2, TimerInvariant, PTL DEF Spec, OveruseIsSustained

\* Overuse is declared by the time the trend was above the threshold for two
\* samples and twice overusing_time_threshold_, unless it goes down or sending
\* times went backwards.
THEOREM OverusePrompt == Spec => OveruseIsPrompt
  <1>1. ASSUME TypeOK, TimerFollowsTrend, [Next]_vars,
               vars' # vars, is_over, is_over', forward',
               over_for' > 2 * OveruseTime, prev_trend' >= prev_trend
        PROVE  hypothesis' = "kBwOverusing"
    <2>1. PICK send_delta \in Int, wait \in Waits : UpdateTrendline(send_delta, wait)
      BY <1>1, NextIsUpdate DEF Next
    <2>2. PICK trend \in Trends \cup {0} : SampleAbove(trend, send_delta)
      BY <1>1, <2>1, UpdateCases DEF UpdateCase, FirstPair, SampleBelow
    <2>3. CASE hypothesis = "kBwOverusing"
      BY <2>2, <2>3 DEF SampleAbove, Over
    <2>4. CASE hypothesis # "kBwOverusing"
      <3>1. overuse_counter + 1 > 1
        BY <1>1, <2>4 DEF TimerFollowsTrend, TypeOK
      <3>2. forward /\ send_delta >= 0 /\ over_for' = over_for + send_delta
        BY <1>1, <2>2 DEF SampleAbove
      <3>3. TimerAfter(send_delta) > 2 * OveruseTime
        <4>1. send_delta \in Int /\ over_for \in Int /\ OveruseTime \in Int
          BY <1>1, DetectorAssumption DEF TypeOK
        <4>2. /\ TimerAfter(send_delta) \in Nat
              /\ over_for + send_delta <= TimerAfter(send_delta)
          BY <1>1, <2>4, <3>2, TimerAfterBounds
        <4> QED
          BY <1>1, <3>2, <4>1, <4>2
      <3>4. Overused(trend, send_delta)
        BY <1>1, <2>2, <3>1, <3>3 DEF Overused, SampleAbove
      <3> QED
        BY <2>2, <3>4 DEF SampleAbove, Over
    <2> QED
      BY <2>3, <2>4
  <1>2. TypeOK /\ TimerFollowsTrend /\ [Next]_vars =>
           [/\ is_over /\ is_over'
            /\ forward' /\ over_for' > 2 * OveruseTime
            /\ prev_trend' >= prev_trend
            => hypothesis' = "kBwOverusing"]_vars
    BY <1>1
  <1> QED
    BY <1>2, TimerInvariant, PTL DEF Spec, OveruseIsPrompt

=============================================================================
