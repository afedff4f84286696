--------------------------- MODULE OveruseDetector ---------------------------
(***************************************************************************)
(* The over-use detector of the receiver, class TrendlineEstimator of      *)
(* google_cc/trendline_estimator.cc: what Detect and UpdateThreshold make  *)
(* of the delay trend, from one pair of packet groups to the next.         *)
(*                                                                         *)
(* The trend, a least-squares slope over the last 20 smoothed delays, is a *)
(* parameter: any member of Trends, or the trend before, when a line       *)
(* cannot be fitted or the window is not full.  Trends and thresholds are  *)
(* in thousandths, the times of Detect in half milliseconds: the timer     *)
(* starts at half a delta (trendline_estimator.cc:223).  Products are      *)
(* rounded down where the code computes in floating point.                 *)
(*                                                                         *)
(* A send delta reaches the detector rounded to milliseconds               *)
(* (delay_based_bwe.cc:167), so it may be 0; and it may be negative when   *)
(* packets were reordered, since a group may begin before the end of the   *)
(* one before (ForwardDeltas of InterArrivalDelta).                        *)
(***************************************************************************)
EXTENDS Units

CONSTANTS
    Trends,             \* slopes, in thousandths of what one delta adds
    SendDeltas,         \* send time deltas between groups, in microseconds
    Waits,              \* ms between two calls
    Gain,               \* threshold_gain_, 4
    MinNumDeltas,       \* kMinNumDeltas, 60
    DeltaCounterMax,    \* kDeltaCounterMax, 1000
    WindowSize,         \* settings_.window_size, 20
    OveruseTime,        \* overusing_time_threshold_, 10 ms
    InitialThreshold,   \* 12.5
    MinThreshold,       \* 6
    MaxThreshold,       \* 600
    MaxAdaptOffset,     \* kMaxAdaptOffsetMs, 15
    KUp, KDown,         \* k_up_ and k_down_, in 1/10000
    MaxTimeDelta,       \* kMaxTimeDeltaMs, 100
    MaxUpdates          \* bound: calls of Update

ASSUME DetectorAssumption ==
    /\ Trends \subseteq Int /\ SendDeltas \subseteq Int /\ Waits \subseteq Nat
    /\ Gain \in Nat /\ MinNumDeltas \in Nat \ {0} /\ DeltaCounterMax \in Nat \ {0}
    /\ WindowSize \in Nat \ {0} /\ OveruseTime \in Nat
    /\ InitialThreshold \in Nat /\ MinThreshold \in Nat /\ MaxThreshold \in Nat
    /\ MinThreshold <= InitialThreshold /\ InitialThreshold <= MaxThreshold
    /\ MaxAdaptOffset \in Nat /\ KUp \in Nat /\ KDown \in Nat
    /\ MaxTimeDelta \in Nat /\ MaxUpdates \in Nat

VARIABLES
    updates,            \* calls of Update with deltas
    num_of_deltas,      \* num_of_deltas_
    prev_trend,         \* prev_trend_
    threshold,          \* threshold_
    first_adapted,      \* last_update_ms_ is not -1
    time_over_using,    \* time_over_using_ in half ms, or Unset
    overuse_counter,    \* overuse_counter_
    hypothesis,         \* hypothesis_
    is_over,            \* history: the last sample was above the threshold
    over_for,           \* history: ms of deltas since the trend went above it
    forward             \* history: none of these deltas was negative

detectVars == <<num_of_deltas, prev_trend, time_over_using, overuse_counter, hypothesis>>
adaptVars == <<threshold, first_adapted>>
historyVars == <<is_over, over_for, forward>>
vars == <<updates, detectVars, adaptVars, historyVars>>

\* time_over_using_ = -1, which a first delta of -2 ms gives as well.
Unset == -2

Abs(n) == IF n < 0 THEN -n ELSE n

-----------------------------------------------------------------------------

ModifiedTrend(deltas, trend) == Lower(deltas, MinNumDeltas) * trend * Gain

\* The timer once a trend is above the threshold.
TimerAfter(send_delta) ==
    IF time_over_using = Unset THEN send_delta ELSE time_over_using + 2 * send_delta

\* Mutant: one sample is enough.
Overused_AtOnce(trend, send_delta) ==
    TimerAfter(send_delta) > 2 * OveruseTime /\ trend >= prev_trend

\* Mutant: three samples are needed.
Overused_Late(trend, send_delta) ==
    /\ TimerAfter(send_delta) > 2 * OveruseTime
    /\ overuse_counter > 1
    /\ trend >= prev_trend

\* Overuse is declared: the trend has been over the threshold long enough and
\* for more than one sample, and does not go down.
Overused(trend, send_delta) ==
    /\ TimerAfter(send_delta) > 2 * OveruseTime
    /\ overuse_counter + 1 > 1
    /\ trend >= prev_trend

\* rtc::SafeClamp.
SafeClamp(value, min, max) == Higher(min, Lower(value, max))

\* UpdateThreshold, `wait' after the call before.  A trend far above the
\* threshold does not adapt it.
UpdateThreshold(modified, wait) ==
    LET k == IF Abs(modified) < threshold THEN KDown ELSE KUp
        dt == IF first_adapted THEN Lower(wait, MaxTimeDelta) ELSE 0
    IN  /\ first_adapted' = TRUE
        /\ threshold' = IF Abs(modified) > threshold + MaxAdaptOffset
                        THEN threshold
                        ELSE SafeClamp(threshold
                                         + (k * (Abs(modified) - threshold) * dt) \div 10000,
                                       MinThreshold, MaxThreshold)

\* Mutant: the timer goes on from where it was.
NotOver_KeepsTimer(modified) ==
    /\ overuse_counter' = 0
    /\ hypothesis' = IF modified < -threshold THEN "kBwUnderusing" ELSE "kBwNormal"
    /\ UNCHANGED time_over_using

\* The trend is not above the threshold.
NotOver(modified) ==
    /\ time_over_using' = Unset
    /\ overuse_counter' = 0
    /\ hypothesis' = IF modified < -threshold THEN "kBwUnderusing" ELSE "kBwNormal"

\* The trend is above the threshold.  Until overuse is declared the
\* hypothesis stays what it was, and so it does afterwards.
Over(trend, send_delta) ==
    \/ /\ Overused(trend, send_delta)
       /\ time_over_using' = 0
       /\ overuse_counter' = 0
       /\ hypothesis' = "kBwOverusing"
    \/ /\ ~Overused(trend, send_delta)
       /\ time_over_using' = TimerAfter(send_delta)
       /\ overuse_counter' = overuse_counter + 1
       /\ UNCHANGED hypothesis

\* Detect.  The first pair of groups says nothing.
Detect(trend, send_delta, wait) ==
    LET modified == ModifiedTrend(num_of_deltas', trend)
    IN  \/ /\ num_of_deltas' < 2
           /\ hypothesis' = "kBwNormal"
           /\ UNCHANGED <<prev_trend, time_over_using, overuse_counter, adaptVars>>
        \/ /\ num_of_deltas' >= 2
           /\ modified > threshold
           /\ Over(trend, send_delta)
           /\ prev_trend' = trend
           /\ UpdateThreshold(modified, wait)
        \/ /\ num_of_deltas' >= 2
           /\ modified <= threshold
           /\ NotOver(modified)
           /\ prev_trend' = trend
           /\ UpdateThreshold(modified, wait)

\* The trends LinearFitSlope may find; without a fit the one before is kept.
FittedTrends == {prev_trend} \cup (IF updates' >= WindowSize THEN Trends ELSE {})

IsOver(trend) ==
    num_of_deltas' >= 2 /\ ModifiedTrend(num_of_deltas', trend) > threshold

NoteSample(trend, send_delta) ==
    /\ is_over' = IsOver(trend)
    /\ over_for' = IF IsOver(trend) THEN over_for + send_delta ELSE 0
    /\ forward' = (IsOver(trend) => forward /\ send_delta >= 0)

\* UpdateTrendline.  The window holds as many delays as there were deltas, up
\* to WindowSize; before it is full the trend stays 0.
UpdateTrendline(send_delta, wait) ==
    /\ updates < MaxUpdates
    /\ updates' = updates + 1
    /\ num_of_deltas' = Lower(num_of_deltas + 1, DeltaCounterMax)
    /\ \E trend \in FittedTrends :
          /\ Detect(trend, send_delta, wait)
          /\ NoteSample(trend, send_delta)

Init ==
    /\ updates = 0
    /\ num_of_deltas = 0
    /\ prev_trend = 0
    /\ threshold = InitialThreshold
    /\ first_adapted = FALSE
    /\ time_over_using = Unset
    /\ overuse_counter = 0
    /\ hypothesis = "kBwNormal"
    /\ is_over = FALSE
    /\ over_for = 0
    /\ forward = TRUE

\* Update, called with the delta in milliseconds.
Update(send_delta, wait) == UpdateTrendline(DeltaMs(send_delta), wait)

Next == \E send_delta \in SendDeltas, wait \in Waits : Update(send_delta, wait)

Spec == Init /\ [][Next]_vars

-----------------------------------------------------------------------------
(* Properties *)

\* Every variable keeps its type; the threshold stays within its clamp
\* (trendline_estimator.cc:265).
TypeOK ==
    /\ updates \in 0 .. MaxUpdates
    /\ num_of_deltas \in 0 .. DeltaCounterMax
    /\ prev_trend \in Trends \cup {0}
    /\ threshold \in MinThreshold .. MaxThreshold
    /\ first_adapted \in BOOLEAN
    /\ time_over_using \in Int
    /\ overuse_counter \in Nat
    /\ hypothesis \in {"kBwNormal", "kBwOverusing", "kBwUnderusing"}
    /\ is_over \in BOOLEAN
    /\ over_for \in Int
    /\ forward \in BOOLEAN

\* The timer is unset, and nothing is left of an earlier over-use, when the trend
\* is not above the threshold.  While it is, and sending times go forwards, the
\* timer runs, and until overuse is declared it is short of the time above by at
\* most half of it (trendline_estimator.cc:218-245).
TimerFollowsTrend ==
    /\ num_of_deltas < 2 => ~is_over
    /\ ~is_over =>
          /\ time_over_using = Unset /\ overuse_counter = 0
          /\ over_for = 0 /\ forward
          /\ hypothesis # "kBwOverusing"
    /\ is_over /\ hypothesis # "kBwOverusing" => overuse_counter >= 1
    /\ is_over /\ forward => over_for >= 0 /\ time_over_using >= 0
    /\ is_over /\ forward /\ hypothesis # "kBwOverusing" =>
          over_for <= time_over_using /\ time_over_using <= 2 * over_for

BecomesOverusing == hypothesis # "kBwOverusing" /\ hypothesis' = "kBwOverusing"

\* Overuse is declared only after the trend has been above the threshold
\* without a break, for two samples at least, and has not just gone down; and,
\* unless sending times went backwards, for more than overusing_time_threshold_
\* of sending time (trendline_estimator.cc:218-236).
OveruseIsSustained ==
    [][BecomesOverusing =>
          /\ is_over /\ is_over'
          /\ forward' => over_for' > OveruseTime
          /\ prev_trend' >= prev_trend]_vars

\* It is declared in time: when the trend has been above the threshold for two
\* samples and twice overusing_time_threshold_, the half of the first delta that
\* the timer leaves out included, and does not go down, the state is overusing,
\* whatever the threshold did meanwhile, unless sending times went backwards
\* (trendline_estimator.cc:218-236).
OveruseIsPrompt ==
    [][/\ is_over /\ is_over'
       /\ forward' /\ over_for' > 2 * OveruseTime
       /\ prev_trend' >= prev_trend
       => hypothesis' = "kBwOverusing"]_vars

=============================================================================
