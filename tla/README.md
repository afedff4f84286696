# GCC-chrome in TLA+

GCC-chrome is Google Congestion Control taken out of WebRTC and put into two
UDP programs. The *sender* sends numbered data packets at a pacing rate; the
*receiver* estimates the bandwidth from their arrival times (delay-based) and
counts losses, and answers with REMB packets (an estimate) and RR packets (a
loss report); the sender sets its rate from both. Both programs are
single-threaded loops. What is hard is what happens between them: datagrams
lost, reordered or late, timers that are only looked at when a packet arrives,
estimates cached on both sides, a clock that starts again, and thresholds whose
boundaries decide stability. All paths below are relative to
`src/chrome_gcc/src/`.

## 1. Inventory

| Component | State | Operations | What makes it correct |
|---|---|---|---|
| `ReceiverLossCollection` (`google_cc/receiver_loss_collection.cc`) | in-effect vector, wait vector, smoothed delay | one data packet at a time: mark, open, extend, swap, report | its five assertions hold; every delivered packet is in exactly one report; reports are exact and on time |
| `SendSideBandwidthEstimation` (`google_cc/send_side_bandwidth_estimation.cc`) | target, receiver limit, history of minima, accumulated losses, decrease timer | a loss report, a REMB, a round-trip time, new limits, a new starting rate | loss fraction exact; increase of 8% over the recent minimum; one decrease per interval; the target within the limits |
| `GoogCcNetworkController` (`google_cc/goog_cc_network_control.cc`) | the estimators, what was published last | the handlers of its interface, `GetNetworkState` | both estimators get the same limits; the caller knows the rates |
| `DelayBasedBwe` (`google_cc/delay_based_bwe.cc`) | detectors, last packet, rate control | one packet: timeout, detector, update; constraints; round-trip time | overuse lowers the estimate, once per interval as long as it lasts |
| `AimdRateControl`, `LinkCapacityEstimator` | bitrate, state, change and decrease times, link capacity | `Update`, `TimeToReduceFurther`, `SetEstimate`, setters | overuse never raises the rate; growth follows the throughput |
| `InterArrivalDelta` | current and previous packet group | `ComputeDeltas` | deltas compare the two last groups, never across a restart of the clock; groups forgotten only after a hold-up or a restart |
| `TrendlineEstimator` | delay history, adaptive threshold, overuse timer | `Update`, `Detect`, `UpdateThreshold` | overuse only when sustained, and then in time |
| `BitrateEstimator`, `AcknowledgedBitrateEstimator` | rate window, estimate, variance | `Update` | samples never zero, never too high, no time used twice |
| sender program (`sender.cc`, `sender_test.cc`) | pacing rate, next send time, packet number | main's loop: `SendPacket`, `ReceivePacket` | sends again; never faster than its rate, nor its rate than the limit it got |
| receiver program (`receiver.cc`, `receiver_test.cc`) | last REMB rate, the two estimators | `ReceivePacket` and the replies | the sender learns every estimate that matters |
| packets (`packet/`, `common/utils.cc`) | packet counter | make, serialise, parse | what is read is what was written, if it fits its field |
| units, clocks (`common/`, `time/`, `quic/`) | the clock | arithmetic with infinities, rounding, `Now` | time goes forwards |
| `optional`, Chromium time, safe conversions, glog; scripts | - | - | support code |

They interact by calls within a program (`Receiver::OnDataPacketReceived` calls
the controller, then the loss collection, and sends a REMB or an RR for what
they return; `Sender::ReceivePacket` takes one packet, calls the controller and
copies its target into the pacing rate) and by datagrams between programs.
Nothing is shared between threads and nothing is persisted, so interleaving
means the order of packets, losses and clock ticks, and a restart is that of the
clock. The hazards are listed at their lines in `PROJECT.json`.

## 2. Modules

| Module | Models | Composition |
|---|---|---|
| `Units` | sums, rounding and infinities of the value types | extended by the estimators |
| `Clock` | `TimeTicks::Now` with its restart, `QuicTime` | extended by `Pacing` |
| `WireFormat` | the three packets, their fixed-width fields, makers and parsers | extended by `RateFeedback` |
| `LossCollection` | `ReceiverLossCollection`, one action per call | variables of one object; no environment |
| `LossPath` | sender's numbering, lossy path, clocks, delivery | extends `LossCollection`; `Next` is closed |
| `LossAccounting` | what loss accounting promises (abstract) | implemented by `LossPath` when `InOrder` |
| `RateLimits` | what the sender's controller promises the program (abstract) | implemented by `NetworkController`, used by `RateFeedback` |
| `SendSideBwe` | `SendSideBandwidthEstimation`, one action per method | extended by `NetworkController` |
| `AimdRateControl` | rate control and link capacity as operators on a record | instance in `NetworkController`, extended by `DelayBasedBwe` |
| `NetworkController` | the sender's controller: every handler, publication, query | `SendSideBwe` and `AimdRateControl` together |
| `RateFeedback` | the two programs around the rate, and the path | `RateLimits` for the controller, `WireFormat` for the packets |
| `Pacing` | main's loop on its clock, reading by reading | the timer that `RateFeedback` reduces to a Boolean |
| `DelayBasedBwe` | the delay-based estimate, packet by packet | closed over detector state and throughput |
| `InterArrivalDelta` | packet groups, with the path, both hosts' clocks and the receiver's two readings | closed; its deltas are what `OveruseDetector` takes |
| `OveruseDetector` | `Update`, `Detect` and `UpdateThreshold` of `TrendlineEstimator` | closed over the trend |
| `RateWindow` | when `BitrateEstimator` takes a sample, and of what | closed over arrivals |
| `*_proofs` | theorems about the module they name | |
| `MC*` | values of the constants for TLC | |

State and actions correspond to the code as follows.

*Units.* A value is its integer, and the two ends of the 64-bit range are the
infinities, as in `RelativeUnit`; `Plus` and `Minus` let an infinite operand
decide. What would overflow is undefined in the code and outside the range in
the model. A factor that is a double is a fraction, rounded as the code rounds.

*Packets.* A datagram is the tuple of its fields. A number too wide for its
field is written as zero (`utils.cc:12-19`), which the reader takes for a legal
value: a bandwidth of zero means no limit.

*Loss accounting.* The two `ReceiveVector`s and the pointers to them become the
variables `in_effect` and `wait`; `OnReceiveDurationEnd`, which swaps the
pointers, exchanges them. A failed assertion is a value of `status` (the
Makefiles never define `NDEBUG`, so it aborts), and so is a write beyond a
vector. `OnLatePacket` and `OnTimelyPacket` are the two branches of
`OnTransportPacketFeedback`, in the code's order of marking and reporting. The
member `state` of a vector is written and never read, and is left out.
`smooth_rtt_` is an integer smoothed by eighths, as `TimeDelta` rounds it; the
clocks of the two hosts differ by `ClockOffset`.

*The sender's controller.* The actions of `NetworkController` are the handlers;
each names the method of `SendSideBwe` it calls, the methods of the delay-based
rate control (a record, each method an operator from record to record), and
`Publish`, which is `MaybeTriggerOnNetworkChanged`. Handlers that change nothing
(`OnStreamsConfig`, `OnProcessInterval` and the like) are stuttering steps.
Rates are in bits per second with the code's rounding. The history of minima is
the deque, its two pruning loops one filter, which is the same because times and
rates increase from front to back. `Config` is the constructor's record of
optional values; `ProgramConfig` is the one both programs give, which has no
starting rate, so that `last_published` starts with an arbitrary one
(`UnsetRates`). `announced`, `used`, `reported` and `unapplied` are history
variables.

*The two programs.* `pc` says which call the sender's loop makes next. A
program runs, has ended (main's time is over), or is paused: a `sendto` or
`bind` that fails leads to `pause_at_func`, which never returns. `Replies` are
the packets one data packet makes the receiver send; a failing `sendto` may cut
them after any prefix, with `last_remb_rate_` recorded exactly when the code has
recorded it: before the send for the first rate, after it for later ones. The
sender's controller is `RateLimits`, which `NetworkController` is shown to
implement; the receiver's estimate is any of `Estimates`. A feedback packet may be
lost or taken out of turn. `estimate` and `newest_safe` are history variables: the
second says that the newest REMB was not lost and has not overtaken another one in
flight; the next REMB makes it true again. `DebugState` is what
the sender logs after each packet.

*Pacing.* For a packet the clock is read four times: by main's condition, by
`IsTimeToSendNextPacket`, by `SetNextSendTime` and for the packet's stamp. Each
is an action, and time and the rate may change between any two. The clock's last
reading is followed by its first: no `V8_OS_*` macro is defined in this build, so
`TimeTicks::Now` takes the seconds modulo 100000 (`time.cc:712-736`).

*Delay-based estimate.* Rates are whole kbps. The deviation of the link capacity
estimate enters only through the clamp of its range, as a parameter that is
chosen freely at every packet. The detector may say anything at every packet
except the first after a stream timeout. This covers the uninitialised
`network_state_predictor_` of `trendline_estimator.cc:207`: if the pointer happens
not to be null, the detector reports a prediction instead.

*Packet groups.* A `SendTimeGroup` is a record, sizes count packets, and each
branch of `ComputeDeltas` is a disjunct. The receiver reads its clock twice per
packet (`receiver.cc:78`, `:83`), so that taking a packet and grouping it are two
actions with time in between. A message is a set of packets that
`SortedByReceiveTime` puts in order; the receiver puts one in each. Both hosts' clocks run with time
and start again when their period is over, the sender's `offset` ahead of the
receiver's: the code only has what a clock `Reads`, the properties also use the
instants themselves. `members` and `prev_members` are history variables that keep
the packets the groups stand for, with their instants, and `ordered` says whether a
packet has overtaken another.

*Over-use detector.* The slope of the regression is any member of `Trends` once
the window is full, and the trend before if no line fits. Trends and thresholds
are in thousandths, the timer in half milliseconds because it starts at half a
delta. Send deltas are in microseconds, of any sign, and rounded to milliseconds
by `DeltaMs` as `delay_based_bwe.cc:168` does. `over_for` is a history variable:
the sending time since the trend went above the threshold; `forward` says that
none of its deltas was negative.

*Throughput.* Packets have one size, so `sum` counts them, and the estimate is
reduced to whether there is one, since that decides the window. `Update` follows
the order of `UpdateWindow`: restart of the clock, stall, time, sample, and only
then the packet. `counted`, `samples`, `sample` and `lasted` are history
variables.

## 3. Runs

| Run | Module, configuration | Shows |
|---|---|---|
| `loss_ordered` | `LossPath`, `MCLossOrdered.cfg` | ordered, lossy path: the receiver survives, reports are exact, `LossAccounting` is implemented |
| `loss_reordered` | `LossPath`, `MCLossReordered.cfg` | loss, reordering, duplication: the timing assertions hold, by their inductive invariant, and reports are made when due |
| `loss_assertion` | `LossPath`, `MCLossAssertion.cfg` | finding: the assertion at `receiver_loss_collection.cc:75` fails when the first packets are reordered |
| `send_side` | `MCNetworkController`, `.cfg` of that name | the target keeps to its limits and to the rules of increase and decrease, the loss fraction is exact, the estimators agree, the caller knows the rates, `RateLimits` is implemented |
| `rate_feedback` | `RateFeedback`, `MCRateFeedback.cfg` | the sender paces within the last limit on any path; unless the newest REMB is lost or overtakes another, the limit follows and converges to the estimate as far as its field can carry it |
| `pacing` | `Pacing`, `MCPacing.cfg` | never faster than the rate; sends again and ends, unless the clock starts again first; a deadline beyond its last reading is never reached |
| `clock_wraps` | `Pacing`, `MCClock.cfg` | finding: time does go back |
| `delay_based` | `MCDelayBasedBwe`, `.cfg` of that name | reaction to overuse as long as it lasts, spacing, hold and growth, with constraints and round-trip times in between |
| `delay_reaction` | `MCDelayBasedBwe`, `MCDelayReaction.cfg` | finding: updates that change nothing postpone the reaction to overuse |
| `groups` | `InterArrivalDelta`, `MCInterArrivalDelta.cfg` | any path, hold-ups and restarts of either clock: deltas compare the last two groups, do not span a restart of the receiver's clock, and send deltas go forwards while nothing is reordered; groups are forgotten only after a hold-up, a timeout or a restart |
| `overuse` | `MCOveruseDetector`, `.cfg` of that name | overuse is declared when sustained, and in time, while the threshold adapts |
| `rate_window` | `RateWindow`, `MCRateWindow.cfg` | samples are not zero, not too high, and share no time, whatever stalls and restarts of the clock |

### Bounds

- Loss accounting: durations of 3, 1 and 1 ticks keep their order in the code
  (200 ms, 10 ms, 100 ms); 6 packets and 11 ticks are enough for two windows to
  be opened, swapped and reported and for a third to be open, with gaps inside
  and between them. With reordering, 4 packets and 10 ticks reach every value of
  `status` that can be reached: the first window ends at tick 5 at the earliest
  and the second at tick 9, with the first one swapped and not yet reported, so
  the assertion at `:141` is evaluated in the case it is there for.
  `MaxInFlight = 2` is what reordering needs.
- Controller: reports of no, 5% and 20% loss fall in the three branches of
  `UpdateEstimate`, and one of 12 packets has to be accumulated. A REMB lies
  above the initial target or says that there is no limit; two calls bring new
  constraints, with and without a starting rate, or a round-trip time, before,
  between and after them. One of them raises the minimum above the target, and
  another takes it back. 5 ticks hold the start phase (2), an increase interval (2)
  after it, and a step after that. The default limits are close to the initial
  target so that both are reached. `MCConfig` is the programs'
  configuration with an allocated and a padding rate set, which makes the pacer's
  windows depend on them.
- Rates: three estimates, one below the minimum pacing rate and one too wide for
  its field (`NumberLimit`); two data and up to four feedback packets in flight,
  which is two replies behind two others. `OnDataPacketReceived` waits for room
  in the path; the path itself may still drop data.
- Pacing: a clock of 16 readings restarts within the program's run and after it;
  the time of a packet is exact at one of the three rates and truncated at the
  others; up to three instants between two rounds of the loop are more than the
  time of a packet at the fastest rate. The restart is the clock's and not a
  bound.
- Delay-based estimate: a tick is a quarter of a second, so that the reduction
  interval (0.2 s, rounded up to 2 ticks), a second of growth (4 ticks) and the
  stream timeout differ. `InitializationTime` is shortened from 5 s to one tick:
  only that it passes matters. Three throughputs that differ by more than a
  factor of two make `TimeToReduceFurther` true for either reason. A starting
  rate, and minima below and above what overuse leaves, arrive at any time.
- Packet groups: a clock of 5 readings starts again at the receiver at instant 5,
  and at the sender, 4 readings ahead, at instant 1; 6 instants hold packets before
  and after each, a whole period, a stream timeout (3) and a hold-up of the process
  (2). 5 packets make up to five groups, or bursts of several packets; with
  `ReorderedReset = 2` they are just enough for the counter to reach its reset, since
  the first packet after a restart of the receiver's clock always seems to catch up
  with the group before. A group length of one tick separates packets sent together
  from others.
- Over-use detector: the window (2) and the caps of the number of deltas (4, 6)
  are shortened so that 7 calls go past them; send deltas round to -2 ms, which
  collides with the timer's "unset", to nothing, and to 12 and 24 ms, the last
  more than twice the over-use time. Trends fall below, within and above the
  thresholds, by less and by more than the offset at which adaptation stops; a
  wait of 100 ms makes a step overshoot.
- Throughput: windows of 7 and 2 have about the ratio of the code's; 16 instants
  to a period and 6 packets hold a first sample, stalls, restarts of the clock,
  and windows after each.

The runs set `CHECK_DEADLOCK FALSE` because the systems really stop: an aborted,
paused or ended program has no next step, nor has a bounded clock at its bound.
`MCRateWindow.cfg` alone leaves the check on, since its clock starts again.

### Fairness

`RateFeedback` and `Pacing` have liveness properties.

In `RateFeedback` the sender's loop makes its next call as long as the program
runs (`sender_test.cc:44-51`; it may end at any round), and a packet that stays in
flight is the oldest one in the end and arrives, if the sender looks for it again and
again. That is strong fairness, because between two looks the loop is elsewhere.
Nothing is assumed of the pacing timer, of losses, of data packets or of the
receiver's estimates: since the clock starts again, the next send time may never be
passed (`StrandedForEver`), and whether the sender sends again is the subject of
`SendsAgain` in `Pacing`. `LimitConverges` is about a sender that runs and a
receiver whose `sendto` did not fail, since nothing resumes it, and about a newest
REMB that is not lost or taken before an older one.

In `Pacing` time passes and the loop runs as long as the program does: nothing in
the loop blocks (`sendto` and `recvfrom` take `MSG_DONTWAIT`), so weak fairness of each is what the
host's scheduler gives. That the loop comes round within `MaxDelay` instants is a
bound of the model; the two properties state what they need of it.

## 4. Proofs

Everything below holds for every value of the constants that satisfies the named
assumptions of the modules.

`LossPath_proofs` (any durations, clock offsets and paths):

- `TypeCorrect`: `Spec => []TypeOK`.
- `TimerInvariant`, `TimerAssertions`: the assertions at
  `receiver_loss_collection.cc:141`, `:147` and `:151` never fail. They are not
  inductive: that the wait vector is empty when the in-effect vector ends
  depends on when both were opened. `TimerInv` says how the two relate: a wait
  vector was opened more than `ReceiveDuration` before the in-effect one, its
  wait is at most `ReceiveDuration` (the clamp in `GetWaitDuration`), and it was
  not due at any arrival since. `CallKeepsTimerInv` shows one call keeps it, by
  the two branches (`LateKeepsTimerInv`, `TimelyKeepsTimerInv`), which rest on
  lemmas about the vectors (`MarkedVector`, `ExtendedVector`).
- `SurvivesLoss`: with `InOrder`, no assertion fails at all and no vector is
  written out of range. The strengthening is `OrderInv`: everything in flight is
  numbered above everything the vectors have seen.
- `ReportsWhenDue`: `Spec => ReportedWhenDue`, on any path. `DueCallReports` says
  that a packet that arrives when the wait vector is due makes its report, in either
  branch of the call.
- `DeliveriesTracked` and `ImplementsAccounting`: with `InOrder`, what the vectors
  mark is what was delivered of their spans (`[]VectorsTrackDeliveries`), and every
  step of the receiver is one of `LossAccounting` or a stutter. Both rest on
  `TrackInv`, which says it of both vectors together with where each begins:
  `TrackedWithPacket`, `TrackedSwapped` and `TrackedAfterReport` carry it through the
  three things a call does. A report counts the marks of a vector, `LossAccounting`
  the deliveries in a span of numbers; `ShiftedCount` and `RecordedCount` show, by a
  bijection, that these are equally many.
- `ReportsAddUp`, a consequence of the refinement that no run asks for: with `InOrder`
  the windows of the reports come one after another, and the packets received and lost
  of each are all of its numbers, so the sender may add them up.

`NetworkController_proofs` (any reports, REMBs, constraints, configuration):

- `ControllerTypeCorrect`, `TargetLimited` and `EstimatorsShareMinimum`, one
  lemma per method of the two estimators.
- `ImplementsLimits`: `Spec => LimitsSpec`, the refinement of `RateLimits`. A
  handler maps to the abstract action of its name, a round-trip time and a tick to
  a stutter. `RateFeedback` uses that abstraction.
- `CallerInformed`: after constraints the caller knows the rates. The invariant is
  `CallerUpToDate`, that what was announced is what was published; `PeriodFixed`
  shows that the expected period, which is sent along but not compared, cannot
  change.
- `FractionOfAllReports`: `Spec => FractionCoversReports`, from `Accumulated`: the
  accumulators hold what was reported since the last estimate.
- `DecreasesForLoss` and `IncreasesFromLowest`: `SteadyDecrease` and
  `SteadyIncrease`. Both are about `min_bitrate_history_`, whose invariant
  `HistoryInv` (`HistoryCorrect`) says that times and rates increase from front to
  back, that for every target in use since the start phase there is an entry that is
  neither older nor higher, and that the target is at most a raise above each entry
  made since, unless the minimum lifted it. `UpdateMinHistory` pops as many
  entries as meet a condition; `FrontCount` and `BackCount` show that those are
  exactly the ones that meet it, and `HistoryUpdated` what is left. The arithmetic is
  in `IncreasedAbove` and `DecreasedBelow`. The proof attempt showed that
  `SteadyDecrease` needs an exception, see the findings.

`RateFeedback_proofs` (any rates, field widths and paths):

- `RateTypeCorrect`; `ReadAsWritten`: what a parser reads is the packet made,
  field by field, if each fits.
- `PacingLimited`: `Spec => []PacingWithinLimit`. The invariant is
  `PacingIsCurrent`: the pacing rate is the clamped target of the current limit,
  because every packet handled refreshes it.
- `LimitFollows`: `Spec => []LimitFollowsEstimate`. What is inductive is about the
  whole queue: as long as the newest REMB is safe, the last REMB in flight, or the
  limit if there is none, is that of `last_remb_rate` (`LastRembCurrent`;
  `OnlyReportsAfter` names the last one).

`Pacing_proofs` (any period, rates, delays):

- `PacingTypeCorrect`; `PacedByRate`: never faster than the rate. `SpentCoversClock`
  relates the real time since the deadline was set to what the clock says.
- `NeverSendsAgain` (`StrandedForEver`) and `NeverEnds`: a deadline at or beyond
  the clock's last reading is never passed, be it that of the next packet or of
  main.

`DelayBasedBwe_proofs` (any rates, intervals, deviations and calls):
`DelayTypeCorrect`, `NeverRaisedByOveruse`, `HeldUntilNormal`, `GrowthLimited`,
`SpacedReductions` and `SustainedOveruse`, which are all the properties of its run.
They rest on `RatesStayRight`: `RatesRight` joins the types with `GoodRates` (the
state `kRcDecrease` is left within a call, a decrease is also a change, times are not
in the future) and with `HistoryRight`, which relates the time of the last change to
when measured overuse began, when it was last reacted to and when a packet last moved
the estimate. Each method of the rate control has a lemma.

`InterArrivalDelta_proofs` (any thresholds, paths, periods and offsets). The code
sees readings and the instants follow each other; three lemmas join the two:
`ReadingOf` (an instant in terms of its reading and the restarts before it),
`SameRunExact` (between two restarts the difference of two readings is that of their
instants) and `ForwardReadings` (so it is for instants less than a period apart whose
readings do not go backwards). The
invariant (`GroupInvariant`) is `GroupsTyped` with `GroupsDescribed`: what is kept of
a group is its number of packets, its latest sending time and its last arrival as
the clocks read them, and the instants of the groups follow each other. From it
follow `GroupTypeCorrect`, `DeltasOfGroups` (`MaxIsReached` shows that a maximum over
packets is that of one of them), `RestartsNotMeasured` and `ForgetsAfterHoldUp`.
`DeltasForward` needs `SentInOrder` besides: as long as no packet overtakes another
the groups are also in sending order, unless a whole period lies between them.
`OneFeedback` shows that sorting a message of one packet gives that packet.

`OveruseDetector_proofs` (any trends, deltas, waits, gains): `DetectorTypeCorrect`
(the clamp of the threshold included), `OveruseSustained` and `OverusePrompt`. The
last two rest on `TimerInvariant`: `TimerFollowsTrend` says that the timer is
unset while the trend is not above the threshold and, as long as sending times go
forwards and until overuse is declared, is between once and twice the time above.

`RateWindow_proofs` (any windows, arrivals and restarts): `WindowTypeCorrect`,
`SamplesNotZero` (`SumFollowsPackets`: a call that drops the sum also reduces the
time to less than a window), `SamplesShareNoTime` (`TimeAccounted` extends
`SamplesTakeTime` to the time before the first sample) and `SamplesFit`
(`CountedFits` bounds the spread of the packets counted so far).

Only model-checked: the liveness properties `LimitConverges`, `SendsAgain` and
`ProgramEnds`, which TLAPS cannot prove. Every
other property of the passing runs is stated by a theorem. `HistoryInv`
and `TrackInv` were confirmed with TLC on the instances of `send_side` and
`loss_ordered` before they were proved; they are not among the properties of the runs.

## 5. Findings

Three, quoted in `PROJECT.json`:

- A legal delivery order makes the receiver abort: the assertion at
  `receiver_loss_collection.cc:75` fails when the first packets are reordered.
- `TimeToReduceFurther` compares with the time of the last *update*, not of the
  last change as `aimd_rate_control.h:43-46` says.
- The clock goes back every 100000 s, which `quic_time.h:6` excludes. A sender
  whose next send time lies beyond the clock's last reading never sends again
  (`StrandedForEver`), and a program started less than its run time (350 s,
  10 s) before the restart never ends (`NeverEnds`).

None of them is needed for the runs that pass, which state what the code does
guarantee. Other things seen while modelling, which no run asks about or a
passing run states as they are:

- `GetUpperLimit` does not contain the receiver's limit, although the comment at
  `send_side_bandwidth_estimation.h:125-126` says so: reports raise the internal
  target above it. The limit is applied where the target is read (`RateLimits`), so a
  higher REMB takes effect as a jump.
- `delay_based_bwe.cc:204-205` says that overuse without a throughput halves the
  estimate "every 200 ms"; `InitialTimeToReduceFurther` is true only until the first
  reduction (`aimd_rate_control.cc:98-105`), so it is halved once. The branch needs a
  starting rate, which the two programs never give.
- `inter_arrival_delta.h:24-25` says that groups received out of order are counted and
  lead to a reset, "assuming that clocks have made a jump". That is so when the
  receiver's clock starts again. When the sender's does, every packet is dropped
  before it is counted (`inter_arrival_delta.cc:44-46`): no deltas are given out until
  that clock has passed the old time, up to 27.8 hours later, or the stream pauses for
  two seconds.
- The start phase clears the history of minima, so that its front may exceed
  what `send_side_bandwidth_estimation.h:120-122` says of it. After the start
  phase raised the target to the REMB, a report with little loss can lower it,
  since the increase of 8% starts at the remembered minimum.
- New constraints without a starting rate leave the target outside the new limits
  until the next REMB or estimate (`TargetWithinLimits`).
- They leave the history of minima as it is, too. A minimum above the target lifts it
  without any of the entries rising; if the minimum is lowered again within
  `kBweIncreaseInterval`, the next report with little loss, for which the comment at
  `send_side_bandwidth_estimation.cc:361-362` says "Increase rate by 8%", lowers the
  target to 8% above the lowest entry. `SteadyDecrease` makes an exception of that
  time; without it the property fails in the run `send_side`.
- A comment in `AimdRateControl::Update` speaks of the first half second; the
  constant is 5 s.
- `network_control.h:36-38` says the starting rate has to be set initially, which
  the programs do not do: the constructor reads an optional without a value. It
  ignores the configured minimum and maximum, and `OnStreamsConfig` does nothing
  although `:40-41` says that it changes the configuration.
- `GetNetworkState` gives a stable rate that is not limited to the target, and
  what it says of the target is out of date after a REMB.
- Losses between the last packet of one window and the first of the next are in
  no report (`LossAccounting` says so).
- Merged bursts (`BelongsToBurst`) make a group longer than
  `inter_arrival_delta.h:29-31` defines it.
- The counter of reordered groups counts only when the receiver's clock has started
  again: arrival times are taken in the call that groups the packet.
- A first send delta of -2 ms sets the over-use timer to its own "unset" value;
  the detector then counts the next delta in half. The properties about its time
  are stated for sending times that go forwards.
- With a gap of 100 ms one step of `UpdateThreshold` moves the threshold by 3.9
  times its distance from the trend, past it, and the clamp stops it.
- A leftover of up to a whole first window, or of a stall, shortens the windows
  after it, and the samples are then too low; `SampleFitsWindow` bounds the error
  on the other side only.
- A message without packets would leave `recent_result_` of the delay-based
  estimator as it was; the receiver never makes one.

## 6. Not modelled

- Vendored support code (`time/` but for `Now`, `include/glog`, `optional`, safe
  conversions), about a third of the lines: it is not this program's logic.
- What nothing calls, or what a constant setting turns off:
  `UpdateDelayBasedEstimate`, `OnRouteChange`, the round-trip back-off,
  `GetFeedbackInterval`, `TriggerOveruse`, `PeekRate`,
  `DelayBasedBwe::LatestEstimate`, some updates of the link capacity tracker, the
  audio detector, the sort and the slope cap of the trendline.
- What feeds nothing: UMA counters, event logs, the debuggers' counters, main's
  countdown, `feedback_max_rtts_`, and `last_decrease_`, which is a parameter
  where the expected period reads it.
- Floating point: the smoothing and regression of `TrendlineEstimator` and the
  weighting of samples in `BitrateEstimator`. Their results are arbitrary.
- Messages of several packets beyond their order: both programs put one packet in
  a message.
- Steps of the host's time, and the restart of the clock in `LossPath`,
  `NetworkController` and `DelayBasedBwe`, which assume none within a run. After a
  restart every "time since" in them is negative for up to 27.8 hours. `Pacing`,
  `RateWindow` and `InterArrivalDelta` have the restart; `RateFeedback` has no clock
  and assumes nothing of its timer.
- `DelayBasedBwe` takes any output of the detector and of the throughput
  estimator, which covers their composition; what only the composition would
  guarantee is not stated.

## 7. What is left

The pieces that would add most are the composition of `InterArrivalDelta`,
`OveruseDetector` and `DelayBasedBwe` in one state space, which needs a discrete
stand-in for the regression; and `LossPath`,
`NetworkController` and `DelayBasedBwe` on a clock that starts again.
