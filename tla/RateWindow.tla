------------------------------ MODULE RateWindow ------------------------------
(***************************************************************************)
(* The measured throughput, class BitrateEstimator of                      *)
(* google_cc/bitrate_estimator.cc: when it takes a sample and what the     *)
(* sample counts.  AcknowledgedBitrateEstimator calls Update once per      *)
(* packet that arrives, with the time of its arrival.                      *)
(*                                                                         *)
(* Packets have one size, so a sum counts packets.  The Bayesian weighting *)
(* of samples is left out: what matters here is whether there is an        *)
(* estimate, because that decides the length of the window, and that the   *)
(* samples it is made of are not zero.  The clock starts again after its   *)
(* last instant, as that of the build does (see Pacing).                   *)
(***************************************************************************)
EXTENDS Integers, FiniteSetsExt

CONSTANTS
    InitialWindow,      \* kInitialRateWindowMs
    Window,             \* kRateWindowMs
    MaxTime,            \* the last instant before the clock starts again
    MaxPackets          \* bound: packets that arrive

ASSUME WindowAssumption ==
    /\ Window \in Nat \ {0} /\ InitialWindow \in Nat /\ Window <= InitialWindow
    /\ MaxTime \in Nat /\ MaxPackets \in Nat

VARIABLES
    now,                \* the receiver's clock
    arrived,            \* packets so far
    prev_time,          \* prev_time_ms_
    sum,                \* sum_
    current_window,     \* current_window_ms_
    has_estimate,       \* bitrate_estimate_kbps_ is not negative
    sample,             \* history: what the last call measured
    counted,            \* history: the packets in sum
    samples,            \* history: samples taken
    lasted              \* history: the time between arrivals, as the clock told it

bitrateVars == <<prev_time, sum, current_window, has_estimate>>
historyVars == <<sample, counted, samples, lasted>>
vars == <<now, arrived, bitrateVars, historyVars>>

\* prev_time_ms_ = -1.
Unset == -1

NoSample == [taken |-> FALSE]

-----------------------------------------------------------------------------

\* The window of this call.
RateWindowLength == IF has_estimate THEN Window ELSE InitialWindow

\* Mutant: the clock is trusted.
Restarted_Never == FALSE

\* Time moved backwards since the last packet.
Restarted == now < prev_time

\* Nothing has been received for more than a full window.
Stalled == prev_time # Unset /\ now - prev_time > RateWindowLength

\* Mutant: the time is not reduced to less than a window.
Elapsed_Whole ==
    IF prev_time = Unset THEN current_window ELSE current_window + now - prev_time

\* The time accounted for, before a sample is taken.  What a stall leaves over
\* of whole windows is kept, but nothing is when time moved backwards.
Elapsed ==
    IF Restarted THEN 0
    ELSE IF prev_time = Unset THEN current_window
    ELSE IF Stalled THEN (current_window + now - prev_time) % RateWindowLength
    ELSE current_window + now - prev_time

\* The packets counted so far still count.
Kept == ~Stalled /\ ~Restarted

\* Mutant: the window is used again.
Remaining_All(elapsed) == elapsed

\* What a sample leaves of the time.
Remaining(elapsed) == elapsed - RateWindowLength

\* The sum after a sample: the packet that took it is the first of the next.
AfterSample(arrival) ==
    sum' = 1 /\ counted' = {arrival}

\* UpdateWindow and Update: a packet arrives.
Update ==
    LET arrival == [seq |-> arrived + 1, at |-> now]
        total == IF Kept THEN sum ELSE 0
        packets == IF Kept THEN counted ELSE {}
    IN  /\ arrived < MaxPackets
        /\ arrived' = arrived + 1
        /\ prev_time' = now
        /\ lasted' = IF prev_time = Unset \/ Restarted THEN lasted
                     ELSE lasted + (now - prev_time)
        /\ \/ \* no sample yet
              /\ Elapsed < RateWindowLength
              /\ current_window' = Elapsed
              /\ sum' = total + 1
              /\ counted' = packets \cup {arrival}
              /\ sample' = NoSample
              /\ UNCHANGED <<has_estimate, samples>>
           \/ \* a sample, which does not count this packet
              /\ Elapsed >= RateWindowLength
              /\ current_window' = Remaining(Elapsed)
              /\ AfterSample(arrival)
              /\ sample' = [ taken |-> TRUE, sum |-> total, packets |-> packets,
                             window |-> RateWindowLength ]
              /\ samples' = samples + 1
              /\ has_estimate' = TRUE
        /\ UNCHANGED now

Tick ==
    /\ now' = IF now < MaxTime THEN now + 1 ELSE 0
    /\ UNCHANGED <<arrived, bitrateVars, historyVars>>

Init ==
    /\ now = 0
    /\ arrived = 0
    /\ prev_time = Unset
    /\ sum = 0
    /\ current_window = 0
    /\ has_estimate = FALSE
    /\ sample = NoSample
    /\ counted = {}
    /\ samples = 0
    /\ lasted = 0

Next == Tick \/ Update

Spec == Init /\ [][Next]_vars

-----------------------------------------------------------------------------
(* Properties *)

\* Every variable keeps its type.  A window that is left over from the longer
\* initial one may be longer than the window in force.
TypeOK ==
    /\ now \in 0 .. MaxTime
    /\ arrived \in 0 .. MaxPackets
    /\ prev_time \in {Unset} \cup 0 .. MaxTime
    /\ sum \in 0 .. arrived
    /\ current_window \in 0 .. InitialWindow
    /\ has_estimate \in BOOLEAN
    /\ samples \in Nat
    /\ has_estimate <=> samples > 0
    /\ lasted \in Nat

\* A sample is never zero.  An estimate of zero would make the next one the
\* quotient of zero by zero (bitrate_estimator.cc:80-84), and the throughput
\* would be no number ever after.
SampleNeverZero == sample.taken => sample.sum > 0

\* Why: a packet is counted whenever one has arrived, so a sample is zero only
\* after a stall, and then the time left is less than a window.
SumFollowsPackets ==
    /\ prev_time = Unset => current_window = 0 /\ ~has_estimate
    /\ prev_time # Unset => sum > 0

\* The throughput is never measured too high: the packets of a sample arrived
\* within less than the window they are divided by, however long the stream
\* stalled in between and wherever the clock started again
\* (bitrate_estimator.cc:107-127).
SampleFitsWindow ==
    sample.taken =>
        \A p, q \in sample.packets : p.at - q.at < sample.window

\* No time is used for two samples: however packets and stalls follow each
\* other, the windows of all samples, together with the time accounted for
\* the next one, add up to no more than the time between the packets
\* (bitrate_estimator.cc:107-125).
SamplesTakeTime ==
    samples > 0 =>
        InitialWindow + (samples - 1) * Window + current_window <= lasted

=============================================================================
