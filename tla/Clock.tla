-------------------------------- MODULE Clock --------------------------------
(***************************************************************************)
(* The clock both programs read, QuicChromiumClock over TimeTicks::Now, and *)
(* the arithmetic of what it returns, QuicTime and QuicTime::Delta         *)
(* (quic/quic_time.h, quic/quic_chromium_clock.cc, time/time.cc).          *)
(*                                                                         *)
(* TimeTicks::Now makes its reading of gettimeofday: microseconds within a *)
(* period of 100000 seconds, from one, after which it starts again.  The   *)
(* build defines no V8_OS_* macro that would choose another.  An instant   *)
(* of the model is the clock's unit; steps of the clock when the host sets *)
(* its time are left out.                                                  *)
(***************************************************************************)
EXTENDS Naturals

CONSTANTS
    Period,             \* the number of the clock's readings, 10^11
    Second,             \* ONE_SECOND, in the clock's unit
    Infinite            \* kQuicInfiniteTimeUs, the greatest int64_t

ASSUME ClockAssumption ==
    /\ Period \in Nat \ {0} /\ Second \in Nat \ {0}
    /\ Infinite \in Nat /\ Period <= Infinite

VARIABLE now            \* what the clock reads

\* The readings; TimeTicks::Now never returns a null TimeTicks.
TimeTicks == 1 .. Period

\* Points in time that the programs form; a sum beyond Infinite would overflow.
QuicTime == 0 .. Infinite

\* QuicTime::Zero lies before every reading.
Zero == 0

\* Delta::FromSeconds and FromMicroseconds.
FromMicroseconds(us) == us
FromSeconds(secs) == FromMicroseconds(secs * Second)

\* A point in time moved by an offset, and the two comparisons in use.
Moved(t, delta) == t + delta
Before(t, u) == t < u
After(t, u) == Before(u, t)

\* The clock keeps no state of its own: it may start at any reading.
ClockInit == now \in TimeTicks

\* The reading after an instant: the seconds are taken modulo the period.
NextReading == (now % Period) + 1

\* An instant passes.
ClockTick == now' = NextReading

=============================================================================
