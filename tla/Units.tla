-------------------------------- MODULE Units --------------------------------
(***************************************************************************)
(* The unit classes of the congestion controller: DataRate, DataSize,      *)
(* TimeDelta and Timestamp, over UnitBase and RelativeUnit                 *)
(* (common/unit_base.h, common/data_rate.h, common/data_size.h,            *)
(* time/time_delta.h, time/timestamp.h), as far as the program uses them.  *)
(*                                                                         *)
(* A unit is its integer value: bits per second, bytes or microseconds, or *)
(* whatever a module that extends this one counts in.  The two ends of the *)
(* 64-bit range stand for the infinities, and only for them: a finite      *)
(* result that leaves the range is undefined behaviour in the code, and a  *)
(* value outside the range here.  Where the code multiplies or divides by  *)
(* a double, the factor is a fraction and the rounding is exact.           *)
(***************************************************************************)
EXTENDS Integers

CONSTANT PlusInfinity       \* the greatest int64_t

ASSUME UnitsAssumption == PlusInfinity \in Nat \ {0}

\* The least int64_t.
MinusInfinity == -PlusInfinity - 1

IsInfinite(value) == value = PlusInfinity \/ value = MinusInfinity
IsFinite(value) == ~IsInfinite(value)

\* The time of what has not happened; an optional rate without a value.
Never == MinusInfinity
NoRate == -1

\* has_value and value_or of an optional rate.
HasValue(rate) == rate # NoRate
ValueOr(rate, default) == IF HasValue(rate) THEN rate ELSE default

Lower(a, b) == IF a < b THEN a ELSE b
Higher(a, b) == IF a > b THEN a ELSE b

\* RelativeUnit::Clamped.
Clamped(value, low, high) == Higher(low, Lower(value, high))

-----------------------------------------------------------------------------
(* Sums and differences: an infinite operand decides the result.           *)

Plus(a, b) ==
    IF a = PlusInfinity \/ b = PlusInfinity THEN PlusInfinity
    ELSE IF a = MinusInfinity \/ b = MinusInfinity THEN MinusInfinity
    ELSE a + b

Minus(a, b) ==
    IF a = PlusInfinity \/ b = MinusInfinity THEN PlusInfinity
    ELSE IF a = MinusInfinity \/ b = PlusInfinity THEN MinusInfinity
    ELSE a - b

\* Timestamp::operator-: the time since an event is infinite when the event
\* has not happened.
Since(t, event) == Minus(t, event)

-----------------------------------------------------------------------------
(* Division and rounding *)

\* The division of two integers, which truncates; d is positive.
Quotient(n, d) == IF n >= 0 THEN n \div d ELSE -((-n) \div d)

DivRoundPositiveToNearest(n, d) == Quotient(n + d \div 2, d)

DivRoundToNearest(n, d) ==
    Quotient(IF n >= 0 THEN n + d \div 2 ELSE n - d \div 2, d)

\* FromFraction, behind Millis and KilobitsPerSec; and ToFraction, behind ms():
\* a one-sided unit is never negative.  TimeDelta is the only one that is not.
FromFraction(denominator, value) == value * denominator

ToFraction(one_sided, value, denominator) ==
    IF one_sided
    THEN DivRoundPositiveToNearest(value, denominator)
    ELSE DivRoundToNearest(value, denominator)

KilobitsPerSec(value) == FromFraction(1000, value)
DeltaMs(delta) == ToFraction(FALSE, delta, 1000)

\* RelativeUnit::operator/ of a unit and an integer, which truncates before it
\* rounds; and operator* for the factor n / d, rounded to nearest.
Divided(value, scalar) == Quotient(value, scalar)
Scaled(value, n, d) == (value * n + d \div 2) \div d

\* FromValue of a double, here n / d, which truncates it.
Truncated(n, d) == Quotient(n, d)

\* DataRate times TimeDelta, in bytes: rounded to nearest.  `second' is a second
\* in the unit of time.
Transferred(rate, duration, second) == Quotient(rate * duration + 4 * second, 8 * second)

=============================================================================
