-------------------------- MODULE DelayBasedBwe_proofs --------------------------
(***************************************************************************)
(* Proofs of the properties of DelayBasedBwe.  What AimdRateControl's      *)
(* operators do to the record is stated once, one lemma per operator; the  *)
(* inductive invariant is RatesRight.                                      *)
(***************************************************************************)
EXTENDS DelayBasedBwe, TLAPS

USE DEF LinkCapacityEstimator

\* What a record of the rate control always satisfies.  A decrease is also a
\* change, and the throughput is far from the infinity.
TypedRates(a, t) ==
    /\ a \in RateControl
    /\ a.time_last_change \in {Never} \cup (0 .. t)
    /\ a.time_last_decrease \in {Never} \cup (0 .. t)
    /\ a.time_first_throughput \in {Never} \cup (0 .. t)
    /\ a.link_capacity \in LinkCapacityEstimator
    /\ a.time_last_decrease <= a.time_last_change
    /\ ThroughputLimit(a.latest_throughput) <= PlusInfinity

\* What it satisfies between two calls.
GoodRates(a, t) ==
    /\ TypedRates(a, t)
    /\ a.min_configured <= a.current_bitrate
    /\ a.state # "kRcDecrease"

\* The limit that follows the throughput is a rate.
LEMMA LimitIsRate ==
    ASSUME NEW throughput \in Nat
    PROVE  ThroughputLimit(throughput) \in Nat
  <1>1. (3 * throughput) \div 2 \in Nat
    BY SMT
  <1> QED
    BY <1>1, SMT DEF ThroughputLimit

\* A whole number of rates and times divided by a positive one.
LEMMA QuotientIsNat ==
    ASSUME NEW n \in Nat, NEW d \in Nat, d > 0
    PROVE  n \div d \in Nat
  BY SMT

LEMMA ProductIsNat ==
    ASSUME NEW m \in Nat, NEW n \in Nat
    PROVE  m * n \in Nat
  BY SMT

LEMMA PositiveProduct ==
    ASSUME NEW m \in Nat, NEW n \in Nat, m > 0, n > 0
    PROVE  m * n \in Nat /\ m * n > 0
  BY SMT

\* The time since a change is not negative.
LEMMA SinceIsNat ==
    ASSUME NEW t \in Nat, t < PlusInfinity, NEW last \in {Never} \cup (0 .. t)
    PROVE  /\ Since(t, last) \in Nat
           /\ last # Never => Since(t, last) = t - last
           /\ last = Never => Since(t, last) = PlusInfinity
  BY UnitsAssumption, SMT DEF Since, Minus, Never, MinusInfinity

\* The additive increase is not negative, and is nothing at the instant of the
\* last change.
LEMMA AdditiveIsNat ==
    ASSUME NEW a \in RateControl, NEW t \in Nat, t < PlusInfinity,
           a.time_last_change \in {Never} \cup (0 .. t)
    PROVE  /\ AdditiveIncrease(a, t) \in Nat
           /\ a.time_last_change = t => AdditiveIncrease(a, t) = 0
  <1> DEFINE packets_per_frame == Higher(1, (a.current_bitrate + 287) \div 288)
             divisor == 30 * (a.rtt + ResponseTime) * packets_per_frame
             passed == Since(t, a.time_last_change)
             rate == NearMaxIncrease(a)
  <1>1. a.current_bitrate \in Nat /\ a.rtt \in Nat
    BY DEF RateControl
  <1>2. packets_per_frame \in Nat /\ packets_per_frame > 0
    <2>1. (a.current_bitrate + 287) \div 288 \in Nat
      BY <1>1, QuotientIsNat, SMT
    <2> QED
      BY <2>1, SMT DEF Higher
  <1>3. 30 * (a.rtt + ResponseTime) \in Nat /\ 30 * (a.rtt + ResponseTime) > 0
    BY <1>1, AimdAssumption, SMT
  <1>4. divisor \in Nat /\ divisor > 0
    BY <1>2, <1>3, PositiveProduct
  <1>5. a.current_bitrate * Second \in Nat
    BY <1>1, AimdAssumption, ProductIsNat
  <1>6. (a.current_bitrate * Second) \div divisor \in Nat
    BY <1>4, <1>5, QuotientIsNat
  <1>7. rate \in Nat
    <2>1. rate = Higher(4, (a.current_bitrate * Second) \div divisor)
      BY Zenon DEF NearMaxIncrease
    <2> HIDE DEF rate, divisor
    <2> QED
      BY <2>1, <1>6, SMT DEF Higher
  <1>8. passed \in Nat
    BY SinceIsNat
  <1> HIDE DEF rate
  <1>9. rate * passed \in Nat
    BY <1>7, <1>8, ProductIsNat
  <1>10. (rate * passed) \div Second \in Nat
    BY <1>9, AimdAssumption, QuotientIsNat, SMT
  <1>11. AdditiveIncrease(a, t) = (rate * passed) \div Second
    BY DEF AdditiveIncrease, rate
  <1>12. ASSUME a.time_last_change = t
         PROVE  (rate * passed) \div Second = 0
    <2>1. passed = 0
      BY <1>12, SinceIsNat, UnitsAssumption, SMT DEF Never, MinusInfinity
    <2> HIDE DEF passed
    <2>2. rate * passed = 0
      BY <2>1, <1>7, SMT
    <2> QED
      BY <2>2, AimdAssumption, SMT
  <1> QED
    BY <1>10, <1>11, <1>12

\* The multiplicative increase is at least 1, and 1 at the instant of the last
\* change.
LEMMA MultiplicativeIsNat ==
    ASSUME NEW bitrate \in Nat, NEW t \in Nat, t < PlusInfinity,
           NEW last \in {Never} \cup (0 .. t)
    PROVE  /\ MultiplicativeIncrease(bitrate, t, last) \in Nat
           /\ last = t => MultiplicativeIncrease(bitrate, t, last) = 1
  <1> DEFINE dt == IF IsFinite(last) THEN Lower(Since(t, last), Second) ELSE Second
             grown == (bitrate * Growth[dt]) \div 10000
  <1>1. dt \in 0 .. Second
    BY SinceIsNat, AimdAssumption, SMT DEF Lower
  <1> HIDE DEF dt
  <1>2. Growth[dt] \in Nat
    BY <1>1, AimdAssumption
  <1>3. bitrate * Growth[dt] \in Nat
    BY <1>2, ProductIsNat
  <1>4. grown \in Nat
    BY <1>3, QuotientIsNat, SMT
  <1>5. MultiplicativeIncrease(bitrate, t, last) = Higher(grown, 1)
    BY DEF MultiplicativeIncrease, dt
  <1>6. ASSUME last = t
        PROVE  grown = 0
    <2>1. Since(t, last) = 0
      BY <1>6, SinceIsNat, UnitsAssumption, SMT DEF Never, MinusInfinity
    <2>2. IsFinite(last)
      BY <1>6, UnitsAssumption, SMT DEF IsFinite, IsInfinite, MinusInfinity
    <2>3. dt = 0
      BY <2>1, <2>2, AimdAssumption, SMT DEF dt, Lower
    <2>4. Growth[dt] = 0
      BY <2>3, AimdAssumption
    <2> QED
      BY <2>4, SMT
  <1> HIDE DEF grown
  <1> QED
    BY <1>4, <1>5, <1>6, SMT DEF Higher

-----------------------------------------------------------------------------
(* The operators on the record *)

\* ChangeBitrate in the state kRcIncrease: the bitrate does not fall, rises no
\* higher than the throughput's limit, and by no more than 1 at the instant of
\* the last change.
LEMMA IncreasedRight ==
    ASSUME NEW c, NEW t \in Nat, t < PlusInfinity, TypedRates(c, t),
           c.state # "kRcDecrease",
           NEW throughput \in Nat, ThroughputLimit(throughput) <= PlusInfinity,
           NEW deviation
    PROVE  LET r == Increased(c, throughput, t, deviation)
           IN  /\ GoodRates(r, t)
               /\ r.initialized = c.initialized
               /\ r.latest_throughput = c.latest_throughput
               /\ r.time_last_change = t
               /\ c.current_bitrate <= r.current_bitrate
               /\ c.min_configured <= c.current_bitrate =>
                     /\ r.current_bitrate > c.current_bitrate
                           => r.current_bitrate <= ThroughputLimit(throughput)
                     /\ c.time_last_change = t
                           => r.current_bitrate <= c.current_bitrate + 1
  <1> DEFINE capacity == ResetIf(AboveCapacity(c, throughput, deviation), c)
             increase == IF capacity # NoRate
                         THEN AdditiveIncrease(c, t)
                         ELSE MultiplicativeIncrease(c.current_bitrate, t, c.time_last_change)
             limit == ThroughputLimit(throughput)
             bitrate == IF c.current_bitrate < limit
                        THEN Lower(Plus(c.current_bitrate, increase), limit)
                        ELSE c.current_bitrate
             new == ClampBitrate(c, bitrate)
             r == Increased(c, throughput, t, deviation)
  <1>1. /\ c \in RateControl
        /\ c.current_bitrate \in Nat /\ c.min_configured \in Nat
        /\ c.time_last_change \in {Never} \cup (0 .. t)
    BY DEF TypedRates, RateControl
  <1>2. increase \in Nat /\ (c.time_last_change = t => increase <= 1)
    BY <1>1, AdditiveIsNat, MultiplicativeIsNat, SMT
  <1>3. limit \in Nat /\ limit <= PlusInfinity
    BY LimitIsRate
  <1>4. capacity \in LinkCapacityEstimator
    BY DEF TypedRates, ResetIf, LinkCapacityEstimator
  <1>5. r = [c EXCEPT !.link_capacity = capacity,
                      !.current_bitrate = new,
                      !.time_last_change = t]
    BY Zenon DEF Increased
  <1> HIDE DEF capacity, increase, limit
  <1>6. /\ bitrate \in Nat /\ c.current_bitrate <= bitrate
        /\ bitrate > c.current_bitrate => bitrate <= limit
        /\ c.time_last_change = t => bitrate <= c.current_bitrate + 1
    BY <1>1, <1>2, <1>3, UnitsAssumption, SMT DEF Plus, Lower, MinusInfinity
  <1> HIDE DEF bitrate
  <1>7. /\ new \in Nat /\ c.current_bitrate <= new /\ c.min_configured <= new
        /\ c.min_configured <= c.current_bitrate =>
              /\ new > c.current_bitrate => new <= limit
              /\ c.time_last_change = t => new <= c.current_bitrate + 1
    BY <1>1, <1>3, <1>6, SMT DEF ClampBitrate, Higher
  <1> HIDE DEF new
  <1>8. r \in RateControl
    <2>1. [c EXCEPT !.link_capacity = capacity] \in RateControl
      BY <1>1, <1>4 DEF RateControl, NoRate
    <2> DEFINE d == [c EXCEPT !.link_capacity = capacity]
    <2> HIDE DEF d
    <2>2. d \in RateControl
      BY <2>1 DEF d
    <2>3. [d EXCEPT !.current_bitrate = new] \in RateControl
      BY <2>2, <1>7 DEF RateControl
    <2> DEFINE e == [d EXCEPT !.current_bitrate = new]
    <2> HIDE DEF e
    <2>4. e \in RateControl
      BY <2>3 DEF e
    <2>5. [e EXCEPT !.time_last_change = t] \in RateControl
      BY <2>4 DEF RateControl
    <2>6. r = [e EXCEPT !.time_last_change = t]
      BY <1>5, Zenon DEF d, e
    <2> QED
      BY <2>5, <2>6
  <1>9. /\ r.min_configured = c.min_configured /\ r.rtt = c.rtt
        /\ r.current_bitrate = new /\ r.latest_throughput = c.latest_throughput
        /\ r.state = c.state /\ r.initialized = c.initialized
        /\ r.time_last_change = t /\ r.time_last_decrease = c.time_last_decrease
        /\ r.time_first_throughput = c.time_first_throughput
        /\ r.link_capacity = capacity
    BY <1>1, <1>5 DEF RateControl
  <1>10. c.time_last_decrease <= t
    BY UnitsAssumption, SMT DEF TypedRates, Never, MinusInfinity
  <1> HIDE DEF r
  <1>11. GoodRates(r, t)
    BY <1>1, <1>4, <1>7, <1>8, <1>9, <1>10, SMT DEF GoodRates, TypedRates, RateControl
  <1> QED
    BY <1>7, <1>9, <1>11, Zenon DEF r, limit

\* Backing off leaves a rate.
LEMMA BackedOffIsNat ==
    ASSUME NEW bitrate \in Nat
    PROVE  BackedOff(bitrate) \in Nat
  BY SMT DEF BackedOff, Scaled

\* ChangeBitrate in the state kRcDecrease: the bitrate does not rise and is backed
\* off, and the state is left.
LEMMA DecreasedRight ==
    ASSUME NEW c, NEW t \in Nat, t < PlusInfinity, TypedRates(c, t),
           NEW throughput \in Nat, NEW deviation
    PROVE  LET r == Decreased(c, throughput, t, deviation)
           IN  /\ GoodRates(r, t)
               /\ r.initialized
               /\ r.latest_throughput = c.latest_throughput
               /\ r.time_last_change = t
               /\ r.current_bitrate <= ClampBitrate(c, BackedOff(throughput))
               /\ c.min_configured <= c.current_bitrate
                     => r.current_bitrate <= c.current_bitrate
  <1> DEFINE capacity == ResetIf(BelowCapacity(c, throughput, deviation), c)
             new_capacity == UpdatedCapacity(capacity, throughput)
             decreased == IF BackedOff(throughput) > c.current_bitrate /\ c.link_capacity # NoRate
                          THEN BackedOff(c.link_capacity) ELSE BackedOff(throughput)
             new == ClampBitrate(c, DecreasedBitrate(c, throughput))
             r == Decreased(c, throughput, t, deviation)
  <1>1. /\ c \in RateControl
        /\ c.current_bitrate \in Nat /\ c.min_configured \in Nat
        /\ c.latest_throughput \in Nat /\ c.rtt \in Nat
        /\ c.link_capacity \in LinkCapacityEstimator
    BY DEF TypedRates, RateControl
  <1>2. capacity \in {NoRate} \cup Nat
    BY <1>1 DEF ResetIf
  <1> HIDE DEF capacity
  <1>3. new_capacity \in Nat
    BY <1>2, SMT DEF UpdatedCapacity, NoRate
  <1>4. /\ decreased \in Nat /\ BackedOff(throughput) \in Nat
        /\ Lower(decreased, c.current_bitrate) <= BackedOff(throughput)
    <2>1. decreased \in Nat /\ BackedOff(throughput) \in Nat
      BY <1>1, BackedOffIsNat
    <2>2. \/ decreased = BackedOff(throughput)
          \/ BackedOff(throughput) > c.current_bitrate
      OBVIOUS
    <2> HIDE DEF decreased
    <2> QED
      BY <2>1, <2>2, <1>1, SMT DEF Lower
  <1>5. /\ new \in Nat /\ c.min_configured <= new
        /\ new <= ClampBitrate(c, BackedOff(throughput))
        /\ c.min_configured <= c.current_bitrate => new <= c.current_bitrate
    <2>1. new = ClampBitrate(c, Lower(decreased, c.current_bitrate))
      BY Zenon DEF DecreasedBitrate
    <2> HIDE DEF decreased, new
    <2> QED
      BY <2>1, <1>1, <1>4, SMT DEF ClampBitrate, Higher, Lower
  <1>6. r = [c EXCEPT !.current_bitrate = new, !.initialized = TRUE,
                      !.link_capacity = new_capacity, !.state = "kRcHold",
                      !.time_last_change = t, !.time_last_decrease = t]
    BY Zenon DEF Decreased, capacity
  <1> HIDE DEF new, new_capacity
  <1>7. r \in RateControl
    <2> DEFINE d == [c EXCEPT !.current_bitrate = new]
               e == [d EXCEPT !.initialized = TRUE]
               f == [e EXCEPT !.link_capacity = new_capacity]
               g == [f EXCEPT !.state = "kRcHold"]
               h == [g EXCEPT !.time_last_change = t]
               i == [h EXCEPT !.time_last_decrease = t]
    <2>1. r = i
      BY <1>6, Zenon
    <2> HIDE DEF r
    <2>2. d \in RateControl
      BY <1>1, <1>5 DEF RateControl
    <2> HIDE DEF d
    <2>3. e \in RateControl
      BY <2>2 DEF RateControl
    <2> HIDE DEF e
    <2>4. f \in RateControl
      BY <2>3, <1>3 DEF RateControl
    <2> HIDE DEF f
    <2>5. g \in RateControl
      BY <2>4 DEF RateControl
    <2> HIDE DEF g
    <2>6. h \in RateControl
      BY <2>5 DEF RateControl
    <2> HIDE DEF h
    <2>7. i \in RateControl
      BY <2>6 DEF RateControl
    <2> HIDE DEF i
    <2> QED
      BY <2>1, <2>7
  <1>8. /\ r.min_configured = c.min_configured
        /\ r.current_bitrate = new /\ r.latest_throughput = c.latest_throughput
        /\ r.state = "kRcHold"
        /\ r.time_last_change = t /\ r.time_last_decrease = t
        /\ r.time_first_throughput = c.time_first_throughput
        /\ r.link_capacity = new_capacity /\ r.initialized
    BY <1>1, <1>6 DEF RateControl
  <1> HIDE DEF r
  <1>9. GoodRates(r, t)
    BY <1>1, <1>3, <1>5, <1>7, <1>8, SMT DEF GoodRates, TypedRates
  <1> QED
    BY <1>5, <1>8, <1>9, Zenon DEF r

\* What Update makes of the record `a'.
Updated(a, r, t, overuse, throughput) ==
    /\ GoodRates(r, t)
    /\ r.time_last_change \in {a.time_last_change, t}
    /\ a.initialized /\ r.current_bitrate # a.current_bitrate => r.time_last_change = t
    /\ overuse = "kBwOverusing" =>
          /\ r.time_last_change = t
          /\ r.current_bitrate <= ClampBitrate(a, BackedOff(throughput))
    /\ a.initialized /\ overuse = "kBwOverusing"
          => r.current_bitrate <= a.current_bitrate
    /\ a.initialized /\ overuse # "kBwOverusing"
          => a.current_bitrate <= r.current_bitrate
    /\ a.initialized /\ r.current_bitrate > a.current_bitrate
          => r.current_bitrate <= ThroughputLimit(r.latest_throughput)
    /\ a.initialized /\ a.state = "kRcHold"
          => /\ r.current_bitrate > a.current_bitrate => overuse = "kBwNormal"
             /\ r.current_bitrate <= a.current_bitrate + 1

LEMMA UpdateRight ==
    ASSUME NEW a, NEW t \in Nat, t < PlusInfinity, GoodRates(a, t),
           NEW overuse \in Usages, NEW throughput \in {NoRate} \cup Nat,
           overuse = "kBwOverusing" => throughput # NoRate,
           throughput # NoRate => ThroughputLimit(throughput) <= PlusInfinity,
           NEW deviation
    PROVE  Updated(a, Update(a, RateControlInput(overuse, throughput), t, deviation), t, overuse, throughput)
  <1> DEFINE first == WithFirstEstimate(a, throughput, t)
             estimated == IF throughput = NoRate THEN first.latest_throughput ELSE throughput
             b == [first EXCEPT !.latest_throughput = estimated]
             c == WithState(b, overuse, t)
             r == Update(a, RateControlInput(overuse, throughput), t, deviation)
  <1> SUFFICES Updated(a, r, t, overuse, throughput)
    OBVIOUS
  <1>1. /\ a \in RateControl
        /\ a.current_bitrate \in Nat /\ a.min_configured \in Nat
        /\ a.initialized \in BOOLEAN
        /\ a.min_configured <= a.current_bitrate
    BY DEF GoodRates, TypedRates, RateControl
  <1>2. /\ first \in RateControl
        /\ first.min_configured = a.min_configured /\ first.rtt = a.rtt
        /\ first.latest_throughput = a.latest_throughput /\ first.state = a.state
        /\ first.time_last_change = a.time_last_change
        /\ first.time_last_decrease = a.time_last_decrease
        /\ first.time_first_throughput \in {Never} \cup (0 .. t)
        /\ first.link_capacity = a.link_capacity
        /\ a.initialized \/ throughput = NoRate => first = a
        /\ ~first.initialized => ~a.initialized /\ first.current_bitrate = a.current_bitrate
    <2>1. CASE a.initialized \/ throughput = NoRate
      BY <2>1, <1>1 DEF WithFirstEstimate, GoodRates, TypedRates
    <2>2. CASE ~(a.initialized \/ throughput = NoRate) /\ IsInfinite(a.time_first_throughput)
      <3>1. first = [a EXCEPT !.time_first_throughput = t]
        BY <2>2 DEF WithFirstEstimate
      <3> HIDE DEF first
      <3> QED
        BY <3>1, <2>2, <1>1 DEF RateControl, GoodRates, TypedRates
    <2>3. CASE /\ ~(a.initialized \/ throughput = NoRate)
               /\ ~IsInfinite(a.time_first_throughput)
               /\ Since(t, a.time_first_throughput) > InitializationTime
      <3>1. first = [a EXCEPT !.current_bitrate = throughput, !.initialized = TRUE]
        BY <2>3 DEF WithFirstEstimate
      <3>2. throughput \in Nat
        BY <2>3
      <3> HIDE DEF first
      <3> QED
        BY <3>1, <3>2, <2>3, <1>1 DEF RateControl, GoodRates, TypedRates
    <2>4. CASE /\ ~(a.initialized \/ throughput = NoRate)
               /\ ~IsInfinite(a.time_first_throughput)
               /\ ~(Since(t, a.time_first_throughput) > InitializationTime)
      <3>1. first = a
        BY <2>4 DEF WithFirstEstimate
      <3> HIDE DEF first
      <3> QED
        BY <3>1, <2>4, <1>1 DEF GoodRates, TypedRates
    <2> QED
      BY <2>1, <2>2, <2>3, <2>4
  <1> HIDE DEF first
  <1>3. estimated \in Nat /\ ThroughputLimit(estimated) <= PlusInfinity
    BY <1>2 DEF RateControl, GoodRates, TypedRates
  <1> HIDE DEF estimated
  <1>4. /\ b \in RateControl
        /\ b.min_configured = a.min_configured /\ b.latest_throughput = estimated
        /\ b.state = a.state /\ b.current_bitrate = first.current_bitrate
        /\ b.initialized = first.initialized
        /\ b.time_last_change = a.time_last_change
        /\ b.time_last_decrease = a.time_last_decrease
        /\ b.time_first_throughput \in {Never} \cup (0 .. t)
        /\ b.link_capacity = a.link_capacity
    BY <1>2, <1>3 DEF RateControl
  <1>5. r = WithBitrate(first, overuse, throughput, t, deviation)
    BY Zenon DEF Update, RateControlInput, first
  <1> HIDE DEF b
  <1>6. /\ c \in RateControl
        /\ c.min_configured = a.min_configured /\ c.latest_throughput = estimated
        /\ c.current_bitrate = b.current_bitrate /\ c.initialized = b.initialized
        /\ c.time_last_decrease = a.time_last_decrease
        /\ c.time_first_throughput \in {Never} \cup (0 .. t)
        /\ c.link_capacity = a.link_capacity
        /\ c.time_last_change \in {a.time_last_change, t}
        /\ c.state = "kRcDecrease" <=> overuse = "kBwOverusing"
        /\ a.state = "kRcHold" /\ c.state = "kRcIncrease" => c.time_last_change = t
        /\ c.state = "kRcIncrease" => overuse = "kBwNormal"
    <2>1. a.state \in {"kRcHold", "kRcIncrease"}
      BY <1>1 DEF RateControl, GoodRates, TypedRates
    <2>2. CASE overuse = "kBwNormal" /\ b.state = "kRcHold"
      <3>1. c = [b EXCEPT !.state = "kRcIncrease", !.time_last_change = t]
        BY <2>2 DEF WithState
      <3> DEFINE d == [b EXCEPT !.state = "kRcIncrease"]
      <3>2. d \in RateControl
        BY <1>4 DEF RateControl
      <3>3. c = [d EXCEPT !.time_last_change = t]
        BY <3>1, Zenon
      <3> HIDE DEF c
      <3>4. c.state = "kRcIncrease" /\ c.time_last_change = t
        BY <3>1, <1>4 DEF RateControl
      <3> HIDE DEF d
      <3>5. c \in RateControl
        BY <3>2, <3>3 DEF RateControl
      <3> QED
        BY <3>1, <3>4, <3>5, <2>2, <1>4 DEF RateControl
    <2>3. CASE overuse = "kBwNormal" /\ b.state # "kRcHold"
      <3>1. c = b
        BY <2>3 DEF WithState
      <3> HIDE DEF c
      <3> QED
        BY <3>1, <2>1, <2>3, <1>4
    <2>4. CASE overuse = "kBwOverusing"
      <3>1. c = [b EXCEPT !.state = "kRcDecrease"]
        BY <2>4 DEF WithState
      <3> HIDE DEF c
      <3> QED
        BY <3>1, <2>4, <1>4 DEF RateControl
    <2>5. CASE overuse = "kBwUnderusing"
      <3>1. c = [b EXCEPT !.state = "kRcHold"]
        BY <2>5 DEF WithState
      <3> HIDE DEF c
      <3> QED
        BY <3>1, <2>5, <1>4 DEF RateControl
    <2> QED
      BY <2>2, <2>3, <2>4, <2>5 DEF Usages
  <1> HIDE DEF c
  <1>7. a.time_last_decrease <= t /\ a.time_last_decrease \in Int /\ a.time_last_change \in Int
    BY UnitsAssumption, SMT DEF GoodRates, TypedRates, Never, MinusInfinity
  <1>8. b.current_bitrate \in Nat
    BY <1>4 DEF RateControl
  <1>9. CASE ~b.initialized /\ overuse # "kBwOverusing"
    <2>1. r = b
      BY <1>5, <1>9, Zenon DEF WithBitrate, b, c, estimated
    <2> HIDE DEF r
    <2>2. ~a.initialized /\ b.current_bitrate = a.current_bitrate
      BY <1>2, <1>4, <1>9
    <2> QED
      BY <2>1, <2>2, <1>1, <1>3, <1>4, <1>7, <1>9 DEF Updated, GoodRates, TypedRates
  <1>10. CASE (b.initialized \/ overuse = "kBwOverusing") /\ c.state = "kRcHold"
    <2> DEFINE new == ClampBitrate(b, c.current_bitrate)
    <2>1. r = [c EXCEPT !.current_bitrate = new]
      BY <1>5, <1>10, Zenon DEF WithBitrate, b, c, estimated
    <2>2. /\ new \in Nat /\ a.min_configured <= new
          /\ a.min_configured <= b.current_bitrate => new = b.current_bitrate
      BY <1>1, <1>4, <1>6, <1>8, SMT DEF ClampBitrate, Higher
    <2>3. a.initialized => new = a.current_bitrate
      BY <2>2, <1>1, <1>2, <1>4
    <2> HIDE DEF new, r
    <2>4. r \in RateControl /\ r.current_bitrate = new /\ r.initialized = c.initialized
      BY <2>1, <2>2, <1>6 DEF RateControl
    <2>5. /\ r.min_configured = a.min_configured /\ r.latest_throughput = estimated
          /\ r.time_last_decrease = a.time_last_decrease
          /\ r.time_first_throughput \in {Never} \cup (0 .. t)
          /\ r.link_capacity = a.link_capacity
          /\ r.time_last_change = c.time_last_change
          /\ r.state = "kRcHold"
      BY <2>1, <1>6, <1>10 DEF RateControl
    <2>6. GoodRates(r, t)
      BY <2>2, <2>4, <2>5, <1>1, <1>3, <1>6, <1>7 DEF GoodRates, TypedRates
    <2>7. overuse # "kBwOverusing" /\ b.initialized
      BY <1>6, <1>10
    <2> QED
      BY <2>2, <2>3, <2>4, <2>5, <2>6, <2>7, <1>1, <1>2, <1>4, <1>6 DEF Updated
  <1>11. CASE (b.initialized \/ overuse = "kBwOverusing") /\ c.state = "kRcIncrease"
    <2>1. r = Increased(c, estimated, t, deviation)
      BY <1>5, <1>11, Zenon DEF WithBitrate, b, c, estimated
    <2>2. TypedRates(c, t)
      BY <1>1, <1>3, <1>6, <1>7 DEF TypedRates, GoodRates
    <2>3. a.initialized => c.current_bitrate = a.current_bitrate
      BY <1>2, <1>4, <1>6
    <2> HIDE DEF r
    <2>4. /\ GoodRates(r, t)
          /\ r.initialized = c.initialized
          /\ r.latest_throughput = estimated
          /\ r.time_last_change = t
          /\ c.current_bitrate <= r.current_bitrate
          /\ c.min_configured <= c.current_bitrate =>
                /\ r.current_bitrate > c.current_bitrate
                      => r.current_bitrate <= ThroughputLimit(estimated)
                /\ c.time_last_change = t => r.current_bitrate <= c.current_bitrate + 1
      BY <2>1, <2>2, <1>3, <1>6, <1>11, IncreasedRight
    <2>5. b.initialized /\ overuse = "kBwNormal"
      BY <1>6, <1>11
    <2> QED
      <3>1. r.current_bitrate \in Nat
        BY <2>4 DEF GoodRates, TypedRates, RateControl
      <3>2. ASSUME a.initialized
            PROVE  /\ a.current_bitrate <= r.current_bitrate
                   /\ r.current_bitrate > a.current_bitrate
                         => r.current_bitrate <= ThroughputLimit(r.latest_throughput)
                   /\ a.state = "kRcHold" => r.current_bitrate <= a.current_bitrate + 1
        BY <3>2, <2>3, <2>4, <1>1, <1>6, <1>11
      <3> QED
        BY <3>1, <3>2, <2>4, <2>5, Zenon DEF Updated
  <1>12. CASE (b.initialized \/ overuse = "kBwOverusing") /\ c.state = "kRcDecrease"
    <2>1. r = Decreased(c, estimated, t, deviation)
      BY <1>5, <1>12, Zenon DEF WithBitrate, b, c, estimated
    <2>2. TypedRates(c, t)
      BY <1>1, <1>3, <1>6, <1>7 DEF TypedRates, GoodRates
    <2>3. a.initialized => c.current_bitrate = a.current_bitrate
      BY <1>2, <1>4, <1>6
    <2> HIDE DEF r
    <2>4. /\ GoodRates(r, t) /\ r.time_last_change = t
          /\ r.current_bitrate <= ClampBitrate(c, BackedOff(estimated))
          /\ c.min_configured <= c.current_bitrate
                => r.current_bitrate <= c.current_bitrate
      BY <2>1, <2>2, <1>3, DecreasedRight
    <2>5. r.current_bitrate \in Nat
      BY <2>4 DEF GoodRates, TypedRates, RateControl
    <2>6. overuse = "kBwOverusing"
      BY <1>6, <1>12
    <2>7. estimated = throughput /\ c.min_configured = a.min_configured
      BY <2>6, <1>6 DEF estimated
    <2>8. r.current_bitrate <= ClampBitrate(a, BackedOff(throughput))
      BY <2>4, <2>7, Zenon DEF ClampBitrate
    <2> QED
      BY <2>3, <2>4, <2>5, <2>6, <2>8, <1>1, <1>6 DEF Updated
  <1> QED
    BY <1>6, <1>9, <1>10, <1>11, <1>12, Zenon DEF RateControl

-----------------------------------------------------------------------------
(* The inductive invariant *)

\* How the histories relate to the time of the last change: while measured overuse
\* lasts, nothing but a reaction to it has changed the estimate, and no packet has
\* moved the estimate since that time.
HistoryRight ==
    /\ over_since # Never
          => rate_control.time_last_change <= Higher(over_since, backed_off)
    /\ moved <= rate_control.time_last_change

RatesRight ==
    /\ TypeOK
    /\ GoodRates(rate_control, now)
    /\ HistoryRight

\* A packet updates the rate control, halves its estimate, or leaves it alone.
LEMMA PacketCases ==
    ASSUME IncomingPacket
    PROVE  \/ \E deviation \in Deviations :
                 /\ rate_control' = Update(rate_control, RateControlInput(usage', acked_bitrate'), now, deviation)
                 /\ usage' = "kBwOverusing" =>
                       /\ acked_bitrate' # NoRate
                       /\ TimeToReduceFurther(rate_control, now, acked_bitrate')
           \/ /\ usage' = "kBwOverusing" /\ acked_bitrate' = NoRate
              /\ rate_control.initialized
              /\ InitialTimeToReduceFurther(rate_control)
              /\ HalveEstimate
           \/ /\ rate_control' = rate_control
              /\ MeasuredOveruse => ~TimeToReduceFurther(rate_control, now, acked_bitrate')
  BY Zenon DEF IncomingPacket, MaybeUpdateEstimate, UpdateEstimate, KeepEstimate, ValidEstimate,
               MeasuredOveruse

\* The other variables of a packet.
LEMMA PacketTyped ==
    ASSUME TypeOK, IncomingPacket
    PROVE  /\ now' = now /\ now \in Nat /\ now < PlusInfinity
           /\ packets' \in 0 .. MaxPackets /\ calls' = calls
           /\ acked_bitrate' \in Throughputs \cup {NoRate}
           /\ acked_bitrate' \in {NoRate} \cup Nat
           /\ acked_bitrate' # NoRate => ThroughputLimit(acked_bitrate') <= PlusInfinity
           /\ usage' \in Usages
           /\ last_seen_packet' = now
           /\ unchanged_since' \in 0 .. now
           /\ {over_since', backed_off', moved'} \subseteq {Never} \cup (0 .. now)
  <1>1. /\ now' = now /\ packets' \in 0 .. MaxPackets /\ calls' = calls
        /\ last_seen_packet' = now
    BY DelayAssumption DEF TypeOK, IncomingPacket
  <1>2. now \in Nat /\ now < PlusInfinity
    BY DelayAssumption, UnitsAssumption DEF TypeOK
  <1>3. acked_bitrate' \in Throughputs \cup {NoRate}
    BY DelayAssumption DEF TypeOK, IncomingPacket, AcknowledgedBitrates
  <1>4. acked_bitrate' # NoRate => acked_bitrate' \in Throughputs
    BY <1>3
  <1>5. acked_bitrate' # NoRate => ThroughputLimit(acked_bitrate') <= PlusInfinity
    BY <1>4, RatesAssumption, Zenon
  <1>6. acked_bitrate' \in {NoRate} \cup Nat
    BY <1>3, DelayAssumption
  <1>7. usage' \in Usages
    BY DEF IncomingPacket, DetectorStates, Usages
  <1>8. unchanged_since' \in 0 .. now
    BY <1>2 DEF TypeOK, IncomingPacket, NoteChange
  <1>9. {over_since', backed_off', moved'} \subseteq {Never} \cup (0 .. now)
    <2>1. /\ over_since' \in {over_since, Never, now}
          /\ backed_off' \in {backed_off, now}
          /\ moved' \in {moved, now}
      BY Zenon DEF IncomingPacket, NotePacket
    <2>2. now \in 0 .. now
      BY <1>2
    <2> QED
      BY <2>1, <2>2 DEF TypeOK
  <1> QED
    BY <1>1, <1>2, <1>3, <1>5, <1>6, <1>7, <1>8, <1>9

\* Halving: the estimate falls, or stays at the minimum.
LEMMA HalveRight ==
    ASSUME RatesRight, now < PlusInfinity, HalveEstimate, rate_control.initialized
    PROVE  /\ GoodRates(rate_control', now)
           /\ rate_control'.current_bitrate <= rate_control.current_bitrate
           /\ rate_control'.time_last_change = now
  <1> DEFINE a == rate_control
             half == Divided(a.current_bitrate, 2)
             new == ClampBitrate(a, half)
             decreased == IF new < a.current_bitrate THEN now ELSE a.time_last_decrease
             r == rate_control'
  <1>1. /\ a \in RateControl /\ a.current_bitrate \in Nat /\ a.min_configured \in Nat
        /\ a.min_configured <= a.current_bitrate
        /\ now \in Nat
        /\ a.time_last_decrease \in {Never} \cup (0 .. now)
        /\ a.time_last_change \in {Never} \cup (0 .. now)
    BY DelayAssumption DEF RatesRight, TypeOK, GoodRates, TypedRates, RateControl
  <1>2. half \in Nat /\ half = a.current_bitrate \div 2
    BY <1>1, SMT DEF Divided, Quotient
  <1> HIDE DEF half
  <1>3. new \in Nat /\ a.min_configured <= new /\ new <= a.current_bitrate
    BY <1>1, <1>2, SMT DEF ClampBitrate, Higher
  <1> HIDE DEF new
  <1>4. decreased \in {Never} \cup (0 .. now) /\ decreased <= now /\ decreased \in Int
    BY <1>1, <1>3, UnitsAssumption, SMT DEF Never, MinusInfinity
  <1>5. r = [a EXCEPT !.initialized = TRUE, !.current_bitrate = new,
                      !.time_last_change = now, !.time_last_decrease = decreased]
    BY Zenon DEF HalveEstimate, LatestEstimate, WithEstimate, half, new
  <1> HIDE DEF decreased
  <1>6. r \in RateControl
    <2> DEFINE d == [a EXCEPT !.initialized = TRUE]
               e == [d EXCEPT !.current_bitrate = new]
               f == [e EXCEPT !.time_last_change = now]
               g == [f EXCEPT !.time_last_decrease = decreased]
    <2>1. r = g
      BY <1>5, Zenon
    <2> HIDE DEF r
    <2>2. d \in RateControl
      BY <1>1 DEF RateControl
    <2> HIDE DEF d
    <2>3. e \in RateControl
      BY <2>2, <1>3 DEF RateControl
    <2> HIDE DEF e
    <2>4. f \in RateControl
      BY <2>3, <1>1 DEF RateControl
    <2> HIDE DEF f
    <2>5. g \in RateControl
      BY <2>4, <1>4 DEF RateControl
    <2> HIDE DEF g
    <2> QED
      BY <2>1, <2>5
  <1>7. /\ r.initialized /\ r.current_bitrate = new
        /\ r.time_last_change = now /\ r.time_last_decrease = decreased
        /\ r.min_configured = a.min_configured /\ r.state = a.state
        /\ r.latest_throughput = a.latest_throughput
        /\ r.time_first_throughput = a.time_first_throughput
        /\ r.link_capacity = a.link_capacity
    BY <1>1, <1>5 DEF RateControl
  <1>8. GoodRates(r, now)
    <2>1. /\ a.state # "kRcDecrease" /\ a.link_capacity \in LinkCapacityEstimator
          /\ a.time_first_throughput \in {Never} \cup (0 .. now)
          /\ ThroughputLimit(a.latest_throughput) <= PlusInfinity
      BY DEF RatesRight, GoodRates, TypedRates
    <2> HIDE DEF r, a
    <2> QED
      BY <2>1, <1>1, <1>3, <1>4, <1>6, <1>7 DEF GoodRates, TypedRates
  <1> QED
    BY <1>3, <1>4, <1>7, <1>8

\* The sooner the event, the longer the time since it.
LEMMA SinceMonotone ==
    ASSUME NEW t \in Nat, t < PlusInfinity,
           NEW first \in {Never} \cup (0 .. t), NEW last \in {Never} \cup (0 .. t),
           first <= last
    PROVE  Since(t, last) <= Since(t, first)
  <1>1. CASE first = Never
    BY <1>1, SinceIsNat, SMT
  <1>2. CASE first # Never
    <2>1. last # Never
      BY <1>2, UnitsAssumption, SMT DEF Never, MinusInfinity
    <2> QED
      BY <1>2, <2>1, SinceIsNat, SMT
  <1> QED
    BY <1>1, <1>2

\* What the properties of a packet's step need to know of the rate control.
PacketRight ==
    /\ GoodRates(rate_control', now)
    /\ HistoryRight'
    /\ rate_control.initialized =>
          /\ usage' = "kBwOverusing" => Bitrate' <= Bitrate
          /\ Bitrate' < Bitrate => usage' = "kBwOverusing"
          /\ Bitrate' > Bitrate
                => Bitrate' <= ThroughputLimit(rate_control'.latest_throughput)
          /\ rate_control.state = "kRcHold" =>
                /\ Bitrate' > Bitrate => usage' = "kBwNormal"
                /\ Bitrate' <= Bitrate + 1
    /\ rate_control.initialized /\ acked_bitrate' # NoRate /\ Bitrate' < Bitrate
          => TimeToReduceFurther(rate_control, now, acked_bitrate')
    /\ MeasuredOveruse =>
          \/ BackedOffEnough
          \/ /\ ~TimeToReduceFurther(rate_control, now, acked_bitrate')
             /\ rate_control.time_last_change <= Higher(over_since', backed_off)

\* A packet that changes the bitrate is a change, and one that finds measured
\* overuse is its beginning, backs the estimate off or leaves it alone.
LEMMA HistoryKept ==
    ASSUME RatesRight, IncomingPacket,
           rate_control'.time_last_change \in {rate_control.time_last_change, now},
           rate_control.initialized /\ Bitrate' # Bitrate
              => rate_control'.time_last_change = now,
           MeasuredOveruse =>
              \/ BackedOffEnough
              \/ rate_control'.time_last_change = rate_control.time_last_change
    PROVE  /\ HistoryRight'
           /\ MeasuredOveruse
                 => rate_control.time_last_change <= Higher(over_since', backed_off)
  <1> DEFINE old == rate_control.time_last_change
             new == rate_control'.time_last_change
  <1>1. /\ now \in Nat /\ now < PlusInfinity
        /\ {old, over_since, backed_off, moved} \subseteq {Never} \cup (0 .. now)
        /\ over_since # Never => old <= Higher(over_since, backed_off)
        /\ moved <= old
    BY PacketTyped DEF RatesRight, TypeOK, HistoryRight
  <1>2. Never \in Int /\ Never < 0
    BY UnitsAssumption, SMT DEF Never, MinusInfinity
  <1>3. /\ MeasuredOveruse /\ over_since = Never => over_since' = now
        /\ MeasuredOveruse /\ over_since # Never => over_since' = over_since
        /\ ~MeasuredOveruse => over_since' = Never
        /\ MeasuredOveruse /\ BackedOffEnough => backed_off' = now
        /\ ~(MeasuredOveruse /\ BackedOffEnough) => backed_off' = backed_off
        /\ moved' = moved \/ (rate_control.initialized /\ Bitrate' # Bitrate /\ moved' = now)
    BY DEF IncomingPacket, NotePacket
  <1>4. new \in {old, now}
    OBVIOUS
  <1>5. rate_control.initialized /\ Bitrate' # Bitrate => new = now
    OBVIOUS
  <1>6. MeasuredOveruse => BackedOffEnough \/ new = old
    OBVIOUS
  <1> HIDE DEF old, new
  <1>7. moved' <= new
    BY <1>1, <1>2, <1>3, <1>4, <1>5, SMT
  <1>8. MeasuredOveruse => old <= Higher(over_since', backed_off)
    BY <1>1, <1>2, <1>3, SMT DEF Higher
  <1>9. over_since' # Never => new <= Higher(over_since', backed_off')
    <2> SUFFICES ASSUME over_since' # Never PROVE new <= Higher(over_since', backed_off')
      OBVIOUS
    <2>1. MeasuredOveruse
      BY <1>3
    <2>2. CASE BackedOffEnough
      <3>1. backed_off' = now /\ over_since' \in {Never} \cup (0 .. now)
        BY <1>1, <1>3, <2>1, <2>2
      <3> QED
        BY <1>1, <1>2, <1>4, <3>1, SMT DEF Higher
    <2>3. CASE ~BackedOffEnough
      <3>1. backed_off' = backed_off /\ new = old
        BY <1>3, <1>6, <2>1, <2>3
      <3> QED
        BY <1>8, <2>1, <3>1
    <2> QED
      BY <2>2, <2>3
  <1> QED
    BY <1>7, <1>8, <1>9 DEF HistoryRight, old, new

LEMMA PacketIsRight ==
    ASSUME RatesRight, IncomingPacket
    PROVE  PacketRight
  <1> DEFINE a == rate_control
             r == rate_control'
  <1>1. /\ now \in Nat /\ now < PlusInfinity
        /\ acked_bitrate' \in {NoRate} \cup Nat
        /\ acked_bitrate' # NoRate => ThroughputLimit(acked_bitrate') <= PlusInfinity
        /\ usage' \in Usages
    BY PacketTyped DEF RatesRight
  <1>2. GoodRates(a, now) /\ a.current_bitrate \in Nat
    BY DEF RatesRight, GoodRates, TypedRates, RateControl
  <1>3. ASSUME NEW deviation \in Deviations,
               r = Update(a, RateControlInput(usage', acked_bitrate'), now, deviation),
               usage' = "kBwOverusing" =>
                    /\ acked_bitrate' # NoRate
                    /\ TimeToReduceFurther(a, now, acked_bitrate')
        PROVE  PacketRight
    <2>1. Updated(a, r, now, usage', acked_bitrate')
      BY <1>1, <1>2, <1>3, UpdateRight
    <2>2. r.current_bitrate \in Nat
      BY <2>1 DEF Updated, GoodRates, TypedRates, RateControl
    <2>3. MeasuredOveruse => BackedOffEnough
      BY <2>1, Zenon DEF Updated, MeasuredOveruse, BackedOffEnough, Bitrate
    <2>4. HistoryRight'
      <3>1. /\ r.time_last_change \in {a.time_last_change, now}
            /\ a.initialized /\ Bitrate' # Bitrate => r.time_last_change = now
        BY <2>1, Zenon DEF Updated, Bitrate
      <3> QED
        BY <2>3, <3>1, HistoryKept
    <2>5. ASSUME a.initialized
          PROVE  /\ usage' = "kBwOverusing" => r.current_bitrate <= a.current_bitrate
                 /\ r.current_bitrate < a.current_bitrate => usage' = "kBwOverusing"
                 /\ r.current_bitrate > a.current_bitrate
                       => r.current_bitrate <= ThroughputLimit(r.latest_throughput)
                 /\ a.state = "kRcHold" =>
                       /\ r.current_bitrate > a.current_bitrate => usage' = "kBwNormal"
                       /\ r.current_bitrate <= a.current_bitrate + 1
      BY <2>1, <2>2, <2>5, <1>2 DEF Updated
    <2>6. a.initialized /\ r.current_bitrate < a.current_bitrate
             => TimeToReduceFurther(a, now, acked_bitrate')
      BY <2>5, <1>3, Zenon
    <2>7. GoodRates(r, now)
      BY <2>1 DEF Updated
    <2> QED
      BY <2>3, <2>4, <2>5, <2>6, <2>7, Zenon DEF PacketRight, Bitrate
  <1>4. ASSUME usage' = "kBwOverusing", acked_bitrate' = NoRate, a.initialized,
               InitialTimeToReduceFurther(a), HalveEstimate
        PROVE  PacketRight
    <2>1. /\ GoodRates(r, now)
          /\ r.current_bitrate <= a.current_bitrate
          /\ r.time_last_change = now
      BY <1>1, <1>4, HalveRight
    <2>2. r.current_bitrate \in Nat
      BY <2>1 DEF GoodRates, TypedRates, RateControl
    <2>3. ~MeasuredOveruse
      BY <1>4 DEF MeasuredOveruse
    <2>4. HistoryRight'
      BY <2>1, <2>3, HistoryKept
    <2>5. ~(r.current_bitrate > a.current_bitrate) /\ r.current_bitrate <= a.current_bitrate + 1
      BY <2>1, <2>2, <1>2
    <2> QED
      BY <2>1, <2>3, <2>4, <2>5, <1>4, Zenon DEF PacketRight, Bitrate
  <1>5. ASSUME r = a, MeasuredOveruse => ~TimeToReduceFurther(a, now, acked_bitrate')
        PROVE  PacketRight
    <2>1. Bitrate' = Bitrate /\ r.time_last_change = a.time_last_change
      BY <1>5 DEF Bitrate
    <2>2. /\ HistoryRight'
          /\ MeasuredOveruse => a.time_last_change <= Higher(over_since', backed_off)
      BY <2>1, HistoryKept
    <2>3. /\ ~(a.current_bitrate < a.current_bitrate)
          /\ a.current_bitrate <= a.current_bitrate
          /\ a.current_bitrate <= a.current_bitrate + 1
      BY <1>2
    <2> QED
      BY <2>2, <2>3, <1>2, <1>5 DEF PacketRight, Bitrate
  <1> QED
    BY <1>3, <1>4, <1>5, PacketCases

\* New constraints: the bitrate is at least the minimum, and at least the rate to
\* start from.
LEMMA ConstraintsRight ==
    ASSUME NEW rate \in StartBitrates \cup {NoRate}, NEW min \in MinBitrates,
           RatesRight, OnConstraints(rate, min)
    PROVE  GoodRates(rate_control', now) /\ HistoryRight'
  <1> DEFINE a == rate_control
             r == rate_control'
             first == Higher(rate, min)
             b == IF HasValue(rate) THEN SetStartBitrate(a, first) ELSE a
             new == Higher(min, b.current_bitrate)
  <1>1. /\ a \in RateControl /\ a.current_bitrate \in Nat /\ a.latest_throughput \in Nat
        /\ a.state # "kRcDecrease"
        /\ a.time_last_change \in {Never} \cup (0 .. now)
        /\ a.time_last_decrease \in {Never} \cup (0 .. now)
        /\ a.time_first_throughput \in {Never} \cup (0 .. now)
        /\ a.link_capacity \in LinkCapacityEstimator
        /\ a.time_last_decrease <= a.time_last_change
        /\ ThroughputLimit(a.latest_throughput) <= PlusInfinity
    BY DEF RatesRight, TypeOK, GoodRates, TypedRates, RateControl
  <1>2. min \in Nat /\ ThroughputLimit(min) <= PlusInfinity
    BY DelayAssumption, RatesAssumption
  <1>3. ASSUME HasValue(rate)
        PROVE  first \in Nat /\ min <= first /\ ThroughputLimit(first) <= PlusInfinity
    <2>1. rate \in StartBitrates /\ rate \in Nat
      BY <1>3, DelayAssumption DEF HasValue
    <2>2. ThroughputLimit(rate) <= PlusInfinity
      BY <2>1, RatesAssumption
    <2>3. first = rate \/ first = min
      BY DEF Higher
    <2>4. first \in Nat /\ min <= first
      BY <2>1, <1>2, SMT DEF Higher
    <2> HIDE DEF first
    <2> QED
      BY <2>1, <2>2, <2>3, <2>4, <1>2
  <1>4. /\ b \in RateControl /\ b.current_bitrate \in Nat
        /\ b.state = a.state
        /\ b.time_last_change = a.time_last_change
        /\ b.time_last_decrease = a.time_last_decrease
        /\ b.time_first_throughput = a.time_first_throughput
        /\ b.link_capacity = a.link_capacity
        /\ ThroughputLimit(b.latest_throughput) <= PlusInfinity
        /\ b.current_bitrate = IF HasValue(rate) THEN first ELSE a.current_bitrate
        /\ b.initialized = IF HasValue(rate) THEN TRUE ELSE a.initialized
    <2>1. CASE HasValue(rate)
      <3>1. b = [a EXCEPT !.current_bitrate = first,
                          !.latest_throughput = first,
                          !.initialized = TRUE]
        BY <2>1, Zenon DEF SetStartBitrate
      <3>2. first \in Nat /\ ThroughputLimit(first) <= PlusInfinity
        BY <1>3, <2>1
      <3> HIDE DEF first, b, a
      <3>3. b \in RateControl
        <4> DEFINE d == [a EXCEPT !.current_bitrate = first]
                   e == [d EXCEPT !.latest_throughput = first]
                   f == [e EXCEPT !.initialized = TRUE]
        <4>1. b = f
          BY <3>1, Zenon
        <4>2. d \in RateControl
          BY <1>1, <3>2 DEF RateControl
        <4> HIDE DEF d
        <4>3. e \in RateControl
          BY <4>2, <3>2 DEF RateControl
        <4> HIDE DEF e
        <4>4. f \in RateControl
          BY <4>3 DEF RateControl
        <4> HIDE DEF f
        <4> QED
          BY <4>1, <4>4
      <3> QED
        BY <3>1, <3>2, <3>3, <2>1, <1>1 DEF RateControl
    <2>2. CASE ~HasValue(rate)
      BY <2>2, <1>1 DEF RateControl
    <2> QED
      BY <2>1, <2>2
  <1>5. r = [b EXCEPT !.min_configured = min, !.current_bitrate = new]
    BY Zenon DEF OnConstraints, SetMinBitrate
  <1>6. over_since' = over_since /\ backed_off' = backed_off /\ moved' = moved
    BY DEF OnConstraints
  <1> HIDE DEF b, first
  <1>7. new \in Nat /\ min <= new
    BY <1>2, <1>4, SMT DEF Higher
  <1> HIDE DEF new
  <1>8. r \in RateControl
    <2> DEFINE d == [b EXCEPT !.min_configured = min]
               e == [d EXCEPT !.current_bitrate = new]
    <2>1. r = e
      BY <1>5, Zenon
    <2> HIDE DEF r
    <2>2. d \in RateControl
      BY <1>2, <1>4 DEF RateControl
    <2> HIDE DEF d
    <2>3. e \in RateControl
      BY <2>2, <1>7 DEF RateControl
    <2> HIDE DEF e
    <2> QED
      BY <2>1, <2>3
  <1>9. /\ r.min_configured = min /\ r.current_bitrate = new
         /\ r.initialized = b.initialized
         /\ r.state = a.state /\ r.latest_throughput = b.latest_throughput
         /\ r.time_last_change = a.time_last_change
         /\ r.time_last_decrease = a.time_last_decrease
         /\ r.time_first_throughput = a.time_first_throughput
         /\ r.link_capacity = a.link_capacity
    BY <1>4, <1>5 DEF RateControl
  <1>10. GoodRates(r, now)
    <2> HIDE DEF r, a
    <2> QED
      BY <1>1, <1>4, <1>7, <1>8, <1>9 DEF GoodRates, TypedRates
  <1>11. HistoryRight'
    BY <1>6, <1>9 DEF RatesRight, HistoryRight
  <1> QED
    BY <1>10, <1>11

\* A round-trip time changes nothing else.
LEMMA RttRight ==
    ASSUME NEW rtt \in Rtts, RatesRight, OnRttUpdate(rtt)
    PROVE  GoodRates(rate_control', now) /\ HistoryRight'
  <1> DEFINE a == rate_control
             r == rate_control'
  <1>1. r = [a EXCEPT !.rtt = rtt] /\ rtt \in Nat
    BY DelayAssumption, Zenon DEF OnRttUpdate, SetRtt
  <1>2. a \in RateControl
    BY DEF RatesRight, GoodRates, TypedRates
  <1>3. r \in RateControl
    BY <1>1, <1>2 DEF RateControl
  <1>4. /\ r.min_configured = a.min_configured /\ r.current_bitrate = a.current_bitrate
        /\ r.initialized = a.initialized
        /\ r.state = a.state /\ r.latest_throughput = a.latest_throughput
        /\ r.time_last_change = a.time_last_change
        /\ r.time_last_decrease = a.time_last_decrease
        /\ r.time_first_throughput = a.time_first_throughput
        /\ r.link_capacity = a.link_capacity
    BY <1>1, <1>2 DEF RateControl
  <1>5. GoodRates(r, now)
    <2>1. GoodRates(a, now)
      BY DEF RatesRight
    <2> HIDE DEF r, a
    <2> QED
      BY <2>1, <1>3, <1>4 DEF GoodRates, TypedRates
  <1>6. over_since' = over_since /\ backed_off' = backed_off /\ moved' = moved
    BY DEF OnRttUpdate, historyVars
  <1>7. HistoryRight'
    BY <1>4, <1>6 DEF RatesRight, HistoryRight
  <1> QED
    BY <1>5, <1>7

\* What RatesRight says of the type, from the rest.
LEMMA TypedAgain ==
    ASSUME now' \in 0 .. MaxTime, packets' \in 0 .. MaxPackets, calls' \in 0 .. MaxCalls,
           GoodRates(rate_control', now'), HistoryRight',
           last_seen_packet' \in {Never} \cup (0 .. now'),
           acked_bitrate' \in Throughputs \cup {NoRate}, usage' \in Usages,
           unchanged_since' \in 0 .. now',
           {over_since', backed_off', moved'} \subseteq {Never} \cup (0 .. now')
    PROVE  RatesRight'
  <1>1. TypeOK'
    BY DEF TypeOK, Bitrate, GoodRates, TypedRates
  <1> QED
    BY <1>1 DEF RatesRight

LEMMA RatesRightStep ==
    ASSUME RatesRight, [Next]_vars
    PROVE  RatesRight'
  <1> USE DEF RatesRight
  <1>1. /\ now \in Nat /\ MaxTime \in Nat /\ now <= MaxTime
        /\ calls \in Nat /\ calls <= MaxCalls /\ MaxCalls \in Nat
    BY DelayAssumption DEF TypeOK
  <1>2. CASE Tick
    <2>1. /\ now' = now + 1 /\ now' \in 0 .. MaxTime /\ packets' = 0 /\ calls' = calls
          /\ rate_control' = rate_control /\ last_seen_packet' = last_seen_packet
          /\ acked_bitrate' = acked_bitrate /\ usage' = usage
          /\ unchanged_since' = unchanged_since /\ over_since' = over_since
          /\ backed_off' = backed_off /\ moved' = moved
      BY <1>1, <1>2 DEF Tick, packetVars, historyVars
    <2>2. {Never} \cup (0 .. now) \subseteq {Never} \cup (0 .. now')
          /\ 0 .. now \subseteq 0 .. now'
      BY <1>1, <2>1
    <2>3. GoodRates(rate_control', now')
      BY <2>1, <2>2 DEF GoodRates, TypedRates
    <2>4. HistoryRight'
      BY <2>1 DEF HistoryRight
    <2>5. /\ last_seen_packet' \in {Never} \cup (0 .. now')
          /\ unchanged_since' \in 0 .. now'
          /\ {over_since', backed_off', moved'} \subseteq {Never} \cup (0 .. now')
      BY <2>1, <2>2 DEF TypeOK
    <2>6. packets' \in 0 .. MaxPackets
      BY <2>1, DelayAssumption
    <2>7. /\ acked_bitrate' \in Throughputs \cup {NoRate} /\ usage' \in Usages
          /\ calls' \in 0 .. MaxCalls
      BY <2>1 DEF TypeOK
    <2> QED
      BY <2>1, <2>3, <2>4, <2>5, <2>6, <2>7, TypedAgain
  <1>3. CASE IncomingPacket
    <2>1. PacketRight
      BY <1>3, PacketIsRight
    <2>2. calls \in 0 .. MaxCalls /\ now \in 0 .. MaxTime
      BY DEF TypeOK
    <2>3. /\ now' = now /\ packets' \in 0 .. MaxPackets /\ calls' = calls
          /\ acked_bitrate' \in Throughputs \cup {NoRate} /\ usage' \in Usages
          /\ last_seen_packet' = now /\ unchanged_since' \in 0 .. now
          /\ {over_since', backed_off', moved'} \subseteq {Never} \cup (0 .. now)
      BY <1>3, PacketTyped
    <2>4. last_seen_packet' \in {Never} \cup (0 .. now')
      BY <1>1, <2>3
    <2> QED
      BY <2>1, <2>2, <2>3, <2>4, TypedAgain DEF PacketRight
  <1>4. CASE \E rate \in StartBitrates \cup {NoRate}, min \in MinBitrates :
                OnConstraints(rate, min)
    <2>1. PICK rate \in StartBitrates \cup {NoRate}, min \in MinBitrates :
                OnConstraints(rate, min)
      BY <1>4
    <2>2. GoodRates(rate_control', now) /\ HistoryRight'
      BY <2>1, ConstraintsRight
    <2>3. /\ now' = now /\ packets' = packets /\ calls' \in 0 .. MaxCalls
          /\ last_seen_packet' = last_seen_packet /\ acked_bitrate' = acked_bitrate
          /\ usage' = usage /\ over_since' = over_since /\ backed_off' = backed_off
          /\ moved' = moved
      BY <2>1, <1>1 DEF OnConstraints, packetVars
    <2>4. unchanged_since' \in 0 .. now
      BY <2>1, <1>1 DEF OnConstraints, NoteChange, TypeOK
    <2> QED
      BY <2>2, <2>3, <2>4, TypedAgain DEF TypeOK
  <1>5. CASE \E rtt \in Rtts : OnRttUpdate(rtt)
    <2>1. PICK rtt \in Rtts : OnRttUpdate(rtt)
      BY <1>5
    <2>2. GoodRates(rate_control', now) /\ HistoryRight'
      BY <2>1, RttRight
    <2>3. /\ now' = now /\ packets' = packets /\ calls' \in 0 .. MaxCalls
          /\ last_seen_packet' = last_seen_packet /\ acked_bitrate' = acked_bitrate
          /\ usage' = usage /\ unchanged_since' = unchanged_since
          /\ over_since' = over_since /\ backed_off' = backed_off /\ moved' = moved
      BY <2>1, <1>1 DEF OnRttUpdate, packetVars, historyVars
    <2> QED
      BY <2>2, <2>3, TypedAgain DEF TypeOK
  <1>6. CASE UNCHANGED vars
    BY <1>6 DEF vars, packetVars, historyVars, TypeOK, HistoryRight, Bitrate
  <1> QED
    BY <1>2, <1>3, <1>4, <1>5, <1>6 DEF Next

LEMMA RatesRightInit == Init => RatesRight
  <1> SUFFICES ASSUME Init PROVE RatesRight
    OBVIOUS
  <1> USE DEF Init
  <1>1. InitialAimd \in RateControl
    BY AimdAssumption, UnitsAssumption, SMT
       DEF InitialAimd, RateControl, Never, MinusInfinity, NoRate
  <1>2. ThroughputLimit(MaxConfiguredBitrate) <= PlusInfinity
    BY RatesAssumption
  <1>3. Never <= Never
    BY UnitsAssumption DEF Never, MinusInfinity
  <1>4. GoodRates(rate_control, now)
    BY <1>1, <1>2, <1>3, AimdAssumption DEF GoodRates, TypedRates, InitialAimd
  <1>5. HistoryRight
    BY <1>3 DEF HistoryRight, InitialAimd
  <1>6. TypeOK
    BY <1>1, AimdAssumption, DelayAssumption DEF TypeOK, Bitrate, InitialAimd, Usages
  <1> QED
    BY <1>4, <1>5, <1>6 DEF RatesRight

THEOREM RatesStayRight == Spec => []RatesRight
  <1>1. Init => RatesRight
    BY RatesRightInit
  <1>2. RatesRight /\ [Next]_vars => RatesRight'
    BY RatesRightStep
  <1> QED
    BY <1>1, <1>2, PTL DEF Spec

-----------------------------------------------------------------------------
(* The theorems *)

\* Every variable of DelayBasedBwe keeps its type, and the bitrate never falls
\* below the configured minimum.
THEOREM DelayTypeCorrect == Spec => []TypeOK
  <1>1. RatesRight => TypeOK
    BY DEF RatesRight
  <1> QED
    BY <1>1, RatesStayRight, PTL

\* A packet that finds overuse never raises the estimate, and no other packet
\* lowers it.
THEOREM NeverRaisedByOveruse == Spec => OveruseNeverRaises
  <1>1. RatesRight /\ [Next]_vars
        => [IncomingPacket /\ rate_control.initialized =>
              /\ usage' = "kBwOverusing" => Bitrate' <= Bitrate
              /\ Bitrate' < Bitrate => usage' = "kBwOverusing"]_vars
    BY PacketIsRight DEF PacketRight
  <1> QED
    BY <1>1, RatesStayRight, PTL DEF Spec, OveruseNeverRaises

\* The estimate is held after overuse until the detector says normal, and then
\* starts to grow from nothing.
THEOREM HeldUntilNormal == Spec => HoldUntilNormal
  <1>1. RatesRight /\ [Next]_vars
        => [IncomingPacket /\ rate_control.initialized /\ rate_control.state = "kRcHold" =>
              /\ Bitrate' > Bitrate => usage' = "kBwNormal"
              /\ Bitrate' <= Bitrate + 1]_vars
    BY PacketIsRight DEF PacketRight
  <1> QED
    BY <1>1, RatesStayRight, PTL DEF Spec, HoldUntilNormal

\* A packet never lets the estimate grow past the throughput's limit.
THEOREM GrowthLimited == Spec => GrowthFollowsThroughput
  <1>1. RatesRight /\ [Next]_vars
        => [IncomingPacket /\ rate_control.initialized /\ Bitrate' > Bitrate =>
              Bitrate' <= ThroughputLimit(rate_control'.latest_throughput)]_vars
    BY PacketIsRight DEF PacketRight
  <1> QED
    BY <1>1, RatesStayRight, PTL DEF Spec, GrowthFollowsThroughput

\* The interval between two reductions is a time.
LEMMA IntervalIsInt ==
    ASSUME RatesRight
    PROVE  ReductionInterval(rate_control) \in Int
  <1>1. rate_control.rtt \in Nat
    BY DEF RatesRight, GoodRates, TypedRates, RateControl
  <1> QED
    BY <1>1, AimdAssumption, SMT DEF ReductionInterval, Clamped, Higher, Lower

\* A packet lowers a measured estimate only when none has moved it for a round-trip
\* time, within the bounds on that, or the throughput is below half of it.
THEOREM SpacedReductions == Spec => ReductionsSpaced
  <1>1. ASSUME RatesRight, IncomingPacket, rate_control.initialized,
               acked_bitrate' # NoRate, Bitrate' < Bitrate
        PROVE  \/ Since(now, moved) >= Clamped(rate_control.rtt, MinReduction, MaxReduction)
               \/ 2 * acked_bitrate' < Bitrate
    <2> DEFINE changed == rate_control.time_last_change
               interval == ReductionInterval(rate_control)
    <2>1. TimeToReduceFurther(rate_control, now, acked_bitrate')
      BY <1>1, PacketIsRight DEF PacketRight
    <2>2. /\ now \in Nat /\ now < PlusInfinity
          /\ changed \in {Never} \cup (0 .. now) /\ moved \in {Never} \cup (0 .. now)
          /\ moved <= changed
      BY <1>1, PacketTyped DEF RatesRight, TypeOK, HistoryRight
    <2>3. CASE Since(now, changed) >= interval
      <3>1. Since(now, changed) <= Since(now, moved)
        BY <2>2, SinceMonotone
      <3>2. /\ interval \in Int /\ Since(now, changed) \in Int /\ Since(now, moved) \in Int
        BY <1>1, <2>2, IntervalIsInt, SinceIsNat
      <3> HIDE DEF interval
      <3>3. Since(now, moved) >= interval
        BY <2>3, <3>1, <3>2
      <3> QED
        BY <3>3 DEF interval, ReductionInterval
    <2>4. CASE 2 * acked_bitrate' < rate_control.current_bitrate
      BY <2>4 DEF Bitrate
    <2> QED
      BY <2>1, <2>3, <2>4 DEF TimeToReduceFurther, ValidEstimate, LatestEstimate
  <1>2. RatesRight /\ [Next]_vars
        => [IncomingPacket /\ rate_control.initialized /\ acked_bitrate' # NoRate
            /\ Bitrate' < Bitrate
            => \/ Since(now, moved) >= Clamped(rate_control.rtt, MinReduction, MaxReduction)
               \/ 2 * acked_bitrate' < Bitrate]_vars
    BY <1>1
  <1> QED
    BY <1>2, RatesStayRight, PTL DEF Spec, ReductionsSpaced

\* Measured overuse that lasts is reacted to within a round-trip time of its
\* beginning and of the last reaction, whatever postponed the first one.
THEOREM SustainedOveruse == Spec => SustainedOveruseReduces
  <1>1. ASSUME RatesRight, IncomingPacket, MeasuredOveruse,
               Since(now, Higher(over_since', backed_off))
                  >= Clamped(rate_control.rtt, MinReduction, MaxReduction)
        PROVE  BackedOffEnough
    <2> DEFINE changed == rate_control.time_last_change
               interval == ReductionInterval(rate_control)
               last == Higher(over_since', backed_off)
    <2> SUFFICES ASSUME ~TimeToReduceFurther(rate_control, now, acked_bitrate'),
                        changed <= last
                 PROVE  FALSE
      BY <1>1, PacketIsRight DEF PacketRight
    <2>1. /\ now \in Nat /\ now < PlusInfinity
          /\ changed \in {Never} \cup (0 .. now) /\ last \in {Never} \cup (0 .. now)
      BY <1>1, PacketTyped DEF RatesRight, TypeOK, Higher
    <2>2. Since(now, last) <= Since(now, changed)
      BY <2>1, SinceMonotone
    <2>3. ~(Since(now, changed) >= interval)
      BY DEF TimeToReduceFurther
    <2>4. Since(now, last) >= interval
      BY <1>1 DEF ReductionInterval
    <2>5. interval \in Int /\ Since(now, changed) \in Int /\ Since(now, last) \in Int
      BY <1>1, <2>1, IntervalIsInt, SinceIsNat
    <2> HIDE DEF interval, last, changed
    <2> QED
      BY <2>2, <2>3, <2>4, <2>5
  <1>2. RatesRight /\ [Next]_vars
        => [/\ IncomingPacket
            /\ MeasuredOveruse
            /\ Since(now, Higher(over_since', backed_off))
                  >= Clamped(rate_control.rtt, MinReduction, MaxReduction)
            => BackedOffEnough]_vars
    BY <1>1
  <1> QED
    BY <1>2, RatesStayRight, PTL DEF Spec, SustainedOveruseReduces

=============================================================================
