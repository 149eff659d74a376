----------------------------- MODULE RtcProofs ------------------------------
(***************************************************************************)
(* The calibration of the RTC's oscillator (RtcCalib) is right about what   *)
(* it reports, for every oscillator, every first value of the register and  *)
(* counters of every width.  The clock (RtcAlarm) never goes back and no    *)
(* alarm is missed, for every time asked for, every time kept and whatever  *)
(* alarm an earlier run left.                                               *)
(***************************************************************************)
EXTENDS MCRtc, Integers, TLAPS

(***************************************************************************)
(* The calibration                                                          *)
(***************************************************************************)

Searching == {"read", "time1", "wait", "decide", "settle", "calibrated", "failed"}
Offsets == {0, 1, 2, 4, 8, 16, 32, 64, 128}

Types ==
    /\ cpc \in Searching \cup {"fine_wait", "fine_value", "done"}
    /\ {analog_calib_value, value, ana_calib, measured, measuring} \subseteq Nat
    /\ offset \in Offsets
    /\ {time1, time2, coarse, fine_time1, fine_time2, fine} \subseteq Nat
    /\ osc \in Oscillators /\ first \in Nat /\ first < Half

\* What the register holds is what the program set last, and outside the wait for it what the
\* hardware measures.
Settled ==
    /\ cpc \in Searching \ {"read"} => analog_calib_value = ana_calib
    /\ cpc = "read" => ana_calib = first /\ offset = 128 /\ ~strayed
    /\ cpc \in {"read", "time1", "wait", "decide", "calibrated"}
         => measured = ana_calib /\ measuring = ana_calib
    /\ cpc \in {"decide", "calibrated"} => value = Calib!Period(ana_calib)
    /\ cpc = "calibrated" => Calib!InRange(value)

\* As long as no measurement is finished the counter is as it was when the wait began.
\* fc_fine_time2 is only read in the one wait of the fine measurement.
Counted ==
    /\ cpc = "wait" => fresh \/ coarse = time1
    /\ cpc = "decide" => fresh \/ coarse < time2
    /\ cpc \in Searching => fine_time2 = 0
    /\ cpc = "fine_wait" => fresh \/ (fine = fine_time1 /\ fine_time2 <= fine_time1)
    /\ cpc = "fine_value" => fresh

Within(c, a, d) == a < c + d /\ c < a + d

\* The values of the register without bit 31, and of these the ones at the even distances from
\* the first that the search may come to.
Values == 0..(Half - 1)
Even(c) == \E d \in 0..127 : c = first + 2 * d \/ c = first - 2 * d

\* As long as it has not gone below 0 or up to bit 31, every value that would do is in the
\* interval still searched, the last interval of which holds only values at an odd distance.
Straight ==
    /\ analog_calib_value < Half
    /\ offset > 0 => \E k \in Int : analog_calib_value = first + 2 * k * offset
    /\ Within(analog_calib_value, first, 257 - 2 * offset)
    /\ \A c \in Values : Even(c) /\ Calib!InRange(Calib!Period(c))
                           => offset > 0 /\ Within(c, analog_calib_value, 2 * offset)

Interval ==
    cpc \in Searching \ {"read", "calibrated"} =>
      /\ cpc = "failed" <=> offset = 0
      /\ strayed => first < 255 \/ first > Half - 256
      /\ ~strayed => Straight

CalibInv == Types /\ Settled /\ Counted /\ Interval
-----------------------------------------------------------------------------
\* The period is a number.
LEMMA PeriodIs ==
    ASSUME Types, NEW c \in Nat PROVE Calib!Period(c) \in Nat
<1>1. osc.base \in Nat /\ osc.gain \in Nat /\ osc.other \in Nat
  BY CalibAssumption DEF Types, Calib!CalibConstants
<1> DEFINE b == osc.base
           g == osc.gain
<1>2. g * c \in Nat
  <2>1. \A m \in Nat : m * c \in Nat
    OBVIOUS
  <2> HIDE DEF g
  <2> QED  BY <1>1, <2>1 DEF g
<1>3. Calib!Period(c) = IF c >= Half THEN osc.other ELSE IF b >= g * c THEN b - g * c ELSE 0
  BY DEF Calib!Period
<1>4. b \in Nat
  BY <1>1
<1> HIDE DEF b, g
<1> QED  BY <1>1, <1>2, <1>3, <1>4

\* It falls with the register's value, up to bit 31.
LEMMA PeriodFalls ==
    ASSUME Types, NEW c \in Values, NEW d \in Values, c <= d
    PROVE  Calib!Period(d) <= Calib!Period(c)
<1>0. c \in Nat /\ d \in Nat /\ c < Half /\ d < Half /\ Half \in Nat
  BY CalibAssumption DEF Values, Calib!CalibConstants
<1>1. osc.base \in Nat /\ osc.gain \in Nat
  BY CalibAssumption DEF Types, Calib!CalibConstants
<1> DEFINE b == osc.base
           g == osc.gain
<1>2. g * c \in Nat /\ g * d \in Nat /\ g * c <= g * d
  <2>1. \A m \in Nat, i \in Nat, j \in Nat : m * i \in Nat /\ m * (i + j) = m * i + m * j
    OBVIOUS
  <2>2. d - c \in Nat /\ d = c + (d - c)
    BY <1>0
  <2>3. g * d = g * c + g * (d - c) /\ g * (d - c) \in Nat /\ g * c \in Nat
    BY <1>0, <1>1, <2>1, <2>2
  <2> HIDE DEF g
  <2> QED  BY <2>3
<1>3. /\ Calib!Period(c) = (IF b >= g * c THEN b - g * c ELSE 0)
      /\ Calib!Period(d) = (IF b >= g * d THEN b - g * d ELSE 0)
  BY <1>0 DEF Calib!Period
<1>4. b \in Nat
  BY <1>1
<1> HIDE DEF b, g
<1> QED  BY <1>2, <1>3, <1>4

\* What was true of the period stays so: the oscillator does not change.
LEMMA SamePeriod ==
    ASSUME UNCHANGED osc, NEW c
    PROVE  Calib!Period(c)' = Calib!Period(c)
BY DEF Calib!Period

\* The search begins with the whole interval.
LEMMA CalibInit == Calib!Init => CalibInv
<1> SUFFICES ASSUME Calib!Init PROVE CalibInv
  OBVIOUS
<1>1. Types
  <2>1. coarse \in Nat /\ fine \in Nat
    <3>1. Coarse0 \subseteq Nat /\ Fine0 \subseteq Nat
      BY CalibAssumption DEF Calib!CalibConstants
    <3> QED  BY <3>1 DEF Calib!Init
  <2>2. first \in Nat /\ first < Half
    BY CalibAssumption DEF Calib!CalibConstants, Calib!Init
  <2> QED  BY <2>1, <2>2 DEF Calib!Init, Types, Offsets, Searching
<1> QED  BY <1>1 DEF Calib!Init, CalibInv, Settled, Counted, Interval, Searching

\* Reading the register as it is found.
LEMMA ReadCalibKeeps ==
    ASSUME CalibInv, Calib!ReadCalib
    PROVE  CalibInv'
<1>1. /\ cpc = "read" /\ cpc' = "time1" /\ analog_calib_value' = ana_calib
      /\ UNCHANGED <<offset, time1, time2, value, strayed, fine_time1, fine_time2, osc, first,
                     ana_calib, coarse, fine, measured, measuring, fresh>>
  BY DEF Calib!ReadCalib, Calib!At, Calib!tune, Calib!hw, Calib!board
<1>2. /\ ana_calib = first /\ offset = 128 /\ measured = ana_calib /\ measuring = ana_calib
      /\ ~strayed
  BY <1>1 DEF CalibInv, Settled, Searching
<1>3. Types' /\ Settled' /\ Counted'
  BY <1>1, <1>2 DEF CalibInv, Types, Settled, Counted, Searching
<1>4. first \in Nat /\ first < Half /\ Values \subseteq Nat
  BY DEF CalibInv, Types, Values
<1>5. Straight'
  <2>1. \A c \in Values : Even(c) => Within(c, first, 256)
    BY <1>4 DEF Even, Within
  <2>2. Within(first, first, 1) /\ first = first + 2 * 0 * 128
    BY <1>4 DEF Within
  <2> QED  BY <1>1, <1>2, <1>4, <2>1, <2>2 DEF Straight, Even
<1>6. Interval'
  BY <1>1, <1>2, <1>5 DEF Interval
<1> QED  BY <1>3, <1>6 DEF CalibInv

\* Calib!Neighbour of any value, up or down by any offset.
Beside(a, up, o) == (a + IF up THEN o ELSE 2 * Half - o) % (2 * Half)

\* The next value of the search is the one before, so much up or down, unless it has bit 31.
LEMMA NextValue ==
    ASSUME NEW a \in Nat, a < Half, NEW up \in BOOLEAN, NEW o \in 1 .. 128
    PROVE  /\ Beside(a, up, o) \in Nat
           /\ Beside(a, up, o) < Half => Beside(a, up, o) = IF up THEN a + o ELSE a - o
           /\ Beside(a, up, o) >= Half => IF up THEN a + o >= Half ELSE a < o
<1> DEFINE b == Beside(a, up, o)
<1>1. Half \in Nat /\ Half >= 256
  BY CalibAssumption DEF Calib!CalibConstants
<1>2. \A n \in 0 .. (2 * Half - 1) : n % (2 * Half) = n
  BY <1>1
<1>3. CASE up
  <2>0. a + o \in 0 .. (2 * Half - 1)
    BY <1>1
  <2>1. b = (a + o) % (2 * Half)
    BY <1>3 DEF Beside
  <2>2. b = a + o
    BY <1>2, <2>0, <2>1
  <2> HIDE DEF b
  <2>3. /\ b \in Nat
        /\ b < Half => b = IF up THEN a + o ELSE a - o
        /\ b >= Half => IF up THEN a + o >= Half ELSE a < o
    BY <1>1, <1>3, <2>2
  <2> QED  BY <2>3 DEF b
<1>4. CASE ~up /\ a < o
  <2>1. b = a + (2 * Half - o)
    BY <1>1, <1>2, <1>4 DEF Beside
  <2> QED  BY <1>1, <1>4, <2>1
<1>5. CASE ~up /\ a >= o
  <2>1. \A n \in 0 .. (2 * Half - 1) : (n + 2 * Half) % (2 * Half) = n
    BY <1>1
  <2>2. a - o \in 0 .. (2 * Half - 1) /\ (a - o) + 2 * Half = a + (2 * Half - o)
    BY <1>1, <1>5
  <2>3. b = a - o
    BY <1>5, <2>1, <2>2 DEF Beside
  <2> QED  BY <1>1, <1>5, <2>3
<1> QED  BY <1>3, <1>4, <1>5

\* What a step of the search does.
LEMMA AdjustStep ==
    ASSUME CalibInv, Calib!Adjust
    PROVE  /\ cpc = "decide" /\ ~Calib!InRange(value) /\ offset' = offset \div 2
           /\ analog_calib_value' = Calib!Neighbour(value > 765)
           /\ ana_calib' = analog_calib_value' /\ cpc' = IF offset' = 0 THEN "failed" ELSE "settle"
           /\ strayed' = (strayed \/ analog_calib_value' >= Half)
           /\ UNCHANGED <<time1, time2, value, fine_time1, fine_time2, osc, first, coarse, fine,
                          measured, measuring>>
           /\ offset \in Offsets \ {0} /\ offset \in 1 .. 128 /\ value = Calib!Period(ana_calib)
           /\ analog_calib_value = ana_calib /\ ana_calib \in Nat /\ value \in Nat
<1>1. cpc = "decide"
  BY DEF Calib!Adjust
<1>2. /\ offset \in Offsets \ {0} /\ value = Calib!Period(ana_calib) /\ value \in Nat
      /\ analog_calib_value = ana_calib /\ ana_calib \in Nat
  BY <1>1 DEF CalibInv, Types, Settled, Interval, Searching
<1>3. \A i \in Offsets \ {0} : i \in 1 .. 128
  BY DEF Offsets
<1> QED
  BY <1>1, <1>2, <1>3 DEF Calib!Adjust, Calib!Move, Calib!tune, Calib!hw, Calib!board

\* Half of the interval is left, and when its last value is set none of an even distance.
LEMMA AdjustStraight ==
    ASSUME CalibInv, Calib!Adjust, ~strayed, analog_calib_value' < Half
    PROVE  Straight'
<1> DEFINE a == analog_calib_value
           up == value > 765
<1>1. /\ cpc = "decide" /\ ~Calib!InRange(value) /\ offset' = offset \div 2
      /\ UNCHANGED <<osc, first>> /\ value = Calib!Period(a) /\ value \in Nat
      /\ offset \in Offsets \ {0} /\ offset \in 1 .. 128 /\ a \in Nat
  BY AdjustStep
<1>2. first \in Nat /\ first < Half /\ Half \in Nat /\ Values \subseteq Nat
  BY CalibAssumption DEF CalibInv, Types, Values, Calib!CalibConstants
<1>3. /\ a < Half /\ Within(a, first, 257 - 2 * offset)
      /\ \A c \in Values : Even(c) /\ Calib!InRange(Calib!Period(c)) => Within(c, a, 2 * offset)
  BY <1>1 DEF CalibInv, Interval, Straight, Searching
<1>4. PICK k \in Int : a = first + 2 * k * offset
  BY <1>1 DEF CalibInv, Interval, Straight, Searching
<1>0. a' \in Nat /\ a' = IF up THEN a + offset ELSE a - offset
  <2>1. a' = Beside(a, up, offset)
    BY AdjustStep DEF Calib!Neighbour, Beside
  <2>2. a' < Half
    OBVIOUS
  <2> HIDE DEF a, up
  <2>3. up \in BOOLEAN
    BY DEF up
  <2> QED  BY <1>1, <1>3, <2>1, <2>2, <2>3, NextValue
<1> HIDE DEF a
<1>5. \A c \in Values : Calib!InRange(Calib!Period(c)) => IF up THEN c > a ELSE c < a
  <2> SUFFICES ASSUME NEW c \in Values, Calib!InRange(Calib!Period(c))
               PROVE  IF up THEN c > a ELSE c < a
    OBVIOUS
  <2>0. a \in Values /\ c \in Nat
    BY <1>1, <1>2, <1>3 DEF Values
  <2>1. Calib!Period(c) \in Nat /\ Calib!Period(a) \in Nat
    BY <1>1, <2>0, PeriodIs DEF CalibInv
  <2>2. c <= a => Calib!Period(a) <= Calib!Period(c)
    BY <2>0, PeriodFalls DEF CalibInv
  <2>3. a <= c => Calib!Period(c) <= Calib!Period(a)
    BY <2>0, PeriodFalls DEF CalibInv
  <2> QED  BY <1>1, <2>0, <2>1, <2>2, <2>3 DEF Calib!InRange
<1>6. CASE offset = 1
  <2>1. offset' = 0
    BY <1>1, <1>6
  <2>2. a' \in Nat /\ Within(a', first, 257)
    BY <1>0, <1>1, <1>2, <1>3, <1>6 DEF Within
  <2>3. ASSUME NEW c \in Values, Even(c), Calib!InRange(Calib!Period(c)) PROVE FALSE
    <3>0. c \in Nat
      BY <1>2, <2>3
    <3>1. Within(c, a, 2) /\ c # a
      <4>1. c > a \/ c < a
        BY <1>5, <2>3
      <4>2. Within(c, a, 2 * offset)
        BY <1>3, <2>3
      <4>3. 2 * offset = 2
        BY <1>6
      <4> QED  BY <1>1, <3>0, <4>1, <4>2, <4>3
    <3>2. PICK d \in 0..127 : c = first + 2 * d \/ c = first - 2 * d
      BY <2>3 DEF Even
    <3>3. a = first + 2 * k
      BY <1>4, <1>6
    <3> QED  BY <1>1, <1>2, <1>4, <3>0, <3>1, <3>2, <3>3 DEF Within
  <2> SUFFICES ASSUME NEW c \in Values, Even(c), Calib!InRange(Calib!Period(c)') PROVE FALSE
    BY <1>1, <2>1, <2>2 DEF Straight, Even, Calib!InRange, a
  <2> QED  BY <1>1, <2>3, SamePeriod
<1>7. CASE offset # 1
  <2>1. offset' \in Offsets \ {0} /\ offset = 2 * offset'
    BY <1>1, <1>7 DEF Offsets
  <2>2. offset' \in 1..64
    <3>1. \A i \in Offsets \ {0} : i \in 1..128
      BY DEF Offsets
    <3>2. offset \in 1..128 /\ offset' \in 1..128
      BY <1>1, <2>1, <3>1
    <3>3. \A i \in 1..128, j \in 1..128 : i = 2 * j => j \in 1..64
      OBVIOUS
    <3> QED  BY <2>1, <3>2, <3>3
  <2>3. a' \in Nat /\ Within(a', first, 257 - 2 * offset')
    BY <1>0, <1>1, <1>2, <1>3, <2>1, <2>2 DEF Within
  <2>4. \E j \in Int : a' = first + 2 * j * offset'
    <3>1. a = first + 4 * (k * offset') /\ k * offset' \in Int
      BY <1>4, <2>1, <2>2
    <3>2. a' = first + 2 * (2 * k + 1) * offset' \/ a' = first + 2 * (2 * k - 1) * offset'
      <4>1. /\ 2 * (2 * k + 1) * offset' = 4 * (k * offset') + 2 * offset'
            /\ 2 * (2 * k - 1) * offset' = 4 * (k * offset') - 2 * offset'
        BY <2>2
      <4> QED  BY <1>0, <1>1, <1>2, <2>1, <2>2, <3>1, <4>1
    <3>3. 2 * k + 1 \in Int /\ 2 * k - 1 \in Int
      OBVIOUS
    <3> QED  BY <3>2, <3>3
  <2>5. ASSUME NEW c \in Values, Even(c), Calib!InRange(Calib!Period(c))
        PROVE  Within(c, a', 2 * offset')
    <3>1. Within(c, a, 2 * offset) /\ (IF up THEN c > a ELSE c < a) /\ c \in Nat
      BY <1>2, <1>3, <1>5, <2>5
    <3> QED  BY <1>0, <1>1, <2>1, <2>2, <2>3, <3>1 DEF Within
  <2>6. \A c \in Values : Even(c) /\ Calib!InRange(Calib!Period(c)')
                           => offset' > 0 /\ Within(c, analog_calib_value', 2 * offset')
    BY <1>1, <2>2, <2>5, SamePeriod DEF a
  <2>7. /\ \E j \in Int : analog_calib_value' = first + 2 * j * offset'
        /\ Within(analog_calib_value', first, 257 - 2 * offset')
    BY <2>3, <2>4 DEF a
  <2> QED  BY <1>1, <2>6, <2>7 DEF Straight, Even, Calib!InRange, Within
<1> QED  BY <1>6, <1>7

\* The first value with bit 31 is set near the ends of the register's range only.
LEMMA AdjustStrays ==
    ASSUME CalibInv, Calib!Adjust, ~strayed, analog_calib_value' >= Half
    PROVE  first < 255 \/ first > Half - 256
<1> DEFINE a == analog_calib_value
           up == value > 765
<1>1. offset \in 1 .. 128 /\ a \in Nat /\ cpc = "decide"
  BY AdjustStep
<1>2. first \in Nat /\ Half \in Nat
  BY CalibAssumption DEF CalibInv, Types, Calib!CalibConstants
<1>3. a < Half /\ Within(a, first, 257 - 2 * offset)
  BY <1>1 DEF CalibInv, Interval, Straight, Searching
<1>4. IF up THEN a + offset >= Half ELSE a < offset
  <2>1. a' = Beside(a, up, offset)
    BY AdjustStep DEF Calib!Neighbour, Beside
  <2>2. a' >= Half
    OBVIOUS
  <2> HIDE DEF a, up
  <2>3. up \in BOOLEAN
    BY DEF up
  <2> QED  BY <1>1, <1>3, <2>1, <2>2, <2>3, NextValue
<1> HIDE DEF a, up
<1>5. CASE up
  <2>1. a + offset >= Half
    BY <1>4, <1>5
  <2>2. a < first + 257 - 2 * offset
    BY <1>3 DEF Within
  <2> QED  BY <1>1, <1>2, <2>1, <2>2
<1>6. CASE ~up
  <2>1. a < offset
    BY <1>4, <1>6
  <2>2. first < a + 257 - 2 * offset
    BY <1>3 DEF Within
  <2> QED  BY <1>1, <1>2, <2>1, <2>2
<1> QED  BY <1>5, <1>6

\* Either way the interval is as it should be.
LEMMA AdjustInterval ==
    ASSUME CalibInv, Calib!Adjust
    PROVE  Types' /\ Interval'
<1>1. /\ cpc = "decide" /\ offset' = offset \div 2
      /\ analog_calib_value' = Calib!Neighbour(value > 765)
      /\ ana_calib' = analog_calib_value' /\ cpc' = IF offset' = 0 THEN "failed" ELSE "settle"
      /\ strayed' = (strayed \/ analog_calib_value' >= Half)
      /\ UNCHANGED <<time1, time2, value, fine_time1, fine_time2, osc, first, coarse, fine,
                     measured, measuring>>
      /\ offset \in Offsets \ {0} /\ offset \in 1 .. 128 /\ analog_calib_value \in Nat
  BY AdjustStep
<1>2. Half \in Nat /\ Half >= 256
  BY CalibAssumption DEF Calib!CalibConstants
<1>3. analog_calib_value' \in Nat
  <2>1. \A n \in Nat, w \in Nat \ {0} : n % w \in Nat
    OBVIOUS
  <2>2. /\ 2 * Half \in Nat \ {0}
        /\ (analog_calib_value + IF value > 765 THEN offset ELSE 2 * Half - offset) \in Nat
    BY <1>1, <1>2
  <2> QED  BY <1>1, <2>1, <2>2 DEF Calib!Neighbour
<1>4. Types'
  <2>1. offset' \in Offsets
    BY <1>1 DEF Offsets
  <2>2. cpc' \in Searching
    BY <1>1 DEF Searching
  <2> QED  BY <1>1, <1>3, <2>1, <2>2 DEF CalibInv, Types
<1>5. cpc' = "failed" <=> offset' = 0
  BY <1>1
<1>6. ~strayed' => Straight'
  <2>1. ~strayed' => ~strayed /\ ~(analog_calib_value' >= Half)
    BY <1>1
  <2>2. ~(analog_calib_value' >= Half) => analog_calib_value' < Half
    BY <1>2, <1>3
  <2> QED  BY <2>1, <2>2, AdjustStraight
<1>7. strayed' => first' < 255 \/ first' > Half - 256
  <2>1. strayed => first < 255 \/ first > Half - 256
    BY <1>1 DEF CalibInv, Interval, Searching
  <2>2. strayed' => strayed \/ (~strayed /\ analog_calib_value' >= Half)
    BY <1>1
  <2>3. first' = first
    BY <1>1
  <2> QED  BY <2>1, <2>2, <2>3, AdjustStrays
<1> QED  BY <1>4, <1>5, <1>6, <1>7 DEF Interval

\* Setting the next value of the search.
LEMMA AdjustKeeps ==
    ASSUME CalibInv, Calib!Adjust
    PROVE  CalibInv'
<1>1. Types' /\ Interval'
  BY AdjustInterval
<1>2. cpc' \in {"failed", "settle"} /\ ana_calib' = analog_calib_value'
  BY DEF Calib!Adjust
<1>3. cpc = "decide" /\ fine_time2' = fine_time2
  BY DEF Calib!Adjust, Calib!tune
<1>4. Settled' /\ Counted'
  BY <1>2, <1>3 DEF CalibInv, Settled, Counted, Searching
<1> QED  BY <1>1, <1>4 DEF CalibInv

\* Steps that leave the search alone keep the interval.
LEMMA SameInterval ==
    ASSUME CalibInv, UNCHANGED <<analog_calib_value, offset, strayed, osc, first>>,
           cpc \in Searching \ {"read", "calibrated"}, cpc' \in Searching,
           cpc' = "failed" <=> cpc = "failed"
    PROVE  Interval'
<1>1. Straight => Straight'
  <2> SUFFICES ASSUME Straight PROVE Straight'
    OBVIOUS
  <2>1. \A c \in Values : Even(c) /\ Calib!InRange(Calib!Period(c)')
                          => offset > 0 /\ Within(c, analog_calib_value, 2 * offset)
    BY SamePeriod DEF Straight
  <2> QED  BY <2>1 DEF Straight, Even, Calib!InRange, Within
<1>2. /\ cpc = "failed" <=> offset = 0
      /\ strayed => first < 255 \/ first > Half - 256
      /\ ~strayed => Straight
  BY DEF CalibInv, Interval
<1> QED  BY <1>1, <1>2 DEF Interval

\* The wait for a measurement and the decision on it.
LEMMA WaitKeeps ==
    ASSUME CalibInv, Calib!ReadTime1 \/ Calib!ReadTime2 \/ Calib!ReadValue
                   \/ Calib!Accept \/ Calib!Settle
    PROVE  CalibInv'
<1>1. /\ UNCHANGED <<analog_calib_value, offset, strayed, fine_time1, fine_time2, osc, first,
                     ana_calib, coarse, fine, measured, measuring>>
      /\ \/ cpc = "time1" /\ cpc' = "wait" /\ time1' = coarse /\ fresh' = FALSE
            /\ UNCHANGED <<time2, value>>
         \/ cpc = "wait" /\ cpc' = "wait" /\ time2' = coarse /\ UNCHANGED <<time1, value, fresh>>
         \/ /\ cpc = "wait" /\ cpc' = "decide" /\ time2 > time1 /\ value' = Calib!Period(measured)
            /\ UNCHANGED <<time1, time2, fresh>>
         \/ cpc = "decide" /\ cpc' = "calibrated" /\ Calib!InRange(value)
            /\ UNCHANGED <<time1, time2, value, fresh>>
         \/ /\ cpc = "settle" /\ cpc' = "time1" /\ measuring = ana_calib /\ measured = ana_calib
            /\ UNCHANGED <<time1, time2, value, fresh>>
  BY DEF Calib!ReadTime1, Calib!ReadTime2, Calib!ReadValue, Calib!Accept, Calib!Settle,
         Calib!At, Calib!search, Calib!tune, Calib!hw, Calib!board
<1>2. \A c : Calib!Period(c)' = Calib!Period(c)
  BY <1>1, SamePeriod
<1>3. ana_calib \in Nat => Calib!Period(ana_calib) \in Nat
  BY PeriodIs DEF CalibInv
<1>4. Types'
  BY <1>1, <1>3 DEF CalibInv, Types, Settled, Searching
<1>5. Settled'
  BY <1>1, <1>2 DEF CalibInv, Settled, Searching, Calib!InRange
<1>6. Counted'
  BY <1>1 DEF CalibInv, Types, Counted, Searching
<1>7. Interval'
  BY <1>1, SameInterval DEF Searching, Interval
<1> QED  BY <1>4, <1>5, <1>6, <1>7 DEF CalibInv

\* The fine measurement.
LEMMA FineKeeps ==
    ASSUME CalibInv, Calib!FineStart \/ Calib!FineRead \/ Calib!FineValue \/ Calib!FineWrite
    PROVE  CalibInv'
<1>1. /\ UNCHANGED <<analog_calib_value, offset, time1, time2, value, strayed, osc, first,
                     ana_calib, coarse, fine, measured, measuring>>
      /\ \/ /\ cpc \in {"calibrated", "failed"} /\ cpc' = "fine_wait" /\ fine_time1' = fine
            /\ fresh' = FALSE /\ UNCHANGED fine_time2
         \/ cpc = "fine_wait" /\ cpc' = "fine_wait" /\ fine_time2' = fine
            /\ UNCHANGED <<fine_time1, fresh>>
         \/ /\ cpc = "fine_wait" /\ cpc' = "fine_value" /\ fine_time2 > fine_time1
            /\ UNCHANGED <<fine_time1, fine_time2, fresh>>
         \/ cpc = "fine_value" /\ cpc' = "done" /\ UNCHANGED <<fine_time1, fine_time2, fresh>>
  BY DEF Calib!FineStart, Calib!FineRead, Calib!FineValue, Calib!FineWrite,
         Calib!At, Calib!search, Calib!tune, Calib!hw, Calib!board
<1>2. Types' /\ Settled' /\ Interval'
  BY <1>1 DEF CalibInv, Types, Settled, Interval, Searching
<1>3. Counted'
  <2>1. {fine, fine_time1, fine_time2} \subseteq Nat
    BY DEF CalibInv, Types
  <2>2. cpc \in {"calibrated", "failed"} => fine_time2 = 0
    BY DEF CalibInv, Counted, Searching
  <2> QED  BY <1>1, <2>1, <2>2 DEF CalibInv, Counted, Searching
<1> QED  BY <1>2, <1>3 DEF CalibInv

\* A measurement is finished: it is of the value the register has, unless the program waits for
\* that.
LEMMA MeasurementKeeps ==
    ASSUME CalibInv, Calib!CoarseDone \/ Calib!FineDone
    PROVE  CalibInv'
<1>1. CASE Calib!CoarseDone
  <2>1. /\ cpc \in {"time1", "wait", "decide", "settle"} /\ fresh' = TRUE
        /\ coarse' = (coarse + 1) % CoarseMod /\ measured' = measuring /\ measuring' = ana_calib
        /\ UNCHANGED <<cpc, analog_calib_value, offset, time1, time2, value, strayed, fine_time1,
                       fine_time2, osc, first, ana_calib, fine>>
    BY <1>1 DEF Calib!CoarseDone, Calib!Measured, Calib!search, Calib!tune, Calib!board
  <2>2. coarse' \in Nat
    BY <2>1, CalibAssumption DEF CalibInv, Types, Calib!CalibConstants
  <2>3. \A c : Calib!Period(c)' = Calib!Period(c)
    BY <2>1, SamePeriod
  <2>4. Types' /\ Counted'
    BY <2>1, <2>2 DEF CalibInv, Types, Counted, Searching
  <2>5. Settled'
    BY <2>1, <2>3 DEF CalibInv, Settled, Searching
  <2>6. Interval'
    BY <2>1, SameInterval DEF Searching
  <2> QED  BY <2>4, <2>5, <2>6 DEF CalibInv
<1>2. CASE Calib!FineDone
  <2>1. /\ cpc \in {"fine_wait", "fine_value"} /\ fresh' = TRUE /\ fine' = (fine + 1) % FineMod
        /\ UNCHANGED <<cpc, analog_calib_value, offset, time1, time2, value, strayed, fine_time1,
                       fine_time2, osc, first, ana_calib, coarse, measured, measuring>>
    BY <1>2 DEF Calib!FineDone, Calib!Measured, Calib!search, Calib!tune, Calib!board
  <2>2. fine' \in Nat
    BY <2>1, CalibAssumption DEF CalibInv, Types, Calib!CalibConstants
  <2> QED  BY <2>1, <2>2 DEF CalibInv, Types, Settled, Counted, Interval, Searching
<1> QED  BY <1>1, <1>2

\* Every step keeps the invariant.
LEMMA CalibNext == CalibInv /\ (Calib!Next \/ UNCHANGED calib) => CalibInv'
<1> SUFFICES ASSUME CalibInv, (Calib!Next \/ UNCHANGED calib) PROVE CalibInv'
  OBVIOUS
<1>1. CASE Calib!Calibration
  BY <1>1, ReadCalibKeeps, AdjustKeeps, WaitKeeps, FineKeeps DEF Calib!Calibration
<1>2. CASE Calib!CoarseDone \/ Calib!FineDone
  BY <1>2, MeasurementKeeps
<1>3. CASE Calib!Done \/ UNCHANGED calib
  <2>1. UNCHANGED <<cpc, analog_calib_value, offset, time1, time2, value, strayed, fine_time1,
                    fine_time2, osc, first, ana_calib, coarse, fine, measured, measuring, fresh>>
    BY <1>3 DEF Calib!Done, Calib!vars, Calib!search, Calib!tune, Calib!hw, Calib!board, calib
  <2>2. \A c : Calib!Period(c)' = Calib!Period(c)
    BY <2>1, SamePeriod
  <2> QED  BY <2>1, <2>2 DEF CalibInv, Types, Settled, Counted, Interval, Straight, Searching,
                            Even, Calib!InRange, Within
<1> QED  BY <1>1, <1>2, <1>3 DEF Calib!Next

\* A behaviour of the run is one of the calibration or one of the alarm.
LEMMA CalibRun ==
    /\ RtcInit => CalibInv
    /\ (part = "calib" => CalibInv) /\ [RtcNext]_rtcVars => (part = "calib" => CalibInv)'
<1>1. RtcInit => CalibInv
  BY CalibInit DEF RtcInit
<1>2. ASSUME part = "calib" => CalibInv, [RtcNext]_rtcVars, part' = "calib" PROVE CalibInv'
  <2>1. part = "calib" /\ (Calib!Next \/ UNCHANGED calib)
    BY <1>2 DEF RtcNext, InAlarm, InCalib, rtcVars, Calib!Next
  <2> QED  BY <1>2, <2>1, CalibNext
<1> QED  BY <1>1, <1>2

\* At every step of rtc_32k_coarse_val_calib() all values that would do are in the interval that
\* is still searched, and what is measured is what the register holds.
THEOREM CalibInvariant == RtcSpec => [](part = "calib" => CalibInv)
BY CalibRun, PTL DEF RtcSpec

\* Both functions go on with a measurement made since their wait began (unless the coarse
\* counter wrapped): at "while (fc_coarse_time2 <= fc_coarse_time1)" and its fine counterpart.
THEOREM MeasurementsAreFresh == RtcSpec => []FreshMeasurement
<1>1. (part = "calib" => CalibInv) => FreshMeasurement
  BY DEF FreshMeasurement, Calib!FreshMeasurement, CalibInv, Counted
<1> QED  BY <1>1, CalibInvariant, PTL

\* The value with which rtc_32k_coarse_val_calib() reports success makes the period right.
THEOREM CalibrationIsAccurate == RtcSpec => []CalibratedIsAccurate
<1>1. (part = "calib" => CalibInv) => CalibratedIsAccurate
  BY DEF CalibInv, Settled, CalibratedIsAccurate, Calib!CalibratedIsAccurate, Searching
<1> QED  BY <1>1, CalibInvariant, PTL

\* It gives up only when no value at an even distance below 256 from the first one would do, or
\* when the search has gone below 0 or up to bit 31, which only the last 255 values on either side
\* of the register's range make possible.
THEOREM SearchIsExhaustive == RtcSpec => []FailedMeansOutOfReach
<1>1. (part = "calib" => CalibInv) => FailedMeansOutOfReach
  <2> SUFFICES ASSUME CalibInv, cpc = "failed"
               PROVE  \/ strayed /\ (first < 255 \/ first > Half - 256)
                      \/ \A d \in 0..127 : \A c \in {first + 2 * d, first - 2 * d} \cap Values :
                            ~Calib!InRange(Calib!Period(c))
    BY DEF FailedMeansOutOfReach, Calib!FailedMeansOutOfReach, Values
  <2>1. CASE strayed
    BY <2>1 DEF CalibInv, Interval, Searching
  <2>2. CASE ~strayed
    <3>1. \A c \in Values : Even(c) => ~Calib!InRange(Calib!Period(c))
      BY <2>2 DEF CalibInv, Interval, Straight, Searching, Types, Offsets
    <3> SUFFICES ASSUME NEW d \in 0..127, NEW c \in {first + 2 * d, first - 2 * d} \cap Values
                 PROVE  ~Calib!InRange(Calib!Period(c))
      OBVIOUS
    <3>2. Even(c) /\ c \in Values
      BY DEF Even
    <3> QED  BY <3>1, <3>2
  <2> QED  BY <2>1, <2>2
<1> QED  BY <1>1, CalibInvariant, PTL

\* A step to another place is nearer to the end: what is left of the interval is halved when a
\* value is set, which happens only while there is some left.
LEMMA Onward ==
    ASSUME CalibInv, Calib!Next
    PROVE  Calib!Advances
<1> SUFFICES ASSUME cpc' # cpc PROVE Calib!Remaining' < Calib!Remaining /\ Calib!Remaining' >= 0
  BY DEF Calib!Advances
<1>1. offset \in 0 .. 128
  BY DEF CalibInv, Types, Offsets
<1>2. CASE Calib!Adjust
  <2>1. cpc = "decide" /\ offset' = offset \div 2 /\ cpc' \in {"failed", "settle"}
    BY <1>2 DEF Calib!Adjust, Calib!Move
  <2>2. offset > 0
    BY <1>1, <2>1 DEF CalibInv, Interval, Searching
  <2>3. offset' \in Nat /\ offset' < offset
    BY <1>1, <2>1, <2>2
  <2> QED  BY <1>1, <2>1, <2>3 DEF Calib!Remaining
<1>3. CASE ~Calib!Adjust
  <2>1. /\ offset' = offset
        /\ \/ cpc = "read" /\ cpc' = "time1"
           \/ cpc = "time1" /\ cpc' = "wait"
           \/ cpc = "wait" /\ cpc' = "decide"
           \/ cpc = "decide" /\ cpc' = "calibrated"
           \/ cpc = "settle" /\ cpc' = "time1"
           \/ cpc \in {"calibrated", "failed"} /\ cpc' = "fine_wait"
           \/ cpc = "fine_wait" /\ cpc' = "fine_value"
           \/ cpc = "fine_value" /\ cpc' = "done"
    BY <1>3 DEF Calib!Next, Calib!Calibration, Calib!ReadCalib, Calib!ReadTime1, Calib!ReadTime2,
                Calib!ReadValue, Calib!Accept, Calib!Settle, Calib!FineStart, Calib!FineRead,
                Calib!FineValue, Calib!FineWrite, Calib!CoarseDone, Calib!FineDone, Calib!Done,
                Calib!At, Calib!search, Calib!vars
  <2> QED  BY <1>1, <2>1 DEF Calib!Remaining
<1> QED  BY <1>2, <1>3

\* rtc_32k_coarse_val_calib() goes round a bounded number of times, whatever it measures, and the
\* fine calibration once: no step leads back.
THEOREM SearchEnds == RtcSpec => SearchAdvances
<1>1. (part = "calib" => CalibInv) /\ [RtcNext]_rtcVars
         => [part = "calib" => Calib!Advances]_rtcVars
  <2> SUFFICES ASSUME part = "calib", CalibInv, RtcNext PROVE Calib!Advances
    OBVIOUS
  <2>1. Calib!Next
    BY DEF RtcNext, InAlarm, InCalib, Calib!Next
  <2> QED  BY <2>1, Onward
<1> QED  BY <1>1, CalibInvariant, PTL DEF RtcSpec, SearchAdvances

-----------------------------------------------------------------------------
(***************************************************************************)
(* The clock and the alarm                                                  *)
(***************************************************************************)

\* What rtc_enable_sec_counter() has made of the clock when it is at a step: the counter shows
\* nothing before it is loaded, so a poll that is satisfied has seen the loaded value.
ClockInv ==
    /\ pc = "ro_t" => sec = Seconds
    /\ pc # "ro_t" => sec >= ro_t /\ sec >= Seconds
    /\ pc \notin {"ro_t", "load"} => set_value = sec
    /\ pc \notin {"ro_t", "load", "trigger", "poll"} => now >= sec
    /\ running <=> pc \notin {"ro_t", "load", "trigger"}
    /\ loading => running
    /\ loading \/ ~running => now = 0

\* Where the handler may run, and how far the time can have gone since either context read it.
AlarmInv ==
    /\ open <=> pc \in {"now", "setup", "enable", "idle"}
    /\ handler # "none" => open
    /\ pc \in {"setup", "enable"} => now \in main_now .. (main_now + 1)
    /\ handler \in {"setup", "enable"} =>
          /\ now \in isr_now .. (isr_now + 1)
          /\ pc \in {"setup", "enable"} => isr_now >= main_now
    /\ handler = "enable" => alarm = isr_now + 3
    /\ pc = "enable" /\ handler = "none" => alarm \in (main_now + 1) .. (now + 3)
    /\ pc = "idle" /\ handler = "none" => enabled /\ alarm \in now .. (now + 3)

Inv == TypeOK /\ ClockInv /\ AlarmInv

\* After a reset the clock shows nothing and no handler runs.
LEMMA InitInv == Init => Inv
<1> SUFFICES ASSUME Init PROVE Inv
  OBVIOUS
<1>1. left \in BOOLEAN /\ enabled \in BOOLEAN
  BY AlarmAssumption, Zenon DEF Init
<1>2. alarm \in Nat
  BY AlarmAssumption DEF Init
<1>3. ro_t \in Nat /\ Seconds \in Nat
  BY AlarmAssumption DEF Init
<1>4. {open, loading, running, enabled, left} \subseteq BOOLEAN
  BY <1>1, Zenon DEF Init
<1>5. TypeOK
  BY <1>2, <1>3, <1>4 DEF Init, TypeOK
<1>6. ClockInv /\ AlarmInv
  BY DEF Init, ClockInv, AlarmInv
<1> QED
  BY <1>5, <1>6 DEF Inv

\* A step of rtc_enable_sec_counter(), in which no interrupt is open.
LEMMA ClockSteps == Inv /\ (ReadKept \/ LoadValue \/ Trigger \/ Poll \/ RequestIrq) => Inv'
<1> USE AlarmAssumption DEF Inv, TypeOK, ClockInv, AlarmInv, Main
<1>1. ASSUME Inv, ReadKept PROVE Inv'
  BY <1>1 DEF ReadKept, isr, counter, chip
<1>2. ASSUME Inv, LoadValue PROVE Inv'
  BY <1>2 DEF LoadValue, isr
<1>3. ASSUME Inv, Trigger PROVE Inv'
  BY <1>3 DEF Trigger, isr
<1>4. ASSUME Inv, Poll PROVE Inv'
  BY <1>4 DEF Poll, isr, counter, chip
<1>5. ASSUME Inv, RequestIrq PROVE Inv'
  BY <1>5 DEF RequestIrq, isr, counter, chip
<1> QED  BY <1>1, <1>2, <1>3, <1>4, <1>5

\* A step of test_rtc_irq() after the interrupt is open: the handler is not running.
LEMMA AlarmSteps == Inv /\ (MainNow \/ MainSetup \/ MainEnable) => Inv'
<1> USE AlarmAssumption DEF Inv, TypeOK, ClockInv, AlarmInv, Main
<1>1. ASSUME Inv, MainNow PROVE Inv'
  BY <1>1 DEF MainNow, isr, counter, chip
<1>2. ASSUME Inv, MainSetup PROVE Inv'
  BY <1>2 DEF MainSetup, isr, counter
<1>3. ASSUME Inv, MainEnable PROVE Inv'
  BY <1>3 DEF MainEnable, isr, counter
<1> QED  BY <1>1, <1>2, <1>3

\* A step of the handler, which may have interrupted test_rtc_irq() anywhere.
LEMMA HandlerSteps == Inv /\ Handler => Inv'
<1> USE AlarmAssumption DEF Inv, TypeOK, ClockInv, AlarmInv, Isr
<1>1. ASSUME Inv, Interrupt PROVE Inv'
  BY <1>1 DEF Interrupt, Line, main, counter, chip
<1>2. ASSUME Inv, IsrDisable PROVE Inv'
  BY <1>2 DEF IsrDisable, main, counter
<1>3. ASSUME Inv, IsrNow PROVE Inv'
  BY <1>3 DEF IsrNow, main, counter, chip
<1>4. ASSUME Inv, IsrSetup PROVE Inv'
  BY <1>4 DEF IsrSetup, main, counter
<1>5. ASSUME Inv, IsrEnable PROVE Inv'
  BY <1>5 DEF IsrEnable, main, counter
<1> QED  BY <1>1, <1>2, <1>3, <1>4, <1>5 DEF Handler

\* The counter takes its value, or counts.  It does not count past an alarm that is to be
\* served (InTime), so the second that was read is the present one or the one before.
LEMMA TimePasses == Inv /\ (Loaded \/ Tick) => Inv'
<1> USE AlarmAssumption DEF Inv, TypeOK, ClockInv, AlarmInv
<1>1. ASSUME Inv, Loaded PROVE Inv'
  <2>1. now = 0 /\ now' = set_value /\ loading' = FALSE /\ set_value \in Nat
    BY <1>1 DEF Loaded
  <2>2. CASE pc \in {"ro_t", "load", "trigger"}
    BY <1>1, <2>1, <2>2 DEF Loaded, main, isr
  <2>3. CASE pc = "poll"
    BY <1>1, <2>1, <2>3 DEF Loaded, main, isr
  <2>4. CASE pc \in {"request", "now", "setup", "enable", "idle"}
    <3>1. now' = now
      BY <1>1, <2>1, <2>4
    <3>2. UNCHANGED <<pc, sec, main_now, handler, isr_now, open, ro_t, set_value, running,
                      alarm, enabled, left>>
      BY <1>1 DEF Loaded, main, isr
    <3> QED  BY <1>1, <2>1, <2>4, <3>1, <3>2
  <2> QED  BY <1>1, <2>2, <2>3, <2>4
<1>2. ASSUME Inv, Tick PROVE Inv'
  BY <1>2 DEF Tick, InTime, Line, main, isr
<1> QED  BY <1>1, <1>2

\* Every step keeps the invariant.
LEMMA NextInv == Inv /\ [Next]_vars => Inv'
<1>1. Inv /\ UNCHANGED vars => Inv'
  BY DEF Inv, TypeOK, ClockInv, AlarmInv, vars, main, isr, chip, counter
<1> QED  BY <1>1, ClockSteps, AlarmSteps, HandlerSteps, TimePasses DEF Next, Program, Over

\* The invariant holds in every state.
THEOREM Invariant == Spec => []Inv
BY InitInv, NextInv, PTL DEF Spec

\* The registers and the variables of the program hold natural numbers.
THEOREM TypeCorrect == Spec => []TypeOK
<1>1. Inv => TypeOK  BY DEF Inv
<1> QED  BY <1>1, Invariant, PTL

\* rtc_init(): the clock shows neither an earlier time than the one kept nor the value of a
\* counter that is still being loaded.
THEOREM ClockNeverSetBack == Spec => []NeverSetBack
<1>1. Inv => NeverSetBack
  BY AlarmAssumption DEF Inv, TypeOK, ClockInv, NeverSetBack
<1> QED  BY <1>1, Invariant, PTL

\* test_rtc_irq() and rtc_isr(): whenever both have set the alarm, it is enabled and ahead.
THEOREM NoAlarmMissed == Spec => []NeverMissed
<1>1. Inv => NeverMissed
  BY DEF Inv, AlarmInv, NeverMissed
<1> QED  BY <1>1, Invariant, PTL
=============================================================================
