------------------------------ MODULE RtcCalib ------------------------------
(***************************************************************************)
(* The calibration of the 32 kHz oscillator in test_rtc.c:                  *)
(* rtc_32k_coarse_val_calib() looks for the value of RTC_ANA_CALIB at which *)
(* one oscillator period takes 755 to 765 ticks of the 25 MHz crystal, then *)
(* rtc_32k_fine_val_calib() writes the frequency it measures to             *)
(* RTC_SEC_PULSE_GEN.  The measuring hardware is external: it finishes one  *)
(* measurement after the other, counts them in a counter of limited width,  *)
(* and a measurement is of the RTC_ANA_CALIB it began with.                 *)
(***************************************************************************)
EXTENDS Integers

CONSTANTS
    Half,           \* bit 31 of RTC_ANA_CALIB and of the uint32_t variables (2^31)
    Firsts,         \* what RTC_ANA_CALIB may hold when the search begins; bit 31 is cleared
    Oscillators,    \* the oscillators considered: [base, gain, other], see Period
    Frequencies,    \* what fine tuning may measure: the bits of part1 << 8 | part2
    Retained,       \* bits 0..23 of RTC_SEC_PULSE_GEN when rtc_init() starts
    CoarseMod, FineMod,    \* the two counters wrap here (65536 and 256)
    Coarse0, Fine0, \* what they may be when rtc_init() starts
    Ahead           \* bound on the measurements finished between two steps of the program:
                    \* there is a printf between most of them, also in the polling loops

CalibConstants ==
    /\ {Half, CoarseMod, FineMod, Ahead} \subseteq Nat
    /\ Half >= 256 /\ CoarseMod > 0 /\ FineMod > 0 /\ Ahead >= 2
    /\ Firsts \subseteq 0..(Half - 1)
    /\ Coarse0 \subseteq 0..(CoarseMod - 1) /\ Fine0 \subseteq 0..(FineMod - 1)
    /\ \A o \in Oscillators : o.base \in Nat /\ o.gain \in Nat \ {0} /\ o.other \in Nat
    /\ Frequencies \subseteq SUBSET (0..23)
    /\ Retained \subseteq SUBSET (0..23)

VARIABLES
    pc,
    analog_calib_value, offset, time1, time2, value,   \* the coarse search
    fine_time1, fine_time2, freq,                      \* the fine measurement
    osc, first,             \* the oscillator, and what its register held at first
    ana_calib,              \* RTC_ANA_CALIB
    strayed,                \* (history) the search has set a value with bit 31
    coarse, fine,           \* the counters of finished measurements
    measured, measuring,    \* RTC_ANA_CALIB of the last one finished and of the one under way
    fresh,                  \* one was finished since the present wait began
    since,                  \* how many were finished since the program's last step
    pulse                   \* bits 0..23 of RTC_SEC_PULSE_GEN

board == <<osc, first>>
search == <<analog_calib_value, offset, time1, time2, value, strayed>>
tune == <<fine_time1, fine_time2, freq>>
hw == <<coarse, fine, measured, measuring>>
vars == <<pc, search, tune, board, ana_calib, hw, fresh, since, pulse>>

\* Crystal ticks per oscillator period: a larger value makes the oscillator faster.  With
\* bit 31 set the oscillator is not tuned by the register but from elsewhere.
Period(c) == IF c >= Half THEN osc.other
             ELSE IF osc.base >= osc.gain * c THEN osc.base - osc.gain * c ELSE 0

InRange(v) == v >= 755 /\ v <= 765

Init ==
    /\ pc = "read"
    /\ analog_calib_value = 0 /\ offset = 128 /\ time1 = 0 /\ time2 = 0 /\ value = 0
    /\ fine_time1 = 0 /\ fine_time2 = 0 /\ freq = {}
    /\ osc \in Oscillators /\ first \in Firsts /\ ana_calib = first /\ strayed = FALSE
    /\ coarse \in Coarse0 /\ fine \in Fine0 /\ measured = first /\ measuring = first
    /\ fresh = FALSE /\ since = 0
    /\ pulse \in Retained

At(from, to) == pc = from /\ pc' = to

-----------------------------------------------------------------------------
(* The hardware *)
Measured ==
    /\ since < Ahead /\ since' = since + 1 /\ fresh' = TRUE

CoarseDone ==
    /\ pc \in {"time1", "wait", "decide", "settle"}
    /\ Measured
    /\ coarse' = (coarse + 1) % CoarseMod
    /\ measured' = measuring /\ measuring' = ana_calib
    /\ UNCHANGED <<pc, search, tune, board, ana_calib, fine, pulse>>

FineDone ==
    /\ pc \in {"fine_wait", "fine_value"}
    /\ Measured
    /\ fine' = (fine + 1) % FineMod
    /\ UNCHANGED <<pc, search, tune, board, ana_calib, coarse, measured, measuring, pulse>>

-----------------------------------------------------------------------------
\* Half an interval up or down, in the 32 bits of a uint32_t
Neighbour(up) == (analog_calib_value + IF up THEN offset ELSE 2 * Half - offset) % (2 * Half)

(* Seeded faults *)
FaultNoDelay == At("settle", "time1") /\ UNCHANGED <<search, tune, board, ana_calib, hw, fresh, pulse>>
FaultRoundUp(up) == analog_calib_value' = Neighbour(up) /\ offset' = (offset + 1) \div 2
FaultWrongWay(up) == analog_calib_value' = Neighbour(~up) /\ offset' = offset \div 2
FaultNotStrict ==
    /\ At("wait", "decide") /\ time2 >= time1
    /\ value' = Period(measured)
    /\ UNCHANGED <<analog_calib_value, offset, time1, time2, strayed, tune, board, ana_calib, hw, fresh, pulse>>

\* rtc_32k_coarse_val_calib(): the register as it is found.
ReadCalib ==
    /\ At("read", "time1")
    /\ analog_calib_value' = ana_calib
    /\ UNCHANGED <<offset, time1, time2, value, strayed, tune, board, ana_calib, hw, fresh, pulse>>

\* The number of measurements so far; time2 still holds the last round's.
ReadTime1 ==
    /\ At("time1", "wait")
    /\ time1' = coarse
    /\ fresh' = FALSE
    /\ UNCHANGED <<analog_calib_value, offset, time2, value, strayed, tune, board, ana_calib, hw,
                   pulse>>

\* while (fc_coarse_time2 <= fc_coarse_time1) read it again
ReadTime2 ==
    /\ pc = "wait" /\ time2 <= time1
    /\ time2' = coarse
    /\ UNCHANGED <<pc, analog_calib_value, offset, time1, value, strayed, tune, board, ana_calib, hw,
                   fresh, pulse>>

\* ... and then the measurement.
ReadValue ==
    /\ At("wait", "decide") /\ time2 > time1
    /\ value' = Period(measured)
    /\ UNCHANGED <<analog_calib_value, offset, time1, time2, strayed, tune, board, ana_calib, hw,
                   fresh, pulse>>

\* uint32_t offset >>= 1
Move(up) == analog_calib_value' = Neighbour(up) /\ offset' = offset \div 2

Adjust ==
    /\ pc = "decide" /\ ~InRange(value)
    /\ Move(value > 765)
    /\ ana_calib' = analog_calib_value' /\ strayed' = (strayed \/ analog_calib_value' >= Half)
    /\ pc' = IF offset' = 0 THEN "failed" ELSE "settle"
    /\ UNCHANGED <<time1, time2, value, tune, board, hw, fresh, pulse>>

Accept ==
    /\ At("decide", "calibrated") /\ InRange(value)
    /\ UNCHANGED <<search, tune, board, ana_calib, hw, fresh, pulse>>

\* udelay(200), more than six periods: the measurement under way when the register was
\* written is finished, and so is the next.
Settle ==
    /\ At("settle", "time1")
    /\ measuring = ana_calib /\ measured = ana_calib
    /\ UNCHANGED <<search, tune, board, ana_calib, hw, fresh, pulse>>

\* rtc_32k_fine_val_calib() follows in both cases.
FineStart ==
    /\ pc \in {"calibrated", "failed"} /\ pc' = "fine_wait"
    /\ fine_time1' = fine
    /\ fresh' = FALSE
    /\ UNCHANGED <<search, fine_time2, freq, board, ana_calib, hw, pulse>>

FineRead ==
    /\ pc = "fine_wait" /\ fine_time2 <= fine_time1
    /\ fine_time2' = fine
    /\ UNCHANGED <<pc, search, fine_time1, freq, board, ana_calib, hw, fresh, pulse>>

FineValue ==
    /\ At("fine_wait", "fine_value") /\ fine_time2 > fine_time1
    /\ freq' \in Frequencies
    /\ UNCHANGED <<search, fine_time1, fine_time2, board, ana_calib, hw, fresh, pulse>>

\* value |= sec_cnt
FineWrite ==
    /\ At("fine_value", "done")
    /\ pulse' = pulse \cup freq
    /\ UNCHANGED <<search, tune, board, ana_calib, hw, fresh>>

Calibration ==
    /\ since' = 0
    /\ \/ ReadCalib \/ ReadTime1 \/ ReadTime2 \/ ReadValue \/ Adjust \/ Accept \/ Settle
       \/ FineStart \/ FineRead \/ FineValue \/ FineWrite
Done == pc = "done" /\ UNCHANGED vars

Next == Calibration \/ CoarseDone \/ FineDone \/ Done

\* The program runs and the measurements go on.
Spec == Init /\ [][Next]_vars /\ WF_vars(Calibration) /\ WF_vars(CoarseDone) /\ WF_vars(FineDone)

-----------------------------------------------------------------------------
TypeOK ==
    /\ pc \in {"read", "time1", "wait", "decide", "settle", "calibrated", "failed",
              "fine_wait", "fine_value", "done"}
    /\ {analog_calib_value, ana_calib, measured, measuring} \subseteq 0..(2 * Half - 1)
    /\ value \in Nat /\ offset \in 0..128 /\ first \in Firsts /\ strayed \in BOOLEAN
    /\ {time1, time2, coarse} \subseteq 0..(CoarseMod - 1)
    /\ {fine_time1, fine_time2, fine} \subseteq 0..(FineMod - 1)
    /\ freq \subseteq 0..23 /\ pulse \subseteq 0..23
    /\ osc \in Oscillators /\ fresh \in BOOLEAN /\ since \in 0..Ahead

\* test_rtc.c, line 58 (and 135): the program goes on only when a measurement was finished,
\* so what it decides on is not the measurement of the last round again.  Only when the
\* counter has wrapped since the last round is the wait skipped: time2 is still the number
\* from before the wrap.
FreshMeasurement ==
    /\ pc = "decide" => fresh \/ coarse < time2
    /\ pc = "fine_value" => fresh

\* "RTC coarse calib done" is true: with the value the register now holds, and not with one
\* it held while the measurement was made, the period is between 755 and 765 ticks.
CalibratedIsAccurate == pc = "calibrated" => InRange(Period(ana_calib))

\* The search gives up on an oscillator only if no value of the register at an even distance,
\* below 256, from the first would do, or if it has gone below 0 or up to bit 31, which the
\* last 255 values on either side make possible.  (A value at an odd distance is set last and
\* never measured.)
FailedMeansOutOfReach ==
    pc = "failed" =>
        \/ strayed /\ (first < 255 \/ first > Half - 256)
        \/ \A d \in 0..127 : \A c \in {first + 2 * d, first - 2 * d} \cap 0..(Half - 1) :
               ~InRange(Period(c))

\* How far the calibration is from its end: the interval left, then the place in the round
Remaining ==
    8 * offset + [read |-> 8, settle |-> 7, time1 |-> 6, wait |-> 5, decide |-> 4,
                  calibrated |-> 3, failed |-> 3, fine_wait |-> 2, fine_value |-> 1,
                  done |-> 0][pc]

\* Every step of the program to another place brings the end nearer, so the search goes round
\* a bounded number of times, whatever it measures; only in a wait may it stay.
Advances == pc' # pc => Remaining' < Remaining /\ Remaining' >= 0

\* A wait that began so near to the counter's wrap that all greater numbers may pass between
\* two reads
NearWrap ==
    \/ pc = "wait" /\ time1 > CoarseMod - 1 - Ahead
    \/ pc = "fine_wait" /\ fine_time1 > FineMod - 1 - Ahead

\* The calibration ends, also for an oscillator that cannot be calibrated and when a counter
\* wraps on the way; only a wait that began near the wrap may go on for ever.
Ends == <>(pc = "done") \/ <>[]NearWrap
=============================================================================
