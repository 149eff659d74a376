------------------------------- MODULE MCRtc --------------------------------
(***************************************************************************)
(* The two parts of rtc_init() and what follows it: the calibration         *)
(* (RtcCalib), then the clock and the alarm (RtcAlarm).  They share no      *)
(* state, so a behaviour is of one or of the other.                         *)
(***************************************************************************)
EXTENDS RtcAlarm

CONSTANTS Half, Firsts, Oscillators, Frequencies, Retained, CoarseMod, FineMod, Coarse0, Fine0,
          Ahead

VARIABLES
    part,       \* "calib" or "alarm"
    cpc, analog_calib_value, offset, time1, time2, value, fine_time1, fine_time2, freq, osc,
    first, ana_calib, strayed, coarse, fine, measured, measuring, fresh, since, pulse

calib == <<cpc, analog_calib_value, offset, time1, time2, value, fine_time1, fine_time2, freq,
           osc, first, ana_calib, strayed, coarse, fine, measured, measuring, fresh, since, pulse>>

Calib == INSTANCE RtcCalib WITH pc <- cpc

ASSUME CalibAssumption == Calib!CalibConstants

\* The values that the part not chosen would begin with are one choice of many.
One(S) == CHOOSE x \in S : TRUE

RtcInit ==
    /\ part \in {"calib", "alarm"}
    /\ Init /\ Calib!Init
    /\ part = "calib" => ro_t = One(Kept) /\ ~left
    /\ part = "alarm" => /\ osc = One(Oscillators) /\ first = One(Firsts) /\ coarse = One(Coarse0)
                        /\ fine = One(Fine0) /\ pulse = One(Retained)

InAlarm(A) == part = "alarm" /\ A /\ UNCHANGED <<part, calib>>
InCalib(A) == part = "calib" /\ A /\ UNCHANGED <<part, vars>>

RtcNext ==
    \/ InAlarm(Next)
    \/ InCalib(Calib!Calibration) \/ InCalib(Calib!CoarseDone) \/ InCalib(Calib!FineDone)
    \/ InCalib(Calib!Done)

rtcVars == <<part, vars, calib>>

\* The fairness of the calibration; the alarm's properties here are safety.
RtcSpec ==
    /\ RtcInit /\ [][RtcNext]_rtcVars
    /\ WF_rtcVars(InCalib(Calib!Calibration))
    /\ WF_rtcVars(InCalib(Calib!CoarseDone)) /\ WF_rtcVars(InCalib(Calib!FineDone))

\* The properties of RtcCalib: a decision is made on a fresh measurement, an accepted value is
\* in range with the register as it is, a search that failed had no value to find, and the
\* calibration ends.
FreshMeasurement == part = "calib" => Calib!FreshMeasurement
CalibratedIsAccurate == part = "calib" => Calib!CalibratedIsAccurate
FailedMeansOutOfReach == part = "calib" => Calib!FailedMeansOutOfReach
Ends == part = "calib" => Calib!Ends

\* Advances of RtcCalib: the coarse search narrows its interval in every round.
SearchAdvances == [][part = "calib" => Calib!Advances]_rtcVars

-----------------------------------------------------------------------------
\* Oscillators that are right below, at, near, far from and out of reach of the first values of
\* the register, finely and coarsely adjustable, fast or slow when bit 31 is set; the last has
\* no value that is in range.
MCOscillators ==
    {[base |-> 760 + 20 * at, gain |-> 20, other |-> other] :
        at \in {36, 129, 257, 600}, other \in {700, 900}}
    \cup {[base |-> 760 + 300, gain |-> 1, other |-> 760],
          [base |-> 770 + 20 * 384, gain |-> 20, other |-> 760]}

\* The counter of 8 numbers, two of which may pass between two reads, wraps in a calibration
\* wherever it begins; the fine counter is read in one wait, which may begin near the wrap of
\* its 4 numbers or not.
MCFirsts == {100, 256}
MCCoarse0 == 0..7
MCFine0 == {1, 2}

\* 32512 Hz, and 32768 Hz left by a calibration before this one.
MCFrequencies == {{16, 17, 18, 19, 20, 21, 22}}
MCRetained == {{23}}
=============================================================================
