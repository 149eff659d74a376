------------------------------- MODULE Board --------------------------------
(***************************************************************************)
(* The program on its board: start-up and pins (Startup), and, built with   *)
(* CONFIG_TEST_ADC, the test case test_adc() (AdcDemo) that main() runs.    *)
(***************************************************************************)
EXTENDS Startup

CONSTANTS NUM, Values

ASSUME BoardAssumption == NUM \in Nat \ {0} /\ Values \subseteq Nat

VARIABLES apc, val_ch1, num, sum, selected, reference, trim, busy, ch1, conversions

Adc == INSTANCE AdcDemo WITH pc <- apc

adc == <<apc, val_ch1, num, sum, selected, reference, trim, busy, ch1, conversions>>
boardVars == <<vars, adc>>

\* The converter is left alone by the other test cases.
BoardInit ==
    /\ Init
    /\ IF test = "ADC" THEN Adc!Init
                       ELSE /\ apc = "done" /\ val_ch1 = <<>> /\ num = 0 /\ sum = 0
                            /\ selected = FALSE /\ reference = "internal" /\ trim = FALSE
                            /\ busy = FALSE /\ conversions = <<>>
                            /\ ch1 = [value |-> 0, valid |-> FALSE]

test_adc == test = "ADC" /\ pc = "drive" /\ Adc!Program /\ UNCHANGED vars
Converter == Adc!Convert /\ UNCHANGED vars
Others == (pc = "drive" => apc = "done") /\ Next /\ UNCHANGED adc

BoardNext == test_adc \/ Converter \/ Others

BoardSpec == BoardInit /\ [][BoardNext]_boardVars

\* The samples that test_adc() averages are fresh (SamplesFresh of AdcDemo), whatever program
\* and board it was built for.
SamplesFresh == test = "ADC" => Adc!SamplesFresh
=============================================================================
