------------------------------ MODULE AdcDemo -------------------------------
(***************************************************************************)
(* source/test/test_adc.c: NUM conversions of channel 1, each started       *)
(* through SARADC_CTRL, awaited by polling SARADC_STATUS and read from      *)
(* SARADC_CH1, and their average.  The conversion runs concurrently.        *)
(***************************************************************************)
EXTENDS Integers, Sequences, FiniteSets

CONSTANTS
    NUM,        \* samples
    Values      \* what a conversion may give, and what the register may hold before

VARIABLES
    pc,
    val_ch1, num, sum,          \* the samples read, as in test_adc()
    selected, reference, trim,  \* channel 1 in SARADC_CTRL, SARADC_TEST, SARADC_TRIM
    busy,                       \* SARADC_STATUS
    ch1,                        \* SARADC_CH1: value, and bit 15, that it is a result
    conversions                 \* (history) results that conversions gave

registers == <<selected, reference, trim>>
converter == <<busy, ch1, conversions>>
vars == <<pc, val_ch1, num, sum, registers, converter>>

\* SARADC_CTRL is at reset; CH1 may hold a value of old, with or without its bit 15.
Init ==
    /\ pc = "select" /\ val_ch1 = <<>> /\ num = 0 /\ sum = 0
    /\ selected = FALSE /\ reference \in {"internal", "external"} /\ trim \in BOOLEAN
    /\ busy = FALSE /\ ch1 \in [value : Values, valid : BOOLEAN] /\ conversions = <<>>

To(from, to) == pc = from /\ pc' = to

\* Channel 1 is selected, the reference chosen and trimmed: fields ored into their registers.
SelectChannel ==
    /\ To("select", "test") /\ selected' = TRUE
    /\ UNCHANGED <<val_ch1, num, sum, reference, trim, converter>>
Reference ==
    /\ To("test", "trim") /\ reference' = "external"
    /\ UNCHANGED <<val_ch1, num, sum, selected, trim, converter>>
TrimReference ==
    /\ To("trim", "start") /\ trim' = TRUE
    /\ UNCHANGED <<val_ch1, num, sum, selected, reference, converter>>

\* Bit 0 of SARADC_CTRL is set: a conversion starts, or the one under way goes on, and the
\* status shows it by the next read (external).
Started == busy' = TRUE

Start ==
    /\ To("start", "poll") /\ Started
    /\ UNCHANGED <<val_ch1, num, sum, registers, ch1, conversions>>

\* Fault: the poll finds the converter busy and goes on.
FaultNoPoll ==
    /\ To("poll", "read")
    /\ UNCHANGED <<val_ch1, num, sum, registers, converter>>

\* while (status & 1);
PollIdle ==
    /\ To("poll", "read") /\ ~busy
    /\ UNCHANGED <<val_ch1, num, sum, registers, converter>>

ReadSample ==
    /\ To("read", "again") /\ val_ch1' = Append(val_ch1, ch1)
    /\ UNCHANGED <<num, sum, registers, converter>>

\* The next conversion is started, after the last sample too.
Restart ==
    /\ To("again", IF Len(val_ch1) < NUM THEN "poll" ELSE "average") /\ Started
    /\ UNCHANGED <<val_ch1, num, sum, registers, ch1, conversions>>

\* The average is sum / num, over the samples with bit 15 set.
Average ==
    /\ To("average", "done")
    /\ num' = Cardinality({i \in 1..NUM : val_ch1[i].valid})
    /\ LET total[i \in 0..NUM] ==
              IF i = 0 THEN 0
                       ELSE total[i - 1] + (IF val_ch1[i].valid THEN val_ch1[i].value ELSE 0)
       IN  sum' = total[NUM]
    /\ UNCHANGED <<val_ch1, registers, converter>>

\* The converter gives a result if its channel is selected.
Convert ==
    /\ busy /\ busy' = FALSE
    /\ \E v \in Values :
          /\ ch1' = [value |-> v, valid |-> selected]
          /\ conversions' = Append(conversions, [value |-> v, settled |-> reference = "external" /\ trim])
    /\ UNCHANGED <<pc, val_ch1, num, sum, registers>>

Program ==
    \/ SelectChannel \/ Reference \/ TrimReference \/ Start \/ PollIdle \/ ReadSample
    \/ Restart \/ Average
Next == Program \/ Convert

-----------------------------------------------------------------------------
\* The samples averaged are those of the first NUM conversions, each once and none older than
\* the program, all taken after the reference was set; so num is not zero when sum is divided by
\* it.  (The division has no check of its own, and the poll takes an idle converter for one
\* that has finished.)
SamplesFresh ==
    pc = "done" =>
      /\ num = NUM /\ NUM <= Len(conversions)
      /\ \A i \in 1..NUM : val_ch1[i].value = conversions[i].value /\ conversions[i].settled
=============================================================================
