SPECIFICATION Spec
CONSTANTS
    Word = 8
    TIMER_CNT_MS = 3
    TIMER_CNT_US = 1
    Intervals = {2, 3}
    Delays = {1, 2, 3}
    MaxTime = 12
    Second = 4
    PrintTicks = {0, 1}
    Expiries = 5
INVARIANTS
    DelayLongEnough
    NthPeriod
PROPERTIES
    ImplementsMetronome
    Ends
