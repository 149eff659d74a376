SPECIFICATION RtcSpec
CONSTANTS
    Seconds = 5
    Kept = {0, 5, 6}
    MaxTime = 16
    Left = {TRUE, FALSE}
    Half = 65536
    Firsts <- MCFirsts
    CoarseMod = 8
    FineMod = 4
    Ahead = 2
    Oscillators <- MCOscillators
    Frequencies <- MCFrequencies
    Retained <- MCRetained
    Coarse0 <- MCCoarse0
    Fine0 <- MCFine0
INVARIANTS
    NeverSetBack
    NeverMissed
    FreshMeasurement
    CalibratedIsAccurate
    FailedMeansOutOfReach
PROPERTIES
    Ends
