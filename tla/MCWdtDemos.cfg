SPECIFICATION Spec
CONSTANTS
    DelayUnits = {12, 13}
    PrintUnits = {0, 1}
    Others = {"uart1"}
INVARIANTS
    FiveThenTen
    SleepInStep
PROPERTY
    KeepsRunning
