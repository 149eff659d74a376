SPECIFICATION DemoSpec
CONSTANTS
    FifoDepth = 8
    Junk = 255
INVARIANTS
    LastOfRunAtRisk
    PictureShown
PROPERTY
    Loops
