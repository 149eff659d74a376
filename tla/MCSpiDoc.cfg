SPECIFICATION DemoSpec
CONSTANTS
    FifoDepth = 8
    Junk = 255
INVARIANT
    KindKept
