SPECIFICATION SyscallsSpec
CONSTANTS
    Depths = {1, 2}
    NL = "nl"
    CR = "cr"
    MainLine <- MCMainLine
    IsrLine <- MCIsrLine
    MaxLines = 2
    MaxIrqs = 2
    Keys = {"x", "nl"}
    Prompt <- MCPrompt
    MaxKeys = 3
    HEAP_SIZE = 9
    Increments <- MCIncrements
INVARIANTS
    LossBounded
    EchoesInOrder
    WithinHeap
PROPERTIES
    PrintingComesToRest
    BlocksAreFresh
