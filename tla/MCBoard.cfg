SPECIFICATION BoardSpec
CONSTANTS
    Words = {0, 1, 2, 3, 4, 5, 6, 7, 15}
    OwnCalls = 2
    NUM = 3
    Values = {0, 1}
INVARIANTS
    Wired
    SamplesFresh
PROPERTIES
    ImplementsPadMap
    ConsoleReadable
