SPECIFICATION I2cSpec
CONSTANTS
    Depth = 3
    ReadLens = {1, 2, 3}
    WriteLens = {1, 3}
    Slaves = {"acks", "absent", "refuses"}
    BusyLimit = 1
    StopLimit = 1
    TryLimit = 1
    MaxOps = 3
    MaxReads = 256
INVARIANTS
    WriteZeroMeansStored
    ReadZeroMeansRead
    ReadsCountUp
PROPERTIES
    OperationsReturn
    ReadsReturn
