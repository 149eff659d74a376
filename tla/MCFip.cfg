SPECIFICATION FipSpec
CONSTANTS
    Align = 3
    ParamSize = 3
    InfoSize = 2
    MaxRuns = 2
    Args <- MCWhole
INVARIANTS
    ParamsSealed
    ImagesFound
    SameAgain
