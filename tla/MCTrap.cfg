SPECIFICATION Spec
CONSTANTS
    StackSize = 78
    MaxDepth = 2
INVARIANTS
    NeverNested
PROPERTY
    Transparent
