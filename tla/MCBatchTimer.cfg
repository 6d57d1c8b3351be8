SPECIFICATION Spec
CONSTANTS
    BatchMax = 4
    BatchWait = 3
    ErrorWait = 4
    MaxErrors = 2
INVARIANT
    AgeBounded
