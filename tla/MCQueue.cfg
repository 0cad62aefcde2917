CONSTANTS
    NULL = NULL
    Cells = {c1, c2, c3, c4}
    Items <- MCItems
SPECIFICATION Spec
INVARIANT ListIntact
PROPERTY ImplementsSequence
CHECK_DEADLOCK FALSE
