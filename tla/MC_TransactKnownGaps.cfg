SPECIFICATION Spec
CONSTANTS
    Width = 32
    Increments = {1, 2, 3, 5, 10, 31}
INVARIANTS
    TypeOK
    LoopMatchesClosedForm
    RowsCoverRange
\* The call returns: a state with pc = "done" has no successor.
CHECK_DEADLOCK FALSE
