SPECIFICATION Spec
CONSTANTS
    Width = 32
    Increments = {10}
INVARIANT RowsWithinIncrement
\* The call returns: a state with pc = "done" has no successor.
CHECK_DEADLOCK FALSE
