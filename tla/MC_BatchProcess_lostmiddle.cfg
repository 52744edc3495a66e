SPECIFICATION Spec
CONSTANTS
    n1 = n1   n2 = n2   hp1 = hp1   kg1 = kg1   hp2 = hp2
    w1 = w1   w2 = w2   w3 = w3
    NodeOf <- MCNodeOf
    IdOf <- MCIdOf
    TableOf <- MCTableOf
    ProcOf <- MCProcOf
    MinimumSlot = 1
    SlotSet = {1, 2, 3}
    Procs = {hp1}
    Workers = {w1, w2}
    InitialRows <- RangeWithMiddle
    ErrLimit = 2
    MaxFaults = 0
    MaxStops = 0
    MaxCrashes = 1
INVARIANT NothingForgotten
