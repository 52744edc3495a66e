SPECIFICATION Spec
CONSTANTS
    a1 = a1   b1 = b1   c2 = c2   k1 = k1   k2 = k2
    NoRoot = NoRoot
    Blocks = {a1, b1, c2}
    SlotOf <- MCSlotOf
    SlotSet = {1, 2, 3}
    FirstCanonical <- MCFirstCanonical
    ReorgSlots = {1}
    HistoricSlots = {2, 3}
    Calls = {k1, k2}
    Configs <- OnlyStates
    MaxCalls = 2
    MaxReorgs = 0
    MaxSkips = 0
    MaxFaults = 0
    MaxRestarts = 0
INVARIANT StatesAreTheirOwn
\* With every bound used up nothing more happens.
CHECK_DEADLOCK FALSE
