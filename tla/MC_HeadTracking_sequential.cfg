SPECIFICATION Spec
CONSTANTS
    g = g   a3 = a3   b3 = b3   b4 = b4   a6 = a6
    h1 = h1   h2 = h2
    NoRoot = NoRoot
    OtherRoot = OtherRoot
    ReorgJob = reorg
    SlotOf <- MCSlotOf
    ParentOf <- MCParentOf
    Width = 16
    Blocks = {g, a3, b3, b4, a6}
    StoredBlocks = {g}
    HeadJobs = {h1}
    TableIncrement = 2
    CheckDb = TRUE
    MaxHeads = 4
    MaxBadHeads = 1
    MaxReorgs = 0
    MaxSkips = 0
    MaxFaults = 0
    MaxCrashes = 2
INVARIANTS
    TypeOK
    NoUndetectedGap
\* With every bound used up nothing more happens.
CHECK_DEADLOCK FALSE
